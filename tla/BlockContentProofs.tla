------------------------- MODULE BlockContentProofs -------------------------
(***************************************************************************)
(* What a client of the block layer relies on: a pinned block stays in its *)
(* slot, the bitmaps mark just the blocks in use, total_pins is the sum of *)
(* the pins, no call ends in error(), and what clients read is what they   *)
(* wrote (BlockStore), for every cache with room for what clients pin.     *)
(*                                                                         *)
(* BlockCacheProofs has what each function of block.c does to the shape of *)
(* struct FS.  The lemmas here, in the order of the code again, say what   *)
(* it does to the contents of the blocks, wherever those are at the time.  *)
(***************************************************************************)
EXTENDS BlockCacheProofs

-----------------------------------------------------------------------------
(* Sums of pins.                                                           *)

(* Of a family of subsets of a finite set, some member has no member below *)
(* it that lacks one of its elements: what holds for {} and for a set when *)
(* it holds without each of its elements holds for all subsets.            *)
LEMMA SmallestSet ==
  ASSUME NEW T, IsFiniteSet(T), NEW Bad \in SUBSET SUBSET T, Bad # {}
  PROVE  \E S \in Bad : \A x \in S : S \ {x} \notin Bad
<1> DEFINE Sizes == {Cardinality(S) : S \in Bad}
<1>1. \A S \in SUBSET T : IsFiniteSet(S) /\ Cardinality(S) \in Nat
  BY FS_Subset, FS_CardinalityType
<1>2. Sizes \in SUBSET Nat /\ Sizes # {}
  BY <1>1
<1>3. PICK n \in Sizes : \A m \in Sizes : n <= m
  BY <1>2, LeastNatural
<1>4. PICK S \in Bad : n = Cardinality(S)
  BY <1>3
<1>5. ASSUME NEW x \in S, S \ {x} \in Bad PROVE FALSE
  <2>1. Cardinality(S \ {x}) = n - 1
    BY <1>1, <1>4, <1>5, FS_RemoveElement
  <2>2. Cardinality(S \ {x}) \in Sizes /\ n \in Nat
    BY <1>1, <1>4, <1>5
  <2>3. n <= Cardinality(S \ {x})
    BY <1>3, <2>2
  <2> QED
    BY <2>1, <2>2, <2>3
<1> QED
  BY <1>5

Chosen(S) == CHOOSE x \in S : TRUE

LEMMA ChosenIn == ASSUME NEW S, S # {} PROVE Chosen(S) \in S
  BY DEF Chosen

(* The fold of Functions.tla as a recursive function on the subsets of T.  *)
SumStep(p, sum, S) == IF S = {} THEN 0 ELSE p[Chosen(S)] + sum[S \ {Chosen(S)}]
SumsTo(p, T, sum) == sum = [S \in SUBSET T |-> SumStep(p, sum, S)]

LEMMA SumUnfold ==
  ASSUME NEW p, NEW T
  PROVE  SumFunctionOnSet(p, T) = (CHOOSE sum : SumsTo(p, T, sum))[T]
  BY DEF SumFunctionOnSet, FoldFunctionOnSet, MapThenFoldSet, SumsTo, SumStep,
         Chosen

(* The recursion has a solution.                                           *)
LEMMA SumExists ==
  ASSUME NEW T, IsFiniteSet(T), NEW p
  PROVE  \E sum : SumsTo(p, T, sum)
<1> DEFINE Upto(n, g) == \A S \in SUBSET T :
                           Cardinality(S) <= n => g[S] = SumStep(p, g, S)
           Bad == {n \in Nat : ~ \E g : g = [S \in SUBSET T |-> g[S]] /\ Upto(n, g)}
<1>1. \A S \in SUBSET T : IsFiniteSet(S) /\ Cardinality(S) \in Nat
                          /\ Cardinality(S) <= Cardinality(T)
  BY FS_Subset, FS_CardinalityType
<1>2. ASSUME Bad # {} PROVE FALSE
  <2>1. PICK n \in Bad : \A m \in Bad : n <= m
    <3>1. Bad \in SUBSET Nat
      OBVIOUS
    <3> HIDE DEF Bad
    <3> QED
      BY <1>2, <3>1, LeastNatural
  <2>2. n \in Nat
    OBVIOUS
  <2>3. \E g : n = 0 \/ Upto(n - 1, g)
    <3>1. CASE n = 0
      BY <3>1
    <3>2. CASE n # 0
      <4>1. n - 1 \in Nat /\ ~ (n <= n - 1)
        BY <2>2, <3>2
      <4>2. n - 1 \notin Bad
        BY <2>1, <4>1
      <4> HIDE DEF Upto
      <4> QED
        BY <4>1, <4>2
    <3> QED
      BY <3>1, <3>2
  <2>4. PICK g : n = 0 \/ Upto(n - 1, g)
    BY <2>3
  <2> DEFINE h == [S \in SUBSET T |-> SumStep(p, g, S)]
  <2>5. ASSUME NEW S \in SUBSET T, Cardinality(S) <= n
        PROVE  h[S] = SumStep(p, h, S)
    <3>1. CASE S = {}
      BY <3>1 DEF SumStep
    <3>2. CASE S # {}
      <4> DEFINE R == S \ {Chosen(S)}
      <4>1. R \in SUBSET T /\ Cardinality(R) = Cardinality(S) - 1
        BY <1>1, <3>2, ChosenIn, FS_RemoveElement
      <4>2. Cardinality(R) \in Nat /\ Cardinality(S) \in Nat
        BY <1>1, <4>1
      <4>3. n # 0 /\ Cardinality(R) <= n - 1
        BY <2>2, <2>5, <4>1, <4>2
      <4>4. g[R] = SumStep(p, g, R)
        BY <2>4, <4>1, <4>3
      <4>5. h[R] = g[R]
        BY <4>1, <4>4
      <4> QED
        BY <3>2, <4>5 DEF SumStep
    <3> QED
      BY <3>1, <3>2
  <2>6. h = [S \in SUBSET T |-> h[S]] /\ Upto(n, h)
    BY <2>5
  <2>7. n \notin Bad
    <3> HIDE DEF Upto, h
    <3> QED
      BY <2>6
  <2> QED
    BY <2>7
<1>3. Cardinality(T) \in Nat
  BY FS_CardinalityType
<1>4. PICK g : g = [S \in SUBSET T |-> g[S]] /\ Upto(Cardinality(T), g)
  <2>1. Cardinality(T) \notin Bad
    BY <1>2
  <2> HIDE DEF Upto
  <2> QED
    BY <1>3, <2>1
<1>5. \A S \in SUBSET T : g[S] = SumStep(p, g, S)
  BY <1>1, <1>4
<1>6. SumsTo(p, T, g)
  BY <1>4, <1>5 DEF SumsTo
<1> QED
  BY <1>6

(* The sum of the pins, by way of all the sums over fewer slots.           *)
LEMMA SumOfPins ==
  ASSUME NEW p, DOMAIN p = Slots
  PROVE  \E sum : /\ SumFunction(p) = sum[Slots]
                  /\ \A S \in SUBSET Slots : sum[S] = SumStep(p, sum, S)
<1> DEFINE sum == CHOOSE g : SumsTo(p, Slots, g)
<1>1. SumsTo(p, Slots, sum)
  BY SumExists, SlotsAssumption, Zenon
<1>2. SumFunction(p) = sum[Slots]
  BY SumUnfold DEF SumFunction
<1> HIDE DEF sum
<1> QED
  BY <1>1, <1>2 DEF SumsTo

LEMMA SumChange ==
  ASSUME NEW p \in [Slots -> Int], NEW s \in Slots, NEW d \in Int,
         NEW q, q = [p EXCEPT ![s] = p[s] + d]
  PROVE  SumFunction(p) \in Int /\ SumFunction(q) = SumFunction(p) + d
<1> DEFINE added(S) == IF s \in S THEN d ELSE 0
<1>1. PICK u : /\ SumFunction(p) = u[Slots]
               /\ \A S \in SUBSET Slots : u[S] = SumStep(p, u, S)
  BY SumOfPins
<1>2. PICK v : /\ SumFunction(q) = v[Slots]
               /\ \A S \in SUBSET Slots : v[S] = SumStep(q, v, S)
  BY SumOfPins
<1> DEFINE Right(S) == u[S] \in Int /\ v[S] = u[S] + added(S)
           Bad == {S \in SUBSET Slots : ~Right(S)}
<1>3. ASSUME NEW S \in SUBSET Slots, \A x \in S : S \ {x} \notin Bad
      PROVE  Right(S)
  <2>1. CASE S = {}
    <3>1. u[S] = 0 /\ v[S] = 0
      BY <1>1, <1>2, <2>1 DEF SumStep
    <3> QED
      BY <2>1, <3>1
  <2>2. CASE S # {}
    <3> DEFINE c == Chosen(S)
               R == S \ {c}
    <3>1. c \in S /\ R \in SUBSET Slots
      BY <2>2, ChosenIn
    <3>2. u[S] = p[c] + u[R] /\ v[S] = q[c] + v[R]
      BY <1>1, <1>2, <2>2 DEF SumStep
    <3>3. u[R] \in Int /\ v[R] = u[R] + added(R)
      BY <1>3, <3>1
    <3> HIDE DEF c
    <3>4. q[c] = p[c] + (IF c = s THEN d ELSE 0) /\ p[c] \in Int
      BY <3>1
    <3>5. added(S) = added(R) + (IF c = s THEN d ELSE 0) /\ added(R) \in Int
      BY <3>1
    <3> HIDE DEF R, added
    <3> QED
      BY <3>2, <3>3, <3>4, <3>5
  <2> QED
    BY <2>1, <2>2
<1>4. Bad = {}
  <2>1. Bad \in SUBSET SUBSET Slots
    OBVIOUS
  <2>2. \A S \in Bad : ~ \A x \in S : S \ {x} \notin Bad
    BY <1>3
  <2> HIDE DEF Bad
  <2> QED
    BY <2>1, <2>2, SmallestSet, SlotsAssumption
<1>5. Right(Slots)
  BY <1>4
<1> QED
  BY <1>1, <1>2, <1>5

LEMMA SumOfNone ==
  ASSUME NEW p \in [Slots -> Int], \A s \in Slots : p[s] = 0
  PROVE  SumFunction(p) = 0
<1>1. PICK u : /\ SumFunction(p) = u[Slots]
               /\ \A S \in SUBSET Slots : u[S] = SumStep(p, u, S)
  BY SumOfPins
<1> DEFINE Bad == {S \in SUBSET Slots : u[S] # 0}
<1>2. ASSUME NEW S \in SUBSET Slots, \A x \in S : S \ {x} \notin Bad
      PROVE  u[S] = 0
  <2>1. CASE S = {}
    BY <1>1, <2>1 DEF SumStep
  <2>2. CASE S # {}
    <3>1. Chosen(S) \in S /\ u[S] = p[Chosen(S)] + u[S \ {Chosen(S)}]
      BY <1>1, <2>2, ChosenIn DEF SumStep
    <3>2. u[S \ {Chosen(S)}] = 0
      BY <1>2, <3>1
    <3> QED
      BY <3>1, <3>2
  <2> QED
    BY <2>1, <2>2
<1>3. Bad = {}
  <2>1. Bad \in SUBSET SUBSET Slots
    OBVIOUS
  <2>2. \A S \in Bad : ~ \A x \in S : S \ {x} \notin Bad
    BY <1>2
  <2> HIDE DEF Bad
  <2> QED
    BY <2>1, <2>2, SmallestSet, SlotsAssumption
<1> QED
  BY <1>1, <1>3

(* Where every slot is pinned there are as many pins as slots.             *)
LEMMA SumOfAll ==
  ASSUME NEW p \in [Slots -> Int], \A s \in Slots : p[s] >= 1
  PROVE  SumFunction(p) >= CacheSize
<1>1. PICK u : /\ SumFunction(p) = u[Slots]
               /\ \A S \in SUBSET Slots : u[S] = SumStep(p, u, S)
  BY SumOfPins
<1> DEFINE Right(S) == u[S] \in Int /\ u[S] >= Cardinality(S)
           Bad == {S \in SUBSET Slots : ~Right(S)}
<1>2. \A S \in SUBSET Slots : IsFiniteSet(S) /\ Cardinality(S) \in Nat
  BY FS_Subset, FS_CardinalityType, SlotsAssumption
<1>3. ASSUME NEW S \in SUBSET Slots, \A x \in S : S \ {x} \notin Bad
      PROVE  Right(S)
  <2>1. CASE S = {}
    <3>1. u[S] = 0 /\ Cardinality(S) = 0
      BY <1>1, <2>1, FS_EmptySet DEF SumStep
    <3> QED
      BY <3>1
  <2>2. CASE S # {}
    <3> DEFINE c == Chosen(S)
               R == S \ {c}
    <3>1. c \in S /\ R \in SUBSET Slots
      BY <2>2, ChosenIn
    <3>2. u[S] = p[c] + u[R]
      BY <1>1, <2>2 DEF SumStep
    <3>3. u[R] \in Int /\ u[R] >= Cardinality(R)
      BY <1>3, <3>1
    <3>4. Cardinality(R) = Cardinality(S) - 1
      BY <1>2, <3>1, FS_RemoveElement
    <3>5. p[c] \in Int /\ p[c] >= 1 /\ Cardinality(S) \in Nat
      BY <1>2, <3>1
    <3> HIDE DEF R, c
    <3> QED
      BY <3>2, <3>3, <3>4, <3>5
  <2> QED
    BY <2>1, <2>2
<1>4. Bad = {}
  <2>1. Bad \in SUBSET SUBSET Slots
    OBVIOUS
  <2>2. \A S \in Bad : ~ \A x \in S : S \ {x} \notin Bad
    BY <1>3
  <2> HIDE DEF Bad
  <2> QED
    BY <2>1, <2>2, SmallestSet, SlotsAssumption
<1>5. Right(Slots)
  BY <1>4
<1> QED
  BY <1>1, <1>5 DEF CacheSize

LEMMA SumNonNegative ==
  ASSUME NEW p \in [Slots -> Int], \A s \in Slots : p[s] >= 0
  PROVE  SumFunction(p) >= 0
<1>1. PICK u : /\ SumFunction(p) = u[Slots]
               /\ \A S \in SUBSET Slots : u[S] = SumStep(p, u, S)
  BY SumOfPins
<1> DEFINE Bad == {S \in SUBSET Slots : ~(u[S] \in Nat)}
<1>2. ASSUME NEW S \in SUBSET Slots, \A x \in S : S \ {x} \notin Bad
      PROVE  u[S] \in Nat
  <2>1. CASE S = {}
    <3>1. u[S] = 0
      BY <1>1, <2>1 DEF SumStep
    <3> QED
      BY <3>1
  <2>2. CASE S # {}
    <3>1. Chosen(S) \in S /\ u[S] = p[Chosen(S)] + u[S \ {Chosen(S)}]
      BY <1>1, <2>2, ChosenIn DEF SumStep
    <3>2. u[S \ {Chosen(S)}] \in Nat
      BY <1>2, <3>1
    <3>3. p[Chosen(S)] \in Nat
      BY <3>1
    <3> QED
      BY <3>1, <3>2, <3>3
  <2> QED
    BY <2>1, <2>2
<1>3. Bad = {}
  <2>1. Bad \in SUBSET SUBSET Slots
    OBVIOUS
  <2>2. \A S \in Bad : ~ \A x \in S : S \ {x} \notin Bad
    BY <1>2
  <2> HIDE DEF Bad
  <2> QED
    BY <2>1, <2>2, SmallestSet, SlotsAssumption
<1>4. u[Slots] \in Nat
  BY <1>3
<1> QED
  BY <1>1, <1>4

(* The pins of two slots are no more than the pins of all.                 *)
LEMMA SumOfTwo ==
  ASSUME NEW p \in [Slots -> Int], \A s \in Slots : p[s] >= 0,
         NEW a \in Slots, NEW b \in Slots, a # b
  PROVE  p[a] + p[b] <= SumFunction(p)
<1> DEFINE d == 0 - p[a]
           e == 0 - p[b]
           q == [p EXCEPT ![a] = p[a] + d]
           r == [q EXCEPT ![b] = q[b] + e]
<1>1. p[a] \in Nat /\ p[b] \in Nat /\ d \in Int /\ e \in Int
  OBVIOUS
<1>2. q \in [Slots -> Int] /\ q[b] = p[b] /\ \A t \in Slots : q[t] >= 0
  BY <1>1
<1>3. r \in [Slots -> Int] /\ \A t \in Slots : r[t] >= 0
  BY <1>1, <1>2
<1>4. q = [p EXCEPT ![a] = p[a] + d] /\ r = [q EXCEPT ![b] = q[b] + e]
  OBVIOUS
<1>5. d + p[a] = 0 /\ e + p[b] = 0
  BY <1>1
<1> HIDE DEF d, e, q, r
<1>6. SumFunction(p) \in Int /\ SumFunction(q) = SumFunction(p) + d
  BY <1>1, <1>4, SumChange
<1>7. SumFunction(r) = SumFunction(q) + e
  <2>1. q \in [Slots -> Int] /\ e \in Int
    BY <1>1, <1>2
  <2>2. r = [q EXCEPT ![b] = q[b] + e]
    BY <1>4
  <2> QED
    BY <2>1, <2>2, SumChange
<1>8. SumFunction(r) >= 0
  BY <1>3, SumNonNegative
<1> QED
  BY <1>1, <1>5, <1>6, <1>7, <1>8

(* A cache with more slots than pins has a slot to give.                   *)
Roomed(f) == \E s \in Slots : f.pins[s] = 0

LEMMA FewPinsLeaveRoom ==
  ASSUME NEW p \in [Slots -> Int], \A s \in Slots : p[s] >= 0,
         SumFunction(p) < CacheSize
  PROVE  \E s \in Slots : p[s] = 0
<1>1. SUFFICES ASSUME \A s \in Slots : p[s] # 0 PROVE FALSE
  OBVIOUS
<1>2. \A s \in Slots : p[s] >= 1
  BY <1>1
<1>3. SumFunction(p) >= CacheSize
  BY <1>2, SumOfAll
<1>4. SumFunction(p) \in Int
  <2>1. PICK s \in Slots : TRUE
    BY SomeSlots
  <2>2. \E q : q = [p EXCEPT ![s] = p[s] + 0]
    OBVIOUS
  <2> QED
    BY <2>2, SumChange
<1> QED
  BY <1>3, <1>4, CacheSizeNat
-----------------------------------------------------------------------------
(* The contents of blocks.                                                 *)

(* What a reader of l finds: the block in the index, or else the file.     *)
At(f, l) == {s \in f.hashed : f.loc[s] = l}
Cur(f, l) == IF At(f, l) # {} THEN f.buf[CHOOSE s \in At(f, l) : TRUE] ELSE f.file[l]

LEMMA CurHit ==
  ASSUME NEW f, Coherent(f), NEW s \in f.hashed
  PROVE  Cur(f, f.loc[s]) = f.buf[s]
<1>1. At(f, f.loc[s]) = {s}
  BY DEF At, Coherent
<1> QED
  BY <1>1 DEF Cur

LEMMA CurMiss ==
  ASSUME NEW f, NEW l, \A s \in f.hashed : f.loc[s] # l
  PROVE  Cur(f, l) = f.file[l]
  BY DEF Cur, At

LEMMA CurIsCurrent ==
  ASSUME Coherent(fs), NEW l
  PROVE  CurrentContent(l) = Cur(fs, l)
<1>1. Hits(fs, l) = At(fs, l)
  BY DEF Hits, At, Coherent
<1> QED
  BY <1>1 DEF CurrentContent, Cur

LEMMA CurType ==
  ASSUME NEW f \in FsType, NEW l \in Locations
  PROVE  Cur(f, l) \in Content
<1>1. /\ f.buf \in [Slots -> Content] /\ f.file \in [Locations -> Content]
      /\ f.hashed \subseteq Slots
  BY FieldTypes
<1>2. At(f, l) # {} => (CHOOSE s \in At(f, l) : TRUE) \in At(f, l)
  OBVIOUS
<1>3. At(f, l) \subseteq Slots
  BY <1>1 DEF At
<1> QED
  BY <1>1, <1>2, <1>3 DEF Cur

(* Pins are counts, and only blocks in the cache have any.                 *)
Tidy(f) == \A s \in Slots : f.pins[s] >= 0 /\ (s \notin f.cached => f.pins[s] = 0)

Good(f) == Sound(f) /\ Tidy(f) /\ ~f.fault

Undisturbed(f, g, s) ==
  /\ g.loc[s] = f.loc[s] /\ g.buf[s] = f.buf[s]
  /\ s \in g.hashed <=> s \in f.hashed
  /\ s \in g.clone <=> s \in f.clone

(* Reading and flushing change no contents and no pins, move no pinned     *)
(* block, and leave the file as it was or bring it up to date.             *)
Calm(f, g) ==
  /\ Good(g) /\ KeepsSuper(f, g)
  /\ g.pins = f.pins /\ g.total_pins = f.total_pins
  /\ \A s \in Slots : f.pins[s] # 0 => Undisturbed(f, g, s)
  /\ \A l \in Locations \ {0} : Cur(g, l) = Cur(f, l)
  /\ g.file = f.file \/ \A l \in Locations \ {0} : g.file[l] = Cur(f, l)

(* While there are reusable slots nothing is flushed, the others stay as   *)
(* they are, and a slot that is read into stays reusable.                  *)
Quiet(f, g) ==
  /\ g.file = f.file /\ g.dirty = f.dirty /\ Reusable(g) = Reusable(f)
  /\ \A s \in Slots \ Reusable(f) : Undisturbed(f, g, s)

Read(f, g) == Calm(f, g) /\ (Reusable(f) # {} => Quiet(f, g))

LEMMA CalmTransitive ==
  ASSUME NEW f, NEW g, NEW h, Calm(f, g), Calm(g, h)
  PROVE  Calm(f, h)
<1>1. KeepsSuper(f, h)
  BY KeepsSuperTransitive DEF Calm
<1> QED
  BY <1>1 DEF Calm, Undisturbed

LEMMA ReadTransitive ==
  ASSUME NEW f, NEW g, NEW h, Read(f, g), Read(g, h)
  PROVE  Read(f, h)
<1>1. Calm(f, h)
  BY CalmTransitive DEF Read
<1> QED
  BY <1>1 DEF Read, Quiet, Undisturbed

LEMMA ReadReflexive ==
  ASSUME NEW f, Good(f)
  PROVE  Read(f, f)
  BY DEF Read, Calm, Quiet, Undisturbed, KeepsSuper

LEMMA GoodType ==
  ASSUME NEW f, Good(f)
  PROVE  /\ f \in FsType /\ Coherent(f) /\ Sound(f) /\ ~f.fault
         /\ f.superslot \in Slots /\ f.superslot \in f.hashed
         /\ f.loc[f.superslot] = 0
         /\ f.num_blocks \in 1 .. MaxBlocks
  BY FieldTypes, BoundsType DEF Good, Sound, Rooted

(* flush_fs.                                                               *)
LEMMA FlushFsCalm ==
  ASSUME NEW f, Good(f), NEW g, g = FlushFs(f)
  PROVE  /\ Calm(f, g) /\ g.dirty = {}
         /\ \A l \in Locations \ {0} : g.file[l] = Cur(f, l)
<1>1. /\ f \in FsType /\ Coherent(f) /\ f.superslot \in f.hashed
      /\ f.loc[f.superslot] = 0
  BY GoodType
<1>2. /\ KeepsSuper(f, g) /\ Coherent(g)
      /\ g = [f EXCEPT !.file = g.file, !.filesize = f.filesize,
                       !.savedsuper = f.super, !.dirty = {}]
      /\ KeepsUncached(f, g)
  BY <1>1, FlushFsEffect
<1>3. /\ g.loc = f.loc /\ g.buf = f.buf /\ g.pins = f.pins
      /\ g.hashed = f.hashed /\ g.clone = f.clone /\ g.cached = f.cached
      /\ g.total_pins = f.total_pins /\ g.fault = f.fault /\ g.dirty = {}
      /\ g.superslot = f.superslot
  BY <1>1, <1>2 DEF FsType
<1>4. Sound(g)
  BY FlushFsSound DEF Good, Flushed
<1>5. Good(g)
  BY <1>3, <1>4 DEF Good, Tidy
<1>6. ASSUME NEW l \in Locations \ {0}
      PROVE  g.file[l] = Cur(f, l) /\ Cur(g, l) = Cur(f, l)
  <2>1. CASE \E s \in f.hashed : f.loc[s] = l
    <3>1. PICK s \in f.hashed : f.loc[s] = l
      BY <2>1
    <3>2. s \in g.hashed \ (g.dirty \cup {g.superslot})
      BY <1>1, <1>3, <3>1
    <3>3. g.buf[s] = g.file[g.loc[s]]
      BY <1>2, <3>2 DEF Coherent
    <3> QED
      BY <1>1, <1>2, <1>3, <3>1, <3>2, <3>3, CurHit
  <2>2. CASE \A s \in f.hashed : f.loc[s] # l
    BY <1>2, <1>3, <2>2, CurMiss DEF KeepsUncached
  <2> QED
    BY <2>1, <2>2
<1> QED
  BY <1>2, <1>3, <1>5, <1>6 DEF Calm, Undisturbed

(* find_free_slot, when some slot is not pinned.                           *)
Vacated(f, g, r) ==
  /\ Calm(f, g) /\ Flushed(f, g) /\ (Reusable(f) # {} => g = f)
  /\ r.slot \in Reusable(g) /\ r.slot \in Slots \ {g.superslot}
  /\ r.slot \notin g.dirty /\ g.pins[r.slot] = 0
  /\ r.fs = Emptied(g, r.slot)

LEMMA FindFreeSlotVacates ==
  ASSUME NEW f, Good(f), Roomed(f), NEW r, r = FindFreeSlot(f)
  PROVE  \E g : Vacated(f, g, r)
<1> DEFINE g == IF Reusable(f) = {} THEN FlushFs(f) ELSE f
<1>1. f \in FsType /\ Read(f, f)
  BY GoodType, ReadReflexive
<1>2. Calm(f, FlushFs(f)) /\ FlushFs(f).dirty = {} /\ FlushFs(f) \in FsType
  BY FlushFsCalm, GoodType DEF Calm
<1>2a. Flushed(f, f) /\ Flushed(f, FlushFs(f))
  BY FlushFsSound DEF Flushed, Good, KeepsSuper
<1>3. /\ Calm(f, g) /\ Flushed(f, g) /\ g \in FsType
      /\ Reusable(f) # {} => g = f
  BY <1>1, <1>2, <1>2a DEF Read
<1>4. Reusable(g) # {}
  <2>1. CASE Reusable(f) # {}
    BY <2>1
  <2>2. CASE Reusable(f) = {}
    BY <1>2, <2>2 DEF Roomed, Reusable, Calm
  <2> QED
    BY <2>1, <2>2
<1>5. g = IF Reusable(f) = {} THEN FlushFs(f) ELSE f
  OBVIOUS
<1> HIDE DEF g
<1>6. /\ r.slot \in Reusable(g) /\ r.slot \in Slots
      /\ r = [fs |-> Emptied(g, r.slot), slot |-> r.slot]
  BY <1>1, <1>2, <1>4, <1>5, FindFreeSlotEffect
<1>7. Good(g) /\ Sound(g) /\ Coherent(g) /\ Rooted(g)
  BY <1>3 DEF Calm, Good, Sound
<1>8. r.slot \notin g.dirty /\ g.pins[r.slot] = 0
  BY <1>6, <1>7, FieldTypes DEF Reusable, Coherent, Good, Tidy
<1>9. r.slot # g.superslot
  BY <1>7, <1>8 DEF Rooted
<1> QED
  BY <1>3, <1>6, <1>8, <1>9 DEF Vacated
(* read_block into a slot that has been vacated.                           *)
LEMMA LoadedRead ==
  ASSUME NEW g, Good(g), NEW s \in Slots \ {g.superslot}, s \in Reusable(g),
         s \notin g.dirty, g.pins[s] = 0,
         NEW l \in Locations, l < g.num_blocks, \A t \in g.hashed : g.loc[t] # l,
         NEW h, h = Loaded(g, s, l)
  PROVE  Read(g, h) /\ s \in h.hashed /\ h.loc[s] = l
<1>1. /\ g \in FsType /\ Coherent(g) /\ Sound(g) /\ ~g.fault
      /\ g.superslot \in Slots
  BY GoodType
<1>2. /\ Sound(h) /\ KeepsSuper(g, h) /\ s \in h.hashed /\ h.loc[s] = l
  BY <1>1, LoadedSound
<1>3. /\ h.loc = [g.loc EXCEPT ![s] = l]
      /\ h.buf = [g.buf EXCEPT ![s] = g.file[l]]
      /\ h.pins = [g.pins EXCEPT ![s] = 0]
      /\ h.cached = g.cached \cup {s} /\ h.dirty = g.dirty \ {s}
      /\ h.clone = g.clone \ {s} /\ h.hashed = g.hashed \cup {s}
      /\ h.file = g.file /\ h.superslot = g.superslot
      /\ h.total_pins = g.total_pins /\ h.fault = g.fault
  BY <1>1 DEF Loaded, Emptied, FsType
<1>4. h.pins = g.pins /\ h.dirty = g.dirty
  BY <1>1, <1>3, FieldTypes
<1>5. \A t \in Slots \ {s} : Undisturbed(g, h, t)
  BY <1>1, <1>3, FieldTypes DEF Undisturbed
<1>6. Good(h)
  BY <1>1, <1>2, <1>3, <1>4 DEF Good, Tidy
<1>7. Coherent(h)
  BY <1>6, GoodType
<1>8. ASSUME NEW m \in Locations \ {0}
      PROVE  Cur(h, m) = Cur(g, m)
  <2>1. CASE m = l
    <3>1. Cur(h, m) = h.buf[s]
      BY <1>2, <1>7, <2>1, CurHit
    <3>2. h.buf[s] = g.file[l]
      BY <1>1, <1>3, FieldTypes
    <3> QED
      BY <2>1, <3>1, <3>2, CurMiss
  <2>2. CASE m # l /\ \E t \in g.hashed \ {s} : g.loc[t] = m
    <3>1. PICK t \in g.hashed \ {s} : g.loc[t] = m
      BY <2>2
    <3>2. t \in Slots \ {s}
      BY <1>1, <3>1, FieldTypes
    <3>3. t \in h.hashed /\ h.loc[t] = m /\ h.buf[t] = g.buf[t]
      BY <1>5, <3>1, <3>2 DEF Undisturbed
    <3>4. Cur(h, m) = h.buf[t] /\ Cur(g, m) = g.buf[t]
      BY <1>1, <1>7, <3>1, <3>3, CurHit
    <3> QED
      BY <3>3, <3>4
  <2>3. CASE m # l /\ \A t \in g.hashed \ {s} : g.loc[t] # m
    <3>1. \A t \in h.hashed : h.loc[t] # m
      BY <1>1, <1>3, <2>3, FieldTypes
    <3>2. Cur(h, m) = g.file[m]
      <4>1. Cur(h, m) = h.file[m]
        BY <3>1, CurMiss
      <4> QED
        BY <1>3, <4>1
    <3>3. CASE s \in g.hashed /\ g.loc[s] = m
      <4>1. Cur(g, m) = g.buf[s]
        BY <1>1, <3>3, CurHit
      <4>2. g.buf[s] = g.file[g.loc[s]]
        BY <1>1, <3>3 DEF Coherent
      <4> QED
        BY <3>2, <3>3, <4>1, <4>2
    <3>4. CASE ~ (s \in g.hashed /\ g.loc[s] = m)
      <4>1. \A t \in g.hashed : g.loc[t] # m
        BY <2>3, <3>4
      <4> QED
        BY <3>2, <4>1, CurMiss
    <3> QED
      BY <3>3, <3>4
  <2> QED
    BY <2>1, <2>2, <2>3
<1>9. Reusable(h) = Reusable(g)
  BY <1>3, <1>4 DEF Reusable
<1>10. Calm(g, h)
  BY <1>2, <1>3, <1>4, <1>5, <1>6, <1>8 DEF Calm
<1>11. Quiet(g, h)
  BY <1>3, <1>4, <1>5, <1>9 DEF Quiet
<1> QED
  BY <1>2, <1>10, <1>11 DEF Read

(* get_block finds the block or reads it.                                  *)
GotAt(f, r, l) ==
  /\ Read(f, r.fs)
  /\ r.slot \in Slots /\ r.slot # NULL
  /\ r.slot \in r.fs.hashed /\ r.fs.loc[r.slot] = l

LEMMA ReadBlockReads ==
  ASSUME NEW f, Good(f), Roomed(f), NEW l \in Locations, l < f.num_blocks,
         \A t \in f.hashed : f.loc[t] # l,
         NEW r, r = ReadBlock(f, l)
  PROVE  GotAt(f, r, l)
<1> DEFINE q == FindFreeSlot(f)
<1>1. PICK g : Vacated(f, g, q)
  BY FindFreeSlotVacates
<1>2. /\ Good(g) /\ Calm(f, g) /\ KeepsSuper(f, g)
      /\ q.slot \in Slots \ {g.superslot} /\ q.slot # NULL
      /\ q.slot \in Reusable(g) /\ q.slot \notin g.dirty
      /\ g.pins[q.slot] = 0 /\ q.fs = Emptied(g, q.slot)
  BY <1>1, SlotsAssumption DEF Vacated, Calm
<1>3. /\ g \in FsType /\ f \in FsType /\ Coherent(g)
      /\ g.filesize = g.num_blocks /\ g.num_blocks = f.num_blocks
  BY <1>2, GoodType DEF Coherent, KeepsSuper
<1>4. \A t \in g.hashed : g.loc[t] # l
  BY <1>1 DEF Vacated, Flushed
<1>5. q.fs.filesize = g.filesize /\ ~ (l >= g.filesize)
  BY <1>2, <1>3, FieldTypes DEF Emptied, FsType, Locations
<1> HIDE DEF q
<1>6. r.slot = q.slot /\ r.fs = Loaded(g, q.slot, l)
  BY <1>2, <1>5 DEF ReadBlock, Loaded, q
<1>7. Read(g, r.fs) /\ q.slot \in r.fs.hashed /\ r.fs.loc[q.slot] = l
  BY <1>2, <1>3, <1>4, <1>6, LoadedRead
<1>8. Read(f, r.fs)
  <2>1. Calm(f, r.fs)
    BY <1>2, <1>7, CalmTransitive DEF Read
  <2>2. Reusable(f) # {} => g = f
    BY <1>1 DEF Vacated
  <2> QED
    BY <1>7, <2>1, <2>2 DEF Read
<1> QED
  BY <1>2, <1>6, <1>7, <1>8 DEF GotAt

(* Another order of the LRU list, and nothing else.                        *)
Reordered(f, g) ==
  /\ g.loc = f.loc /\ g.buf = f.buf /\ g.pins = f.pins
  /\ g.cached = f.cached /\ g.dirty = f.dirty
  /\ g.clone = f.clone /\ g.hashed = f.hashed /\ g.file = f.file
  /\ g.num_blocks = f.num_blocks /\ g.total_pins = f.total_pins
  /\ g.fault = f.fault

LEMMA GetBlockReads ==
  ASSUME NEW f, Good(f), Roomed(f), NEW l \in Locations, l < f.num_blocks,
         NEW r, r = GetBlock(f, l)
  PROVE  GotAt(f, r, l)
<1> DEFINE q == IF Hits(f, l) # {}
                THEN [fs |-> f, slot |-> CHOOSE s \in Hits(f, l) : TRUE]
                ELSE ReadBlock(f, l)
<1>1. f \in FsType /\ Coherent(f)
  BY GoodType
<1>2. GotAt(f, q, l)
  <2>1. CASE Hits(f, l) # {}
    <3>1. q.fs = f /\ q.slot \in Hits(f, l)
      BY <2>1
    <3>2. /\ q.slot \in Slots /\ q.slot \in f.hashed /\ f.loc[q.slot] = l
          /\ q.slot # NULL
      BY <1>1, <3>1, FieldTypes, SlotsAssumption DEF Hits
    <3> QED
      BY <3>1, <3>2, ReadReflexive DEF GotAt
  <2>2. CASE Hits(f, l) = {}
    <3>1. \A t \in f.hashed : f.loc[t] # l
      BY <1>1, <2>2 DEF Hits, Coherent
    <3>2. q = ReadBlock(f, l)
      BY <2>2
    <3> QED
      BY <3>1, <3>2, ReadBlockReads
  <2> QED
    BY <2>1, <2>2
<1>3. r = IF q.slot = NULL THEN q
          ELSE [fs |-> MoveToFront(q.fs, q.slot), slot |-> q.slot]
  BY DEF GetBlock
<1> HIDE DEF q
<1>4. r.slot = q.slot /\ r.fs = MoveToFront(q.fs, q.slot)
  BY <1>2, <1>3 DEF GotAt
<1>5. q.slot \in Slots /\ Good(q.fs) /\ q.fs \in FsType
  BY <1>2, GoodType DEF GotAt, Read, Calm
<1>6. PICK k \in Orders : r.fs = [q.fs EXCEPT !.rank = k]
  BY <1>4, <1>5, MoveToFrontOrder
<1>7. Reordered(q.fs, r.fs)
  BY <1>5, <1>6 DEF Reordered, FsType
<1>8. Read(q.fs, r.fs)
  <2>1. Sound(r.fs) /\ KeepsSuper(q.fs, r.fs)
    BY <1>5, <1>6, <1>7, ReorderSound DEF Sound, Good, Reordered
  <2>2. Good(r.fs)
    BY <1>5, <1>7, <2>1 DEF Good, Tidy, Reordered
  <2>3. \A m \in Locations : Cur(r.fs, m) = Cur(q.fs, m)
    BY <1>7 DEF Cur, At, Reordered
  <2>4. Reusable(r.fs) = Reusable(q.fs)
    BY <1>7 DEF Reusable, Reordered
  <2> QED
    BY <1>7, <2>1, <2>2, <2>3, <2>4 DEF Read, Calm, Quiet, Undisturbed, Reordered
<1> QED
  BY <1>2, <1>4, <1>7, <1>8, ReadTransitive DEF GotAt, Reordered

(* The slot that get_block yields has what a reader of l finds.            *)
LEMMA GotContents ==
  ASSUME NEW f, NEW r, NEW l \in Locations \ {0}, GotAt(f, r, l)
  PROVE  r.fs.buf[r.slot] = Cur(f, l)
<1>1. Coherent(r.fs)
  BY GoodType DEF GotAt, Read, Calm
<1>2. Cur(r.fs, l) = r.fs.buf[r.slot]
  BY <1>1, CurHit DEF GotAt
<1> QED
  BY <1>2 DEF GotAt, Read, Calm

-----------------------------------------------------------------------------
(* The bitmaps.                                                            *)

(* The bitmap blocks, and the locations that the bitmaps mark.             *)
Maps(f) == {f.super.bitmaps[g] : g \in Groups} \ {0}

Marks(f) ==
  {l \in Locations : /\ f.super.bitmaps[Group(l)] # 0
                     /\ Offset(l) \in Cur(f, f.super.bitmaps[Group(l)]).bits}

LEMMA CalmMarks ==
  ASSUME NEW f \in FsType, NEW g, Calm(f, g)
  PROVE  Marks(g) = Marks(f)
<1>1. g.super = f.super /\ \A l \in Locations \ {0} : Cur(g, l) = Cur(f, l)
  BY DEF Calm, KeepsSuper
<1>2. \A l \in Locations : f.super.bitmaps[Group(l)] \in Locations
  BY GroupType, FieldTypes
<1> QED
  BY <1>1, <1>2 DEF Marks

(* bitmap_search yields a location that is not marked, below num_blocks    *)
(* and in the target's group, or 0.                                        *)
Sought(f, target, r) ==
  /\ Read(f, r.fs)
  /\ r.addr # 0 => /\ r.addr \in Locations /\ r.addr < f.num_blocks
                   /\ r.addr \notin Marks(f)
                   /\ f.super.bitmaps[Group(r.addr)] # 0

LEMMA BitmapSearchReads ==
  ASSUME NEW f, Good(f), Roomed(f), NEW target \in Locations,
         NEW r, r = BitmapSearch(f, target)
  PROVE  Sought(f, target, r)
<1> DEFINE b == f.super.bitmaps[Group(target)]
           q == GetBlock(f, b)
           Free == {l \in target .. f.num_blocks - 1 :
                      /\ Group(l) = Group(target)
                      /\ Offset(l) \notin q.fs.buf[q.slot].bits}
<1>1. /\ f \in FsType /\ Coherent(f) /\ b \in Locations
      /\ f.num_blocks \in 0 .. MaxBlocks
  BY GroupType, GoodType, FieldTypes
<1>2. CASE b = 0
  <2>1. r.fs = f /\ r.addr = 0
    BY <1>2 DEF BitmapSearch
  <2> QED
    BY <2>1, ReadReflexive DEF Sought
<1>3. CASE b # 0
  <2>1. b < f.num_blocks
    BY <1>1, <1>3, GroupType DEF Coherent
  <2>2. GotAt(f, q, b)
    BY <1>1, <2>1, GetBlockReads
  <2>3. q.fs.buf[q.slot] = Cur(f, b)
    BY <1>1, <1>3, <2>2, GotContents
  <2>4. r.fs = q.fs
    BY <1>3, <2>2 DEF BitmapSearch, Need, GotAt
  <2>5. r.addr = IF Free = {} THEN 0
                 ELSE CHOOSE l \in Free : \A m \in Free : l <= m
    <3>1. r.addr = IF q.slot = NULL \/ Free = {} THEN 0
                   ELSE CHOOSE l \in Free : \A m \in Free : l <= m
      BY <1>3 DEF BitmapSearch
    <3>2. q.slot # NULL
      BY <2>2 DEF GotAt
    <3> HIDE DEF q, Free
    <3> QED
      BY <3>1, <3>2
  <2>6. ASSUME r.addr # 0
        PROVE  r.addr \in Free
    <3>1. Free # {} /\ r.addr = CHOOSE l \in Free : \A m \in Free : l <= m
      BY <2>5, <2>6
    <3>2. Free \in SUBSET Nat
      BY <1>1 DEF Locations
    <3> HIDE DEF Free
    <3>3. \E l \in Free : \A m \in Free : l <= m
      BY <3>1, <3>2, LeastNatural
    <3> QED
      BY <3>1, <3>3, Zenon
  <2>7. \A l \in Free : /\ l \in Locations /\ l < f.num_blocks
                        /\ Group(l) = Group(target)
                        /\ Offset(l) \notin Cur(f, b).bits
    BY <1>1, <2>3, BoundsType DEF Locations
  <2> HIDE DEF Free, q
  <2>8. r.addr # 0 => /\ r.addr \in Locations /\ r.addr < f.num_blocks
                      /\ f.super.bitmaps[Group(r.addr)] # 0
                      /\ Offset(r.addr) \notin Cur(f, f.super.bitmaps[Group(r.addr)]).bits
    BY <1>3, <2>6, <2>7
  <2> QED
    BY <2>2, <2>4, <2>8 DEF Sought, Marks, GotAt
<1> QED
  BY <1>2, <1>3

-----------------------------------------------------------------------------
(* Taking a block.                                                         *)

(* What keeps a pinned block from being taken for a new one.               *)
PinnedMarked(f) == \A u \in f.hashed : f.pins[u] # 0 => f.loc[u] \in Marks(f)

(* The state in which slot s is about to be given to addr: reading and     *)
(* searching have changed nothing that is not reusable.                    *)
Prepared(f, k, s, addr) ==
  /\ CoreBut(k, s, addr) /\ ~k.fault /\ k.pins[k.superslot] >= 1
  /\ k.pins = f.pins /\ k.total_pins = f.total_pins /\ f.pins[s] = 0
  /\ k.super = f.super /\ k.file = f.file /\ k.num_blocks = f.num_blocks
  /\ k.superslot = f.superslot /\ k.open = f.open /\ f.cached \subseteq k.cached
  /\ s \in k.hashed => k.loc[s] = addr
  /\ s \in Reusable(f) \/ (s \in f.hashed /\ f.loc[s] = addr)
  /\ \A u \in Slots \ (Reusable(f) \cup {s}) : Undisturbed(f, k, u)
  /\ Reusable(k) \ {s} = Reusable(f) \ {s}
  /\ \A l \in Locations \ {0} : Cur(k, l) = Cur(f, l)

TakeCounts(f, type, addr) ==
  [u \in Types |-> f.super.counts[u] + (IF u = type THEN 1 ELSE 0)
                     - (IF addr # f.num_blocks /\ u = "B_FREE" THEN 1 ELSE 0)]

(* A slot that may be reused holds no contents of its own.                 *)
LEMMA EmptiedCur ==
  ASSUME NEW g, Good(g), NEW s \in Slots \ {g.superslot}, s \notin g.dirty,
         NEW k, k = Emptied(g, s), NEW l \in Locations \ {0}
  PROVE  Cur(k, l) = Cur(g, l)
<1>1. /\ g \in FsType /\ Coherent(g) /\ g.superslot \in Slots
  BY GoodType
<1>2. /\ k.loc = g.loc /\ k.buf = g.buf /\ k.file = g.file
      /\ k.hashed = g.hashed \ {s}
  BY <1>1 DEF Emptied, FsType
<1>3. CASE s \in g.hashed /\ g.loc[s] = l
  <2>1. \A t \in k.hashed : k.loc[t] # l
    BY <1>1, <1>2, <1>3 DEF Coherent
  <2>2. Cur(k, l) = k.file[l]
    BY <2>1, CurMiss
  <2>3. Cur(g, l) = g.buf[s] /\ g.buf[s] = g.file[g.loc[s]]
    BY <1>1, <1>3, CurHit DEF Coherent
  <2> QED
    BY <1>2, <1>3, <2>2, <2>3
<1>4. CASE ~ (s \in g.hashed /\ g.loc[s] = l)
  <2>1. At(k, l) = At(g, l)
    BY <1>2, <1>4 DEF At
  <2> QED
    BY <1>2, <2>1 DEF Cur
<1> QED
  BY <1>3, <1>4

(* A free location is read into the cache, or a slot emptied for a new one. *)
LEMMA ReusePrepares ==
  ASSUME NEW f, Good(f), Reusable(f) # {}, PinnedMarked(f),
         NEW e, Read(f, e), NEW addr \in Locations \ Marks(f), addr # 0,
         addr < f.num_blocks,
         NEW r, GotAt(e, r, addr)
  PROVE  Prepared(f, r.fs, r.slot, addr)
<1> DEFINE k == r.fs
           s == r.slot
<1>1. Read(f, k) /\ s \in Slots /\ s \in k.hashed /\ k.loc[s] = addr
  BY ReadTransitive DEF GotAt
<1> HIDE DEF k, s
<1>2. /\ Good(k) /\ KeepsSuper(f, k) /\ k.pins = f.pins
      /\ k.total_pins = f.total_pins /\ Quiet(f, k)
      /\ \A l \in Locations \ {0} : Cur(k, l) = Cur(f, l)
      /\ \A u \in Slots : f.pins[u] # 0 => Undisturbed(f, k, u)
  BY <1>1 DEF Read, Calm
<1>3. /\ k \in FsType /\ Coherent(k) /\ k.superslot \in k.hashed
      /\ k.loc[k.superslot] = 0 /\ k.num_blocks \in 1 .. MaxBlocks
      /\ ~k.fault /\ k.pins[k.superslot] >= 1
  BY <1>2, GoodType DEF Good, Sound, Rooted
<1>4. s # k.superslot
  BY <1>1, <1>3
<1>5. CoreBut(k, s, addr)
  BY <1>1, <1>2, <1>3, <1>4, FieldTypes DEF CoreBut, Coherent, Locations, KeepsSuper
<1>6. f.pins[s] = 0
  BY <1>1, <1>2 DEF PinnedMarked, Undisturbed
<1>7. s \in Reusable(f) \/ (s \in f.hashed /\ f.loc[s] = addr)
  BY <1>1, <1>2 DEF Quiet, Undisturbed
<1> QED
  BY <1>1, <1>2, <1>3, <1>5, <1>6, <1>7 DEF Prepared, KeepsSuper, Quiet, k, s

LEMMA ExtendPrepares ==
  ASSUME NEW f, Good(f), Reusable(f) # {}, f.num_blocks < MaxBlocks,
         NEW e, Read(f, e), NEW r, r = FindFreeSlot(e)
  PROVE  /\ r.slot # NULL /\ r.fs.num_blocks = f.num_blocks
         /\ Prepared(f, r.fs, r.slot, f.num_blocks)
<1>1. /\ Good(e) /\ KeepsSuper(f, e) /\ e.pins = f.pins
      /\ e.total_pins = f.total_pins /\ Quiet(f, e)
      /\ \A l \in Locations \ {0} : Cur(e, l) = Cur(f, l)
  BY DEF Read, Calm
<1>2. Reusable(e) = Reusable(f)
  BY <1>1 DEF Quiet
<1>3. Roomed(e)
  BY <1>1, <1>2 DEF Roomed, Reusable, Good, Tidy
<1>4. \E g : Vacated(e, g, r)
  BY <1>1, <1>3, FindFreeSlotVacates
<1>5. Vacated(e, e, r)
  BY <1>2, <1>4 DEF Vacated
<1> DEFINE k == r.fs
           s == r.slot
           n == f.num_blocks
<1>6. /\ s \in Reusable(e) /\ s \in Slots \ {e.superslot} /\ s \notin e.dirty
      /\ e.pins[s] = 0 /\ k = Emptied(e, s) /\ s # NULL
  BY <1>5, SlotsAssumption DEF Vacated
<1> HIDE DEF k, s
<1>7. /\ e \in FsType /\ Coherent(e) /\ e.superslot \in e.hashed
      /\ e.loc[e.superslot] = 0 /\ e.num_blocks = n /\ n \in 1 .. MaxBlocks
      /\ ~e.fault /\ e.pins[e.superslot] >= 1
  BY <1>1, GoodType DEF Good, Sound, Rooted, KeepsSuper
<1>8. /\ k.pins = [e.pins EXCEPT ![s] = 0] /\ k.loc = e.loc /\ k.buf = e.buf
      /\ k.cached = e.cached \cup {s} /\ k.dirty = e.dirty \ {s}
      /\ k.clone = e.clone \ {s} /\ k.hashed = e.hashed \ {s}
      /\ k.file = e.file /\ k.filesize = e.filesize
      /\ k.num_blocks = e.num_blocks /\ k.superslot = e.superslot
      /\ k.super = e.super /\ k.open = e.open
      /\ k.total_pins = e.total_pins /\ k.fault = e.fault
  BY <1>6, <1>7 DEF Emptied, FsType
<1>9. k.pins = e.pins /\ k.dirty = e.dirty
  BY <1>6, <1>7, <1>8, FieldTypes
<1>10. k \in FsType
  <2>1. k.pins \in [Slots -> Int] /\ k.cached \in SUBSET Slots
        /\ k.dirty \in SUBSET Slots /\ k.clone \in SUBSET Slots
        /\ k.hashed \in SUBSET Slots
    BY <1>6, <1>7, <1>8, FieldTypes
  <2> QED
    BY <1>6, <1>7, <1>8, <2>1 DEF Emptied, FsType
<1>11. n \in Locations /\ n # 0
  BY <1>7, BoundsType DEF Locations
<1>12. \A u \in k.hashed \ {s} : k.loc[u] < k.num_blocks /\ k.loc[u] # n
  BY <1>7, <1>8, FieldTypes DEF Coherent, Locations
<1>13. k.superslot \in k.hashed /\ k.loc[k.superslot] = 0 /\ k.num_blocks >= 1
       /\ n <= k.num_blocks
  BY <1>6, <1>7, <1>8
<1>14. CoreBut(k, s, n)
  BY <1>6, <1>7, <1>8, <1>10, <1>11, <1>12, <1>13 DEF CoreBut, Coherent
<1>15. \A l \in Locations \ {0} : Cur(k, l) = Cur(f, l)
  BY <1>1, <1>6, EmptiedCur
<1>16. Reusable(k) = Reusable(e)
  BY <1>6, <1>8, <1>9 DEF Reusable
<1>17. \A u \in Slots \ (Reusable(f) \cup {s}) : Undisturbed(f, k, u)
  <2>1. \A u \in Slots \ {s} : Undisturbed(e, k, u)
    BY <1>8 DEF Undisturbed
  <2>2. \A u \in Slots \ Reusable(f) : Undisturbed(f, e, u)
    BY <1>1 DEF Quiet
  <2> QED
    BY <2>1, <2>2 DEF Undisturbed
<1>18. Prepared(f, k, s, n)
  BY <1>1, <1>2, <1>6, <1>7, <1>8, <1>9, <1>14, <1>15, <1>16, <1>17
  DEF Prepared, KeepsSuper, Quiet
<1> QED
  BY <1>6, <1>7, <1>8, <1>18 DEF k, s

(* What taking slot s for a block at addr does: the block is there, zeroed *)
(* and dirty, and nothing else has changed but reusable slots.             *)
TookAt(f, counts, s, addr, h) ==
  /\ Good(h) /\ s \in h.hashed \ {h.superslot} /\ s \in h.dirty /\ h.loc[s] = addr
  /\ h.pins = f.pins /\ h.total_pins = f.total_pins /\ f.pins[s] = 0
  /\ h.superslot = f.superslot /\ h.open = f.open /\ f.cached \subseteq h.cached
  /\ h.super.bitmaps = f.super.bitmaps /\ h.super.counts = counts
  /\ addr \in Locations \ {0} /\ addr <= f.num_blocks
  /\ h.num_blocks = IF addr = f.num_blocks THEN addr + 1 ELSE f.num_blocks
  /\ Reusable(h) = Reusable(f) \ {s}
  /\ s \in Reusable(f) \/ (s \in f.hashed /\ f.loc[s] = addr)
  /\ \A u \in Slots \ (Reusable(f) \cup {s}) : Undisturbed(f, h, u)
  /\ Cur(h, addr) = ZeroContent /\ h.file[addr] = ZeroContent
  /\ \A l \in Locations \ {0, addr} : Cur(h, l) = Cur(f, l)
  /\ \A l \in Locations \ {addr} : h.file[l] = f.file[l]

LEMMA GivenTook ==
  ASSUME NEW f, Good(f), NEW k, NEW s, NEW addr, Prepared(f, k, s, addr),
         NEW counts \in [Types -> Int],
         NEW h, h = SettleBlock(Given(k, s, addr, counts), s)
  PROVE  TookAt(f, counts, s, addr, h)
<1>1. /\ CoreBut(k, s, addr) /\ k.pins[k.superslot] >= 1 /\ k \in FsType
      /\ s \in Slots /\ s # k.superslot /\ addr \in Locations /\ addr # 0
      /\ addr <= k.num_blocks /\ s \in k.cached \ k.clone
  BY FieldTypes DEF Prepared, CoreBut
<1>2. /\ Core(h) /\ GivenTo(k, s, addr, h) /\ GivenFile(k, addr, counts, h)
      /\ Sound(h)
  BY <1>1, GivenCore, GivenSound
<1>3. /\ h.loc = [k.loc EXCEPT ![s] = addr]
      /\ h.buf = [k.buf EXCEPT ![s] = ZeroContent]
      /\ h.pins = [k.pins EXCEPT ![s] = 0]
      /\ h.hashed = k.hashed \cup {s} /\ h.dirty = k.dirty \cup {s}
      /\ h.cached = k.cached /\ h.clone = k.clone
      /\ h.superslot = k.superslot /\ h.open = k.open
      /\ h.total_pins = k.total_pins /\ h.fault = k.fault
  BY <1>2 DEF GivenTo, GivenFile
<1>4. h.pins = f.pins
  BY <1>1, <1>3, FieldTypes DEF Prepared
<1>5. /\ h.loc[s] = addr /\ h.buf[s] = ZeroContent
      /\ \A u \in Slots \ {s} : h.loc[u] = k.loc[u] /\ h.buf[u] = k.buf[u]
  BY <1>1, <1>3, FieldTypes
<1>6. Good(h)
  BY <1>2, <1>3, <1>4 DEF Good, Tidy, Prepared
<1>7. Coherent(h)
  BY <1>6, GoodType
<1>8. Cur(h, addr) = ZeroContent
  <2>1. s \in h.hashed
    BY <1>3
  <2>2. Cur(h, h.loc[s]) = h.buf[s]
    BY <1>7, <2>1, CurHit
  <2> QED
    BY <1>5, <2>2
<1>9. ASSUME NEW l \in Locations \ {0, addr}
      PROVE  Cur(h, l) = Cur(f, l)
  <2>1. At(h, l) = At(k, l)
    BY <1>1, <1>3, <1>5, FieldTypes DEF At, Prepared
  <2>2. At(k, l) \subseteq Slots \ {s}
    BY <1>1, FieldTypes DEF At, Prepared
  <2>3. h.file[l] = k.file[l]
    BY <1>2 DEF GivenFile
  <2>4. Cur(h, l) = Cur(k, l)
    BY <1>5, <2>1, <2>2, <2>3 DEF Cur
  <2> QED
    BY <2>4 DEF Prepared
<1>10. Reusable(h) = Reusable(f) \ {s}
  <2>1. Reusable(h) = Reusable(k) \ {s}
    BY <1>1, <1>3, <1>4 DEF Reusable, Prepared
  <2> QED
    BY <2>1 DEF Prepared
<1>11. \A u \in Slots \ (Reusable(f) \cup {s}) : Undisturbed(f, h, u)
  BY <1>3, <1>5 DEF Undisturbed, Prepared
<1>12. \A l \in Locations \ {addr} : h.file[l] = f.file[l]
  BY <1>2 DEF GivenFile, Prepared
<1>13. s \in h.hashed \ {h.superslot} /\ s \in h.dirty
  BY <1>1, <1>3
<1>14. /\ h.num_blocks = IF addr = f.num_blocks THEN addr + 1 ELSE f.num_blocks
       /\ h.super.bitmaps = f.super.bitmaps /\ h.super.counts = counts
       /\ h.file[addr] = ZeroContent
  BY <1>2 DEF GivenTo, GivenFile, Prepared
<1>15. /\ h.total_pins = f.total_pins /\ f.pins[s] = 0 /\ h.superslot = f.superslot
       /\ h.open = f.open /\ f.cached \subseteq h.cached
       /\ addr \in Locations \ {0} /\ addr <= f.num_blocks
       /\ s \in Reusable(f) \/ (s \in f.hashed /\ f.loc[s] = addr)
  BY <1>1, <1>3 DEF Prepared
<1> QED
  BY <1>4, <1>5, <1>6, <1>8, <1>9, <1>10, <1>11, <1>12, <1>13, <1>14, <1>15
  DEF TookAt

(* allocate_block up to its final bitmap_set, when there are slots to      *)
(* reuse: the location was not marked, or is new at the end of the file.   *)
TookFresh(f, type, t) ==
  /\ TookAt(f, TakeCounts(f, type, t.addr), t.slot, t.addr, t.fs)
  /\ t.slot \in Slots /\ t.slot # NULL
  /\ t.addr # f.num_blocks => /\ t.addr \notin Marks(f)
                              /\ f.super.bitmaps[Group(t.addr)] # 0

LEMMA TakeBlockTakesFresh ==
  ASSUME NEW f, Good(f), Reusable(f) # {}, PinnedMarked(f),
         NEW type \in Types \ {"B_SUPER"}, NEW target \in Locations,
         BitmapSearch(f, target).addr # 0 \/ f.num_blocks < MaxBlocks,
         NEW t, t = TakeBlock(f, type, target)
  PROVE  TookFresh(f, type, t)
<1> DEFINE found == BitmapSearch(f, target)
           reuse == found.addr # 0
           r == IF reuse THEN GetBlock(found.fs, found.addr)
                         ELSE FindFreeSlot(found.fs)
           k == r.fs
           s == r.slot
           addr == IF reuse THEN found.addr ELSE k.num_blocks
           counts == [u \in Types |->
              k.super.counts[u] + (IF u = type THEN 1 ELSE 0)
                - (IF reuse /\ u = "B_FREE" THEN 1 ELSE 0)]
<1>1. Roomed(f) /\ f \in FsType /\ f.num_blocks \in 1 .. MaxBlocks
  BY GoodType DEF Roomed, Reusable, Good, Tidy
<1>2. Sought(f, target, found)
  BY <1>1, BitmapSearchReads
<1>3. /\ Read(f, found.fs) /\ Good(found.fs) /\ Roomed(found.fs)
      /\ found.fs.num_blocks = f.num_blocks
  <2>1. Read(f, found.fs)
    BY <1>2 DEF Sought
  <2> HIDE DEF found
  <2> QED
    BY <1>1, <2>1 DEF Read, Calm, Roomed, KeepsSuper
<1>4. /\ Prepared(f, k, s, addr) /\ s # NULL
      /\ reuse <=> addr # f.num_blocks
      /\ reuse => addr = found.addr
  <2>1. CASE reuse
    <3>1. /\ found.addr \in Locations \ Marks(f) /\ found.addr < f.num_blocks
          /\ found.addr # 0
      BY <1>2, <2>1 DEF Sought
    <3>2. GotAt(found.fs, r, found.addr)
      BY <1>3, <2>1, <3>1, GetBlockReads
    <3>3. addr = found.addr
      BY <2>1
    <3> HIDE DEF r, found, addr
    <3>4. Prepared(f, k, s, addr)
      BY <1>3, <3>1, <3>2, <3>3, ReusePrepares
    <3>5. s # NULL
      BY <3>2 DEF GotAt
    <3> QED
      BY <1>1, <2>1, <3>1, <3>3, <3>4, <3>5 DEF Locations
  <2>2. CASE ~reuse
    <3>1. r = FindFreeSlot(found.fs) /\ f.num_blocks < MaxBlocks /\ addr = k.num_blocks
      BY <2>2
    <3> HIDE DEF r, found, addr
    <3>2. s # NULL /\ k.num_blocks = f.num_blocks /\ Prepared(f, k, s, f.num_blocks)
      BY <1>3, <3>1, ExtendPrepares
    <3> QED
      BY <2>2, <3>1, <3>2
  <2> QED
    BY <2>1, <2>2
<1>5. k \in FsType /\ k.super = f.super /\ s \in Slots
  <2> HIDE DEF r, addr
  <2> QED
    BY <1>4, FieldTypes DEF Prepared, CoreBut
<1>6. counts \in [Types -> Int]
  <2>1. k.super.counts \in [Types -> Int]
    BY <1>5, FieldTypes
  <2> QED
    BY <2>1
<1>7. t.slot = s /\ t.addr = addr
  BY <1>4 DEF TakeBlock
<1>8. t.fs = SettleBlock(Given(k, s, addr, counts), s)
  <2> DEFINE g == [k EXCEPT
                     !.num_blocks = IF reuse THEN @ ELSE @ + 1,
                     !.hashed = k.hashed \ {s},
                     !.dirty = k.dirty \cup {s},
                     !.loc = [k.loc EXCEPT ![s] = addr],
                     !.buf = [k.buf EXCEPT ![s] = ZeroContent],
                     !.pins = [k.pins EXCEPT ![s] = 0],
                     !.superslot = IF type = "B_SUPER" THEN s ELSE @,
                     !.super.counts = [u \in Types |->
                        @[u] + (IF u = type THEN 1 ELSE 0)
                             - (IF reuse /\ u = "B_FREE" THEN 1 ELSE 0)]]
  <2>1. t.fs = SettleBlock(g, s)
    BY <1>4 DEF TakeBlock
  <2>2. /\ k \in FsType
        /\ reuse => addr # k.num_blocks
        /\ ~reuse => addr = k.num_blocks
    BY <1>4, <1>5 DEF Prepared
  <2> HIDE DEF r, addr, found
  <2>3. g = Given(k, s, addr, counts)
    BY <2>2, ZenonT(60) DEF Given, FsType, Super
  <2> QED
    BY <2>1, <2>3
<1>9. counts = TakeCounts(f, type, addr)
  BY <1>4, <1>5 DEF TakeCounts
<1> HIDE DEF r, addr, counts, found
<1>10. TookAt(f, counts, s, addr, t.fs)
  BY <1>4, <1>6, <1>8, GivenTook
<1>11. reuse => addr \notin Marks(f) /\ f.super.bitmaps[Group(addr)] # 0
  BY <1>2, <1>4 DEF Sought
<1> QED
  BY <1>4, <1>5, <1>7, <1>9, <1>10, <1>11 DEF TookFresh

-----------------------------------------------------------------------------
(* Setting a bit.                                                          *)

(* Each location has a bit of its own.                                     *)
LEMMA OwnBit ==
  ASSUME NEW l \in Locations, NEW m \in Locations,
         Group(l) = Group(m), Offset(l) = Offset(m)
  PROVE  l = m
<1>1. \A n \in Nat, b \in Nat \ {0} : n = b * (n \div b) + (n % b)
  OBVIOUS
<1>2. l \in Nat /\ m \in Nat /\ BitmapSize \in Nat \ {0}
  BY BoundsType DEF Locations
<1>3. l = BitmapSize * (l \div BitmapSize) + (l % BitmapSize)
  BY <1>1, <1>2, Zenon
<1>4. m = BitmapSize * (m \div BitmapSize) + (m % BitmapSize)
  BY <1>1, <1>2, Zenon
<1>5. l \div BitmapSize = m \div BitmapSize /\ l % BitmapSize = m % BitmapSize
  BY DEF Group, Offset
<1> QED
  BY <1>3, <1>4, <1>5, Zenon

(* Slot u holds the same block in g as in f, and a clone the same contents. *)
Placed(f, g, u) ==
  /\ g.loc[u] = f.loc[u]
  /\ u \in g.hashed <=> u \in f.hashed
  /\ u \in g.clone <=> u \in f.clone

Fixed(f, g, u) ==
  Placed(f, g, u) /\ (u \in f.clone => g.buf[u] = f.buf[u])

(* A change of the block at b alone, in its slot.                          *)
Altered(f, g, b) ==
  /\ Good(g) /\ KeepsSuper(f, g)
  /\ g.pins = f.pins /\ g.total_pins = f.total_pins
  /\ \A u \in Slots : f.pins[u] # 0 => Fixed(f, g, u)
  /\ Reusable(f) # {} => \A u \in Slots \ Reusable(f) : Placed(f, g, u)
  /\ \A l \in Locations \ {0, b} : Cur(g, l) = Cur(f, l)
  /\ g.file = f.file \/ \A l \in Locations \ {0} : g.file[l] = Cur(f, l)

BitAt(f, b, l, set, g) ==
  Cur(g, b).bits = IF set THEN Cur(f, b).bits \cup {Offset(l)}
                          ELSE Cur(f, b).bits \ {Offset(l)}

Flips(f, b, l, set) == (Offset(l) \in Cur(f, b).bits) # set

SameFile(f, g) == g.file = f.file

AllPlaced(f, g) == \A u \in Slots : Placed(f, g, u)

LEMMA ToggleAlters ==
  ASSUME NEW f, Good(f), NEW s \in f.hashed, NEW b \in Locations \ {0},
         f.loc[s] = b, NEW l \in Locations, NEW set \in BOOLEAN,
         Flips(f, b, l, set),
         NEW g, g = ToggleBit(f, s, l, set)
  PROVE  /\ Altered(f, g, b) /\ BitAt(f, b, l, set, g)
         /\ SameFile(f, g) /\ AllPlaced(f, g)
<1>1. f \in FsType /\ Coherent(f) /\ Sound(f) /\ ~f.fault /\ s \in Slots
  BY GoodType, FieldTypes
<1>2. Sound(g) /\ KeepsSuper(f, g) /\ Toggled(f, s, l, set, g)
  BY <1>1, ToggleBitSound, ToggleBitCore, SoundIsPinnedCore
<1>3. f.buf[s] = Cur(f, b)
  BY <1>1, CurHit
<1>4. /\ g.file = f.file /\ g.total_pins = f.total_pins /\ ~g.fault
      /\ \A u \in Slots \ {s} : g.buf[u] = f.buf[u]
  <2>1. /\ g.file = f.file /\ g.total_pins = f.total_pins
        /\ g.fault = (f.fault \/ (Offset(l) \in f.buf[s].bits) = set)
    BY <1>1 DEF ToggleBit, FsType
  <2>2. \A u \in Slots \ {s} : g.buf[u] = f.buf[u]
    BY <1>1, FieldTypes DEF ToggleBit, FsType
  <2>3. ~g.fault
    BY <1>1, <1>3, <2>1 DEF Flips
  <2> QED
    BY <2>1, <2>2, <2>3
<1>5. /\ g.hashed = f.hashed /\ g.cached = f.cached /\ g.clone = f.clone
      /\ g.loc = f.loc /\ g.pins = f.pins
  BY <1>2 DEF Toggled
<1>6. Good(g)
  BY <1>2, <1>4, <1>5 DEF Good, Tidy
<1>7. Cur(g, b) = g.buf[s]
  <2>1. Coherent(g) /\ s \in g.hashed /\ g.loc[s] = b
    BY <1>5, <1>6, GoodType
  <2>2. Cur(g, g.loc[s]) = g.buf[s]
    BY <2>1, CurHit
  <2> QED
    BY <2>1, <2>2
<1>8. BitAt(f, b, l, set, g)
  BY <1>2, <1>3, <1>7 DEF BitAt, Toggled
<1>9. ASSUME NEW m \in Locations \ {0, b}
      PROVE  Cur(g, m) = Cur(f, m)
  <2>1. At(g, m) = At(f, m)
    BY <1>5 DEF At
  <2>2. At(f, m) \subseteq Slots \ {s}
    BY <1>1, FieldTypes DEF At
  <2> QED
    BY <1>4, <2>1, <2>2 DEF Cur
<1>10. s \notin f.clone
  BY <1>1 DEF Coherent
<1>11. \A u \in Slots : Fixed(f, g, u)
  BY <1>4, <1>5, <1>10 DEF Fixed, Placed
<1> QED
  BY <1>2, <1>4, <1>5, <1>6, <1>8, <1>9, <1>11 DEF Altered, Fixed, AllPlaced, SameFile

(* Reading and then altering.                                              *)
LEMMA ReadAlters ==
  ASSUME NEW f, NEW h, NEW g, NEW b, Read(f, h), Altered(h, g, b), SameFile(h, g)
  PROVE  Altered(f, g, b)
<1>1. KeepsSuper(f, g)
  BY KeepsSuperTransitive DEF Read, Calm, Altered
<1>2. \A u \in Slots : f.pins[u] # 0 => Fixed(f, g, u)
  BY DEF Read, Calm, Altered, Undisturbed, Fixed, Placed
<1>3. Reusable(f) # {} => \A u \in Slots \ Reusable(f) : Placed(f, g, u)
  <2>1. SUFFICES ASSUME Reusable(f) # {}, NEW u \in Slots \ Reusable(f)
                 PROVE  Placed(f, g, u)
    OBVIOUS
  <2>2. Quiet(f, h)
    BY <2>1 DEF Read
  <2>3. Reusable(h) = Reusable(f) /\ Undisturbed(f, h, u)
    BY <2>1, <2>2 DEF Quiet
  <2>4. Placed(h, g, u)
    BY <2>1, <2>3 DEF Altered
  <2> QED
    BY <2>3, <2>4 DEF Undisturbed, Placed
<1> QED
  BY <1>1, <1>2, <1>3 DEF Read, Calm, Altered, SameFile

MapsApart(f) ==
  \A a, b \in Groups : f.super.bitmaps[a] # 0 /\ f.super.bitmaps[a] = f.super.bitmaps[b]
                         => a = b

(* bitmap_set in a group that has a bitmap: no error when the bit differs, *)
(* and then it is the one mark that changes.                               *)
MarkChanged(f, l, set, g) ==
  /\ Altered(f, g, f.super.bitmaps[Group(l)])
  /\ Marks(g) = IF set THEN Marks(f) \cup {l} ELSE Marks(f) \ {l}

LEMMA BitMarks ==
  ASSUME NEW f \in FsType, MapsApart(f), NEW l \in Locations,
         NEW b, b = f.super.bitmaps[Group(l)], b # 0, NEW set \in BOOLEAN,
         NEW g, Altered(f, g, b), BitAt(f, b, l, set, g)
  PROVE  MarkChanged(f, l, set, g)
<1> DEFINE map(m) == f.super.bitmaps[Group(m)]
<1>1. g.super = f.super
  BY DEF Altered, KeepsSuper
<1>2. ASSUME NEW m \in Locations
      PROVE  m \in Marks(g) <=> IF set THEN m \in Marks(f) \/ m = l
                                       ELSE m \in Marks(f) /\ m # l
  <2>1. m \in Marks(f) <=> map(m) # 0 /\ Offset(m) \in Cur(f, map(m)).bits
    BY DEF Marks
  <2>2. m \in Marks(g) <=> map(m) # 0 /\ Offset(m) \in Cur(g, map(m)).bits
    BY <1>1 DEF Marks
  <2>3. CASE Group(m) = Group(l)
    <3>1. map(m) = b /\ (Offset(m) = Offset(l) <=> m = l)
      BY <2>3, OwnBit
    <3> HIDE DEF map
    <3> QED
      BY <2>1, <2>2, <3>1 DEF BitAt
  <2>4. CASE Group(m) # Group(l)
    <3>1. map(m) # b /\ m # l
      BY <2>4, GroupType DEF MapsApart
    <3>2. map(m) \in Locations
      BY GroupType, FieldTypes
    <3>3. map(m) # 0 => Cur(g, map(m)) = Cur(f, map(m))
      BY <3>1, <3>2 DEF Altered
    <3> HIDE DEF map
    <3> QED
      BY <2>1, <2>2, <3>1, <3>3
  <2> QED
    BY <2>3, <2>4
<1>3. Marks(f) \subseteq Locations /\ Marks(g) \subseteq Locations
  BY DEF Marks
<1>4. Marks(g) = IF set THEN Marks(f) \cup {l} ELSE Marks(f) \ {l}
  BY <1>2, <1>3
<1> QED
  BY <1>4 DEF MarkChanged

LEMMA BitmapSetInMarks ==
  ASSUME NEW f, Good(f), Roomed(f), MapsApart(f), NEW l \in Locations,
         f.super.bitmaps[Group(l)] # 0,
         NEW set \in BOOLEAN, (l \in Marks(f)) # set,
         NEW g, g = BitmapSetIn(f, l, set)
  PROVE  MarkChanged(f, l, set, g)
<1> DEFINE b == f.super.bitmaps[Group(l)]
           r == GetBlock(f, b)
<1>1. f \in FsType /\ b \in Locations \ {0} /\ b < f.num_blocks
  BY GoodType, GroupType, FieldTypes DEF Coherent
<1>2. GotAt(f, r, b)
  BY <1>1, GetBlockReads
<1>3. Cur(r.fs, b) = Cur(f, b)
  BY <1>1, <1>2 DEF GotAt, Read, Calm
<1>4. g = ToggleBit(r.fs, r.slot, l, set)
  BY <1>2 DEF BitmapSetIn, GotAt
<1> HIDE DEF r
<1>5. /\ Read(f, r.fs) /\ Good(r.fs) /\ r.slot \in r.fs.hashed
      /\ r.fs.loc[r.slot] = b
  BY <1>2 DEF GotAt, Read, Calm
<1>6. Flips(r.fs, b, l, set)
  BY <1>1, <1>3 DEF Marks, Flips
<1>7. Altered(r.fs, g, b) /\ BitAt(r.fs, b, l, set, g) /\ SameFile(r.fs, g)
  BY <1>1, <1>4, <1>5, <1>6, ToggleAlters
<1>8. Altered(f, g, b)
  BY <1>5, <1>7, ReadAlters
<1>9. BitAt(f, b, l, set, g)
  BY <1>3, <1>7 DEF BitAt
<1> QED
  BY <1>1, <1>8, <1>9, BitMarks

-----------------------------------------------------------------------------
(* The books: the bitmaps against the count of free blocks.                *)

(* P are the blocks taken whose bits are still to be set.                  *)
Covered(f, P) ==
  \A l \in (0 .. f.num_blocks - 1) \ P : f.super.bitmaps[Group(l)] # 0

Unused(f, P) == (0 .. f.num_blocks - 1) \ (Marks(f) \cup P)

Owing(f, P) == f.super.counts["B_FREE"] = Cardinality(Unused(f, P))

Books(f, P) ==
  /\ MapsApart(f) /\ Covered(f, P) /\ Owing(f, P)
  /\ Maps(f) \subseteq Marks(f)
  /\ Marks(f) \subseteq 0 .. f.num_blocks - 1
  /\ P \subseteq 0 .. f.num_blocks - 1

(* A cache with n slots to reuse.                                          *)
Spare(f, n) == Cardinality(Reusable(f)) >= n

LEMMA ReusableFinite ==
  ASSUME NEW f
  PROVE  IsFiniteSet(Reusable(f)) /\ Cardinality(Reusable(f)) \in Nat
<1>1. Reusable(f) \in SUBSET Slots
  BY DEF Reusable
<1>2. IsFiniteSet(Reusable(f))
  BY <1>1, SlotsAssumption, FS_Subset
<1> QED
  BY <1>2, FS_CardinalityType

LEMMA SpareSome ==
  ASSUME NEW f, Spare(f, 1)
  PROVE  Reusable(f) # {}
<1>1. Cardinality({}) = 0
  BY FS_EmptySet
<1> QED
  BY <1>1 DEF Spare

LEMMA SpareLess ==
  ASSUME NEW f, NEW n \in Nat, Spare(f, n + 1), NEW s,
         NEW h, Reusable(h) = Reusable(f) \ {s}
  PROVE  Spare(h, n)
<1>1. IsFiniteSet(Reusable(f)) /\ Cardinality(Reusable(f)) \in Nat
  BY ReusableFinite
<1>2. CASE s \in Reusable(f)
  <2>1. Cardinality(Reusable(h)) = Cardinality(Reusable(f)) - 1
    BY <1>1, <1>2, FS_RemoveElement
  <2> QED
    BY <1>1, <2>1 DEF Spare
<1>3. CASE s \notin Reusable(f)
  <2>1. Reusable(h) = Reusable(f)
    BY <1>3
  <2> QED
    BY <1>1, <2>1 DEF Spare
<1> QED
  BY <1>2, <1>3

(* Taking a block leaves the marks as they were and its own owed.          *)
LEMMA TookMarks ==
  ASSUME NEW f, Good(f), NEW P, Books(f, P), NEW counts, NEW s, NEW addr, NEW h,
         TookAt(f, counts, s, addr, h), addr \notin Marks(f)
  PROVE  Marks(h) = Marks(f)
<1>1. f \in FsType
  BY GoodType
<1>2. h.super.bitmaps = f.super.bitmaps
  BY DEF TookAt
<1>3. ASSUME NEW m \in Locations
      PROVE  m \in Marks(h) <=> m \in Marks(f)
  <2> DEFINE b == f.super.bitmaps[Group(m)]
  <2>1. Group(m) \in Groups /\ b \in Locations
    BY <1>1, GroupType, FieldTypes
  <2>2. b # 0 => b \in Marks(f)
    BY <2>1 DEF Books, Maps
  <2>3. b # 0 => Cur(h, b) = Cur(f, b)
    BY <2>1, <2>2 DEF TookAt
  <2> QED
    BY <1>2, <2>3 DEF Marks
<1> QED
  BY <1>3 DEF Marks

LEMMA TookOwing ==
  ASSUME NEW f, Good(f), NEW P, Books(f, P),
         NEW type \in Types \ {"B_FREE"}, NEW s, NEW addr, NEW h,
         TookAt(f, TakeCounts(f, type, addr), s, addr, h),
         addr \notin Marks(f), addr \notin P
  PROVE  Owing(h, P \cup {addr})
<1> DEFINE n == f.num_blocks
           F == Unused(f, P)
           free(g) == g.super.counts["B_FREE"]
<1>1. /\ Marks(h) = Marks(f) /\ n \in Nat /\ addr \in Nat /\ addr <= n
      /\ h.num_blocks = IF addr = n THEN addr + 1 ELSE n
      /\ f.super.counts \in [Types -> Int]
  <2>1. f \in FsType /\ n \in Nat
    BY GoodType
  <2>2. f.super.counts \in [Types -> Int]
    BY <2>1, FieldTypes
  <2>3. Marks(h) = Marks(f)
    BY TookMarks
  <2> QED
    BY <2>1, <2>2, <2>3 DEF TookAt, Locations
<1>2. free(h) = free(f) - (IF addr # n THEN 1 ELSE 0)
  BY <1>1 DEF TookAt, TakeCounts, Types
<1>3. free(f) = Cardinality(F)
  BY DEF Books, Owing
<1>4. CASE addr = n
  <2>1. Unused(h, P \cup {addr}) = F
    BY <1>1, <1>4 DEF Unused
  <2>2. free(h) = free(f)
    BY <1>1, <1>2, <1>4 DEF Types
  <2> QED
    BY <1>3, <2>1, <2>2 DEF Owing
<1>5. CASE addr # n
  <2>1. addr \in F /\ Unused(h, P \cup {addr}) = F \ {addr}
    BY <1>1, <1>5 DEF Unused
  <2>2. IsFiniteSet(F)
    <3>1. F \in SUBSET (0 .. n - 1) /\ 0 \in Int /\ n - 1 \in Int
      BY <1>1 DEF Unused
    <3> HIDE DEF F
    <3> QED
      BY <3>1, FS_Interval, FS_Subset
  <2> HIDE DEF F
  <2>3. Cardinality(F \ {addr}) = Cardinality(F) - 1
    BY <2>1, <2>2, FS_RemoveElement
  <2> QED
    BY <1>2, <1>3, <1>5, <2>1, <2>3 DEF Owing
<1> QED
  BY <1>4, <1>5

LEMMA TookBooks ==
  ASSUME NEW f, Good(f), NEW P, Books(f, P),
         NEW type \in Types \ {"B_FREE"}, NEW s, NEW addr, NEW h,
         TookAt(f, TakeCounts(f, type, addr), s, addr, h),
         addr \notin Marks(f), addr \notin P
  PROVE  Books(h, P \cup {addr}) /\ Marks(h) = Marks(f) /\ Maps(h) = Maps(f)
<1>1. Marks(h) = Marks(f) /\ Owing(h, P \cup {addr})
  BY TookMarks, TookOwing
<1>2. /\ f.num_blocks \in Nat /\ addr \in Nat /\ addr <= f.num_blocks
      /\ h.num_blocks = IF addr = f.num_blocks THEN addr + 1 ELSE f.num_blocks
      /\ h.super.bitmaps = f.super.bitmaps
  BY GoodType DEF TookAt, Locations
<1>3. Maps(h) = Maps(f)
  BY <1>2 DEF Maps
<1>4. MapsApart(h) /\ Covered(h, P \cup {addr})
  BY <1>2 DEF Books, MapsApart, Covered
<1> QED
  BY <1>1, <1>2, <1>3, <1>4 DEF Books

(* What is pinned stays in its slot, and is still marked.                  *)
LEMMA TookPinned ==
  ASSUME NEW f, Good(f), PinnedMarked(f), NEW counts, NEW s, NEW addr, NEW h,
         TookAt(f, counts, s, addr, h), Marks(h) = Marks(f)
  PROVE  /\ \A u \in Slots : f.pins[u] # 0 => Undisturbed(f, h, u)
         /\ PinnedMarked(h)
<1>1. ASSUME NEW u \in Slots, f.pins[u] # 0
      PROVE  Undisturbed(f, h, u)
  BY <1>1 DEF TookAt, Reusable, Good, Tidy
<1>2. h.hashed \subseteq Slots /\ h.pins = f.pins
  BY GoodType, FieldTypes DEF TookAt
<1> QED
  BY <1>1, <1>2 DEF PinnedMarked, Undisturbed

(* The location after the first of a group is of the same group.           *)
LEMMA NextInGroup ==
  ASSUME NEW l \in Locations, l # 0, Group(l - 1) # Group(l)
  PROVE  Group(l + 1) = Group(l)
<1> DEFINE q == l \div BitmapSize
           r == l % BitmapSize
<1>1. l \in Nat \ {0} /\ BitmapSize \in Nat \ {0} /\ BitmapSize >= 3
  BY BoundsType DEF Locations
<1>2. \A n \in Nat, b \in Nat \ {0} :
        /\ n = b * (n \div b) + (n % b)
        /\ n \div b \in Nat /\ n % b \in 0 .. b - 1
  OBVIOUS
<1>3. q \in Nat /\ r \in 0 .. BitmapSize - 1 /\ l = BitmapSize * q + r
  BY <1>1, <1>2
<1>4. \A b \in Nat \ {0} : \A k \in Nat, j \in 0 .. b - 1 : (b * k + j) \div b = k
  OBVIOUS
<1> HIDE DEF q, r
<1>5. r = 0
  <2>1. SUFFICES ASSUME r # 0 PROVE FALSE
    OBVIOUS
  <2>2. r - 1 \in 0 .. BitmapSize - 1 /\ l - 1 = BitmapSize * q + (r - 1)
    BY <1>1, <1>3, <2>1 DEF Flips
  <2>3. (l - 1) \div BitmapSize = q /\ l \div BitmapSize = q
    BY <1>1, <1>3, <1>4, <2>2
  <2> QED
    BY <2>3 DEF Group
<1>6. 1 \in 0 .. BitmapSize - 1 /\ l + 1 = BitmapSize * q + 1
  BY <1>1, <1>3, <1>5
<1>7. (l + 1) \div BitmapSize = q /\ l \div BitmapSize = q
  BY <1>1, <1>3, <1>4, <1>6
<1> QED
  BY <1>7 DEF Group

(* A new bitmap block, still empty, marks nothing.                         *)
PointsTo(f, b, p, k) ==
  /\ Good(k)
  /\ k.loc = f.loc /\ k.buf = f.buf /\ k.pins = f.pins /\ k.cached = f.cached
  /\ k.dirty = f.dirty /\ k.clone = f.clone /\ k.hashed = f.hashed
  /\ k.file = f.file /\ k.num_blocks = f.num_blocks
  /\ k.superslot = f.superslot /\ k.total_pins = f.total_pins /\ k.open = f.open
  /\ k.super.counts = f.super.counts
  /\ k.super.bitmaps = [f.super.bitmaps EXCEPT ![b] = p]

LEMMA WithBitmapMarks ==
  ASSUME NEW f, Good(f), NEW b \in Groups, f.super.bitmaps[b] = 0,
         NEW p \in Locations \ {0}, p < f.num_blocks, p \notin Maps(f),
         Cur(f, p) = ZeroContent, MapsApart(f),
         NEW k, k = WithBitmap(f, b, p)
  PROVE  /\ PointsTo(f, b, p, k)
         /\ Marks(k) = Marks(f) /\ MapsApart(k) /\ Maps(k) = Maps(f) \cup {p}
<1>1. f \in FsType /\ Sound(f) /\ f.super.bitmaps \in [Groups -> Locations]
  BY GoodType, FieldTypes
<1>2. Sound(k) /\ k.pins = f.pins /\ k.cached = f.cached
  BY <1>1, NewBitmapSound, NewBitmapCore, SoundIsPinnedCore
<1>3. /\ k.loc = f.loc /\ k.buf = f.buf /\ k.dirty = f.dirty
      /\ k.clone = f.clone /\ k.hashed = f.hashed
      /\ k.file = f.file /\ k.num_blocks = f.num_blocks
      /\ k.superslot = f.superslot /\ k.total_pins = f.total_pins
      /\ k.open = f.open /\ k.fault = f.fault
  BY <1>1 DEF WithBitmap, FsType
<1>4. /\ k.super.counts = f.super.counts
      /\ k.super.bitmaps = [f.super.bitmaps EXCEPT ![b] = p]
  BY <1>1 DEF WithBitmap, FsType, Super
<1>5. Good(k)
  BY <1>2, <1>3 DEF Good, Tidy
<1>6. \A l : Cur(k, l) = Cur(f, l)
  BY <1>3 DEF Cur, At
<1>7. ASSUME NEW m \in Locations
      PROVE  m \in Marks(k) <=> m \in Marks(f)
  <2>1. Group(m) \in Groups
    BY GroupType
  <2>2. CASE Group(m) = b
    <3>1. k.super.bitmaps[Group(m)] = p /\ f.super.bitmaps[Group(m)] = 0
      BY <1>1, <1>4, <2>1, <2>2
    <3>2. Cur(k, p).bits = {}
      BY <1>6 DEF ZeroContent
    <3> QED
      BY <3>1, <3>2 DEF Marks
  <2>3. CASE Group(m) # b
    <3>1. k.super.bitmaps[Group(m)] = f.super.bitmaps[Group(m)]
      BY <1>1, <1>4, <2>1, <2>3
    <3> QED
      BY <1>6, <3>1 DEF Marks
  <2> QED
    BY <2>2, <2>3
<1>8. Marks(k) = Marks(f)
  BY <1>7 DEF Marks
<1>9. Maps(k) = Maps(f) \cup {p}
  BY <1>1, <1>4 DEF Maps
<1>10. MapsApart(k)
  BY <1>1, <1>4 DEF MapsApart, Maps
<1> QED
  BY <1>2, <1>3, <1>4, <1>5, <1>8, <1>9, <1>10 DEF PointsTo

LEMMA DirtyGood ==
  ASSUME NEW f, Good(f), NEW s \in f.hashed,
         NEW g, g = [f EXCEPT !.dirty = f.dirty \cup {s}]
  PROVE  /\ Good(g) /\ KeepsSuper(f, g) /\ Marks(g) = Marks(f)
         /\ g.pins = f.pins /\ g.total_pins = f.total_pins /\ g.file = f.file
         /\ g.loc = f.loc /\ g.buf = f.buf /\ g.hashed = f.hashed
         /\ g.clone = f.clone /\ g.cached = f.cached
<1>1. Sound(f) /\ f \in FsType
  BY GoodType
<1>2. Sound(g) /\ KeepsSuper(f, g)
  BY <1>1, DirtySound
<1>3. /\ g.pins = f.pins /\ g.total_pins = f.total_pins /\ g.file = f.file
      /\ g.loc = f.loc /\ g.buf = f.buf /\ g.hashed = f.hashed
      /\ g.clone = f.clone /\ g.cached = f.cached /\ g.fault = f.fault
      /\ g.super = f.super
  BY <1>1 DEF FsType
<1>4. Good(g)
  BY <1>2, <1>3 DEF Good, Tidy
<1>5. Marks(g) = Marks(f)
  BY <1>3 DEF Marks, Cur, At
<1> QED
  BY <1>2, <1>3, <1>4, <1>5

(* What bitmap_set does for a block at a that has been taken into slot s:  *)
(* its bit is set, perhaps in a new bitmap block with its own bit set, and *)
(* the other blocks in use keep their contents.                            *)
NewMaps(f, g) == Maps(g) \ Maps(f)

InUse(f, a) == (Marks(f) \cup {a}) \ ({0} \cup Maps(f))

FileStep(f, L, g) ==
  (\A l \in L : g.file[l] = f.file[l]) \/ (\A l \in L : g.file[l] = Cur(f, l))

SetDone(f, a, s, g) ==
  /\ Good(g) /\ g.pins = f.pins /\ g.total_pins = f.total_pins
  /\ g.superslot = f.superslot /\ g.open = f.open /\ f.cached \subseteq g.cached
  /\ f.num_blocks <= g.num_blocks
  /\ \A u \in Slots : f.pins[u] # 0 => Fixed(f, g, u)
  /\ Placed(f, g, s)
  /\ Books(g, {})
  /\ Marks(g) = Marks(f) \cup {a} \cup NewMaps(f, g)
  /\ Maps(f) \subseteq Maps(g) /\ NewMaps(f, g) \cap (Marks(f) \cup {a}) = {}
  /\ \A t \in ClientTypes : g.super.counts[t] = f.super.counts[t]
  /\ \A l \in InUse(f, a) : Cur(g, l) = Cur(f, l)
  /\ FileStep(f, InUse(f, a), g)

(* The steps of bitmap_set that make a bitmap block at p, in slot z.       *)
Making(f, a, p, z, h, k, m, d, g) ==
  /\ TookAt(f, TakeCounts(f, "B_BITMAP", p), z, p, h)
  /\ PointsTo(h, Group(a), p, k)
  /\ MarkChanged(k, p, TRUE, m)
  /\ Good(d) /\ KeepsSuper(m, d) /\ Marks(d) = Marks(m)
  /\ d.pins = m.pins /\ d.total_pins = m.total_pins /\ d.file = m.file
  /\ d.loc = m.loc /\ d.buf = m.buf /\ d.hashed = m.hashed
  /\ d.clone = m.clone /\ d.cached = m.cached
  /\ MarkChanged(d, a, TRUE, g) /\ SameFile(d, g)
  /\ AllPlaced(d, g)
  /\ Reusable(k) = Reusable(h) /\ Reusable(k) # {}
  /\ Marks(k) = Marks(f) /\ MapsApart(k) /\ Maps(k) = Maps(f) \cup {p}
  /\ p \in Locations \ {0} /\ p # a /\ p \notin Marks(f)
  /\ p < h.num_blocks /\ f.num_blocks <= h.num_blocks
  /\ k.super.bitmaps[Group(p)] \in Maps(k)
  /\ Books(h, {a, p})

(* A block that has just been taken for a location beyond the bitmaps.     *)
Newest(f, a, s) ==
  /\ Good(f) /\ PinnedMarked(f) /\ Spare(f, 2)
  /\ a \in Locations \ {0} /\ a = f.num_blocks - 1 /\ f.num_blocks < MaxBlocks
  /\ Books(f, {a}) /\ a \notin Marks(f) /\ f.super.bitmaps[Group(a)] = 0
  /\ s \in f.hashed /\ s \in f.dirty /\ f.loc[s] = a

LEMMA BitmapMaking ==
  ASSUME NEW f, NEW a, NEW s, Newest(f, a, s),
         NEW g, g = BitmapSet(f, a, TRUE)
  PROVE  \E p, z, h, k, m, d : Making(f, a, p, z, h, k, m, d, g)
<1> DEFINE t == TakeBlock(f, "B_BITMAP", 0)
           p == t.addr
           z == t.slot
           h == t.fs
           k == WithBitmap(h, Group(a), p)
           m == BitmapSetIn(k, p, TRUE)
           d == [m EXCEPT !.dirty = m.dirty \cup {m.superslot}]
<1>1. /\ Good(f) /\ PinnedMarked(f) /\ Books(f, {a}) /\ a \notin Marks(f)
      /\ a \in Locations /\ a = f.num_blocks - 1 /\ f.num_blocks < MaxBlocks
      /\ f.super.bitmaps[Group(a)] = 0 /\ f.num_blocks \in Nat /\ a \in Nat \ {0}
      /\ Group(a) \in Groups /\ f \in FsType
      /\ f.super.bitmaps \in [Groups -> Locations]
  BY GoodType, GroupType, FieldTypes DEF Newest, Locations
<1>2. Reusable(f) # {}
  BY ReusableFinite, SpareSome DEF Newest, Spare
<1>3. TookFresh(f, "B_BITMAP", t)
  <2>1. "B_BITMAP" \in Types \ {"B_SUPER"} /\ 0 \in Locations
    BY BoundsType DEF Types, Locations
  <2> QED
    BY <1>1, <1>2, <2>1, TakeBlockTakesFresh
<1>4. g = ToggleBit(d, z, a, TRUE)
  <2>1. t.slot # NULL
    BY <1>3 DEF TookFresh
  <2> QED
    BY <1>1, <2>1 DEF BitmapSet, WithBitmap
<1> HIDE DEF t
<1>5. /\ TookAt(f, TakeCounts(f, "B_BITMAP", p), z, p, h) /\ z \in Slots
      /\ p # f.num_blocks => /\ p \notin Marks(f)
                             /\ f.super.bitmaps[Group(p)] # 0
  BY <1>3 DEF TookFresh
<1> HIDE DEF p, z, h
<1>6. /\ Good(h) /\ z \in h.hashed /\ h.loc[z] = p /\ p \in Locations \ {0}
      /\ p <= f.num_blocks /\ h.super.bitmaps = f.super.bitmaps
      /\ h.num_blocks = IF p = f.num_blocks THEN p + 1 ELSE f.num_blocks
      /\ Cur(h, p) = ZeroContent /\ p \in Nat
      /\ Reusable(h) = Reusable(f) \ {z}
  BY <1>5 DEF TookAt, Locations
<1>7. p # a /\ p \notin Marks(f)
  BY <1>1, <1>5 DEF Books
<1>8. p < h.num_blocks /\ f.num_blocks <= h.num_blocks
  BY <1>1, <1>6
<1>9. Books(h, {a, p}) /\ Marks(h) = Marks(f) /\ Maps(h) = Maps(f)
  <2>1. {a} \cup {p} = {a, p} /\ p \notin {a}
    BY <1>7
  <2>2. "B_BITMAP" \in Types \ {"B_FREE"}
    BY DEF Types
  <2>3. /\ Books(h, {a} \cup {p}) /\ Marks(h) = Marks(f)
        /\ Maps(h) = Maps(f)
    <3>1. Good(f) /\ Books(f, {a})
      BY <1>1
    <3>2. Books(h, {a} \cup {p})
      BY <1>5, <1>7, <2>1, <2>2, <3>1, TookBooks
    <3>3. Marks(h) = Marks(f)
      BY <1>5, <1>7, <3>1, TookMarks
    <3>4. Maps(h) = Maps(f)
      BY <1>6 DEF Maps
    <3> QED
      BY <3>2, <3>3, <3>4
  <2> QED
    BY <2>1, <2>3
<1>10. /\ PointsTo(h, Group(a), p, k)
       /\ Marks(k) = Marks(f) /\ MapsApart(k) /\ Maps(k) = Maps(f) \cup {p}
  <2>1. p \notin Maps(h) /\ MapsApart(h) /\ h.super.bitmaps[Group(a)] = 0
    BY <1>1, <1>6, <1>7, <1>9 DEF Books
  <2> HIDE DEF k
  <2>2. k = WithBitmap(h, Group(a), p)
    BY DEF k
  <2> QED
    BY <1>1, <1>6, <1>8, <1>9, <2>1, <2>2, WithBitmapMarks
<1> HIDE DEF k
<1>11. /\ Good(k) /\ k.super.bitmaps = [f.super.bitmaps EXCEPT ![Group(a)] = p]
       /\ Reusable(k) = Reusable(h) /\ z \in k.hashed /\ k.loc[z] = p
  BY <1>6, <1>10 DEF PointsTo, Reusable
<1>12. Reusable(k) # {} /\ Roomed(k)
  <2>1. 1 + 1 = 2 /\ 1 \in Nat
    OBVIOUS
  <2>2. Spare(h, 1)
    BY <1>6, <2>1, SpareLess DEF Newest
  <2>3. Reusable(k) # {}
    BY <1>11, <2>2, SpareSome
  <2> QED
    BY <1>11, <2>3 DEF Roomed, Reusable, Good, Tidy
<1>13. k.super.bitmaps[Group(p)] # 0 /\ Group(p) \in Groups
  <2>1. Group(p) \in Groups
    BY <1>6, GroupType
  <2>2. CASE p # f.num_blocks
    BY <1>1, <1>5, <1>6, <1>11, <2>1, <2>2
  <2>3. CASE p = f.num_blocks
    <3>1. a - 1 \in (0 .. f.num_blocks - 1) \ {a}
      BY <1>1
    <3>2. f.super.bitmaps[Group(a - 1)] # 0
      BY <1>1, <3>1 DEF Books, Covered
    <3>3. Group(a - 1) # Group(a) /\ p = a + 1
      BY <1>1, <2>3, <3>2
    <3>4. Group(p) = Group(a)
      BY <1>1, <3>3, NextInGroup
    <3> QED
      BY <1>1, <1>6, <1>11, <2>1, <3>4
  <2> QED
    BY <2>2, <2>3, <2>1
<1>14. k.super.bitmaps[Group(p)] \in Maps(k)
  BY <1>13 DEF Maps
<1>15. MarkChanged(k, p, TRUE, m)
  <2> HIDE DEF m
  <2>1. m = BitmapSetIn(k, p, TRUE) /\ (p \in Marks(k)) # TRUE
    BY <1>7, <1>10 DEF m
  <2> QED
    BY <1>6, <1>10, <1>11, <1>12, <1>13, <2>1, BitmapSetInMarks
<1> HIDE DEF m
<1>16. /\ Good(m) /\ m.superslot \in m.hashed /\ KeepsSuper(k, m)
       /\ Placed(k, m, z) /\ Marks(m) = Marks(f) \cup {p}
  <2>1. Altered(k, m, k.super.bitmaps[Group(p)])
        /\ Marks(m) = Marks(f) \cup {p}
    BY <1>10, <1>15 DEF MarkChanged
  <2>2. z \notin Reusable(k)
    BY <1>6, <1>11
  <2> QED
    BY <1>5, <1>12, <2>1, <2>2, GoodType DEF Altered
<1>17. /\ Good(d) /\ KeepsSuper(m, d) /\ Marks(d) = Marks(m)
       /\ d.pins = m.pins /\ d.total_pins = m.total_pins /\ d.file = m.file
       /\ d.loc = m.loc /\ d.buf = m.buf /\ d.hashed = m.hashed
       /\ d.clone = m.clone /\ d.cached = m.cached
  BY <1>16, DirtyGood
<1> HIDE DEF d
<1>18. /\ z \in d.hashed /\ d.loc[z] = p
       /\ d.super.bitmaps = k.super.bitmaps
       /\ d.super.bitmaps[Group(a)] = p
  BY <1>1, <1>11, <1>16, <1>17 DEF Placed, KeepsSuper
<1>19. Flips(d, p, a, TRUE)
  BY <1>1, <1>6, <1>7, <1>16, <1>17, <1>18 DEF Marks, Flips
<1>20. /\ Altered(d, g, p) /\ BitAt(d, p, a, TRUE, g)
       /\ SameFile(d, g) /\ AllPlaced(d, g)
  <2>1. /\ a \in Locations /\ p \in Locations \ {0} /\ Good(d)
        /\ z \in d.hashed /\ d.loc[z] = p
    BY <1>1, <1>6, <1>17, <1>18
  <2>2. Altered(d, g, p)
    BY <1>4, <1>19, <2>1, ToggleAlters
  <2>3. BitAt(d, p, a, TRUE, g)
    BY <1>4, <1>19, <2>1, ToggleAlters
  <2>4. SameFile(d, g)
    BY <1>4, <1>19, <2>1, ToggleAlters
  <2>5. AllPlaced(d, g)
    BY <1>4, <1>19, <2>1, ToggleAlters
  <2> QED
    BY <2>2, <2>3, <2>4, <2>5
<1>21. MarkChanged(d, a, TRUE, g)
  <2>1. MapsApart(d) /\ d \in FsType
    BY <1>10, <1>17, <1>18, GoodType DEF MapsApart
  <2> QED
    BY <1>1, <1>6, <1>18, <1>20, <2>1, BitMarks
<1>22. Making(f, a, p, z, h, k, m, d, g)
  <2> QED
    BY <1>5, <1>6, <1>7, <1>8, <1>9, <1>10, <1>11, <1>12, <1>14, <1>15, <1>17,
       <1>20, <1>21 DEF Making
<1> QED
  BY <1>22

LEMMA BitmapMade ==
  ASSUME NEW f, NEW a, NEW s, Newest(f, a, s), NEW g,
         NEW p, NEW z, NEW h, NEW k, NEW m, NEW d,
         Making(f, a, p, z, h, k, m, d, g)
  PROVE  SetDone(f, a, s, g)
<1> DEFINE b == k.super.bitmaps[Group(p)]
<1>1. /\ Good(f) /\ PinnedMarked(f) /\ Books(f, {a}) /\ a \in Locations \ {0}
      /\ s \in f.hashed /\ s \in f.dirty /\ f.loc[s] = a /\ s \in Slots
      /\ f \in FsType /\ f.super.bitmaps \in [Groups -> Locations]
      /\ f.super.bitmaps[Group(a)] = 0 /\ Group(a) \in Groups
  BY GoodType, FieldTypes, GroupType DEF Newest
<1>2. /\ TookAt(f, TakeCounts(f, "B_BITMAP", p), z, p, h)
      /\ PointsTo(h, Group(a), p, k)
      /\ Altered(k, m, b) /\ Marks(m) = Marks(f) \cup {p}
      /\ Reusable(k) = Reusable(h) /\ Reusable(k) # {}
      /\ p \in Locations \ {0} /\ p # a /\ p \notin Marks(f)
      /\ p < h.num_blocks /\ f.num_blocks <= h.num_blocks
      /\ b \in Maps(f) \cup {p} /\ MapsApart(k) /\ Maps(k) = Maps(f) \cup {p}
      /\ Books(h, {a, p})
  BY DEF Making, MarkChanged
<1>3. /\ Good(d) /\ KeepsSuper(m, d)
      /\ d.pins = m.pins /\ d.total_pins = m.total_pins /\ d.file = m.file
      /\ d.loc = m.loc /\ d.buf = m.buf /\ d.hashed = m.hashed
      /\ d.clone = m.clone /\ d.cached = m.cached
      /\ SameFile(d, g) /\ AllPlaced(d, g)
  BY DEF Making
<1>4. d.super.bitmaps[Group(a)] = p
  <2>1. k.super.bitmaps = [f.super.bitmaps EXCEPT ![Group(a)] = p]
    BY <1>2 DEF PointsTo, TookAt
  <2>2. d.super = k.super
    BY <1>2, <1>3 DEF Altered, KeepsSuper
  <2> QED
    BY <1>1, <2>1, <2>2
<1>5. Altered(d, g, p) /\ Marks(g) = Marks(f) \cup {p, a}
  <2>1. Altered(d, g, p) /\ Marks(g) = Marks(d) \cup {a} /\ Marks(d) = Marks(m)
    BY <1>4 DEF Making, MarkChanged
  <2> QED
    BY <1>2, <2>1
<1>6. /\ Good(g) /\ g.pins = f.pins /\ g.total_pins = f.total_pins
      /\ g.superslot = f.superslot /\ g.open = f.open
      /\ f.cached \subseteq g.cached
      /\ g.super = k.super /\ g.num_blocks = h.num_blocks
      /\ g.super.counts = TakeCounts(f, "B_BITMAP", p)
      /\ g.super.bitmaps = [f.super.bitmaps EXCEPT ![Group(a)] = p]
  BY <1>2, <1>3, <1>5 DEF TookAt, PointsTo, Altered, KeepsSuper
<1>7. Maps(g) = Maps(f) \cup {p}
  BY <1>2, <1>6 DEF Maps
<1>8. p \notin Maps(f)
  BY <1>1, <1>2 DEF Books
<1>9. NewMaps(f, g) = {p}
  BY <1>7, <1>8 DEF NewMaps
<1>10. ASSUME NEW u \in Slots, f.pins[u] # 0
       PROVE  Fixed(f, g, u)
  <2>1. Marks(h) = Marks(f)
    BY <1>1, <1>2, TookMarks
  <2>2. Undisturbed(f, h, u)
    BY <1>1, <1>2, <1>10, <2>1, TookPinned
  <2>3. k.pins[u] # 0 /\ d.pins[u] # 0
    BY <1>2, <1>3, <1>10 DEF TookAt, PointsTo, Altered
  <2>4. Fixed(k, m, u) /\ Fixed(d, g, u)
    BY <1>2, <1>5, <2>3 DEF Altered
  <2> QED
    BY <1>2, <1>3, <2>2, <2>4 DEF Undisturbed, PointsTo, Fixed, Placed
<1>11. Placed(f, g, s)
  <2>1. s \notin Reusable(f)
    BY <1>1, GoodType DEF Reusable, Coherent
  <2>2. s # z
    BY <1>1, <1>2, <2>1 DEF TookAt
  <2>3. Undisturbed(f, h, s) /\ s \notin Reusable(k)
    BY <1>1, <1>2, <2>1, <2>2 DEF TookAt
  <2>4. Placed(k, m, s)
    BY <1>1, <1>2, <2>3 DEF Altered
  <2>5. Placed(d, g, s)
    BY <1>1, <1>3 DEF AllPlaced
  <2> QED
    BY <1>2, <1>3, <2>3, <2>4, <2>5 DEF Undisturbed, PointsTo, Placed
<1>12. /\ h.num_blocks \in Nat /\ f.num_blocks \in Nat
       /\ a \in 0 .. h.num_blocks - 1 /\ p \in 0 .. h.num_blocks - 1
  <2>1. h.num_blocks \in Nat /\ f.num_blocks \in Nat
    BY <1>1, <1>2, GoodType DEF TookAt
  <2>2. {a, p} \subseteq 0 .. h.num_blocks - 1
    BY <1>2 DEF Books
  <2> QED
    BY <2>1, <2>2
<1>13. Books(g, {})
  <2>1. MapsApart(g)
    BY <1>2, <1>6 DEF MapsApart
  <2>2. Covered(g, {})
    <3>1. \A l \in 0 .. h.num_blocks - 1 : l # a /\ l # p => f.super.bitmaps[Group(l)] # 0
      BY <1>2 DEF Books, Covered, TookAt
    <3>2. ASSUME NEW l \in 0 .. h.num_blocks - 1 PROVE g.super.bitmaps[Group(l)] # 0
      <4>1. l \in Locations /\ Group(l) \in Groups
        <5>1. h.num_blocks \in 1 .. MaxBlocks
          BY <1>2, GoodType DEF TookAt
        <5>2. l \in Locations
          BY <5>1, BoundsType DEF Locations
        <5> QED
          BY <5>2, GroupType
      <4>2. CASE l = a
        BY <1>1, <1>2, <1>6, <4>2
      <4>3. CASE l = p
        <5>1. b \in Maps(k) /\ b # 0
          BY <1>2 DEF Maps
        <5> QED
          BY <1>6, <4>3, <5>1
      <4>4. CASE l # a /\ l # p
        BY <1>1, <1>2, <1>6, <3>1, <4>1, <4>4
      <4> QED
        BY <4>2, <4>3, <4>4
    <3> QED
      BY <1>6, <3>2 DEF Covered
  <2>3. Owing(g, {})
    <3>1. Marks(h) = Marks(f)
      BY <1>1, <1>2, TookMarks
    <3>2. Unused(g, {}) = Unused(h, {a, p})
      BY <1>5, <1>6, <3>1 DEF Unused
    <3>3. g.super.counts["B_FREE"] = h.super.counts["B_FREE"]
      BY <1>2, <1>6 DEF TookAt
    <3> QED
      BY <1>2, <3>2, <3>3 DEF Books, Owing
  <2>4. Maps(g) \subseteq Marks(g)
    BY <1>1, <1>5, <1>7 DEF Books
  <2>5. Marks(g) \subseteq 0 .. g.num_blocks - 1
    BY <1>1, <1>2, <1>5, <1>6, <1>12 DEF Books
  <2> QED
    BY <2>1, <2>2, <2>3, <2>4, <2>5 DEF Books
<1>14. \A t \in ClientTypes : g.super.counts[t] = f.super.counts[t]
  <2>1. f.super.counts \in [Types -> Int]
    BY <1>1, FieldTypes
  <2> QED
    BY <1>6, <2>1 DEF TakeCounts, ClientTypes, Types
<1>15. ASSUME NEW l \in InUse(f, a)
       PROVE  /\ Cur(g, l) = Cur(f, l)
              /\ h.file[l] = f.file[l] /\ Cur(k, l) = Cur(f, l)
  <2>1. l \in Locations \ {0, p} /\ l \notin Maps(f)
    BY <1>1, <1>2 DEF InUse, Marks
  <2>2. Cur(h, l) = Cur(f, l) /\ h.file[l] = f.file[l]
    BY <1>2, <2>1 DEF TookAt
  <2>3. Cur(k, l) = Cur(h, l)
    BY <1>2 DEF PointsTo, Cur, At
  <2>4. Cur(m, l) = Cur(k, l)
    BY <1>2, <2>1 DEF Altered
  <2>5. Cur(d, l) = Cur(m, l)
    BY <1>3 DEF Cur, At
  <2>6. Cur(g, l) = Cur(d, l)
    BY <1>5, <2>1 DEF Altered
  <2> QED
    BY <2>2, <2>3, <2>4, <2>5, <2>6
<1>16. FileStep(f, InUse(f, a), g)
  <2>1. g.file = m.file /\ k.file = h.file
    BY <1>2, <1>3 DEF SameFile, PointsTo
  <2>2. m.file = k.file \/ \A l \in Locations \ {0} : m.file[l] = Cur(k, l)
    BY <1>2 DEF Altered
  <2>3. InUse(f, a) \subseteq Locations \ {0}
    BY <1>1 DEF InUse, Marks
  <2> QED
    BY <1>15, <2>1, <2>2, <2>3 DEF FileStep
<1>17. /\ Marks(g) = Marks(f) \cup {a} \cup NewMaps(f, g)
       /\ Maps(f) \subseteq Maps(g) /\ NewMaps(f, g) \cap (Marks(f) \cup {a}) = {}
  BY <1>2, <1>5, <1>7, <1>9
<1>18. f.num_blocks <= g.num_blocks
  BY <1>2, <1>6
<1> QED
  BY <1>6, <1>10, <1>11, <1>13, <1>14, <1>15, <1>16, <1>17, <1>18 DEF SetDone

(* In a group that has a bitmap.                                           *)
LEMMA BitSet ==
  ASSUME NEW f, Good(f), Spare(f, 1), NEW a \in Locations \ {0}, Books(f, {a}),
         a \notin Marks(f), f.super.bitmaps[Group(a)] # 0,
         NEW s \in f.dirty, NEW g, g = BitmapSet(f, a, TRUE)
  PROVE  SetDone(f, a, s, g)
<1> DEFINE b == f.super.bitmaps[Group(a)]
<1>1. /\ f \in FsType /\ s \in Slots /\ s \in f.cached /\ Reusable(f) # {}
      /\ Group(a) \in Groups
  BY GoodType, FieldTypes, SpareSome, GroupType DEF Coherent
<1>2. Roomed(f)
  BY <1>1 DEF Roomed, Reusable, Good, Tidy
<1>3. MarkChanged(f, a, TRUE, g)
  <2>1. g = BitmapSetIn(f, a, TRUE) /\ MapsApart(f)
    BY DEF BitmapSet, Books
  <2>2. (a \in Marks(f)) # TRUE
    OBVIOUS
  <2> QED
    BY <1>2, <2>1, <2>2, BitmapSetInMarks
<1>4. Altered(f, g, b) /\ Marks(g) = Marks(f) \cup {a}
  BY <1>3 DEF MarkChanged
<1>5. /\ Good(g) /\ g.pins = f.pins /\ g.total_pins = f.total_pins
      /\ g.superslot = f.superslot /\ g.open = f.open
      /\ f.cached \subseteq g.cached
      /\ g.super = f.super /\ g.num_blocks = f.num_blocks
  BY <1>4 DEF Altered, KeepsSuper
<1>6. Maps(g) = Maps(f) /\ NewMaps(f, g) = {} /\ b \in Maps(f)
  BY <1>1, <1>5 DEF Maps, NewMaps
<1>7. Placed(f, g, s)
  <2>1. s \notin Reusable(f)
    BY <1>1 DEF Reusable
  <2> QED
    BY <1>1, <1>4, <2>1 DEF Altered
<1>8. Books(g, {})
  <2>1. MapsApart(g)
    BY <1>5 DEF MapsApart, Books
  <2>2. Covered(g, {})
    BY <1>5 DEF Covered, Books
  <2>3. Unused(g, {}) = Unused(f, {a})
    BY <1>4, <1>5 DEF Unused
  <2>4. Owing(g, {})
    BY <1>5, <2>3 DEF Owing, Books
  <2>5. /\ Maps(g) \subseteq Marks(g)
        /\ Marks(g) \subseteq 0 .. g.num_blocks - 1
    BY <1>4, <1>5, <1>6 DEF Books
  <2> QED
    BY <2>1, <2>2, <2>4, <2>5 DEF Books
<1>9. ASSUME NEW l \in InUse(f, a)
      PROVE  l \in Locations \ {0} /\ Cur(g, l) = Cur(f, l)
  BY <1>4, <1>6 DEF InUse, Marks, Altered
<1>10. FileStep(f, InUse(f, a), g)
  BY <1>4, <1>9 DEF FileStep, Altered
<1>11. /\ Marks(g) = Marks(f) \cup {a} \cup NewMaps(f, g)
       /\ Maps(f) \subseteq Maps(g) /\ NewMaps(f, g) \cap (Marks(f) \cup {a}) = {}
  BY <1>4, <1>6
<1>12. \A u \in Slots : f.pins[u] # 0 => Fixed(f, g, u)
  BY <1>4 DEF Altered
<1>13. f.num_blocks <= g.num_blocks
  <2>1. f.num_blocks \in 1 .. MaxBlocks
    BY GoodType
  <2>2. g.num_blocks = f.num_blocks
    BY <1>4 DEF Altered, KeepsSuper
  <2>3. f.num_blocks <= f.num_blocks
    BY <2>1, BoundsType
  <2> QED
    BY <2>2, <2>3
<1> QED
  BY <1>5, <1>7, <1>8, <1>9, <1>10, <1>11, <1>12, <1>13 DEF SetDone

-----------------------------------------------------------------------------
(* Allocating and freeing.                                                 *)

(* The blocks of the clients.                                              *)
Live(f) == Marks(f) \ ({0} \cup Maps(f))

MorePins(f, g) == g.pins = f.pins /\ g.total_pins = f.total_pins

SameFields(f, g) == g.superslot = f.superslot /\ g.open = f.open /\ f.cached \subseteq g.cached

AllFixed(f, g) == \A u \in Slots : f.pins[u] # 0 => Fixed(f, g, u)

(* Besides a, only new bitmap blocks are marked.                           *)
Marked(f, a, g) ==
  /\ Marks(g) = Marks(f) \cup {a} \cup NewMaps(f, g)
  /\ Maps(f) \subseteq Maps(g) /\ NewMaps(f, g) \cap (Marks(f) \cup {a}) = {}

KeepsLive(f, g) == \A l \in Live(f) : Cur(g, l) = Cur(f, l)

OneMore(f, type, g) ==
  \A t \in ClientTypes :
    g.super.counts[t] = f.super.counts[t] + (IF t = type THEN 1 ELSE 0)

(* allocate_block: a block that was not marked, zeroed, in a slot that was *)
(* not pinned.                                                             *)
Allocated(f, type, r) ==
  /\ r.slot \in Slots \ {f.superslot} /\ r.slot # NULL /\ f.pins[r.slot] = 0
  /\ r.slot \in r.fs.hashed /\ r.fs.loc[r.slot] = r.addr
  /\ r.addr \in Locations \ {0} /\ r.addr \notin Marks(f)
  /\ Good(r.fs) /\ MorePins(f, r.fs) /\ SameFields(f, r.fs)
  /\ AllFixed(f, r.fs)
  /\ Books(r.fs, {}) /\ Marked(f, r.addr, r.fs) /\ OneMore(f, type, r.fs)
  /\ KeepsLive(f, r.fs) /\ FileStep(f, Live(f), r.fs)
  /\ Cur(r.fs, r.addr) = ZeroContent /\ r.fs.file[r.addr] = ZeroContent

LEMMA AllocationMarks ==
  ASSUME NEW f, Good(f), Spare(f, 3), PinnedMarked(f), Books(f, {}),
         NEW type \in ClientTypes, NEW target \in Locations, RoomFor(f, target),
         NEW t, t = TakeBlock(f, type, target),
         NEW g, g = BitmapSet(t.fs, t.addr, TRUE)
  PROVE  /\ TookFresh(f, type, t) /\ t.addr \notin Marks(f)
         /\ Marks(t.fs) = Marks(f) /\ Maps(t.fs) = Maps(f)
         /\ SetDone(t.fs, t.addr, t.slot, g)
<1> DEFINE h == t.fs
           a == t.addr
           s == t.slot
<1>1. /\ f \in FsType /\ Sound(f) /\ type \in Types \ {"B_SUPER"}
      /\ type \in Types \ {"B_FREE"}
  BY GoodType DEF ClientTypes, Types
<1>2. BitmapSearch(f, target).addr # 0 \/ f.num_blocks < MaxBlocks
  BY DEF RoomFor
<1>3. Spare(f, 1) /\ Spare(f, 2)
  BY ReusableFinite DEF Spare
<1>4. TookFresh(f, type, t)
  BY <1>1, <1>2, <1>3, SpareSome, TakeBlockTakesFresh
<1>5. TookAt(f, TakeCounts(f, type, a), s, a, h) /\ s \in Slots /\ s # NULL
  BY <1>4 DEF TookFresh
<1>6. a \notin Marks(f)
  <2>1. CASE a # f.num_blocks
    BY <1>4, <2>1 DEF TookFresh
  <2>2. CASE a = f.num_blocks
    <3>1. Marks(f) \subseteq 0 .. f.num_blocks - 1 /\ f.num_blocks \in 1 .. MaxBlocks
      BY GoodType DEF Books
    <3>2. f.num_blocks \notin 0 .. f.num_blocks - 1
      BY <3>1, BoundsType
    <3> QED
      BY <2>2, <3>1, <3>2
  <2> QED
    BY <2>1, <2>2
<1>7. Books(h, {a}) /\ Marks(h) = Marks(f) /\ Maps(h) = Maps(f)
  <2>1. a \notin {} /\ {} \cup {a} = {a}
    OBVIOUS
  <2> QED
    BY <1>1, <1>5, <1>6, <2>1, TookBooks
<1>8. PinnedMarked(h)
  BY <1>5, <1>7, TookPinned
<1>9. Spare(h, 2) /\ Spare(h, 1)
  <2>1. Reusable(h) = Reusable(f) \ {s}
    BY <1>5 DEF TookAt
  <2>2. Spare(f, 2 + 1) /\ Spare(f, 1 + 1)
    BY <1>3
  <2> QED
    BY <2>1, <2>2, SpareLess
<1>10. /\ Good(h) /\ s \in h.hashed /\ s \in h.dirty /\ h.loc[s] = a
       /\ h.super.bitmaps = f.super.bitmaps /\ a \in Locations \ {0}
       /\ h.num_blocks = IF a = f.num_blocks THEN a + 1 ELSE f.num_blocks
  BY <1>5 DEF TookAt
<1>11. SetDone(h, a, s, g)
  <2>1. CASE h.super.bitmaps[Group(a)] # 0
    BY <1>6, <1>7, <1>9, <1>10, <2>1, BitSet
  <2>2. CASE h.super.bitmaps[Group(a)] = 0
    <3>1. a = f.num_blocks
      BY <1>4, <1>10, <2>2 DEF TookFresh
    <3>2. f.num_blocks + 1 < MaxBlocks
      <4>1. BitmapSearch(f, target).addr = 0
        <5>1. Took(f, target, t)
          BY <1>1, <1>2, TakeBlockTakes
        <5> QED
          BY <1>5, <1>10, <2>2, <5>1 DEF Took
      <4>2. Group(a) \in Groups
        BY <1>10, GroupType
      <4> QED
        BY <1>10, <2>2, <4>1, <4>2 DEF RoomFor
    <3>3. h.num_blocks = a + 1 /\ a \in Int
      BY <1>10, <3>1, BoundsType DEF Locations
    <3>4. a = h.num_blocks - 1 /\ h.num_blocks < MaxBlocks
      BY <3>1, <3>2, <3>3
    <3>5. Newest(h, a, s)
      BY <1>6, <1>7, <1>8, <1>9, <1>10, <2>2, <3>4 DEF Newest
    <3> QED
      BY <3>5, BitmapMaking, BitmapMade
  <2> QED
    BY <2>1, <2>2
<1> QED
  BY <1>4, <1>6, <1>7, <1>11

LEMMA AllocateBlockAllocates ==
  ASSUME NEW f, Good(f), Spare(f, 3), PinnedMarked(f), Books(f, {}),
         NEW type \in ClientTypes, NEW target \in Locations, RoomFor(f, target),
         NEW r, r = AllocateBlock(f, type, target)
  PROVE  Allocated(f, type, r)
<1> DEFINE t == TakeBlock(f, type, target)
           h == t.fs
           a == t.addr
           s == t.slot
           g == BitmapSet(h, a, TRUE)
<1>1. /\ TookFresh(f, type, t) /\ a \notin Marks(f)
      /\ Marks(h) = Marks(f) /\ Maps(h) = Maps(f)
      /\ SetDone(h, a, s, g)
  <2> HIDE DEF t
  <2> QED
    BY AllocationMarks DEF t
<1>2. TookAt(f, TakeCounts(f, type, a), s, a, h) /\ s \in Slots /\ s # NULL
  BY <1>1 DEF TookFresh
<1>3. r.slot = s /\ r.addr = a /\ r.fs = g
  BY <1>2 DEF AllocateBlock
<1> HIDE DEF t, g
<1>4. /\ s \in h.hashed \ {h.superslot} /\ h.loc[s] = a /\ f.pins[s] = 0
      /\ h.superslot = f.superslot /\ h.open = f.open /\ f.cached \subseteq h.cached
      /\ MorePins(f, h) /\ a \in Locations \ {0}
  BY <1>2 DEF TookAt, MorePins
<1>5. /\ Good(g) /\ MorePins(h, g) /\ Placed(h, g, s) /\ Books(g, {})
      /\ g.superslot = h.superslot /\ g.open = h.open /\ h.cached \subseteq g.cached
  BY <1>1 DEF SetDone, MorePins
<1>6. MorePins(f, g) /\ SameFields(f, g)
  BY <1>4, <1>5 DEF MorePins, SameFields
<1>7. s \in g.hashed /\ g.loc[s] = a /\ s # f.superslot
  BY <1>4, <1>5 DEF Placed
<1>8. AllFixed(f, g)
  <2>1. \A u \in Slots : f.pins[u] # 0 => Undisturbed(f, h, u)
    BY <1>1, <1>2, TookPinned
  <2>2. \A u \in Slots : h.pins[u] # 0 => Fixed(h, g, u)
    BY <1>1 DEF SetDone
  <2> QED
    BY <1>4, <2>1, <2>2 DEF AllFixed, MorePins, Undisturbed, Fixed, Placed
<1>9. Marked(f, a, g)
  BY <1>1 DEF SetDone, Marked, NewMaps
<1>10. OneMore(f, type, g)
  <2>1. \A u \in ClientTypes : g.super.counts[u] = h.super.counts[u]
    BY <1>1 DEF SetDone
  <2>2. h.super.counts = TakeCounts(f, type, a)
    BY <1>2 DEF TookAt
  <2>3. f.super.counts \in [Types -> Int]
    BY GoodType, FieldTypes
  <2>4. ClientTypes \subseteq Types /\ "B_FREE" \notin ClientTypes
    BY DEF ClientTypes, Types
  <2>5. ASSUME NEW u \in ClientTypes
        PROVE  g.super.counts[u] = f.super.counts[u] + (IF u = type THEN 1 ELSE 0)
    <3>1. u \in Types /\ u # "B_FREE" /\ f.super.counts[u] \in Int
      BY <2>3, <2>4
    <3>2. TakeCounts(f, type, a)[u] = f.super.counts[u] + (IF u = type THEN 1 ELSE 0) - 0
      BY <3>1 DEF TakeCounts
    <3> QED
      BY <2>1, <2>2, <3>1, <3>2
  <2> QED
    BY <2>5 DEF OneMore
<1>11. /\ \A l \in Live(f) : l \in InUse(h, a) /\ l \in Locations \ {0, a}
       /\ a \notin Maps(h)
  <2>1. Maps(f) \subseteq Marks(f)
    BY DEF Books
  <2>2. \A l \in Marks(f) : l \in Locations
    BY DEF Marks
  <2> QED
    BY <1>1, <2>1, <2>2 DEF Live, InUse
<1>12. \A l \in InUse(h, a) : Cur(g, l) = Cur(h, l)
  BY <1>1 DEF SetDone
<1>13. /\ \A l \in Locations \ {0, a} : Cur(h, l) = Cur(f, l)
       /\ \A l \in Locations \ {a} : h.file[l] = f.file[l]
       /\ Cur(h, a) = ZeroContent /\ h.file[a] = ZeroContent
  BY <1>2 DEF TookAt
<1>14. KeepsLive(f, g)
  BY <1>11, <1>12, <1>13 DEF KeepsLive
<1>15. a \in InUse(h, a)
  BY <1>4, <1>11 DEF InUse
<1>16. FileStep(h, InUse(h, a), g)
  BY <1>1 DEF SetDone
<1>17. FileStep(f, Live(f), g)
  BY <1>11, <1>13, <1>16 DEF FileStep
<1>18. Cur(g, a) = ZeroContent /\ g.file[a] = ZeroContent
  BY <1>12, <1>13, <1>15, <1>16 DEF FileStep
<1> QED
  BY <1>1, <1>2, <1>3, <1>4, <1>5, <1>6, <1>7, <1>8, <1>9, <1>10, <1>14, <1>17, <1>18
  DEF Allocated

OneLess(f, type, g) ==
  \A t \in ClientTypes :
    g.super.counts[t] = f.super.counts[t] - (IF t = type THEN 1 ELSE 0)

(* deallocate_block: the block is no longer marked, and that is all.       *)
Freed(f, type, l, g) ==
  /\ Good(g) /\ MorePins(f, g) /\ SameFields(f, g) /\ AllFixed(f, g)
  /\ Books(g, {}) /\ Marks(g) = Marks(f) \ {l} /\ Maps(g) = Maps(f)
  /\ OneLess(f, type, g)
  /\ \A m \in Live(f) \ {l} : Cur(g, m) = Cur(f, m)
  /\ FileStep(f, Live(f) \ {l}, g)

(* The counts after a block of a type is freed, before its bit is cleared. *)
FreeCounts(f, type) ==
  [t \in Types |-> f.super.counts[t] + (IF t = "B_FREE" THEN 1 ELSE 0)
                                     - (IF t = type THEN 1 ELSE 0)]

Recounted(f, counts, c) ==
  /\ Good(c) /\ c.super.counts = counts /\ c.super.bitmaps = f.super.bitmaps
  /\ c.loc = f.loc /\ c.pins = f.pins /\ c.cached = f.cached
  /\ c.buf = f.buf /\ c.dirty = f.dirty /\ c.clone = f.clone
  /\ c.hashed = f.hashed /\ c.file = f.file /\ c.total_pins = f.total_pins
  /\ c.num_blocks = f.num_blocks /\ c.superslot = f.superslot /\ c.open = f.open

FreesIn(f, type, l, g) ==
  \E c : Recounted(f, FreeCounts(f, type), c) /\ g = BitmapSetIn(c, l, FALSE)

LEMMA FreeRecounts ==
  ASSUME NEW f, Good(f), NEW type \in ClientTypes, NEW l \in Locations \ {0},
         l < f.num_blocks, f.super.bitmaps[Group(l)] # 0,
         NEW g, g = DeallocateBlock(f, type, l)
  PROVE  FreesIn(f, type, l, g)
<1> DEFINE counts == FreeCounts(f, type)
           c == [f EXCEPT !.super.counts = counts,
                          !.fault = @ \/ l < 1 \/ l >= f.num_blocks]
<1>1. g = BitmapSet(c, l, FALSE)
  BY DEF DeallocateBlock, FreeCounts
<1>2. f \in FsType /\ f.super \in Super /\ counts \in [Types -> Int] /\ ~f.fault
  BY GoodType, FieldTypes DEF FreeCounts
<1> HIDE DEF counts
<1>3. /\ c.super = [f.super EXCEPT !.counts = counts]
      /\ c.fault = (f.fault \/ l < 1 \/ l >= f.num_blocks)
      /\ c.loc = f.loc /\ c.pins = f.pins /\ c.cached = f.cached
      /\ c.buf = f.buf /\ c.dirty = f.dirty
      /\ c.clone = f.clone /\ c.hashed = f.hashed
      /\ c.file = f.file /\ c.filesize = f.filesize
      /\ c.num_blocks = f.num_blocks /\ c.superslot = f.superslot
      /\ c.open = f.open /\ c.total_pins = f.total_pins
  BY <1>2 DEF FsType
<1>4. /\ c.super \in Super /\ c.super.bitmaps = f.super.bitmaps
      /\ c.super.counts = counts
  BY <1>2, <1>3 DEF Super
<1>5. ~c.fault
  <2>1. l \in Nat /\ l # 0 /\ f.num_blocks \in Nat
    BY GoodType, BoundsType DEF Locations
  <2>2. ~(l < 1) /\ ~(l >= f.num_blocks)
    BY <2>1
  <2> QED
    BY <1>2, <1>3, <2>2
<1>6. c \in FsType
  BY <1>2, <1>3, <1>4 DEF FsType
<1>7. Sound(c)
  <2>1. Sound(f)
    BY GoodType
  <2> QED
    BY <1>3, <1>4, <1>6, <2>1 DEF Sound, Coherent, Rooted
<1>8. g = BitmapSetIn(c, l, FALSE)
  BY <1>1, <1>4 DEF BitmapSet
<1>9. Recounted(f, counts, c)
  <2> HIDE DEF c
  <2>1. Good(c)
    BY <1>3, <1>5, <1>7 DEF Good, Tidy
  <2> QED
    BY <1>3, <1>4, <2>1 DEF Recounted
<1> HIDE DEF c
<1> QED
  BY <1>8, <1>9 DEF counts, FreesIn

LEMMA FreedOwing ==
  ASSUME NEW f, Good(f), Books(f, {}), NEW type \in ClientTypes,
         NEW l \in Marks(f), NEW g, g.num_blocks = f.num_blocks,
         g.super.counts = FreeCounts(f, type), Marks(g) = Marks(f) \ {l}
  PROVE  Owing(g, {})
<1> DEFINE n == f.num_blocks
           F == Unused(f, {})
<1>1. n \in Nat /\ f.super.counts \in [Types -> Int]
  BY GoodType, FieldTypes
<1>2. g.super.counts["B_FREE"] = f.super.counts["B_FREE"] + 1
  BY <1>1 DEF FreeCounts, Types, ClientTypes
<1>3. f.super.counts["B_FREE"] = Cardinality(F)
  BY DEF Books, Owing
<1>4. l \notin F /\ Unused(g, {}) = F \cup {l}
  <2>1. l \in 0 .. n - 1
    BY DEF Books
  <2> QED
    BY <2>1 DEF Unused
<1>5. IsFiniteSet(F)
  <2>1. F \in SUBSET (0 .. n - 1) /\ 0 \in Int /\ n - 1 \in Int
    BY <1>1 DEF Unused
  <2> HIDE DEF F
  <2> QED
    BY <2>1, FS_Interval, FS_Subset
<1> HIDE DEF F
<1>6. Cardinality(F \cup {l}) = Cardinality(F) + 1
  BY <1>4, <1>5, FS_AddElement
<1> QED
  BY <1>2, <1>3, <1>4, <1>6 DEF Owing

LEMMA DeallocateBlockFrees ==
  ASSUME NEW f, Good(f), Roomed(f), Books(f, {}), NEW type \in ClientTypes,
         NEW l \in Live(f), NEW g, g = DeallocateBlock(f, type, l)
  PROVE  Freed(f, type, l, g)
<1> DEFINE b == f.super.bitmaps[Group(l)]
<1>1. /\ l \in Marks(f) /\ l \in Locations \ {0} /\ l \notin Maps(f)
      /\ b # 0 /\ l \in 0 .. f.num_blocks - 1 /\ f.num_blocks \in 1 .. MaxBlocks
  BY GoodType DEF Live, Marks, Books
<1>2. l < f.num_blocks
  BY <1>1, BoundsType
<1>3. b \in Maps(f) /\ b \in Locations \ {0}
  BY <1>1, GoodType, GroupType, FieldTypes DEF Maps
<1>4. PICK c : Recounted(f, FreeCounts(f, type), c) /\ g = BitmapSetIn(c, l, FALSE)
  <2>1. l \in Locations \ {0} /\ f.super.bitmaps[Group(l)] # 0
    BY <1>1
  <2> HIDE DEF b
  <2>2. FreesIn(f, type, l, g)
    BY <1>2, <2>1, FreeRecounts
  <2> QED
    BY <2>2 DEF FreesIn
<1>5. Good(c) /\ c.super.bitmaps = f.super.bitmaps
  BY <1>4 DEF Recounted
<1>6. \A m : Cur(c, m) = Cur(f, m)
  BY <1>4 DEF Recounted, Cur, At
<1>7. Marks(c) = Marks(f)
  BY <1>5, <1>6 DEF Marks
<1>8. MapsApart(c) /\ Roomed(c)
  BY <1>4 DEF Recounted, MapsApart, Books, Roomed
<1>9. MarkChanged(c, l, FALSE, g)
  <2>1. (l \in Marks(c)) # FALSE
    BY <1>1, <1>7
  <2> QED
    BY <1>1, <1>4, <1>5, <1>8, <2>1, BitmapSetInMarks
<1>10. Altered(c, g, b) /\ Marks(g) = Marks(f) \ {l}
  BY <1>5, <1>7, <1>9 DEF MarkChanged
<1>11. Good(g) /\ KeepsSuper(c, g) /\ MorePins(c, g) /\ AllFixed(c, g)
  BY <1>10 DEF Altered, MorePins, AllFixed
<1>12. g.super.bitmaps = f.super.bitmaps /\ g.num_blocks = f.num_blocks
       /\ g.super.counts = FreeCounts(f, type)
  BY <1>4, <1>11 DEF KeepsSuper, Recounted
<1>13. Maps(g) = Maps(f)
  BY <1>12 DEF Maps
<1>14. MorePins(f, g) /\ SameFields(f, g)
  BY <1>4, <1>11 DEF KeepsSuper, Recounted, MorePins, SameFields
<1>15. AllFixed(f, g)
  BY <1>4, <1>11 DEF Recounted, AllFixed, Fixed, Placed
<1>16. OneLess(f, type, g)
  <2>1. f.super.counts \in [Types -> Int]
    BY GoodType, FieldTypes
  <2>2. ClientTypes \subseteq Types /\ "B_FREE" \notin ClientTypes
    BY DEF ClientTypes, Types
  <2>3. ASSUME NEW u \in ClientTypes
        PROVE  g.super.counts[u] = f.super.counts[u] - (IF u = type THEN 1 ELSE 0)
    <3>1. u \in Types /\ u # "B_FREE" /\ f.super.counts[u] \in Int
      BY <2>1, <2>2
    <3> QED
      BY <1>12, <3>1 DEF FreeCounts
  <2> QED
    BY <2>3 DEF OneLess
<1>17. Books(g, {})
  <2>1. Owing(g, {})
    BY <1>1, <1>10, <1>12, FreedOwing
  <2>2. MapsApart(g) /\ Covered(g, {})
    BY <1>12 DEF Books, MapsApart, Covered
  <2>3. /\ Maps(g) \subseteq Marks(g) /\ Marks(g) \subseteq 0 .. g.num_blocks - 1
        /\ {} \subseteq 0 .. g.num_blocks - 1
    BY <1>1, <1>10, <1>12, <1>13 DEF Books
  <2> QED
    BY <2>1, <2>2, <2>3 DEF Books
<1>18. \A m \in Live(f) \ {l} : m \in Locations \ {0, b}
  BY <1>3 DEF Live, Marks
<1>19. \A m \in Live(f) \ {l} : Cur(g, m) = Cur(f, m)
  BY <1>6, <1>10, <1>18 DEF Altered
<1>20. FileStep(f, Live(f) \ {l}, g)
  <2>1. c.file = f.file
    BY <1>4 DEF Recounted
  <2>2. g.file = c.file \/ \A m \in Locations \ {0} : g.file[m] = Cur(c, m)
    BY <1>10 DEF Altered
  <2> QED
    BY <1>6, <1>18, <2>1, <2>2 DEF FileStep
<1> QED
  BY <1>10, <1>11, <1>13, <1>14, <1>15, <1>16, <1>17, <1>19, <1>20 DEF Freed

-----------------------------------------------------------------------------
(* The invariant: what the clients believe against what the cache holds.   *)

(* Room for three new blocks, more slots than pins, and no more pins held  *)
(* than pin() accepts on one block.                                        *)
Roomy == SpareSlots >= 3 /\ MaxHeld + 1 < CacheSize /\ MaxHeld <= MAX_PINS

Owned(o) == {l \in Locations : o[l] # "none"}

OfType(o, t) == {l \in Locations : o[l] = t}

Counted(f, o) ==
  \A t \in ClientTypes : f.super.counts[t] = Cardinality(OfType(o, t))

(* The bitmaps mark the superblock, the bitmap blocks and what is owned.   *)
Ledger(f, o) ==
  Books(f, {}) /\ 0 \in Marks(f) /\ Live(f) = Owned(o) /\ Counted(f, o)

Balanced(f) == f.total_pins = SumFunction(f.pins) /\ f.total_pins <= MaxHeld + 1

PinnedBy(f, h) ==
  /\ f.pins[f.superslot] = 1
  /\ \A s \in Slots \ {f.superslot} : f.pins[s] # 0 <=> h[s] # {}

InPlace(f, h) ==
  \A s \in Slots : \A v \in h[s] :
    /\ f.loc[s] = v.loc
    /\ s \in f.clone => f.buf[s].data = v.snap
    /\ s \notin f.clone => s \in f.hashed

Fine(f, o, h) ==
  /\ ~f.fault /\ Tidy(f) /\ Balanced(f) /\ Ledger(f, o)
  /\ PinnedBy(f, h) /\ InPlace(f, h)

Shut(f, o) ==
  /\ ~f.fault /\ Balanced(f) /\ Ledger(f, o)
  /\ f.superslot \in f.hashed /\ f.loc[f.superslot] = 0 /\ f.dirty = {}
  /\ \A s \in Slots : f.pins[s] = 0

CInv == IF fs.open THEN Fine(fs, owned, hold) ELSE Shut(fs, owned)

LEMMA FineGood ==
  ASSUME IInv, CInv, Running
  PROVE  /\ Good(fs) /\ Fine(fs, owned, hold) /\ fs \in FsType
         /\ ClientType(owned, hold) /\ fs.superslot \in Slots
         /\ HoldOK(fs, hold)
  BY RunningSound DEF CInv, Fine, Good, Running

LEMMA BoundedRoomed ==
  ASSUME Roomy, NEW f \in FsType, Tidy(f), Balanced(f)
  PROVE  Roomed(f)
<1>1. f.pins \in [Slots -> Int] /\ f.total_pins \in Int
  BY FieldTypes
<1>2. SumFunction(f.pins) < CacheSize
  <2>1. MaxHeld \in Nat /\ CacheSize \in Nat
    BY BoundsAssumption, CacheSizeNat
  <2> QED
    BY <1>1, <2>1 DEF Balanced, Roomy
<1>3. \A s \in Slots : f.pins[s] >= 0
  BY DEF Tidy
<1> QED
  BY <1>1, <1>2, <1>3, FewPinsLeaveRoom DEF Roomed

SameCur(f, g) == \A l \in Locations \ {0} : Cur(g, l) = Cur(f, l)

(* A step that changes the contents of no block and no pins.               *)
Gentle(f, g) ==
  /\ Good(g) /\ MorePins(f, g) /\ SameFields(f, g) /\ AllFixed(f, g)
  /\ g.super = f.super /\ g.num_blocks = f.num_blocks
  /\ SameCur(f, g) /\ FileStep(f, Locations \ {0}, g)

LEMMA CalmGentle == ASSUME NEW f, NEW g, Calm(f, g) PROVE Gentle(f, g)
<1>1. MorePins(f, g) /\ SameFields(f, g)
  BY DEF Calm, KeepsSuper, MorePins, SameFields
<1>2. AllFixed(f, g)
  BY DEF Calm, AllFixed, Undisturbed, Fixed, Placed
<1>3. FileStep(f, Locations \ {0}, g)
  BY DEF Calm, FileStep
<1> QED
  BY <1>1, <1>2, <1>3 DEF Calm, KeepsSuper, Gentle, SameCur

LEMMA GentleTransitive ==
  ASSUME NEW f, NEW g, NEW h, Gentle(f, g), Gentle(g, h)
  PROVE  Gentle(f, h)
<1>1. AllFixed(f, h)
  BY DEF Gentle, MorePins, AllFixed, Fixed, Placed
<1>2. MorePins(f, h) /\ SameFields(f, h)
  BY DEF Gentle, MorePins, SameFields
<1>3. FileStep(f, Locations \ {0}, h)
  BY DEF Gentle, FileStep, SameCur
<1> QED
  BY <1>1, <1>2, <1>3 DEF Gentle, SameCur

(* The marks depend on the contents of the bitmap blocks only.             *)
LEMMA SameMarks ==
  ASSUME NEW f \in FsType, NEW g, g.super = f.super,
         \A b \in Maps(f) : Cur(g, b) = Cur(f, b)
  PROVE  Marks(g) = Marks(f) /\ Maps(g) = Maps(f)
<1>1. \A l \in Locations : Group(l) \in Groups
  BY GroupType
<1>2. \A l \in Locations : f.super.bitmaps[Group(l)] # 0
        => f.super.bitmaps[Group(l)] \in Maps(f)
  BY <1>1 DEF Maps
<1> QED
  BY <1>2 DEF Marks, Maps

LEMMA SameLedger ==
  ASSUME NEW f \in FsType, NEW o, Ledger(f, o),
         NEW g, g.super = f.super, g.num_blocks = f.num_blocks,
         \A b \in Maps(f) : Cur(g, b) = Cur(f, b)
  PROVE  Ledger(g, o)
<1>1. Marks(g) = Marks(f) /\ Maps(g) = Maps(f)
  BY SameMarks
<1>2. Books(g, {})
  BY <1>1 DEF Ledger, Books, MapsApart, Covered, Owing, Unused
<1> QED
  BY <1>1, <1>2 DEF Ledger, Live, Counted

LEMMA MapsType ==
  ASSUME NEW f \in FsType
  PROVE  Maps(f) \subseteq Locations \ {0}
  BY FieldTypes DEF Maps

LEMMA GentleLedger ==
  ASSUME NEW f \in FsType, NEW o, Ledger(f, o), NEW g, Gentle(f, g)
  PROVE  Ledger(g, o)
<1>1. \A b \in Maps(f) : Cur(g, b) = Cur(f, b)
  BY MapsType DEF Gentle, SameCur
<1>2. g.super = f.super /\ g.num_blocks = f.num_blocks
  BY DEF Gentle
<1> QED
  BY <1>1, <1>2, SameLedger

(* What is pinned and stays put is still where its holder expects it.      *)
LEMMA FixedInPlace ==
  ASSUME NEW f, NEW h, PinnedBy(f, h), InPlace(f, h), h[f.superslot] = {},
         NEW g, AllFixed(f, g), g.superslot = f.superslot, MorePins(f, g)
  PROVE  PinnedBy(g, h) /\ InPlace(g, h)
<1>1. PinnedBy(g, h)
  BY DEF PinnedBy, MorePins
<1>2. ASSUME NEW s \in Slots, NEW v \in h[s]
      PROVE  Fixed(f, g, s)
  <2>1. s # f.superslot
    OBVIOUS
  <2> QED
    BY <1>2, <2>1 DEF PinnedBy, AllFixed
<1>3. InPlace(g, h)
  BY <1>2 DEF InPlace, Fixed, Placed
<1> QED
  BY <1>1, <1>3

LEMMA GentleFine ==
  ASSUME NEW f \in FsType, NEW o, NEW h, Fine(f, o, h), h[f.superslot] = {},
         NEW g, Gentle(f, g)
  PROVE  Fine(g, o, h)
<1>1. Ledger(g, o)
  BY GentleLedger DEF Fine
<1>2. PinnedBy(g, h) /\ InPlace(g, h)
  BY FixedInPlace DEF Fine, Gentle, SameFields
<1>3. Balanced(g)
  BY DEF Fine, Gentle, MorePins, Balanced
<1> QED
  BY <1>1, <1>2, <1>3 DEF Fine, Gentle, Good

(* Only the pins differ, and perhaps the fault.                            *)
Repinned(f, s, d, g) ==
  /\ g.pins = [f.pins EXCEPT ![s] = f.pins[s] + d]
  /\ g.total_pins = f.total_pins + d
  /\ g.loc = f.loc /\ g.buf = f.buf /\ g.cached = f.cached /\ g.dirty = f.dirty
  /\ g.clone = f.clone /\ g.hashed = f.hashed /\ g.file = f.file
  /\ g.num_blocks = f.num_blocks /\ g.superslot = f.superslot
  /\ g.super = f.super /\ g.open = f.open

LEMMA PinRepins ==
  ASSUME NEW f \in FsType, NEW s \in Slots, NEW g, g = Pin(f, s)
  PROVE  Repinned(f, s, 1, g)
  BY DEF Pin, FsType, Repinned

LEMMA UnpinRepins ==
  ASSUME NEW f \in FsType, NEW s \in Slots, f.pins[s] # 0, NEW g, g = Unpin(f, s)
  PROVE  Repinned(f, s, -1, g) /\ g.fault = f.fault
<1>1. /\ g.pins = [f.pins EXCEPT ![s] = f.pins[s] - 1]
      /\ g.total_pins = f.total_pins - 1
  BY DEF Unpin, FsType
<1>2. g.fault = (f.fault \/ f.pins[s] = 0)
  BY DEF Unpin, FsType
<1>3. /\ g.loc = f.loc /\ g.buf = f.buf /\ g.cached = f.cached
      /\ g.dirty = f.dirty /\ g.clone = f.clone /\ g.hashed = f.hashed
      /\ g.file = f.file /\ g.num_blocks = f.num_blocks
      /\ g.superslot = f.superslot /\ g.super = f.super /\ g.open = f.open
  BY DEF Unpin, FsType
<1>4. f.pins[s] \in Int /\ f.total_pins \in Int
  BY FieldTypes
<1>5. f.pins[s] + -1 = f.pins[s] - 1 /\ f.total_pins + -1 = f.total_pins - 1
  BY <1>4
<1>6. g.fault = f.fault
  BY <1>2, FieldTypes
<1> QED
  BY <1>1, <1>3, <1>5, <1>6 DEF Repinned

LEMMA RepinnedSame ==
  ASSUME NEW f \in FsType, NEW s \in Slots, NEW d \in Int, NEW g, Repinned(f, s, d, g)
  PROVE  /\ \A l : Cur(g, l) = Cur(f, l)
         /\ \A o : Ledger(f, o) => Ledger(g, o)
         /\ f.total_pins = SumFunction(f.pins) => g.total_pins = SumFunction(g.pins)
<1>1. \A l : Cur(g, l) = Cur(f, l)
  BY DEF Repinned, Cur, At
<1>2. \A o : Ledger(f, o) => Ledger(g, o)
  BY <1>1, SameLedger DEF Repinned
<1>3. SumFunction(g.pins) = SumFunction(f.pins) + d
  BY FieldTypes, SumChange DEF Repinned
<1> QED
  BY <1>1, <1>2, <1>3 DEF Repinned

(* Where the holder of a view expects a block to be.                       *)
Shows(f, s, v) ==
  /\ f.loc[s] = v.loc
  /\ s \in f.clone => f.buf[s].data = v.snap
  /\ s \notin f.clone => s \in f.hashed

(* A block is not pinned more often than pin() accepts: one pin is the     *)
(* superblock's.                                                           *)
LEMMA PinAccepted ==
  ASSUME Roomy, NEW f \in FsType, NEW h, Tidy(f), Balanced(f), PinnedBy(f, h),
         f.superslot \in Slots, f.total_pins <= MaxHeld,
         NEW s \in Slots \ {f.superslot}, NEW g, g = Pin(f, s)
  PROVE  g.fault = f.fault
<1>1. /\ f.pins \in [Slots -> Int] /\ f.fault \in BOOLEAN
      /\ \A t \in Slots : f.pins[t] >= 0
      /\ f.pins[f.superslot] = 1 /\ SumFunction(f.pins) <= MaxHeld
  BY FieldTypes DEF Tidy, Balanced, PinnedBy
<1>2. f.pins[s] + f.pins[f.superslot] <= SumFunction(f.pins)
  BY <1>1, SumOfTwo
<1>3. SumFunction(f.pins) \in Int
  <2>1. f.total_pins \in Int
    BY FieldTypes
  <2> QED
    BY <2>1 DEF Balanced
<1>4. ~(f.pins[s] >= MAX_PINS)
  <2>1. f.pins[s] \in Int
    BY <1>1
  <2> QED
    BY <1>1, <1>2, <1>3, <2>1, BoundsAssumption DEF Roomy
<1>5. g.fault = (f.fault \/ f.pins[s] >= MAX_PINS)
  BY DEF Pin, FsType
<1> QED
  BY <1>1, <1>4, <1>5

(* pin, with what the client believes from then on.                        *)
LEMMA PinFine ==
  ASSUME Roomy, NEW f \in FsType, NEW o, NEW h \in [Slots -> SUBSET View], Fine(f, o, h),
         f.superslot \in Slots, f.total_pins <= MaxHeld,
         NEW s \in Slots \ {f.superslot}, s \in f.cached, NEW v, Shows(f, s, v),
         NEW g, g = Pin(f, s),
         NEW k, k = [h EXCEPT ![s] = @ \cup {v}]
  PROVE  Fine(g, o, k)
<1>1. Repinned(f, s, 1, g)
  BY PinRepins
<1>2. /\ g.pins = [f.pins EXCEPT ![s] = f.pins[s] + 1]
      /\ g.total_pins = f.total_pins + 1
      /\ g.loc = f.loc /\ g.buf = f.buf /\ g.cached = f.cached
      /\ g.clone = f.clone /\ g.hashed = f.hashed
      /\ g.superslot = f.superslot
  BY <1>1 DEF Repinned
<1>2a. g.fault = f.fault
  BY PinAccepted DEF Fine
<1>3. f.pins \in [Slots -> Int] /\ f.total_pins \in Int
  BY FieldTypes
<1>4. Tidy(f) /\ PinnedBy(f, h) /\ InPlace(f, h) /\ ~f.fault
  BY DEF Fine
<1>5. Tidy(g)
  BY <1>2, <1>3, <1>4 DEF Tidy
<1>6. Ledger(g, o) /\ g.total_pins = SumFunction(g.pins)
  <2>1. Ledger(f, o) /\ f.total_pins = SumFunction(f.pins)
    BY DEF Fine, Balanced
  <2>2. 1 \in Int
    OBVIOUS
  <2> QED
    BY <1>1, <2>1, <2>2, RepinnedSame
<1>7. g.total_pins <= MaxHeld + 1
  BY <1>2, <1>3, BoundsAssumption
<1>8. PinnedBy(g, k)
  <2>1. f.pins[s] >= 0 /\ f.pins[s] \in Int
    BY <1>3, <1>4 DEF Tidy
  <2>2. g.pins[s] # 0 /\ k[s] # {}
    BY <1>2, <1>3, <2>1
  <2>3. \A t \in Slots \ {s} : g.pins[t] = f.pins[t] /\ k[t] = h[t]
    BY <1>2, <1>3
  <2> QED
    BY <1>2, <1>4, <2>2, <2>3 DEF PinnedBy
<1>9. InPlace(g, k)
  <2>1. ASSUME NEW t \in Slots, NEW w \in k[t] PROVE Shows(f, t, w)
    <3>1. w \in h[t] \/ (t = s /\ w = v)
      OBVIOUS
    <3> QED
      BY <1>4, <3>1 DEF InPlace, Shows
  <2> QED
    BY <1>2, <2>1 DEF InPlace, Shows
<1> QED
  BY <1>2, <1>2a, <1>4, <1>5, <1>6, <1>7, <1>8, <1>9 DEF Fine, Balanced

LEMMA FlushFine ==
  ASSUME IInv, CInv, Flush PROVE CInv'
<1>1. Running /\ fs' = FlushFs(fs) /\ owned' = owned /\ hold' = hold
  BY DEF Flush
<1>2. Good(fs) /\ Fine(fs, owned, hold) /\ fs \in FsType /\ HoldOK(fs, hold)
      /\ fs.superslot \in Slots
  BY <1>1, FineGood
<1>3. Gentle(fs, fs')
  BY <1>1, <1>2, FlushFsCalm, CalmGentle
<1>4. Fine(fs', owned, hold)
  <2>1. hold[fs.superslot] = {}
    BY <1>2 DEF HoldOK
  <2> QED
    BY <1>2, <1>3, <2>1, GentleFine
<1>5. fs'.open
  BY <1>1, <1>3 DEF Gentle, SameFields, Running
<1> QED
  BY <1>1, <1>4, <1>5 DEF CInv

LEMMA OwnedLive ==
  ASSUME NEW f \in FsType, NEW o, Ledger(f, o), NEW l \in Locations, o[l] # "none"
  PROVE  l \in Live(f) /\ l # 0 /\ l < f.num_blocks
<1>1. l \in Live(f)
  BY DEF Ledger, Owned
<1>2. l \in 0 .. f.num_blocks - 1 /\ l # 0
  BY <1>1 DEF Ledger, Books, Live
<1> QED
  BY <1>1, <1>2, FieldTypes, BoundsType

LEMMA GetAndPinFine ==
  ASSUME IInv, CInv, Roomy, NEW l \in Locations, GetAndPin(l) PROVE CInv'
<1> DEFINE r == GetBlock(fs, l)
           v == [loc |-> l, snap |-> Zero]
           k == [hold EXCEPT ![r.slot] = @ \cup {v}]
<1>1. Running /\ CanHold /\ owned[l] = "B_TREE"
      /\ Returns(Pin(Need(r), r.slot), owned, k)
  BY DEF GetAndPin, Holding
<1>2. Good(fs) /\ Fine(fs, owned, hold) /\ fs \in FsType /\ HoldOK(fs, hold)
      /\ ClientType(owned, hold) /\ fs.superslot \in Slots
  BY <1>1, FineGood
<1>3. l # 0 /\ l < fs.num_blocks
  BY <1>1, <1>2, OwnedLive DEF Fine
<1>4. GotAt(fs, r, l)
  <2>1. Roomed(fs)
    BY <1>2, BoundedRoomed DEF Fine
  <2> QED
    BY <1>2, <1>3, <2>1, GetBlockReads
<1> HIDE DEF r
<1>5. /\ Gentle(fs, r.fs) /\ r.slot \in Slots /\ r.slot # NULL
      /\ r.slot \in r.fs.hashed /\ r.fs.loc[r.slot] = l
  BY <1>4, CalmGentle DEF GotAt, Read
<1>6. Fine(r.fs, owned, hold) /\ Good(r.fs) /\ r.fs \in FsType
  <2>1. hold[fs.superslot] = {}
    BY <1>2 DEF HoldOK
  <2> QED
    BY <1>2, <1>5, <2>1, GentleFine, GoodType DEF Gentle
<1>7. r.fs.total_pins <= MaxHeld /\ r.fs.superslot \in Slots
  BY <1>1, <1>2, <1>5 DEF Gentle, MorePins, SameFields, CanHold
<1>8. r.slot # r.fs.superslot /\ r.slot \in r.fs.cached /\ Shows(r.fs, r.slot, v)
  <2>1. r.fs.loc[r.fs.superslot] = 0 /\ Coherent(r.fs)
    BY <1>6, GoodType
  <2> QED
    BY <1>3, <1>5, <2>1 DEF Coherent, Shows
<1> DEFINE f == Pin(r.fs, r.slot)
<1>9. Fine(f, owned, k)
  <2>1. hold \in [Slots -> SUBSET View]
    BY <1>2 DEF ClientType
  <2> HIDE DEF v
  <2> QED
    BY <1>5, <1>6, <1>7, <1>8, <2>1, PinFine
<1>10. f.open
  <2>1. Repinned(r.fs, r.slot, 1, f)
    BY <1>5, <1>6, PinRepins
  <2> QED
    BY <1>1, <1>5, <2>1 DEF Repinned, Gentle, SameFields, Running
<1>11. ~f.fault
  BY <1>9 DEF Fine
<1>12. Need(r) = r.fs
  BY <1>5 DEF Need
<1>13. fs' = f /\ owned' = owned /\ hold' = k
  <2> HIDE DEF k
  <2> QED
    BY <1>1, <1>11, <1>12 DEF Returns
<1> HIDE DEF f, k
<1> QED
  BY <1>9, <1>10, <1>13 DEF CInv

LEMMA ReleaseBlockFine ==
  ASSUME IInv, CInv, NEW s \in Slots, ReleaseBlock(s) PROVE CInv'
<1> DEFINE g == Unpin(fs, s)
           k == [hold EXCEPT ![s] = IF fs.pins[s] > 1 THEN @ ELSE {}]
<1>1. Running /\ hold[s] # {} /\ Returns(g, owned, k)
  BY DEF ReleaseBlock, Held
<1>2. Good(fs) /\ Fine(fs, owned, hold) /\ fs \in FsType /\ HoldOK(fs, hold)
      /\ ClientType(owned, hold)
  BY <1>1, FineGood
<1>3. /\ Tidy(fs) /\ Balanced(fs) /\ PinnedBy(fs, hold) /\ InPlace(fs, hold)
      /\ Ledger(fs, owned) /\ ~fs.fault /\ hold \in [Slots -> SUBSET View]
      /\ fs.pins \in [Slots -> Int] /\ fs.total_pins \in Int
  BY <1>2, FieldTypes DEF Fine, ClientType
<1>4. s # fs.superslot /\ fs.pins[s] # 0 /\ fs.pins[s] >= 1
  <2>1. s # fs.superslot
    BY <1>1, <1>2 DEF HoldOK
  <2>2. fs.pins[s] # 0
    BY <1>1, <1>3, <2>1 DEF PinnedBy
  <2>3. fs.pins[s] >= 0 /\ fs.pins[s] \in Int
    BY <1>3 DEF Tidy
  <2> QED
    BY <2>1, <2>2, <2>3
<1>5. Repinned(fs, s, -1, g) /\ g.fault = fs.fault
  BY <1>2, <1>4, UnpinRepins
<1>6. /\ g.pins = [fs.pins EXCEPT ![s] = fs.pins[s] + -1]
      /\ g.total_pins = fs.total_pins + -1
      /\ g.loc = fs.loc /\ g.buf = fs.buf /\ g.cached = fs.cached
      /\ g.clone = fs.clone /\ g.hashed = fs.hashed
      /\ g.superslot = fs.superslot /\ g.fault = fs.fault /\ g.open = fs.open
  BY <1>5 DEF Repinned
<1>7. Ledger(g, owned) /\ g.total_pins = SumFunction(g.pins)
  <2>1. fs.total_pins = SumFunction(fs.pins) /\ -1 \in Int
    BY <1>3 DEF Balanced
  <2> QED
    BY <1>2, <1>3, <1>5, <2>1, RepinnedSame
<1>8. g.total_pins <= MaxHeld + 1
  <2>1. fs.total_pins <= MaxHeld + 1
    BY <1>3 DEF Balanced
  <2> QED
    BY <1>3, <1>6, <2>1, BoundsAssumption
<1>9. /\ g.pins[s] = fs.pins[s] - 1
      /\ \A t \in Slots \ {s} : g.pins[t] = fs.pins[t] /\ k[t] = hold[t]
      /\ k[s] = IF fs.pins[s] > 1 THEN hold[s] ELSE {}
  BY <1>3, <1>6
<1>10. Tidy(g)
  <2>1. ASSUME NEW t \in Slots
        PROVE  g.pins[t] >= 0 /\ (t \notin g.cached => g.pins[t] = 0)
    <3>1. CASE t = s
      <4>1. s \in fs.cached
        BY <1>3, <1>4 DEF Tidy
      <4>2. g.pins[s] >= 0
        BY <1>3, <1>4, <1>9
      <4> QED
        BY <1>6, <3>1, <4>1, <4>2
    <3>2. CASE t # s
      BY <1>3, <1>6, <1>9, <3>2 DEF Tidy
    <3> QED
      BY <3>1, <3>2
  <2> QED
    BY <2>1 DEF Tidy
<1>11. PinnedBy(g, k)
  <2>1. g.pins[s] # 0 <=> k[s] # {}
    <3>1. g.pins[s] # 0 <=> fs.pins[s] > 1
      BY <1>3, <1>4, <1>9
    <3> QED
      BY <1>1, <1>9, <3>1
  <2> HIDE DEF k, g
  <2>2. fs.superslot \in Slots
    BY <1>1, RunningSound
  <2>3. g.pins[g.superslot] = 1
    BY <1>3, <1>4, <1>6, <1>9, <2>2 DEF PinnedBy
  <2>4. \A t \in Slots \ {g.superslot} : g.pins[t] # 0 <=> k[t] # {}
    BY <1>3, <1>6, <1>9, <2>1 DEF PinnedBy
  <2> QED
    BY <2>3, <2>4 DEF PinnedBy
<1>12. InPlace(g, k)
  <2>1. \A t \in Slots : k[t] \subseteq hold[t]
    BY <1>9
  <2> QED
    BY <1>3, <1>6, <2>1 DEF InPlace
<1>13. Fine(g, owned, k)
  BY <1>3, <1>6, <1>7, <1>8, <1>10, <1>11, <1>12 DEF Fine, Balanced
<1>14. fs' = g /\ owned' = owned /\ hold' = k
  BY <1>1, <1>3, <1>6 DEF Returns
<1>15. g.open
  BY <1>1, <1>6 DEF Running
<1> HIDE DEF g, k
<1> QED
  BY <1>13, <1>14, <1>15 DEF CInv

(* A block that is not a bitmap is changed.                                *)
LEMMA WriteFine ==
  ASSUME NEW f \in FsType, NEW o, NEW h, Fine(f, o, h),
         NEW s \in Slots \ f.clone, f.loc[s] \notin Maps(f), NEW v,
         NEW g, g = SetData(f, s, v)
  PROVE  Fine(g, o, h) /\ g.open = f.open
<1>1. /\ Tidy(f) /\ Balanced(f) /\ PinnedBy(f, h) /\ InPlace(f, h)
      /\ Ledger(f, o) /\ ~f.fault /\ f.buf \in [Slots -> Content]
  BY FieldTypes DEF Fine
<1>2. /\ g.loc = f.loc /\ g.hashed = f.hashed /\ g.clone = f.clone
      /\ g.cached = f.cached /\ g.pins = f.pins /\ g.file = f.file
      /\ g.total_pins = f.total_pins /\ g.super = f.super
      /\ g.num_blocks = f.num_blocks /\ g.superslot = f.superslot
      /\ g.open = f.open /\ g.fault = f.fault
      /\ g.buf = [f.buf EXCEPT ![s].data = v]
  BY DEF SetData, FsType
<1>3. \A t \in Slots \ {s} : g.buf[t] = f.buf[t]
  BY <1>1, <1>2
<1>4. ASSUME NEW b \in Maps(f) PROVE Cur(g, b) = Cur(f, b)
  <2>1. At(g, b) = At(f, b)
    BY <1>2 DEF At
  <2>2. At(f, b) # {} => (CHOOSE t \in At(f, b) : TRUE) \in Slots \ {s}
    BY FieldTypes DEF At
  <2>3. g.file = f.file
    BY <1>2
  <2> QED
    BY <1>3, <2>1, <2>2, <2>3 DEF Cur
<1>5. Ledger(g, o)
  BY <1>1, <1>2, <1>4, SameLedger
<1>6. Tidy(g) /\ Balanced(g) /\ PinnedBy(g, h)
  BY <1>1, <1>2 DEF Tidy, Balanced, PinnedBy
<1>7. InPlace(g, h)
  <2>1. \A t \in Slots : t \in f.clone => g.buf[t] = f.buf[t]
    BY <1>3
  <2> QED
    BY <1>1, <1>2, <2>1 DEF InPlace
<1> QED
  BY <1>1, <1>2, <1>5, <1>6, <1>7 DEF Fine

(* The block that a client writes is its own, never a bitmap.              *)
LEMMA WriteBlockFine ==
  ASSUME IInv, CInv, NEW s \in Slots, NEW v \in Values, WriteBlock(s, v)
  PROVE  CInv'
<1>1. /\ Running /\ hold[s] # {} /\ s \notin fs.clone
      /\ \A w \in hold[s] : owned[w.loc] # "none"
      /\ fs' = SetData(fs, s, v)
      /\ owned' = owned /\ hold' = hold
  BY DEF WriteBlock, Held
<1>2. Fine(fs, owned, hold) /\ fs \in FsType /\ ClientType(owned, hold)
  BY <1>1, FineGood
<1>3. fs.loc[s] \notin Maps(fs)
  <2>1. PICK w \in hold[s] : TRUE
    BY <1>1
  <2>2. w.loc = fs.loc[s] /\ owned[w.loc] # "none" /\ w.loc \in Locations
    BY <1>1, <1>2, <2>1 DEF Fine, InPlace, ClientType, View
  <2>3. fs.loc[s] \in Live(fs)
    BY <1>2, <2>2, OwnedLive DEF Fine
  <2> QED
    BY <2>3 DEF Live
<1>4. Fine(fs', owned, hold) /\ fs'.open = fs.open
  BY <1>1, <1>2, <1>3, WriteFine
<1> QED
  BY <1>1, <1>4 DEF CInv, Running

(* What get_block does for the reader or the writer of a data block.       *)
LEMMA DataGot ==
  ASSUME IInv, CInv, Roomy, Running, NEW l \in Locations, owned[l] = "B_DATA",
         NEW r, r = GetBlock(fs, l)
  PROVE  /\ Gentle(fs, r.fs) /\ Fine(r.fs, owned, hold) /\ r.fs \in FsType
         /\ Need(r) = r.fs /\ r.slot # NULL /\ r.slot \in Slots
         /\ r.slot \in r.fs.hashed /\ r.fs.loc[r.slot] = l
         /\ Coherent(r.fs) /\ r.fs.open
<1>1. Good(fs) /\ Fine(fs, owned, hold) /\ fs \in FsType /\ HoldOK(fs, hold)
      /\ fs.superslot \in Slots
  BY FineGood
<1>2. l < fs.num_blocks /\ Roomed(fs)
  BY <1>1, OwnedLive, BoundedRoomed DEF Fine
<1>3. GotAt(fs, r, l)
  BY <1>1, <1>2, GetBlockReads
<1>4. /\ Gentle(fs, r.fs) /\ r.slot \in Slots /\ r.slot # NULL
      /\ r.slot \in r.fs.hashed /\ r.fs.loc[r.slot] = l
  BY <1>3, CalmGentle DEF GotAt, Read
<1>5. Fine(r.fs, owned, hold) /\ r.fs \in FsType /\ Coherent(r.fs)
  <2>1. hold[fs.superslot] = {}
    BY <1>1 DEF HoldOK
  <2> QED
    BY <1>1, <1>4, <2>1, GentleFine, GoodType DEF Gentle
<1>6. r.fs.open
  BY <1>4 DEF Gentle, SameFields, Running
<1>7. Need(r) = r.fs
  BY <1>4 DEF Need
<1> QED
  BY <1>4, <1>5, <1>6, <1>7

LEMMA ReadDataFine ==
  ASSUME IInv, CInv, Roomy, NEW l \in Locations, ReadData(l) PROVE CInv'
<1> DEFINE r == GetBlock(fs, l)
<1>1. Running /\ owned[l] = "B_DATA" /\ Returns(Need(r), owned, hold)
  BY DEF ReadData
<1>2. Fine(r.fs, owned, hold) /\ Need(r) = r.fs /\ r.fs.open
  BY <1>1, DataGot
<1> HIDE DEF r
<1>3. fs' = r.fs /\ owned' = owned /\ hold' = hold
  BY <1>1, <1>2 DEF Returns
<1> QED
  BY <1>2, <1>3 DEF CInv

LEMMA WriteDataFine ==
  ASSUME IInv, CInv, Roomy, NEW l \in Locations, NEW v \in Values, WriteData(l, v)
  PROVE  CInv'
<1> DEFINE r == GetBlock(fs, l)
           g == r.fs
           w == SetData(g, r.slot, v)
<1>1. Running /\ owned[l] = "B_DATA"
      /\ Returns(IF r.slot = NULL THEN Need(r) ELSE w, owned, hold)
  BY DEF WriteData
<1>2. /\ Fine(g, owned, hold) /\ g \in FsType /\ g.open /\ Coherent(g)
      /\ r.slot # NULL /\ r.slot \in Slots /\ r.slot \in g.hashed
      /\ g.loc[r.slot] = l
  BY <1>1, DataGot
<1> HIDE DEF r, g
<1>3. g.loc[r.slot] \notin Maps(g)
  <2>1. l \in Live(g)
    BY <1>1, <1>2, OwnedLive DEF Fine
  <2> QED
    BY <1>2, <2>1 DEF Live
<1>4. r.slot \in Slots \ g.clone
  BY <1>2 DEF Coherent
<1>5. Fine(w, owned, hold) /\ w.open
  <2>1. Fine(w, owned, hold) /\ w.open = g.open
    BY <1>2, <1>3, <1>4, WriteFine
  <2> QED
    BY <1>2, <2>1
<1> HIDE DEF w
<1>6. fs' = w /\ owned' = owned /\ hold' = hold
  BY <1>1, <1>2, <1>5 DEF Returns, Fine
<1> QED
  BY <1>5, <1>6 DEF CInv

(* clone_block: the slot itself if that is clean and not pinned, or else a *)
(* copy in a slot to reuse.                                                *)
Cloned(f, s, r) ==
  /\ Gentle(f, r.fs)
  /\ r.slot \in Slots \ {f.superslot} /\ r.slot # NULL
  /\ r.slot \in r.fs.clone /\ r.slot \in r.fs.cached
  /\ r.fs.loc[r.slot] = f.loc[s] /\ r.fs.buf[r.slot] = f.buf[s]

LEMMA CloneInPlace ==
  ASSUME NEW f, Good(f), NEW s \in f.hashed, s # f.superslot,
         f.pins[s] = 0, s \notin f.dirty, NEW r, r = CloneBlock(f, s)
  PROVE  Cloned(f, s, r)
<1>1. f \in FsType /\ Coherent(f) /\ Sound(f) /\ ~f.fault /\ s \in Slots
  BY GoodType, FieldTypes
<1>2. /\ r.slot = s
      /\ r.fs = [f EXCEPT !.clone = f.clone \cup {s}, !.hashed = f.hashed \ {s}]
  BY DEF CloneBlock
<1>3. /\ r.fs.hashed = f.hashed \ {s} /\ r.fs.clone = f.clone \cup {s}
      /\ r.fs.cached = f.cached /\ r.fs.loc = f.loc
      /\ r.fs.buf = f.buf /\ r.fs.file = f.file /\ r.fs.pins = f.pins
      /\ r.fs.num_blocks = f.num_blocks /\ r.fs.total_pins = f.total_pins
      /\ r.fs.super = f.super /\ r.fs.superslot = f.superslot
      /\ r.fs.open = f.open /\ r.fs.fault = f.fault
  BY <1>1, <1>2 DEF FsType
<1>4. Good(r.fs)
  <2>1. Sound(r.fs)
    BY <1>1, CloneBlockSound
  <2> QED
    BY <1>1, <1>3, <2>1 DEF Good, Tidy
<1>5. MorePins(f, r.fs) /\ SameFields(f, r.fs)
  BY <1>3 DEF MorePins, SameFields
<1>6. AllFixed(f, r.fs)
  BY <1>3 DEF AllFixed, Fixed, Placed
<1>7. ASSUME NEW l PROVE Cur(r.fs, l) = Cur(f, l)
  <2>1. CASE l = f.loc[s]
    <3>1. Cur(f, l) = f.buf[s] /\ f.buf[s] = f.file[l]
      BY <1>1, <2>1, CurHit DEF Coherent
    <3>2. \A t \in r.fs.hashed : r.fs.loc[t] # l
      BY <1>1, <1>3, <2>1 DEF Coherent
    <3> QED
      BY <1>3, <3>1, <3>2, CurMiss
  <2>2. CASE l # f.loc[s]
    <3>1. At(r.fs, l) = At(f, l)
      BY <1>3, <2>2 DEF At
    <3> QED
      BY <1>3, <3>1 DEF Cur
  <2> QED
    BY <2>1, <2>2
<1>8. SameCur(f, r.fs) /\ FileStep(f, Locations \ {0}, r.fs)
  BY <1>3, <1>7 DEF SameCur, FileStep
<1>9. Gentle(f, r.fs)
  BY <1>3, <1>4, <1>5, <1>6, <1>8 DEF Gentle
<1>10. s \in f.cached /\ s # NULL
  BY <1>1, SlotsAssumption DEF Coherent
<1> QED
  BY <1>1, <1>2, <1>3, <1>9, <1>10 DEF Cloned

LEMMA CloneCopies ==
  ASSUME NEW f, Good(f), Roomed(f), NEW s \in f.hashed,
         ~ (f.pins[s] = 0 /\ s \notin f.dirty), NEW r, r = CloneBlock(f, s)
  PROVE  Cloned(f, s, r)
<1> DEFINE q == FindFreeSlot(f)
           c == q.slot
<1>1. f \in FsType /\ Sound(f) /\ s \in Slots
  BY GoodType, FieldTypes
<1>2. PICK g : Vacated(f, g, q)
  BY FindFreeSlotVacates
<1> DEFINE e == Emptied(g, c)
<1>3. /\ Calm(f, g) /\ Flushed(f, g) /\ Good(g) /\ g \in FsType
      /\ c \in Slots \ {g.superslot} /\ c # NULL
      /\ c \notin g.dirty /\ g.pins[c] = 0 /\ q.fs = e
  BY <1>2, GoodType, SlotsAssumption DEF Vacated, Calm
<1>4. /\ r.slot = c
      /\ r.fs = [e EXCEPT !.buf = [e.buf EXCEPT ![c] = e.buf[s]],
                          !.loc = [e.loc EXCEPT ![c] = e.loc[s]],
                          !.clone = e.clone \cup {c}]
  BY <1>3 DEF CloneBlock
<1> HIDE DEF q
<1>5. /\ e.loc = g.loc /\ e.buf = g.buf /\ e.hashed = g.hashed \ {c}
      /\ e.file = g.file
  BY <1>3 DEF Emptied, FsType
<1>6. /\ r.fs.loc = [g.loc EXCEPT ![c] = g.loc[s]]
      /\ r.fs.buf = [g.buf EXCEPT ![c] = g.buf[s]]
      /\ r.fs.pins = [g.pins EXCEPT ![c] = 0]
      /\ r.fs.cached = g.cached \cup {c}
      /\ r.fs.clone = (g.clone \ {c}) \cup {c} /\ r.fs.hashed = g.hashed \ {c}
      /\ r.fs.file = g.file /\ r.fs.total_pins = g.total_pins
      /\ r.fs.num_blocks = g.num_blocks /\ r.fs.superslot = g.superslot
      /\ r.fs.super = g.super /\ r.fs.open = g.open /\ r.fs.fault = g.fault
  BY <1>3, <1>4 DEF Emptied, FsType
<1>7. /\ g.loc \in [Slots -> Locations] /\ g.buf \in [Slots -> Content]
      /\ g.pins \in [Slots -> Int] /\ g.hashed \subseteq Slots
  BY <1>3, FieldTypes
<1>8. r.fs.pins = g.pins
  BY <1>3, <1>6, <1>7
<1>9. Good(r.fs)
  <2>1. Sound(r.fs)
    BY <1>1, CloneBlockSound
  <2>2. Tidy(g) /\ ~g.fault
    BY <1>3 DEF Good
  <2>3. Tidy(r.fs)
    BY <1>6, <1>8, <2>2 DEF Tidy
  <2> QED
    BY <1>6, <2>1, <2>2, <2>3 DEF Good
<1>10. Gentle(f, g)
  BY <1>3, CalmGentle
<1>11. \A t \in Slots \ {c} : r.fs.loc[t] = g.loc[t] /\ r.fs.buf[t] = g.buf[t]
  BY <1>6, <1>7
<1>12. AllFixed(g, r.fs)
  <2>1. ASSUME NEW u \in Slots, g.pins[u] # 0 PROVE Fixed(g, r.fs, u)
    <3>1. u # c
      BY <1>3, <2>1
    <3> QED
      BY <1>6, <1>11, <3>1 DEF Fixed, Placed
  <2> QED
    BY <2>1 DEF AllFixed
<1>13. ASSUME NEW l \in Locations \ {0} PROVE Cur(r.fs, l) = Cur(g, l)
  <2>1. Cur(e, l) = Cur(g, l)
    <3> HIDE DEF c
    <3> QED
      BY <1>3, EmptiedCur
  <2>2. At(r.fs, l) = At(e, l) /\ At(e, l) \subseteq Slots \ {c}
    <3> HIDE DEF e, c
    <3> QED
      BY <1>5, <1>6, <1>7, <1>11 DEF At
  <2>3. Cur(r.fs, l) = Cur(e, l)
    <3> HIDE DEF e, c
    <3> QED
      BY <1>5, <1>6, <1>11, <2>2 DEF Cur
  <2> QED
    BY <2>1, <2>3
<1>14. Gentle(g, r.fs)
  <2>1. MorePins(g, r.fs) /\ SameFields(g, r.fs)
    BY <1>6, <1>8 DEF MorePins, SameFields
  <2>2. SameCur(g, r.fs) /\ FileStep(g, Locations \ {0}, r.fs)
    BY <1>6, <1>13 DEF SameCur, FileStep
  <2> QED
    BY <1>6, <1>9, <1>12, <2>1, <2>2 DEF Gentle
<1>15. Gentle(f, r.fs)
  BY <1>10, <1>14, GentleTransitive
<1>16. r.fs.loc[c] = f.loc[s] /\ r.fs.buf[c] = f.buf[s]
  <2>1. g.loc = f.loc /\ g.buf = f.buf
    BY <1>3 DEF Flushed
  <2> QED
    BY <1>3, <1>6, <1>7, <2>1
<1>17. g.superslot = f.superslot
  BY <1>10 DEF Gentle, SameFields
<1> QED
  BY <1>3, <1>4, <1>6, <1>15, <1>16, <1>17 DEF Cloned

LEMMA CloneAndPinFine ==
  ASSUME IInv, CInv, Roomy, NEW l \in Locations, CloneAndPin(l) PROVE CInv'
<1> DEFINE g == GetBlock(fs, l)
           q == CloneBlock(g.fs, g.slot)
           r == IF g.slot = NULL THEN g ELSE q
           v == [loc |-> l, snap |-> g.fs.buf[g.slot].data]
           k == [hold EXCEPT ![r.slot] = @ \cup {v}]
<1>1. Running /\ CanHold /\ owned[l] = "B_TREE"
      /\ Returns(Pin(Need(r), r.slot), owned, k)
  BY DEF CloneAndPin, Holding
<1>2. Good(fs) /\ Fine(fs, owned, hold) /\ fs \in FsType /\ HoldOK(fs, hold)
      /\ ClientType(owned, hold) /\ fs.superslot \in Slots
  BY <1>1, FineGood
<1>3. l # 0 /\ l < fs.num_blocks
  BY <1>1, <1>2, OwnedLive DEF Fine
<1>4. GotAt(fs, g, l)
  <2>1. Roomed(fs)
    BY <1>2, BoundedRoomed DEF Fine
  <2> QED
    BY <1>2, <1>3, <2>1, GetBlockReads
<1>5. r = q
  BY <1>4 DEF GotAt
<1> HIDE DEF g, r
<1>6. /\ Gentle(fs, g.fs) /\ g.slot \in Slots
      /\ g.slot \in g.fs.hashed /\ g.fs.loc[g.slot] = l
  BY <1>4, CalmGentle DEF GotAt, Read
<1>7. hold[fs.superslot] = {}
  BY <1>2 DEF HoldOK
<1>8. Fine(g.fs, owned, hold) /\ Good(g.fs) /\ g.fs \in FsType
  BY <1>2, <1>6, <1>7, GentleFine, GoodType DEF Gentle
<1>9. g.slot # g.fs.superslot
  BY <1>3, <1>6, <1>8, GoodType
<1>10. Cloned(g.fs, g.slot, r)
  <2>1. Roomed(g.fs)
    BY <1>8, BoundedRoomed DEF Fine
  <2> QED
    BY <1>5, <1>6, <1>8, <1>9, <2>1, CloneInPlace, CloneCopies
<1> HIDE DEF q
<1>11. /\ Gentle(fs, r.fs) /\ r.slot \in Slots \ {fs.superslot} /\ r.slot # NULL
       /\ r.slot \in r.fs.clone /\ r.slot \in r.fs.cached
       /\ r.fs.loc[r.slot] = l /\ r.fs.buf[r.slot] = g.fs.buf[g.slot]
  <2>1. Gentle(fs, r.fs)
    BY <1>6, <1>10, GentleTransitive DEF Cloned
  <2>2. g.fs.superslot = fs.superslot
    BY <1>6 DEF Gentle, SameFields
  <2> QED
    BY <1>6, <1>10, <2>1, <2>2 DEF Cloned
<1>12. Fine(r.fs, owned, hold) /\ Good(r.fs) /\ r.fs \in FsType
  BY <1>2, <1>7, <1>11, GentleFine, GoodType DEF Gentle
<1>13. r.fs.total_pins <= MaxHeld /\ r.slot # r.fs.superslot
       /\ r.fs.superslot \in Slots
  BY <1>1, <1>2, <1>11 DEF Gentle, MorePins, SameFields, CanHold
<1>14. Shows(r.fs, r.slot, v)
  BY <1>11 DEF Shows
<1> DEFINE f == Pin(r.fs, r.slot)
<1>15. Fine(f, owned, k)
  <2>1. hold \in [Slots -> SUBSET View]
    BY <1>2 DEF ClientType
  <2> HIDE DEF v
  <2> QED
    BY <1>11, <1>12, <1>13, <1>14, <2>1, PinFine
<1>16. f.open
  <2>1. Repinned(r.fs, r.slot, 1, f)
    BY <1>11, <1>12, PinRepins
  <2> QED
    BY <1>1, <1>11, <2>1 DEF Repinned, Gentle, SameFields, Running
<1>17. ~f.fault
  BY <1>15 DEF Fine
<1>18. Need(r) = r.fs
  BY <1>11 DEF Need
<1>19. fs' = f /\ owned' = owned /\ hold' = k
  <2> HIDE DEF k
  <2> QED
    BY <1>1, <1>17, <1>18 DEF Returns
<1> HIDE DEF f, k
<1> QED
  BY <1>15, <1>16, <1>19 DEF CInv

-----------------------------------------------------------------------------
(* Allocation and freeing, for the clients.                                *)

LEMMA OfTypeFinite ==
  ASSUME NEW o, NEW t
  PROVE  IsFiniteSet(OfType(o, t)) /\ Cardinality(OfType(o, t)) \in Nat
<1>1. IsFiniteSet(Locations)
  <2>1. 0 \in Int /\ MaxBlocks - 1 \in Int
    BY BoundsType
  <2> QED
    BY <2>1, FS_Interval DEF Locations
<1>2. OfType(o, t) \in SUBSET Locations
  BY DEF OfType
<1> QED
  BY <1>1, <1>2, FS_Subset, FS_CardinalityType

OwnerType(o) == o \in [Locations -> ClientTypes \cup {"none"}]

Gains(o, l, type, p) == p = [o EXCEPT ![l] = type]

LEMMA AllocatedLive ==
  ASSUME NEW f, NEW o, OwnerType(o), Ledger(f, o), NEW type \in ClientTypes,
         NEW r, Allocated(f, type, r), NEW p, Gains(o, r.addr, type, p)
  PROVE  Live(r.fs) = Live(f) \cup {r.addr} /\ Live(r.fs) = Owned(p)
<1>1. /\ Marks(r.fs) = Marks(f) \cup {r.addr} \cup NewMaps(f, r.fs)
      /\ Maps(f) \subseteq Maps(r.fs)
      /\ NewMaps(f, r.fs) \cap (Marks(f) \cup {r.addr}) = {}
      /\ r.addr \in Locations \ {0} /\ r.addr \notin Marks(f)
  BY DEF Allocated, Marked
<1>2. Maps(f) \subseteq Marks(f) /\ Live(f) = Owned(o)
  BY DEF Ledger, Books
<1>3. Live(r.fs) = Live(f) \cup {r.addr}
  BY <1>1, <1>2 DEF Live, NewMaps
<1>4. type # "none"
  BY DEF ClientTypes
<1>5. Owned(p) = Owned(o) \cup {r.addr}
  BY <1>1, <1>4 DEF Owned, OwnerType, Gains
<1> QED
  BY <1>2, <1>3, <1>5

LEMMA AllocatedLedger ==
  ASSUME NEW f \in FsType, NEW o, OwnerType(o), Ledger(f, o), NEW type \in ClientTypes,
         NEW r, Allocated(f, type, r), NEW p, Gains(o, r.addr, type, p)
  PROVE  Ledger(r.fs, p)
<1>1. Live(r.fs) = Owned(p)
  BY AllocatedLive
<1>2. /\ Books(r.fs, {}) /\ OneMore(f, type, r.fs)
      /\ r.addr \in Locations \ {0} /\ r.addr \notin Marks(f)
      /\ Marks(r.fs) = Marks(f) \cup {r.addr} \cup NewMaps(f, r.fs)
  BY DEF Allocated, Marked
<1>3. 0 \in Marks(r.fs) /\ r.addr \notin Owned(o)
  BY <1>2 DEF Ledger, Live
<1>4. ASSUME NEW t \in ClientTypes
      PROVE  r.fs.super.counts[t] = Cardinality(OfType(p, t))
  <2>1. /\ r.fs.super.counts[t] = f.super.counts[t] + (IF t = type THEN 1 ELSE 0)
        /\ f.super.counts[t] = Cardinality(OfType(o, t))
    BY <1>2 DEF OneMore, Ledger, Counted
  <2>2. IsFiniteSet(OfType(o, t)) /\ Cardinality(OfType(o, t)) \in Nat
    BY OfTypeFinite
  <2>3. o[r.addr] = "none"
    BY <1>2, <1>3 DEF Owned
  <2>4. t # "none"
    BY DEF ClientTypes
  <2>5. CASE t = type
    <3>1. OfType(p, t) = OfType(o, t) \cup {r.addr} /\ r.addr \notin OfType(o, t)
      BY <1>2, <2>3, <2>4, <2>5 DEF OfType, OwnerType, Gains
    <3>2. Cardinality(OfType(p, t)) = Cardinality(OfType(o, t)) + 1
      BY <2>2, <3>1, FS_AddElement
    <3> QED
      BY <2>1, <2>5, <3>2
  <2>6. CASE t # type
    <3>1. OfType(p, t) = OfType(o, t)
      BY <1>2, <2>3, <2>4, <2>6 DEF OfType, OwnerType, Gains
    <3> QED
      BY <2>1, <2>2, <2>6, <3>1
  <2> QED
    BY <2>5, <2>6
<1> QED
  BY <1>1, <1>2, <1>3, <1>4 DEF Ledger, Counted

(* What a client has pinned is its own, so a free block is not pinned.     *)
LEMMA HeldMarked ==
  ASSUME NEW f, Good(f), NEW o, NEW h \in [Slots -> SUBSET View], Fine(f, o, h),
         \A l \in Locations : \A s \in Slots : \A v \in h[s] :
           v.loc = l => o[l] # "none"
  PROVE  PinnedMarked(f)
<1>1. /\ PinnedBy(f, h) /\ InPlace(f, h) /\ Ledger(f, o) /\ f \in FsType
      /\ f.hashed \subseteq Slots /\ f.loc[f.superslot] = 0
  BY GoodType, FieldTypes DEF Fine
<1>2. ASSUME NEW u \in f.hashed, f.pins[u] # 0 PROVE f.loc[u] \in Marks(f)
  <2>1. CASE u = f.superslot
    BY <1>1, <2>1 DEF Ledger
  <2>2. CASE u # f.superslot
    <3>1. h[u] # {} /\ u \in Slots
      BY <1>1, <1>2, <2>2 DEF PinnedBy
    <3>2. PICK v \in h[u] : TRUE
      BY <3>1
    <3>3. v.loc = f.loc[u] /\ v.loc \in Locations
      BY <1>1, <3>1, <3>2 DEF InPlace, View
    <3>4. o[f.loc[u]] # "none" /\ f.loc[u] \in Locations
      BY <3>1, <3>2, <3>3
    <3>5. f.loc[u] \in Live(f)
      BY <1>1, <3>4, OwnedLive
    <3> QED
      BY <3>5 DEF Live
  <2> QED
    BY <2>1, <2>2
<1> QED
  BY <1>2 DEF PinnedMarked

LEMMA AllocatesForClient ==
  ASSUME IInv, CInv, Roomy, NEW type \in ClientTypes, NEW target \in Locations,
         CanAllocate, Room(target),
         NEW r, r = AllocateBlock(fs, type, target)
  PROVE  Allocated(fs, type, r)
<1>1. /\ Running /\ Cardinality(Reusable(fs)) >= SpareSlots
      /\ \A l \in HeldLocs : owned[l] # "none"
  BY DEF CanAllocate
<1>2. Good(fs) /\ Fine(fs, owned, hold) /\ fs \in FsType
      /\ ClientType(owned, hold)
  BY <1>1, FineGood
<1>3. Spare(fs, 3)
  BY <1>1, ReusableFinite, BoundsAssumption DEF Roomy, Spare
<1>4. PinnedMarked(fs)
  <2>1. \A l \in Locations : \A s \in Slots : \A v \in hold[s] :
          v.loc = l => owned[l] # "none"
    BY <1>1 DEF HeldLocs
  <2>2. hold \in [Slots -> SUBSET View]
    BY <1>2 DEF ClientType
  <2> QED
    BY <1>2, <2>1, <2>2, HeldMarked
<1>5. RoomFor(fs, target)
  BY <1>2, RoomIsRoom
<1>6. Books(fs, {})
  BY <1>2 DEF Fine, Ledger
<1> QED
  BY <1>2, <1>3, <1>4, <1>5, <1>6, AllocateBlockAllocates

LEMMA AllocatedFine ==
  ASSUME IInv, CInv, Roomy, NEW type \in ClientTypes, NEW target \in Locations,
         CanAllocate, Room(target), NEW r, r = AllocateBlock(fs, type, target),
         NEW o, o = [owned EXCEPT ![r.addr] = type]
  PROVE  /\ Fine(r.fs, o, hold) /\ r.fs \in FsType /\ r.fs.open
         /\ r.slot \in Slots \ {r.fs.superslot} /\ r.fs.superslot \in Slots
         /\ r.slot \in r.fs.hashed /\ r.fs.loc[r.slot] = r.addr
         /\ r.slot \in r.fs.cached /\ r.fs.total_pins = fs.total_pins
         /\ Coherent(r.fs)
<1>1. Good(fs) /\ Fine(fs, owned, hold) /\ fs \in FsType /\ HoldOK(fs, hold)
      /\ ClientType(owned, hold) /\ fs.superslot \in Slots /\ Running
  BY FineGood DEF CanAllocate
<1>2. Allocated(fs, type, r)
  BY AllocatesForClient
<1>3. /\ r.slot \in Slots \ {fs.superslot}
      /\ r.slot \in r.fs.hashed /\ r.fs.loc[r.slot] = r.addr
      /\ Good(r.fs) /\ MorePins(fs, r.fs) /\ SameFields(fs, r.fs)
      /\ AllFixed(fs, r.fs) /\ r.fs \in FsType /\ Coherent(r.fs)
  BY <1>2, GoodType DEF Allocated
<1>4. Ledger(r.fs, o)
  <2>1. OwnerType(owned) /\ Ledger(fs, owned)
    BY <1>1 DEF ClientType, OwnerType, Fine
  <2> QED
    BY <1>1, <1>2, <2>1, AllocatedLedger DEF Gains
<1>5. PinnedBy(r.fs, hold) /\ InPlace(r.fs, hold)
  <2>1. hold[fs.superslot] = {} /\ r.fs.superslot = fs.superslot
    BY <1>1, <1>3 DEF HoldOK, SameFields
  <2> QED
    BY <1>1, <1>3, <2>1, FixedInPlace DEF Fine
<1>6. Fine(r.fs, o, hold)
  <2>1. Balanced(r.fs)
    BY <1>1, <1>3 DEF Fine, MorePins, Balanced
  <2> QED
    BY <1>3, <1>4, <1>5, <2>1 DEF Fine, Good
<1>7. /\ r.slot \in Slots \ {r.fs.superslot} /\ r.fs.superslot \in Slots
      /\ r.fs.total_pins = fs.total_pins /\ r.fs.open
  BY <1>1, <1>3 DEF MorePins, SameFields, Running
<1>8. r.slot \in r.fs.cached
  BY <1>3 DEF Coherent
<1> QED
  BY <1>3, <1>6, <1>7, <1>8

LEMMA AllocateAndPinFine ==
  ASSUME IInv, CInv, Roomy, AllocateAndPin PROVE CInv'
<1> DEFINE r == AllocateBlock(fs, "B_TREE", 0)
           o == [owned EXCEPT ![r.addr] = "B_TREE"]
           v == [loc |-> r.addr, snap |-> Zero]
           k == [hold EXCEPT ![r.slot] = @ \cup {v}]
           f == Pin(r.fs, r.slot)
<1>1. /\ CanAllocate /\ Running /\ CanHold /\ Room(0) /\ Returns(f, o, k)
  BY DEF AllocateAndPin, CanAllocate, Holding
<1>2. ClientType(owned, hold) /\ 0 \in Locations /\ "B_TREE" \in ClientTypes
  BY <1>1, FineGood, BoundsType DEF Locations, ClientTypes
<1>3. /\ Fine(r.fs, o, hold) /\ r.fs \in FsType /\ r.fs.open
      /\ r.slot \in Slots \ {r.fs.superslot} /\ r.fs.superslot \in Slots
      /\ r.slot \in r.fs.hashed /\ r.fs.loc[r.slot] = r.addr
      /\ r.slot \in r.fs.cached /\ r.fs.total_pins = fs.total_pins
      /\ Coherent(r.fs)
  <2> HIDE DEF r
  <2> QED
    BY <1>1, <1>2, AllocatedFine DEF r
<1> HIDE DEF r
<1>4. r.fs.total_pins <= MaxHeld /\ Shows(r.fs, r.slot, v)
  BY <1>1, <1>3 DEF CanHold, Shows, Coherent
<1>5. Fine(f, o, k)
  <2>1. hold \in [Slots -> SUBSET View]
    BY <1>2 DEF ClientType
  <2> HIDE DEF v, o
  <2> QED
    BY <1>3, <1>4, <2>1, PinFine
<1>6. f.open
  <2>1. Repinned(r.fs, r.slot, 1, f)
    BY <1>3, PinRepins
  <2> QED
    BY <1>3, <2>1 DEF Repinned
<1> HIDE DEF f, k, o
<1>7. fs' = f /\ owned' = o /\ hold' = k
  BY <1>1, <1>5 DEF Returns, Fine
<1> QED
  BY <1>5, <1>6, <1>7 DEF CInv

LEMMA AllocateDataFine ==
  ASSUME IInv, CInv, Roomy, NEW target \in Locations, AllocateData(target)
  PROVE  CInv'
<1> DEFINE r == AllocateBlock(fs, "B_DATA", target)
           o == [owned EXCEPT ![r.addr] = "B_DATA"]
<1>1. CanAllocate /\ Room(target) /\ Returns(r.fs, o, hold)
  BY DEF AllocateData
<1>2. "B_DATA" \in ClientTypes
  BY DEF ClientTypes
<1>3. Fine(r.fs, o, hold) /\ r.fs.open
  <2> HIDE DEF r
  <2> QED
    BY <1>1, <1>2, AllocatedFine DEF r
<1> HIDE DEF r, o
<1>4. fs' = r.fs /\ owned' = o /\ hold' = hold
  BY <1>1, <1>3 DEF Returns, Fine
<1> QED
  BY <1>3, <1>4 DEF CInv

LEMMA FreedLedger ==
  ASSUME NEW f \in FsType, NEW o, OwnerType(o), Ledger(f, o),
         NEW l \in Locations, o[l] # "none",
         NEW g, Freed(f, o[l], l, g), NEW p, p = [o EXCEPT ![l] = "none"]
  PROVE  Ledger(g, p) /\ Live(g) = Live(f) \ {l}
<1>1. /\ Books(g, {}) /\ Marks(g) = Marks(f) \ {l} /\ Maps(g) = Maps(f)
      /\ OneLess(f, o[l], g)
  BY DEF Freed
<1>2. l \in Live(f) /\ l # 0 /\ Live(f) = Owned(o)
  BY OwnedLive DEF Ledger
<1>3. Live(g) = Live(f) \ {l} /\ 0 \in Marks(g)
  BY <1>1, <1>2 DEF Live, Ledger
<1>4. Owned(p) = Owned(o) \ {l}
  BY DEF Owned, OwnerType
<1>5. ASSUME NEW t \in ClientTypes
      PROVE  g.super.counts[t] = Cardinality(OfType(p, t))
  <2>1. /\ g.super.counts[t] = f.super.counts[t] - (IF t = o[l] THEN 1 ELSE 0)
        /\ f.super.counts[t] = Cardinality(OfType(o, t))
    BY <1>1 DEF OneLess, Ledger, Counted
  <2>2. IsFiniteSet(OfType(o, t)) /\ Cardinality(OfType(o, t)) \in Nat
    BY OfTypeFinite
  <2>3. t # "none"
    BY DEF ClientTypes
  <2>4. OfType(p, t) = OfType(o, t) \ {l}
    BY <2>3 DEF OfType, OwnerType
  <2>5. CASE t = o[l]
    <3>1. l \in OfType(o, t)
      BY <2>5 DEF OfType
    <3>2. Cardinality(OfType(p, t)) = Cardinality(OfType(o, t)) - 1
      BY <2>2, <2>4, <3>1, FS_RemoveElement
    <3> QED
      BY <2>1, <2>5, <3>2
  <2>6. CASE t # o[l]
    <3>1. OfType(p, t) = OfType(o, t)
      BY <2>4, <2>6 DEF OfType
    <3> QED
      BY <2>1, <2>2, <2>6, <3>1
  <2> QED
    BY <2>5, <2>6
<1> QED
  BY <1>1, <1>2, <1>3, <1>4, <1>5 DEF Ledger, Counted

LEMMA FreesForClient ==
  ASSUME IInv, CInv, Roomy, Running, NEW l \in Locations, owned[l] # "none",
         NEW g, g = DeallocateBlock(fs, owned[l], l)
  PROVE  Freed(fs, owned[l], l, g)
<1>1. Good(fs) /\ Fine(fs, owned, hold) /\ fs \in FsType
      /\ ClientType(owned, hold)
  BY FineGood
<1>2. Roomed(fs)
  BY <1>1, BoundedRoomed DEF Fine
<1>3. l \in Live(fs) /\ Books(fs, {})
  BY <1>1, OwnedLive DEF Fine, Ledger
<1>4. owned[l] \in ClientTypes
  BY <1>1 DEF ClientType
<1> QED
  BY <1>1, <1>2, <1>3, <1>4, DeallocateBlockFrees

LEMMA FreeBlockFine ==
  ASSUME IInv, CInv, Roomy, NEW l \in Locations, FreeBlock(l) PROVE CInv'
<1> DEFINE g == DeallocateBlock(fs, owned[l], l)
           o == [owned EXCEPT ![l] = "none"]
<1>1. Running /\ owned[l] # "none" /\ Returns(g, o, hold)
  BY DEF FreeBlock
<1>2. Good(fs) /\ Fine(fs, owned, hold) /\ fs \in FsType /\ HoldOK(fs, hold)
      /\ ClientType(owned, hold) /\ fs.superslot \in Slots
  BY <1>1, FineGood
<1>3. Freed(fs, owned[l], l, g)
  <2> HIDE DEF g
  <2> QED
    BY <1>1, FreesForClient DEF g
<1> HIDE DEF g
<1>4. Good(g) /\ MorePins(fs, g) /\ SameFields(fs, g) /\ AllFixed(fs, g)
  BY <1>3 DEF Freed
<1>5. Ledger(g, o)
  <2>1. OwnerType(owned) /\ Ledger(fs, owned)
    BY <1>2 DEF ClientType, OwnerType, Fine
  <2> QED
    BY <1>1, <1>2, <1>3, <2>1, FreedLedger
<1>6. PinnedBy(g, hold) /\ InPlace(g, hold)
  <2>1. hold[fs.superslot] = {} /\ g.superslot = fs.superslot
    BY <1>2, <1>4 DEF HoldOK, SameFields
  <2> QED
    BY <1>2, <1>4, <2>1, FixedInPlace DEF Fine
<1>7. Fine(g, o, hold)
  <2>1. Balanced(g)
    BY <1>2, <1>4 DEF Fine, MorePins, Balanced
  <2> QED
    BY <1>4, <1>5, <1>6, <2>1 DEF Fine, Good
<1>8. fs' = g /\ owned' = o /\ hold' = hold
  BY <1>1, <1>4 DEF Returns, Good
<1>9. g.open
  BY <1>1, <1>4 DEF SameFields, Running
<1> HIDE DEF o
<1> QED
  BY <1>7, <1>8, <1>9 DEF CInv

-----------------------------------------------------------------------------
(* Closing, opening and creating a file system.                            *)

(* A process that opens or creates a file system holds one pin.            *)
LEMMA OnePin ==
  ASSUME NEW s \in Slots, NEW p, p = [t \in Slots |-> IF t = s THEN 1 ELSE 0]
  PROVE  SumFunction(p) = 1
<1> DEFINE z == [t \in Slots |-> 0]
<1>1. z \in [Slots -> Int] /\ \A t \in Slots : z[t] = 0
  OBVIOUS
<1>2. p = [z EXCEPT ![s] = z[s] + 1]
  OBVIOUS
<1> HIDE DEF z
<1>3. SumFunction(z) = 0
  BY <1>1, SumOfNone
<1>4. 1 \in Int
  OBVIOUS
<1>5. SumFunction(p) = SumFunction(z) + 1
  BY <1>1, <1>2, <1>4, SumChange
<1> QED
  BY <1>3, <1>5

LEMMA CloseFine ==
  ASSUME IInv, CInv, Close PROVE CInv'
<1> DEFINE g == FlushFs(fs)
           u == Unpin(g, fs.superslot)
<1>1. Running /\ Held = {} /\ fs' = CloseFs(fs) /\ owned' = owned /\ hold' = hold
  BY DEF Close
<1>2. Good(fs) /\ Fine(fs, owned, hold) /\ fs \in FsType /\ HoldOK(fs, hold)
      /\ fs.superslot \in Slots /\ Sound(fs)
  BY <1>1, FineGood DEF Good
<1>3. Gentle(fs, g) /\ g.dirty = {}
  BY <1>2, FlushFsCalm, CalmGentle
<1>3a. Flushed(fs, g) /\ g.savedsuper = fs.super
  BY <1>2, FlushFsSound
<1> HIDE DEF g
<1>4. Fine(g, owned, hold)
  <2>1. hold[fs.superslot] = {}
    BY <1>2 DEF HoldOK
  <2> QED
    BY <1>2, <1>3, <2>1, GentleFine
<1>5. /\ Good(g) /\ g.superslot = fs.superslot /\ g.pins[fs.superslot] = 1
      /\ \A s \in Slots \ {fs.superslot} : g.pins[s] = 0
  <2>1. Good(g) /\ g.superslot = fs.superslot
    BY <1>3 DEF Gentle, SameFields
  <2>2. \A s \in Slots : hold[s] = {}
    BY <1>1 DEF Held
  <2> QED
    BY <1>4, <2>1, <2>2 DEF Fine, PinnedBy
<1>6. g \in FsType /\ Sound(g) /\ g.superslot \in g.hashed /\ g.loc[g.superslot] = 0
  BY <1>5, GoodType
<1>7. Repinned(g, fs.superslot, -1, u) /\ u.fault = g.fault /\ u \in FsType
  BY <1>2, <1>5, <1>6, UnpinRepins, UnpinSound
<1> HIDE DEF u
<1>8. Ledger(u, owned) /\ u.total_pins = SumFunction(u.pins)
  <2>1. Ledger(g, owned) /\ g.total_pins = SumFunction(g.pins)
    BY <1>4 DEF Fine, Balanced
  <2>2. -1 \in Int
    OBVIOUS
  <2> QED
    BY <1>2, <1>6, <1>7, <2>1, <2>2, RepinnedSame
<1>9. /\ u.dirty = {} /\ ~u.fault /\ u.superslot \in u.hashed
      /\ u.loc[u.superslot] = 0
  BY <1>3, <1>5, <1>6, <1>7 DEF Repinned, Good
<1>10. \A s \in Slots : u.pins[s] = 0
  BY <1>2, <1>5, <1>6, <1>7, FieldTypes DEF Repinned
<1>11. u.total_pins = 0
  BY <1>7, <1>8, <1>10, SumOfNone, FieldTypes
<1>12. fs' = [u EXCEPT !.open = FALSE, !.fault = @ \/ u.total_pins # 0]
  BY <1>1 DEF CloseFs, g, u
<1>13. /\ fs'.open = FALSE /\ fs'.fault = (u.fault \/ u.total_pins # 0)
       /\ fs'.loc = u.loc /\ fs'.buf = u.buf /\ fs'.dirty = u.dirty
       /\ fs'.hashed = u.hashed /\ fs'.file = u.file /\ fs'.pins = u.pins
       /\ fs'.total_pins = u.total_pins /\ fs'.num_blocks = u.num_blocks
       /\ fs'.superslot = u.superslot /\ fs'.super = u.super
  BY <1>7, <1>12 DEF FsType
<1>14. Ledger(fs', owned)
  <2>1. \A l : Cur(fs', l) = Cur(u, l)
    BY <1>13 DEF Cur, At
  <2> QED
    BY <1>7, <1>8, <1>13, <2>1, SameLedger
<1>15. Balanced(fs')
  <2>1. 0 <= MaxHeld + 1
    BY BoundsAssumption
  <2> QED
    BY <1>8, <1>11, <1>13, <2>1 DEF Balanced
<1>16. Shut(fs', owned)
  BY <1>9, <1>10, <1>11, <1>13, <1>14, <1>15 DEF Shut
<1> QED
  BY <1>1, <1>13, <1>16 DEF CInv

(* Nothing was dirty, so nothing is lost with the cache.                   *)
LEMMA ShutCur ==
  ASSUME NEW f, Coherent(f), NEW o, Shut(f, o), NEW l \in Locations \ {0}
  PROVE  Cur(f, l) = f.file[l]
<1>1. CASE \E s \in f.hashed : f.loc[s] = l
  <2>1. PICK s \in f.hashed : f.loc[s] = l
    BY <1>1
  <2>2. s \in f.hashed \ (f.dirty \cup {f.superslot})
    BY <2>1 DEF Shut
  <2>3. f.buf[s] = f.file[f.loc[s]]
    BY <2>2 DEF Coherent
  <2> QED
    BY <2>1, <2>3, CurHit
<1>2. CASE \A s \in f.hashed : f.loc[s] # l
  BY <1>2, CurMiss
<1> QED
  BY <1>1, <1>2

(* A process that opens the file reads the bitmaps that were written.      *)
LEMMA OpenFine ==
  ASSUME IInv, CInv, Open PROVE CInv'
<1>1. ~fs.open /\ ~fs.fault /\ fs' = OpenFs(fs)
      /\ owned' = owned /\ hold' = hold
  BY DEF Open
<1>2. /\ fs \in FsType /\ Coherent(fs) /\ fs.num_blocks >= 1
      /\ \A s \in Slots : hold[s] = {}
      /\ fs.savedsuper = fs.super
  BY <1>1 DEF IInv, ClosedOK
<1>3. Shut(fs, owned)
  BY <1>1 DEF CInv
<1> DEFINE g == OpenFs(fs)
<1>4. /\ Sound(g) /\ g.superslot \in Slots /\ g.open
      /\ g.num_blocks = fs.num_blocks /\ g.super = fs.super
      /\ Reopened(fs, g)
  BY <1>2, OpenFsSound
<1>4a. fs' = g
  BY <1>1
<1> HIDE DEF g
<1>5. /\ g \in FsType /\ Coherent(g) /\ g.loc[g.superslot] = 0
      /\ g.hashed = {g.superslot} /\ g.cached = {g.superslot}
      /\ g.file = fs.file /\ g.total_pins = 1 /\ ~g.fault
      /\ g.pins = [t \in Slots |-> IF t = g.superslot THEN 1 ELSE 0]
  BY <1>1, <1>4 DEF Reopened, Sound, Rooted
<1>6. \A l \in Locations \ {0} : Cur(fs, l) = fs.file[l]
  BY <1>2, <1>3, ShutCur
<1>7. \A l \in Locations \ {0} : Cur(g, l) = g.file[l]
  <2>1. ASSUME NEW l \in Locations \ {0} PROVE \A s \in g.hashed : g.loc[s] # l
    BY <1>5
  <2> QED
    BY <2>1, CurMiss
<1>8. Ledger(g, owned)
  <2>1. \A b \in Maps(fs) : Cur(g, b) = Cur(fs, b)
    BY <1>2, <1>5, <1>6, <1>7, MapsType
  <2>2. Ledger(fs, owned)
    BY <1>3 DEF Shut
  <2> QED
    BY <1>2, <1>4, <2>1, <2>2, SameLedger
<1>9. Balanced(g)
  <2>1. SumFunction(g.pins) = 1
    BY <1>4, <1>5, OnePin
  <2>2. 1 <= MaxHeld + 1
    BY BoundsAssumption
  <2> QED
    BY <1>5, <2>1, <2>2 DEF Balanced
<1>10. Tidy(g)
  BY <1>5 DEF Tidy
<1>11. PinnedBy(g, hold)
  BY <1>2, <1>4, <1>5 DEF PinnedBy
<1>12. InPlace(g, hold)
  BY <1>2 DEF InPlace
<1>13. Fine(g, owned, hold)
  BY <1>5, <1>8, <1>9, <1>10, <1>11, <1>12 DEF Fine
<1> QED
  BY <1>1, <1>4, <1>4a, <1>13 DEF CInv

(* The three blocks of a new file system are the ones its bitmap marks.    *)
LEMMA CreatedMarks ==
  ASSUME NEW f, Sound(f), Created(f), f.num_blocks = 3
  PROVE  Marks(f) = {0, 1, 2} /\ Maps(f) = {1}
<1>1. f \in FsType /\ Coherent(f) /\ OneBitmap(f)
  BY DEF Sound, Created
<1>2. PICK c \in f.cached : c # f.superslot /\ f.loc[c] = 1 /\ f.buf[c].bits = {0, 1, 2}
  BY DEF Created, ThreeMarked
<1>3. Cur(f, 1).bits = {0, 1, 2}
  BY <1>1, <1>2, CurHit DEF Created
<1>4. /\ 0 \in Locations /\ 1 \in Locations /\ 2 \in Locations
      /\ Offset(0) = 0 /\ Offset(1) = 1 /\ Offset(2) = 2
  BY BoundsType DEF Locations, Offset
<1>5. f.super.bitmaps[0] = 1 /\ \A b \in Groups : b # 0 => f.super.bitmaps[b] = 0
  BY <1>1 DEF OneBitmap
<1>6. ASSUME NEW l \in Locations
      PROVE  l \in Marks(f) <=> Group(l) = 0 /\ Offset(l) \in {0, 1, 2}
  BY <1>3, <1>5, GroupType DEF Marks
<1>7. ASSUME NEW l \in Locations, Group(l) = 0, NEW k \in {0, 1, 2}, Offset(l) = k
      PROVE  l = k
  <2>1. k \in Locations /\ Group(k) = 0 /\ Offset(k) = k
    BY <1>4, GroupsOfFirst
  <2> QED
    BY <1>7, <2>1, OwnBit
<1>8. Marks(f) \subseteq Locations
  BY DEF Marks
<1>9. Marks(f) \subseteq {0, 1, 2}
  BY <1>6, <1>7, <1>8
<1>10. {0, 1, 2} \subseteq Marks(f)
  BY <1>4, <1>6, GroupsOfFirst
<1>11. 0 \in Groups
  BY <1>4, GroupType, GroupsOfFirst
<1>12. Maps(f) = {1}
  BY <1>5, <1>11 DEF Maps
<1> QED
  BY <1>9, <1>10, <1>12

LEMMA CreatedLedger ==
  ASSUME NEW f, Sound(f), Created(f), f.num_blocks = 3,
         NEW o, o = [l \in Locations |-> IF l = 2 THEN "B_TREE" ELSE "none"]
  PROVE  Ledger(f, o)
<1>1. Marks(f) = {0, 1, 2} /\ Maps(f) = {1}
  BY CreatedMarks
<1>2. Live(f) = {2}
  BY <1>1 DEF Live
<1>3. 2 \in Locations
  BY BoundsType DEF Locations
<1>4. Owned(o) = {2} /\ OfType(o, "B_TREE") = {2} /\ OfType(o, "B_DATA") = {}
  BY <1>3 DEF Owned, OfType
<1>5. /\ f.super.counts["B_TREE"] = 1 /\ f.super.counts["B_DATA"] = 0
      /\ f.super.counts["B_FREE"] = 0
  BY DEF Created, Tally
<1>6. Cardinality({2}) = 1 /\ Cardinality({}) = 0
  BY FS_Singleton, FS_EmptySet
<1>7. Counted(f, o)
  BY <1>4, <1>5, <1>6 DEF Counted, ClientTypes
<1>8. 0 .. f.num_blocks - 1 = {0, 1, 2}
  OBVIOUS
<1>9. Owing(f, {})
  <2>1. Unused(f, {}) = {}
    BY <1>1, <1>8 DEF Unused
  <2> QED
    BY <1>5, <1>6, <2>1 DEF Owing
<1>10. f.super.bitmaps[0] = 1 /\ \A b \in Groups : b # 0 => f.super.bitmaps[b] = 0
  BY DEF Created, OneBitmap
<1>11. MapsApart(f)
  BY <1>10 DEF MapsApart
<1>12. Covered(f, {})
  BY <1>8, <1>10, GroupsOfFirst DEF Covered
<1>13. Books(f, {})
  BY <1>1, <1>8, <1>9, <1>11, <1>12 DEF Books
<1> QED
  BY <1>1, <1>2, <1>4, <1>7, <1>13 DEF Ledger

LEMMA InitCInv == ASSUME Init PROVE CInv
<1>1. fs = CreateFs
  BY DEF Init
<1>2. /\ Sound(fs) /\ fs.superslot \in Slots /\ fs.open
      /\ fs.num_blocks = 3 /\ Created(fs)
  BY <1>1, CreateFsSound
<1>3. /\ owned = [l \in Locations |-> IF l = 2 THEN "B_TREE" ELSE "none"]
      /\ hold = [s \in Slots |-> {}]
  BY DEF Init
<1>4. fs \in FsType /\ fs.superslot \in fs.hashed /\ fs.hashed = fs.cached
  BY <1>2 DEF Sound, Rooted, Created
<1>5. \A s \in Slots : fs.pins[s] = IF s = fs.superslot THEN 1 ELSE 0
  BY <1>2 DEF Created
<1>6. ~fs.fault /\ fs.total_pins = 1
  BY <1>2 DEF Created, Pristine
<1>7. Ledger(fs, owned)
  BY <1>2, <1>3, CreatedLedger
<1>8. Balanced(fs)
  <2>1. fs.pins = [t \in Slots |-> IF t = fs.superslot THEN 1 ELSE 0]
    BY <1>4, <1>5, FieldTypes
  <2>2. SumFunction(fs.pins) = 1
    BY <1>2, <2>1, OnePin
  <2>3. 1 <= MaxHeld + 1
    BY BoundsAssumption
  <2> QED
    BY <1>6, <2>2, <2>3 DEF Balanced
<1>9. Tidy(fs)
  BY <1>4, <1>5 DEF Tidy
<1>10. PinnedBy(fs, hold) /\ InPlace(fs, hold)
  BY <1>2, <1>3, <1>5 DEF PinnedBy, InPlace
<1> QED
  BY <1>2, <1>6, <1>7, <1>8, <1>9, <1>10 DEF CInv, Fine

LEMMA FineNextPreserves ==
  ASSUME Roomy, IInv, CInv, [Next]_vars PROVE CInv'
<1>1. CASE Flush
  BY <1>1, FlushFine
<1>2. CASE Close
  BY <1>2, CloseFine
<1>3. CASE Open
  BY <1>3, OpenFine
<1>4. ASSUME NEW l \in Locations, GetAndPin(l) PROVE CInv'
  BY <1>4, GetAndPinFine
<1>5. ASSUME NEW l \in Locations, CloneAndPin(l) PROVE CInv'
  BY <1>5, CloneAndPinFine
<1>6. ASSUME NEW l \in Locations, FreeBlock(l) PROVE CInv'
  BY <1>6, FreeBlockFine
<1>7. ASSUME NEW s \in Slots, ReleaseBlock(s) PROVE CInv'
  BY <1>7, ReleaseBlockFine
<1>8. ASSUME NEW s \in Slots, NEW v \in Values, WriteBlock(s, v) PROVE CInv'
  BY <1>8, WriteBlockFine
<1>9. CASE AllocateAndPin
  BY <1>9, AllocateAndPinFine
<1>9a. ASSUME NEW l \in Locations, AllocateData(l) PROVE CInv'
  BY <1>9a, AllocateDataFine
<1>9b. ASSUME NEW l \in Locations, ReadData(l) PROVE CInv'
  BY <1>9b, ReadDataFine
<1>9c. ASSUME NEW l \in Locations, NEW v \in Values, WriteData(l, v) PROVE CInv'
  BY <1>9c, WriteDataFine
<1>10. CASE UNCHANGED vars
  <2>1. fs' = fs /\ owned' = owned /\ hold' = hold
    BY <1>10 DEF vars
  <2> QED
    BY <2>1 DEF CInv
<1> QED
  BY <1>1, <1>2, <1>3, <1>4, <1>5, <1>6, <1>7, <1>8, <1>9, <1>9a, <1>9b, <1>9c,
     <1>10 DEF Next

-----------------------------------------------------------------------------
(* With room in the cache, the contents are right in every reachable       *)
(* state: what is held is in place, what is in use is marked and counted,  *)
(* and the pins add up.                                                    *)
THEOREM ContentsInvariant == ASSUME Roomy PROVE Spec => []CInv
<1>1. Init => CInv
  BY InitCInv
<1>2. IInv /\ CInv /\ [Next]_vars => CInv'
  BY FineNextPreserves
<1> QED
  BY <1>1, <1>2, Invariance, PTL DEF Spec

(* No call of the block layer ends in error(), of clients that pin no more *)
(* than Roomy has room for: a slot is always found, no bit is set or       *)
(* cleared twice, no block is pinned more than MAX_PINS times (the one     *)
(* bound on pins that block.c checks) or unpinned when it is not pinned,   *)
(* and no pins are left when the file system is closed.                    *)
THEOREM NeverAnError == ASSUME Roomy PROVE Spec => []NoError
<1>1. CInv => NoError
  BY DEF CInv, Fine, Shut, NoError
<1> QED
  BY <1>1, ContentsInvariant, PTL

(* total_pins is the sum of the pins of the slots, so the check at close   *)
(* reports exactly the pins that were never released.                      *)
THEOREM PinsAddUp == ASSUME Roomy PROVE Spec => []PinsBalance
<1>1. CInv => PinsBalance
  BY DEF CInv, Fine, Shut, Balanced, PinsBalance
<1> QED
  BY <1>1, ContentsInvariant, PTL

(* Whatever is evicted, flushed, cloned or allocated meanwhile, the slot a *)
(* client has pinned still holds the block it asked for, and a clone still *)
(* has the contents it was made of.                                        *)
THEOREM HeldBlocksNeverMove == ASSUME Roomy PROVE Spec => []HeldBlocksStay
<1>1. ASSUME IInv, CInv PROVE HeldBlocksStay
  <2>1. CASE fs.open
    BY <1>1, <2>1 DEF CInv, Fine, InPlace, HeldBlocksStay
  <2>2. CASE ~fs.open
    <3>1. ~fs.fault
      BY <1>1, <2>2 DEF CInv, Shut
    <3>2. \A s \in Slots : hold[s] = {}
      BY <1>1, <2>2, <3>1 DEF IInv, ClosedOK
    <3> QED
      BY <3>2 DEF HeldBlocksStay
  <2> QED
    BY <2>1, <2>2
<1>2. IInv /\ CInv => HeldBlocksStay
  BY <1>1
<1> QED
  BY <1>2, Invariance, ContentsInvariant, PTL

(* In every reachable state, open or closed, the bitmaps as a reader finds *)
(* them mark the superblock, the bitmap blocks and the clients' blocks and *)
(* nothing else, and the counts in the superblock agree with them.         *)
THEOREM BitmapsExact == ASSUME Roomy PROVE Spec => []BitmapExact
<1>1. ASSUME IInv, CInv PROVE BitmapExact
  <2>1. Ledger(fs, owned) /\ Coherent(fs) /\ fs \in FsType
    BY <1>1 DEF CInv, Fine, Shut, IInv
  <2>2. \A l \in Locations : MarkedUsed(l) <=> l \in Marks(fs)
    BY <2>1, CurIsCurrent DEF MarkedUsed, Marks
  <2>3. BitmapBlocks = Maps(fs)
    BY DEF BitmapBlocks, Maps
  <2>4. \A l \in Locations : owned[l] # "none" <=> l \in Live(fs)
    BY <2>1 DEF Ledger, Owned
  <2>5. 0 \in Marks(fs) /\ Maps(fs) \subseteq Marks(fs)
    BY <2>1 DEF Ledger, Books
  <2>6. \A l \in Locations : MarkedUsed(l) <=>
           (l \in {0} \cup BitmapBlocks \/ owned[l] # "none")
    BY <2>2, <2>3, <2>4, <2>5 DEF Live
  <2>7. \A t \in ClientTypes :
           fs.super.counts[t] = Cardinality({l \in Locations : owned[l] = t})
    BY <2>1 DEF Ledger, Counted, OfType
  <2>8. {l \in 0 .. fs.num_blocks - 1 : ~MarkedUsed(l)} = Unused(fs, {})
    <3>1. 0 .. fs.num_blocks - 1 \subseteq Locations
      BY <2>1, FieldTypes, BoundsType DEF Locations
    <3> QED
      BY <2>2, <3>1 DEF Unused
  <2>9. fs.super.counts["B_FREE"] =
           Cardinality({l \in 0 .. fs.num_blocks - 1 : ~MarkedUsed(l)})
    BY <2>1, <2>8 DEF Ledger, Books, Owing
  <2> QED
    BY <2>6, <2>7, <2>9 DEF BitmapExact
<1>2. IInv /\ CInv => BitmapExact
  BY <1>1
<1> QED
  BY <1>2, Invariance, ContentsInvariant, PTL

-----------------------------------------------------------------------------
(* The cache implements the block store.                                   *)

(* What the clients read, and what the file has of it.                     *)
Contents(f) == [l \in Live(f) |-> Cur(f, l).data]
OnDisk(f) == [l \in Live(f) |-> f.file[l].data]

(* The same, as the refinement mapping has it.                             *)
StoreNow == [l \in LiveBlocks |-> CurrentContent(l).data]
DiskNow == [l \in LiveBlocks |-> fs.file[l].data]

Mapped == StoreNow = Contents(fs) /\ DiskNow = OnDisk(fs)

LEMMA CoherentMapped == Coherent(fs) => Mapped
<1> SUFFICES ASSUME Coherent(fs) PROVE Mapped
  OBVIOUS
<1>1. \A l : CurrentContent(l) = Cur(fs, l)
  BY CurIsCurrent
<1>2. \A l \in Locations : MarkedUsed(l) <=> l \in Marks(fs)
  BY <1>1 DEF MarkedUsed, Marks
<1>3. LiveBlocks = Live(fs)
  BY <1>2 DEF LiveBlocks, BitmapBlocks, Maps, Live, Marks
<1> QED
  BY <1>1, <1>3 DEF Mapped, StoreNow, DiskNow, Contents, OnDisk

LEMMA MappedNow == IInv => Mapped
  BY CoherentMapped DEF IInv

LEMMA MappedNext == IInv' => Mapped'
  BY MappedNow, PTL

(* A step of which clients see nothing, unless it be a flush.              *)
Still(f, g) ==
  Contents(g) = Contents(f) /\ (OnDisk(g) = OnDisk(f) \/ OnDisk(g) = Contents(f))

LEMMA StillMaps ==
  ASSUME Mapped, Mapped', Still(fs, fs')
  PROVE  [Store!Next]_(Store!vars)
<1>1. StoreNow' = StoreNow /\ (DiskNow' = DiskNow \/ DiskNow' = StoreNow)
  BY DEF Still, Mapped
<1>2. CASE DiskNow' = DiskNow
  <2>1. (StoreNow' = StoreNow /\ DiskNow' = DiskNow) => UNCHANGED Store!vars
    BY DEF Store!vars, StoreNow, DiskNow
  <2> QED
    BY <1>1, <1>2, <2>1
<1>3. CASE DiskNow' = StoreNow
  <2>1. (DiskNow' = StoreNow /\ StoreNow' = StoreNow) => Store!Sync
    BY DEF Store!Sync, StoreNow, DiskNow
  <2> QED
    BY <1>1, <1>3, <2>1 DEF Store!Next
<1> QED
  BY <1>1, <1>2, <1>3

LEMMA LiveType ==
  ASSUME NEW f
  PROVE  Live(f) \subseteq Locations \ {0} /\ Live(f) \cap Maps(f) = {}
  BY DEF Live, Marks

(* Where the blocks in use have the same contents, so have the clients'.   *)
LEMMA GentleStill ==
  ASSUME NEW f \in FsType, NEW g, Gentle(f, g)
  PROVE  Still(f, g)
<1>1. Marks(g) = Marks(f) /\ Maps(g) = Maps(f)
  BY MapsType, SameMarks DEF Gentle, SameCur
<1>2. Live(g) = Live(f)
  BY <1>1 DEF Live
<1>3. \A l \in Live(f) : Cur(g, l) = Cur(f, l)
  BY LiveType DEF Gentle, SameCur
<1>4. \/ \A l \in Live(f) : g.file[l] = f.file[l]
      \/ \A l \in Live(f) : g.file[l] = Cur(f, l)
  BY LiveType DEF Gentle, FileStep
<1>5. Contents(g) = Contents(f)
  BY <1>2, <1>3 DEF Contents
<1>6. OnDisk(g) = OnDisk(f) \/ OnDisk(g) = Contents(f)
  BY <1>2, <1>4 DEF OnDisk, Contents
<1> QED
  BY <1>5, <1>6 DEF Still

LEMMA RepinnedStill ==
  ASSUME NEW f \in FsType, NEW s, NEW d, NEW g, Repinned(f, s, d, g)
  PROVE  Contents(g) = Contents(f) /\ OnDisk(g) = OnDisk(f)
<1>1. \A l : Cur(g, l) = Cur(f, l)
  BY DEF Repinned, Cur, At
<1>2. g.super = f.super /\ g.file = f.file
  BY DEF Repinned
<1>3. Marks(g) = Marks(f) /\ Maps(g) = Maps(f)
  BY <1>1, <1>2, SameMarks
<1> QED
  BY <1>1, <1>2, <1>3 DEF Contents, OnDisk, Live

LEMMA StillRepinned ==
  ASSUME NEW f, NEW g \in FsType, NEW h, NEW s, NEW d, Still(f, g), Repinned(g, s, d, h)
  PROVE  Still(f, h)
  BY RepinnedStill DEF Still

LEMMA FlushStill ==
  ASSUME IInv, CInv, Flush PROVE Still(fs, fs')
<1>1. Running /\ fs' = FlushFs(fs)
  BY DEF Flush
<1>2. Good(fs) /\ fs \in FsType
  BY <1>1, FineGood
<1> QED
  BY <1>1, <1>2, FlushFsCalm, CalmGentle, GentleStill

LEMMA CloseStill ==
  ASSUME IInv, CInv, Close PROVE Still(fs, fs')
<1> DEFINE g == FlushFs(fs)
           u == Unpin(g, fs.superslot)
<1>1. Running /\ fs' = CloseFs(fs)
  BY DEF Close
<1>2. Good(fs) /\ fs \in FsType /\ fs.superslot \in Slots
      /\ Fine(fs, owned, hold)
  BY <1>1, FineGood
<1>3. Calm(fs, g)
  BY <1>2, FlushFsCalm
<1> HIDE DEF g
<1>4. Still(fs, g)
  BY <1>2, <1>3, CalmGentle, GentleStill
<1>5. g \in FsType /\ Sound(g) /\ g.pins = fs.pins
  BY <1>3, GoodType DEF Calm
<1>6. g.pins[fs.superslot] # 0
  BY <1>2, <1>5 DEF Fine, PinnedBy
<1>7. Repinned(g, fs.superslot, -1, u) /\ u \in FsType
  <2>1. Repinned(g, fs.superslot, -1, u)
    BY <1>2, <1>5, <1>6, UnpinRepins
  <2>2. u \in FsType
    BY <1>2, <1>5, UnpinSound
  <2> QED
    BY <2>1, <2>2
<1> HIDE DEF u
<1>7a. Still(fs, u)
  BY <1>4, <1>5, <1>7, StillRepinned
<1>8. fs' = [u EXCEPT !.open = FALSE, !.fault = @ \/ u.total_pins # 0]
  BY <1>1 DEF CloseFs, g, u
<1>9. /\ fs'.loc = u.loc /\ fs'.buf = u.buf /\ fs'.hashed = u.hashed
      /\ fs'.file = u.file /\ fs'.super = u.super
  BY <1>7, <1>8 DEF FsType
<1>10. Contents(fs') = Contents(u) /\ OnDisk(fs') = OnDisk(u)
  <2>1. \A l : Cur(fs', l) = Cur(u, l)
    BY <1>9 DEF Cur, At
  <2>2. Live(fs') = Live(u)
    BY <1>7, <1>9, <2>1, SameMarks DEF Live
  <2> QED
    BY <1>9, <2>1, <2>2 DEF Contents, OnDisk
<1> QED
  BY <1>7a, <1>10 DEF Still

LEMMA OpenStill ==
  ASSUME IInv, CInv, Open PROVE Still(fs, fs')
<1>1. ~fs.open /\ ~fs.fault /\ fs' = OpenFs(fs)
  BY DEF Open
<1>2. /\ fs \in FsType /\ Coherent(fs) /\ fs.num_blocks >= 1
      /\ fs.savedsuper = fs.super
  BY <1>1 DEF IInv, ClosedOK
<1>3. Shut(fs, owned)
  BY <1>1 DEF CInv
<1> DEFINE g == OpenFs(fs)
<1>4. Sound(g) /\ g.super = fs.super /\ Reopened(fs, g)
  BY <1>2, OpenFsSound
<1>5. fs' = g
  BY <1>1
<1> HIDE DEF g
<1>6. /\ g.loc[g.superslot] = 0 /\ g.hashed = {g.superslot} /\ g.file = fs.file
  BY <1>4 DEF Reopened, Sound, Rooted
<1>7. \A l \in Locations \ {0} : Cur(g, l) = fs.file[l]
  <2>1. ASSUME NEW l \in Locations \ {0} PROVE \A s \in g.hashed : g.loc[s] # l
    BY <1>6
  <2> QED
    BY <1>6, <2>1, CurMiss
<1>8. \A l \in Locations \ {0} : Cur(g, l) = Cur(fs, l)
  BY <1>2, <1>3, <1>7, ShutCur
<1>9. Live(g) = Live(fs)
  BY <1>2, <1>4, <1>8, MapsType, SameMarks DEF Live
<1>10. Contents(g) = Contents(fs) /\ OnDisk(g) = OnDisk(fs)
  BY <1>6, <1>8, <1>9, LiveType DEF Contents, OnDisk
<1> QED
  BY <1>5, <1>10 DEF Still

LEMMA GetAndPinStill ==
  ASSUME IInv, CInv, Roomy, NEW l \in Locations, GetAndPin(l)
  PROVE  Still(fs, fs')
<1> DEFINE r == GetBlock(fs, l)
<1>1. Running /\ owned[l] = "B_TREE" /\ fs' = Pin(Need(r), r.slot)
  BY DEF GetAndPin, Returns
<1>2. Good(fs) /\ Fine(fs, owned, hold) /\ fs \in FsType
  BY <1>1, FineGood
<1>3. GotAt(fs, r, l)
  <2>1. l < fs.num_blocks
    BY <1>1, <1>2, OwnedLive DEF Fine
  <2>2. Roomed(fs)
    BY <1>2, BoundedRoomed DEF Fine
  <2> QED
    BY <1>2, <2>1, <2>2, GetBlockReads
<1> HIDE DEF r
<1>4. /\ Calm(fs, r.fs) /\ r.slot \in Slots /\ Need(r) = r.fs /\ r.fs \in FsType
  BY <1>3, GoodType DEF GotAt, Read, Calm, Need
<1>5. Still(fs, r.fs)
  BY <1>2, <1>4, CalmGentle, GentleStill
<1>6. Repinned(r.fs, r.slot, 1, fs')
  BY <1>1, <1>4, PinRepins
<1> QED
  BY <1>4, <1>5, <1>6, StillRepinned

LEMMA CloneAndPinStill ==
  ASSUME IInv, CInv, Roomy, NEW l \in Locations, CloneAndPin(l)
  PROVE  Still(fs, fs')
<1> DEFINE g == GetBlock(fs, l)
           r == IF g.slot = NULL THEN g ELSE CloneBlock(g.fs, g.slot)
<1>1. Running /\ owned[l] = "B_TREE" /\ fs' = Pin(Need(r), r.slot)
  BY DEF CloneAndPin, Returns
<1>2. /\ Good(fs) /\ Fine(fs, owned, hold) /\ fs \in FsType
      /\ HoldOK(fs, hold) /\ fs.superslot \in Slots
  BY <1>1, FineGood
<1>3. l # 0 /\ l < fs.num_blocks
  BY <1>1, <1>2, OwnedLive DEF Fine
<1>4. GotAt(fs, g, l)
  <2>1. Roomed(fs)
    BY <1>2, BoundedRoomed DEF Fine
  <2> QED
    BY <1>2, <1>3, <2>1, GetBlockReads
<1> HIDE DEF g
<1>5. r = CloneBlock(g.fs, g.slot)
  BY <1>4 DEF GotAt
<1> HIDE DEF r
<1>6. /\ Gentle(fs, g.fs) /\ g.slot \in g.fs.hashed /\ g.fs.loc[g.slot] = l
  BY <1>4, CalmGentle DEF GotAt, Read
<1>7. Good(g.fs) /\ Fine(g.fs, owned, hold) /\ g.fs \in FsType
  <2>1. hold[fs.superslot] = {}
    BY <1>2 DEF HoldOK
  <2> QED
    BY <1>2, <1>6, <2>1, GentleFine, GoodType DEF Gentle
<1>8. Cloned(g.fs, g.slot, r)
  <2>1. g.slot # g.fs.superslot
    BY <1>3, <1>6, <1>7, GoodType
  <2>2. Roomed(g.fs)
    BY <1>7, BoundedRoomed DEF Fine
  <2> QED
    BY <1>5, <1>6, <1>7, <2>1, <2>2, CloneInPlace, CloneCopies
<1>9. Gentle(fs, r.fs) /\ r.slot \in Slots /\ Need(r) = r.fs
  BY <1>6, <1>8, GentleTransitive DEF Cloned, Need
<1>10. r.fs \in FsType
  BY <1>9, GoodType DEF Gentle
<1>11. Repinned(r.fs, r.slot, 1, fs')
  BY <1>1, <1>9, <1>10, PinRepins
<1> QED
  BY <1>2, <1>9, <1>10, <1>11, GentleStill, StillRepinned

LEMMA ReleaseBlockStill ==
  ASSUME IInv, CInv, NEW s \in Slots, ReleaseBlock(s)
  PROVE  Still(fs, fs')
<1>1. Running /\ hold[s] # {} /\ fs' = Unpin(fs, s)
  BY DEF ReleaseBlock, Returns, Held
<1>2. Fine(fs, owned, hold) /\ fs \in FsType /\ HoldOK(fs, hold)
  BY <1>1, FineGood
<1>3. fs.pins[s] # 0
  <2>1. s # fs.superslot
    BY <1>1, <1>2 DEF HoldOK
  <2> QED
    BY <1>1, <1>2, <2>1 DEF Fine, PinnedBy
<1>4. Repinned(fs, s, -1, fs')
  BY <1>1, <1>2, <1>3, UnpinRepins
<1> QED
  BY <1>2, <1>4, RepinnedStill DEF Still

LEMMA ReadDataStill ==
  ASSUME IInv, CInv, Roomy, NEW l \in Locations, ReadData(l)
  PROVE  Still(fs, fs')
<1> DEFINE r == GetBlock(fs, l)
<1>1. Running /\ owned[l] = "B_DATA" /\ fs' = Need(r)
  BY DEF ReadData, Returns
<1>2. Gentle(fs, r.fs) /\ Need(r) = r.fs
  BY <1>1, DataGot
<1>3. fs \in FsType
  BY <1>1, FineGood
<1> QED
  BY <1>1, <1>2, <1>3, GentleStill

(* write: the contents of one block change, in its slot.                   *)
WriteDone(f, v, g) ==
  \E l \in Live(f) : /\ Contents(g) = [Contents(f) EXCEPT ![l] = v]
                     /\ OnDisk(g) = OnDisk(f) \/ OnDisk(g) = Contents(f)

LEMMA WriteStores ==
  ASSUME NEW f \in FsType, Coherent(f), NEW s \in f.hashed,
         f.loc[s] \in Live(f), NEW v \in Values,
         NEW g, g = SetData(f, s, v)
  PROVE  /\ Contents(g) = [Contents(f) EXCEPT ![f.loc[s]] = v]
         /\ OnDisk(g) = OnDisk(f)
<1>1. f.buf \in [Slots -> Content] /\ f.hashed \subseteq Slots
  BY FieldTypes
<1>2. /\ g.loc = f.loc /\ g.hashed = f.hashed /\ g.file = f.file
      /\ g.super = f.super /\ g.buf = [f.buf EXCEPT ![s].data = v]
  BY DEF SetData, FsType
<1>3. /\ g.buf[s].data = v
      /\ \A t \in Slots \ {s} : g.buf[t] = f.buf[t]
  BY <1>1, <1>2 DEF Content
<1> DEFINE l == f.loc[s]
<1>4. \A m : At(g, m) = At(f, m)
  BY <1>2 DEF At
<1>5. Cur(g, l) = g.buf[s]
  <2>1. At(f, l) = {s}
    BY DEF At, Coherent
  <2> QED
    BY <1>4, <2>1 DEF Cur
<1>6. ASSUME NEW m, m # l PROVE Cur(g, m) = Cur(f, m)
  <2>1. At(f, m) # {} => (CHOOSE t \in At(f, m) : TRUE) \in Slots \ {s}
    BY <1>1, <1>6 DEF At
  <2>2. g.file = f.file /\ At(g, m) = At(f, m)
    BY <1>2, <1>4
  <2> QED
    BY <1>3, <2>1, <2>2 DEF Cur
<1>7. Live(g) = Live(f)
  <2>1. \A b \in Maps(f) : Cur(g, b) = Cur(f, b)
    BY <1>6, LiveType
  <2> QED
    BY <1>2, <2>1, SameMarks DEF Live
<1>8. Contents(g) = [Contents(f) EXCEPT ![l] = v]
  BY <1>3, <1>5, <1>6, <1>7 DEF Contents
<1>9. OnDisk(g) = OnDisk(f)
  BY <1>2, <1>7 DEF OnDisk
<1> QED
  BY <1>8, <1>9

LEMMA WriteBlockWrites ==
  ASSUME IInv, CInv, NEW s \in Slots, NEW v \in Values, WriteBlock(s, v)
  PROVE  WriteDone(fs, v, fs')
<1>1. /\ Running /\ hold[s] # {} /\ s \notin fs.clone
      /\ \A w \in hold[s] : owned[w.loc] # "none"
      /\ fs' = SetData(fs, s, v)
  BY DEF WriteBlock, Held
<1>2. Fine(fs, owned, hold) /\ fs \in FsType /\ ClientType(owned, hold)
      /\ Coherent(fs)
  BY <1>1, FineGood, GoodType
<1>3. s \in fs.hashed /\ fs.loc[s] \in Live(fs)
  <2>1. PICK w \in hold[s] : TRUE
    BY <1>1
  <2>2. w.loc = fs.loc[s] /\ owned[w.loc] # "none" /\ w.loc \in Locations
    BY <1>1, <1>2, <2>1 DEF Fine, InPlace, ClientType, View
  <2> QED
    BY <1>1, <1>2, <2>1, <2>2, OwnedLive DEF Fine, InPlace
<1>4. /\ Contents(fs') = [Contents(fs) EXCEPT ![fs.loc[s]] = v]
      /\ OnDisk(fs') = OnDisk(fs)
  BY <1>1, <1>2, <1>3, WriteStores
<1> QED
  BY <1>3, <1>4 DEF WriteDone

(* The block may have to be read first, and the cache flushed for it.      *)
LEMMA WriteDataWrites ==
  ASSUME IInv, CInv, Roomy, NEW l \in Locations, NEW v \in Values, WriteData(l, v)
  PROVE  WriteDone(fs, v, fs')
<1> DEFINE r == GetBlock(fs, l)
           g == r.fs
           w == SetData(g, r.slot, v)
<1>1. Running /\ owned[l] = "B_DATA"
      /\ fs' = IF r.slot = NULL THEN Need(r) ELSE w
  BY DEF WriteData, Returns
<1>2. /\ Gentle(fs, g) /\ Fine(g, owned, hold) /\ g \in FsType /\ Coherent(g)
      /\ r.slot # NULL /\ r.slot \in g.hashed /\ g.loc[r.slot] = l
  BY <1>1, DataGot
<1>3. Still(fs, g) /\ l \in Live(fs)
  <2>1. fs \in FsType /\ Fine(fs, owned, hold)
    BY <1>1, FineGood
  <2>2. l \in Live(fs)
    BY <1>1, <2>1, OwnedLive DEF Fine
  <2>3. Still(fs, g)
    BY <1>2, <2>1, GentleStill
  <2> QED
    BY <2>2, <2>3
<1> HIDE DEF r, g
<1>4. g.loc[r.slot] \in Live(g)
  BY <1>1, <1>2, OwnedLive DEF Fine
<1>5. /\ Contents(w) = [Contents(g) EXCEPT ![l] = v]
      /\ OnDisk(w) = OnDisk(g)
  BY <1>2, <1>4, WriteStores
<1> HIDE DEF w
<1>6. fs' = w
  BY <1>1, <1>2
<1> QED
  BY <1>3, <1>5, <1>6 DEF WriteDone, Still

(* allocate_block: a block of zeros at a location that no client had.      *)
Longer(f, c, l) == [m \in Live(f) \cup {l} |-> IF m = l THEN Zero ELSE c[m]]

AllocateDone(f, g) ==
  \E l \in Locations \ Live(f) :
    /\ Contents(g) = Longer(f, Contents(f), l)
    /\ \/ OnDisk(g) = Longer(f, OnDisk(f), l)
       \/ OnDisk(g) = Longer(f, Contents(f), l)

LEMMA ClientAllocates ==
  ASSUME IInv, CInv, Roomy, NEW type \in ClientTypes, NEW target \in Locations,
         CanAllocate, Room(target), NEW r, r = AllocateBlock(fs, type, target)
  PROVE  AllocateDone(fs, r.fs) /\ r.slot \in Slots /\ r.fs \in FsType
<1> DEFINE o == [owned EXCEPT ![r.addr] = type]
           l == r.addr
<1>1. Fine(fs, owned, hold) /\ ClientType(owned, hold)
  BY FineGood DEF CanAllocate
<1>2. Allocated(fs, type, r)
  BY AllocatesForClient
<1>3. /\ r.slot \in Slots /\ r.fs \in FsType
      /\ l \in Locations \ {0} /\ l \notin Live(fs)
      /\ Cur(r.fs, l) = ZeroContent /\ r.fs.file[l] = ZeroContent
      /\ \A m \in Live(fs) : Cur(r.fs, m) = Cur(fs, m)
      /\ FileStep(fs, Live(fs), r.fs)
  BY <1>2, GoodType DEF Allocated, KeepsLive, Live
<1>4. Live(r.fs) = Live(fs) \cup {l}
  <2>1. OwnerType(owned) /\ Ledger(fs, owned)
    BY <1>1 DEF ClientType, OwnerType, Fine
  <2> QED
    BY <1>2, <2>1, AllocatedLive DEF Gains
<1>5. ZeroContent.data = Zero
  BY DEF ZeroContent
<1> HIDE DEF l
<1>6. Contents(r.fs) = Longer(fs, Contents(fs), l)
  BY <1>3, <1>4, <1>5 DEF Contents, Longer
<1>7. \/ OnDisk(r.fs) = Longer(fs, OnDisk(fs), l)
      \/ OnDisk(r.fs) = Longer(fs, Contents(fs), l)
  <2>1. CASE \A m \in Live(fs) : r.fs.file[m] = fs.file[m]
    BY <1>3, <1>4, <1>5, <2>1 DEF OnDisk, Longer
  <2>2. CASE \A m \in Live(fs) : r.fs.file[m] = Cur(fs, m)
    BY <1>3, <1>4, <1>5, <2>2 DEF OnDisk, Contents, Longer
  <2> QED
    BY <1>3, <2>1, <2>2 DEF FileStep
<1> QED
  BY <1>3, <1>6, <1>7 DEF AllocateDone

LEMMA AllocateAndPinAllocates ==
  ASSUME IInv, CInv, Roomy, AllocateAndPin PROVE AllocateDone(fs, fs')
<1> DEFINE r == AllocateBlock(fs, "B_TREE", 0)
<1>1. CanAllocate /\ Room(0) /\ fs' = Pin(r.fs, r.slot)
  BY DEF AllocateAndPin, Returns
<1>2. AllocateDone(fs, r.fs) /\ r.slot \in Slots /\ r.fs \in FsType
  <2>1. 0 \in Locations /\ "B_TREE" \in ClientTypes
    BY BoundsType DEF Locations, ClientTypes
  <2> HIDE DEF r
  <2> QED
    BY <1>1, <2>1, ClientAllocates DEF r
<1> HIDE DEF r
<1>3. Contents(fs') = Contents(r.fs) /\ OnDisk(fs') = OnDisk(r.fs)
  BY <1>1, <1>2, PinRepins, RepinnedStill
<1> QED
  BY <1>2, <1>3 DEF AllocateDone

LEMMA AllocateDataAllocates ==
  ASSUME IInv, CInv, Roomy, NEW target \in Locations, AllocateData(target)
  PROVE  AllocateDone(fs, fs')
<1> DEFINE r == AllocateBlock(fs, "B_DATA", target)
<1>1. CanAllocate /\ Room(target) /\ fs' = r.fs
  BY DEF AllocateData, Returns
<1>2. "B_DATA" \in ClientTypes
  BY DEF ClientTypes
<1> HIDE DEF r
<1> QED
  BY <1>1, <1>2, ClientAllocates DEF r

(* deallocate_block: one block less, and the others as they were.          *)
Shorter(f, c, l) == [m \in Live(f) \ {l} |-> c[m]]

FreeDone(f, l, g) ==
  /\ l \in Live(f)
  /\ Contents(g) = Shorter(f, Contents(f), l)
  /\ \/ OnDisk(g) = Shorter(f, OnDisk(f), l)
     \/ OnDisk(g) = Shorter(f, Contents(f), l)

LEMMA FreeBlockFrees ==
  ASSUME IInv, CInv, Roomy, NEW l \in Locations, FreeBlock(l)
  PROVE  FreeDone(fs, l, fs')
<1> DEFINE g == DeallocateBlock(fs, owned[l], l)
<1>1. Running /\ owned[l] # "none" /\ fs' = g
  BY DEF FreeBlock, Returns
<1>2. Fine(fs, owned, hold) /\ ClientType(owned, hold) /\ fs \in FsType
  BY <1>1, FineGood
<1>3. Freed(fs, owned[l], l, g)
  <2> HIDE DEF g
  <2> QED
    BY <1>1, FreesForClient DEF g
<1> HIDE DEF g
<1>4. l \in Live(fs) /\ Live(g) = Live(fs) \ {l}
  <2>1. OwnerType(owned) /\ Ledger(fs, owned)
    BY <1>2 DEF ClientType, OwnerType, Fine
  <2> QED
    BY <1>1, <1>2, <1>3, <2>1, FreedLedger, OwnedLive
<1>5. /\ \A m \in Live(fs) \ {l} : Cur(g, m) = Cur(fs, m)
      /\ FileStep(fs, Live(fs) \ {l}, g)
  BY <1>3 DEF Freed
<1>6. Contents(g) = Shorter(fs, Contents(fs), l)
  BY <1>4, <1>5 DEF Contents, Shorter
<1>7. \/ OnDisk(g) = Shorter(fs, OnDisk(fs), l)
      \/ OnDisk(g) = Shorter(fs, Contents(fs), l)
  <2>1. CASE \A m \in Live(fs) \ {l} : g.file[m] = fs.file[m]
    BY <1>4, <2>1 DEF OnDisk, Shorter
  <2>2. CASE \A m \in Live(fs) \ {l} : g.file[m] = Cur(fs, m)
    BY <1>4, <2>2 DEF OnDisk, Contents, Shorter
  <2> QED
    BY <1>5, <2>1, <2>2 DEF FileStep
<1> QED
  BY <1>1, <1>4, <1>6, <1>7 DEF FreeDone

(* The three changes of the store, as steps of its specification.          *)
LEMMA WriteMaps ==
  ASSUME Mapped, Mapped', NEW v \in Values, WriteDone(fs, v, fs')
  PROVE  Store!Next
<1>1. PICK l \in Live(fs) : /\ StoreNow' = [StoreNow EXCEPT ![l] = v]
                            /\ DiskNow' \in {DiskNow, StoreNow}
  BY DEF WriteDone, Mapped
<1>2. l \in Locations /\ l \in DOMAIN StoreNow
  BY LiveType DEF Mapped, Contents
<1>3. (/\ l \in DOMAIN StoreNow
       /\ StoreNow' = [StoreNow EXCEPT ![l] = v]
       /\ DiskNow' \in {DiskNow, StoreNow})
      => Store!Write(l, v)
  BY DEF Store!Write, Store!Disk, Store!Live, StoreNow, DiskNow
<1> QED
  BY <1>1, <1>2, <1>3 DEF Store!Next

LEMMA AllocateMaps ==
  ASSUME Mapped, Mapped', AllocateDone(fs, fs')
  PROVE  Store!Next
<1>1. PICK l \in Locations \ Live(fs) :
         /\ StoreNow' = Longer(fs, StoreNow, l)
         /\ \E d \in {DiskNow, StoreNow} : DiskNow' = Longer(fs, d, l)
  BY DEF AllocateDone, Mapped
<1>2. DOMAIN StoreNow = Live(fs)
  BY DEF Mapped, Contents
<1>3. \A c : Longer(fs, c, l) = Store!Extended(c, l)
  BY <1>2 DEF Longer, Store!Extended, Store!Live, StoreNow
<1>4. (/\ l \notin DOMAIN StoreNow
       /\ StoreNow' = Store!Extended(StoreNow, l)
       /\ \E d \in {DiskNow, StoreNow} : DiskNow' = Store!Extended(d, l))
      => Store!Allocate(l)
  BY DEF Store!Allocate, Store!Disk, Store!Live, StoreNow, DiskNow
<1>5. Store!Allocate(l)
  BY <1>1, <1>2, <1>3, <1>4
<1> QED
  BY <1>1, <1>5 DEF Store!Next

LEMMA FreeMaps ==
  ASSUME Mapped, Mapped', NEW l \in Locations, FreeDone(fs, l, fs')
  PROVE  Store!Next
<1>1. /\ l \in Live(fs) /\ StoreNow' = Shorter(fs, StoreNow, l)
      /\ \E d \in {DiskNow, StoreNow} : DiskNow' = Shorter(fs, d, l)
  BY DEF FreeDone, Mapped
<1>2. DOMAIN StoreNow = Live(fs)
  BY DEF Mapped, Contents
<1>3. \A c : Shorter(fs, c, l) = [m \in DOMAIN StoreNow \ {l} |-> c[m]]
  BY <1>2 DEF Shorter
<1>4. (/\ l \in DOMAIN StoreNow
       /\ StoreNow' = [m \in DOMAIN StoreNow \ {l} |-> StoreNow[m]]
       /\ \E d \in {DiskNow, StoreNow} :
            DiskNow' = [m \in DOMAIN StoreNow \ {l} |-> d[m]])
      => Store!Free(l)
  BY DEF Store!Free, Store!Disk, Store!Live, StoreNow, DiskNow
<1>5. Store!Free(l)
  BY <1>1, <1>2, <1>3, <1>4
<1> QED
  BY <1>5 DEF Store!Next

LEMMA StoreNextMaps ==
  ASSUME Roomy, IInv, CInv, IInv', [Next]_vars
  PROVE  [Store!Next]_(Store!vars)
<1>1. Mapped /\ Mapped'
  BY MappedNow, MappedNext
<1>2. CASE Flush
  BY <1>1, <1>2, FlushStill, StillMaps
<1>3. CASE Close
  BY <1>1, <1>3, CloseStill, StillMaps
<1>4. CASE Open
  BY <1>1, <1>4, OpenStill, StillMaps
<1>5. ASSUME NEW l \in Locations, GetAndPin(l)
      PROVE  [Store!Next]_(Store!vars)
  BY <1>1, <1>5, GetAndPinStill, StillMaps
<1>6. ASSUME NEW l \in Locations, CloneAndPin(l)
      PROVE  [Store!Next]_(Store!vars)
  BY <1>1, <1>6, CloneAndPinStill, StillMaps
<1>7. ASSUME NEW l \in Locations, FreeBlock(l)
      PROVE  Store!Next
  BY <1>1, <1>7, FreeBlockFrees, FreeMaps
<1>8. ASSUME NEW s \in Slots, ReleaseBlock(s)
      PROVE  [Store!Next]_(Store!vars)
  BY <1>1, <1>8, ReleaseBlockStill, StillMaps
<1>9. ASSUME NEW s \in Slots, NEW v \in Values, WriteBlock(s, v)
      PROVE  Store!Next
  BY <1>1, <1>9, WriteBlockWrites, WriteMaps
<1>10. CASE AllocateAndPin
  BY <1>1, <1>10, AllocateAndPinAllocates, AllocateMaps
<1>10a. ASSUME NEW l \in Locations, AllocateData(l)
        PROVE  Store!Next
  BY <1>1, <1>10a, AllocateDataAllocates, AllocateMaps
<1>10b. ASSUME NEW l \in Locations, ReadData(l)
        PROVE  [Store!Next]_(Store!vars)
  BY <1>1, <1>10b, ReadDataStill, StillMaps
<1>10c. ASSUME NEW l \in Locations, NEW v \in Values, WriteData(l, v)
        PROVE  Store!Next
  BY <1>1, <1>10c, WriteDataWrites, WriteMaps
<1>11. CASE UNCHANGED vars
  <2>1. fs' = fs
    BY <1>11 DEF vars
  <2>2. Still(fs, fs')
    BY <2>1 DEF Still
  <2> QED
    BY <1>1, <2>2, StillMaps
<1> QED
  BY <1>2, <1>3, <1>4, <1>5, <1>6, <1>7, <1>8, <1>9, <1>10,
     <1>10a, <1>10b, <1>10c, <1>11 DEF Next

(* A new file system has one block, the root of the tree, all zeros.       *)
LEMMA StoreInitMaps == ASSUME Init PROVE Store!Init
<1>1. Mapped
  BY InitIInv, MappedNow
<1>2. fs = CreateFs
  BY DEF Init
<1>3. /\ fs.num_blocks = 3 /\ Sound(fs) /\ Created(fs)
  BY <1>2, CreateFsSound
<1>4. Live(fs) = {2}
  BY <1>3, CreatedMarks DEF Live
<1>5. fs.file = [l \in Locations |-> ZeroContent]
      /\ \A s \in fs.hashed : fs.buf[s].data = Zero
  BY <1>3 DEF Created, Pristine
<1>6. 2 \in Locations
  BY BoundsType DEF Locations
<1>7. fs.file[2].data = Zero
  BY <1>5, <1>6 DEF ZeroContent
<1>8. Cur(fs, 2).data = Zero
  <2>1. At(fs, 2) # {} => (CHOOSE s \in At(fs, 2) : TRUE) \in fs.hashed
    BY DEF At
  <2> QED
    BY <1>5, <1>7, <2>1 DEF Cur
<1>9. StoreNow = [l \in {2} |-> Zero] /\ DiskNow = StoreNow
  BY <1>1, <1>4, <1>7, <1>8 DEF Mapped, Contents, OnDisk
<1>10. {2} \in SUBSET Locations
  BY <1>6
<1>11. (\E L \in SUBSET Locations : StoreNow = [l \in L |-> Zero] /\ DiskNow = StoreNow)
       => Store!Init
  BY DEF Store!Init, StoreNow, DiskNow
<1> QED
  BY <1>9, <1>10, <1>11

(* With room in the cache, the block layer implements the block store: its *)
(* clients read what was last written, a new block is all zeros at a place *)
(* no one had, and the file changes only by a whole flush, whatever is     *)
(* cached, evicted, cloned or pinned, and across closing and opening.      *)
THEOREM CacheImplementsStore == ASSUME Roomy PROVE Spec => StoreSpec
<1>1. Init => Store!Init
  BY StoreInitMaps
<1>2. IInv /\ CInv /\ [Next]_vars /\ IInv' => [Store!Next]_(Store!vars)
  BY StoreNextMaps
<1> QED
  BY <1>1, <1>2, Invariance, ContentsInvariant, PTL DEF Spec, StoreSpec, Store!Spec
=============================================================================
