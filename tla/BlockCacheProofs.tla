-------------------------- MODULE BlockCacheProofs --------------------------
(***************************************************************************)
(* The cache of block.c stays well formed and coherent with the file, for  *)
(* every number of slots, blocks and bitmap groups.                        *)
(*                                                                         *)
(* Most of the module says what each function of the block layer does to   *)
(* a sound state of struct FS, one lemma per function in the order of the  *)
(* code; the theorems at the end combine them action by action.            *)
(***************************************************************************)
EXTENDS BlockCache, FiniteSetTheorems, WellFoundedInduction, TLAPS

-----------------------------------------------------------------------------
(* Arithmetic and finite sets.                                             *)

LEMMA CacheSizeNat == CacheSize \in Nat
  BY FS_CardinalityType, SlotsAssumption DEF CacheSize

LEMMA BoundsType ==
  /\ MaxBlocks \in Nat /\ MaxBlocks >= 3
  /\ BitmapSize \in Nat /\ BitmapSize >= 3
  BY BoundsAssumption

LEMMA GroupType == \A l \in Locations : Group(l) \in Groups
  BY DEF Group, Groups

LEMMA GroupsOfFirst == Group(0) = 0 /\ Group(1) = 0 /\ Group(2) = 0
  BY BoundsType DEF Group

(* A set of natural numbers has a least element.                           *)
LEMMA LeastNatural ==
  ASSUME NEW T \in SUBSET Nat, T # {}
  PROVE  \E x \in T : \A y \in T : x <= y
<1>1. \E R : /\ \A x, y \in Nat : y < x => <<y, x>> \in R
             /\ IsWellFoundedOn(R, Nat)
  <2> DEFINE R == OpToRel(<, Nat)
  <2>1. \A x, y \in Nat : y < x => <<y, x>> \in R
    BY DEF OpToRel
  <2>2. IsWellFoundedOn(R, Nat)
    BY NatLessThanWellFounded
  <2> HIDE DEF R
  <2> WITNESS R
  <2> QED
    BY <2>1, <2>2
<1>2. PICK R : /\ \A x, y \in Nat : y < x => <<y, x>> \in R
               /\ IsWellFoundedOn(R, Nat)
  BY <1>1
<1>3. \E x \in T : \A y \in T : ~ (<<y, x>> \in R)
  BY <1>2, WFMin
<1>4. PICK x \in T : \A y \in T : ~ (<<y, x>> \in R)
  BY <1>3
<1>5. \A y \in T : x \in Nat /\ y \in Nat /\ ~ (y < x)
  BY <1>2, <1>4
<1> QED
  BY <1>5

(* A bounded measure has a greatest value on a nonempty set.               *)
LEMMA GreatestMeasure ==
  ASSUME NEW S, S # {}, NEW n \in Nat, NEW m \in [S -> 0 .. n]
  PROVE  \E x \in S : \A y \in S : m[y] <= m[x]
<1> DEFINE T == {n - m[x] : x \in S}
<1>1. T \in SUBSET Nat /\ T # {}
  OBVIOUS
<1>2. PICK k \in T : \A y \in T : k <= y
  BY <1>1, LeastNatural
<1>3. PICK x \in S : k = n - m[x]
  BY <1>2
<1>4. \A y \in S : k <= n - m[y]
  BY <1>2
<1> QED
  BY <1>3, <1>4

LEMMA GreatestNumber ==
  ASSUME NEW n \in Nat, NEW T \in SUBSET (0 .. n), T # {}
  PROVE  \E x \in T : \A y \in T : y <= x
<1> DEFINE m == [x \in T |-> x]
<1>1. m \in [T -> 0 .. n]
  OBVIOUS
<1>2. \E x \in T : \A y \in T : m[y] <= m[x]
  BY <1>1, GreatestMeasure
<1> QED
  BY <1>2

-----------------------------------------------------------------------------
(* Sound states of struct FS.                                              *)

FsType ==
  [loc : [Slots -> Locations], buf : [Slots -> Content],
   pins : [Slots -> Int], rank : Orders,
   cached : SUBSET Slots, dirty : SUBSET Slots,
   clone : SUBSET Slots, hashed : SUBSET Slots,
   file : [Locations -> Content], filesize : 0 .. MaxBlocks,
   num_blocks : 0 .. MaxBlocks, superslot : Slots \cup {NULL},
   total_pins : Int, super : Super, savedsuper : Super,
   open : BOOLEAN, fault : BOOLEAN]

(* What every function of the block layer preserves: the index holds just  *)
(* the cached blocks that are not clones, dirty blocks are among them, no  *)
(* two are at one location, the clean ones agree with the file, all of     *)
(* them and all bitmaps lie within the file, and the file has no more.     *)
Coherent(f) ==
  /\ f.hashed = f.cached \ f.clone
  /\ f.dirty \subseteq f.hashed
  /\ \A s, t \in f.hashed : f.loc[s] = f.loc[t] => s = t
  /\ \A s \in f.hashed : f.loc[s] < f.num_blocks
  /\ \A s \in f.hashed \ (f.dirty \cup {f.superslot}) :
        f.buf[s] = f.file[f.loc[s]]
  /\ f.filesize = f.num_blocks
  /\ \A g \in Groups :
        f.super.bitmaps[g] # 0 => f.super.bitmaps[g] < f.num_blocks

(* The superblock stays in its slot because it is pinned there.            *)
Rooted(f) ==
  /\ f.superslot \in f.hashed
  /\ f.loc[f.superslot] = 0
  /\ f.pins[f.superslot] >= 1

Sound(f) == f \in FsType /\ Coherent(f) /\ Rooted(f) /\ f.num_blocks >= 1

(* The same while the file system is being created, when the superblock is *)
(* in its slot but not pinned yet.                                         *)
Core(f) ==
  /\ f \in FsType /\ Coherent(f) /\ f.num_blocks >= 1
  /\ f.superslot \in f.hashed /\ f.loc[f.superslot] = 0

LEMMA SoundIsPinnedCore ==
  ASSUME NEW f
  PROVE  Sound(f) <=> Core(f) /\ f.pins[f.superslot] >= 1
  BY DEF Sound, Rooted, Core

(* What a function that succeeds, or fails, does not undo.                 *)
Keeps(f, g) ==
  /\ g.superslot = f.superslot
  /\ g.open = f.open
  /\ f.cached \subseteq g.cached
  /\ f.num_blocks <= g.num_blocks
  /\ \A b \in Groups : f.super.bitmaps[b] # 0 => g.super.bitmaps[b] # 0

(* The functions that take no new block leave the superblock alone, and a  *)
(* slot in the index stays there, if perhaps for another block.            *)
KeepsSuper(f, g) ==
  /\ g.superslot = f.superslot
  /\ g.open = f.open
  /\ f.cached \subseteq g.cached
  /\ f.hashed \subseteq g.hashed
  /\ g.num_blocks = f.num_blocks
  /\ g.super = f.super

LEMMA KeepsSuperKeeps ==
  ASSUME NEW f \in FsType, NEW g \in FsType, KeepsSuper(f, g)
  PROVE  Keeps(f, g)
  BY BoundsType DEF KeepsSuper, Keeps, FsType

LEMMA FieldTypes ==
  ASSUME NEW f \in FsType
  PROVE  /\ f.loc \in [Slots -> Locations] /\ f.buf \in [Slots -> Content]
         /\ f.pins \in [Slots -> Int] /\ f.rank \in Orders
         /\ f.cached \subseteq Slots /\ f.dirty \subseteq Slots
         /\ f.clone \subseteq Slots /\ f.hashed \subseteq Slots
         /\ f.file \in [Locations -> Content]
         /\ f.filesize \in 0 .. MaxBlocks /\ f.num_blocks \in 0 .. MaxBlocks
         /\ f.superslot \in Slots \cup {NULL} /\ f.total_pins \in Int
         /\ f.super \in Super /\ f.savedsuper \in Super
         /\ f.open \in BOOLEAN /\ f.fault \in BOOLEAN
         /\ f.super.bitmaps \in [Groups -> Locations]
         /\ f.super.counts \in [Types -> Int]
  BY DEF FsType, Super

-----------------------------------------------------------------------------
(* The LRU list.                                                           *)

(* move_block_to_front permutes the list and touches nothing else.         *)
LEMMA MoveToFrontOrder ==
  ASSUME NEW f \in FsType, NEW s \in Slots
  PROVE  \E r \in Orders : MoveToFront(f, s) = [f EXCEPT !.rank = r]
<1> DEFINE r == [t \in Slots |->
                   IF t = s THEN 1 ELSE IF f.rank[t] < f.rank[s]
                                        THEN f.rank[t] + 1 ELSE f.rank[t]]
<1>1. /\ f.rank \in [Slots -> 1 .. CacheSize]
      /\ \A t, u \in Slots : f.rank[t] = f.rank[u] => t = u
  BY DEF FsType, Orders
<1>2. r \in Orders
  BY <1>1, CacheSizeNat DEF Orders
<1>3. MoveToFront(f, s) = [f EXCEPT !.rank = r]
  BY DEF MoveToFront
<1> QED
  BY <1>2, <1>3

LEMMA ReorderSound ==
  ASSUME NEW f \in FsType, NEW r \in Orders
  PROVE  /\ [f EXCEPT !.rank = r] \in FsType
         /\ Coherent(f) => Coherent([f EXCEPT !.rank = r])
         /\ Rooted(f) => Rooted([f EXCEPT !.rank = r])
         /\ KeepsSuper(f, [f EXCEPT !.rank = r])
  BY DEF FsType, Coherent, Rooted, KeepsSuper

-----------------------------------------------------------------------------
(* Flushing.                                                               *)

(* flush_block on the slots of S writes the dirty ones, W, and nothing     *)
(* else; the file grows to hold them.                                      *)
Written(f, W, g) ==
  /\ g = [f EXCEPT !.file = g.file, !.filesize = g.filesize,
                   !.savedsuper = g.savedsuper, !.dirty = f.dirty \ W]
  /\ g.file \in [Locations -> Content]
  /\ \A l \in Locations :
        (\A s \in W \ {f.superslot} : f.loc[s] # l) => g.file[l] = f.file[l]
  /\ \A s \in W \ {f.superslot} :
        (\A t \in W \ {f.superslot} : f.loc[t] = f.loc[s] => t = s)
          => g.file[f.loc[s]] = f.buf[s]
  /\ g.filesize \in {f.loc[s] + 1 : s \in W} \cup {f.filesize}
  /\ g.filesize >= f.filesize
  /\ \A s \in W : g.filesize >= f.loc[s] + 1
  /\ g.savedsuper = IF f.superslot \in W THEN f.super ELSE f.savedsuper

LEMMA FlushBlocksWrites ==
  ASSUME NEW f \in FsType, NEW S \in SUBSET Slots,
         NEW W, W = S \cap f.cached \cap f.dirty,
         NEW g, g = FlushBlocks(f, S)
  PROVE  Written(f, W, g)
<1> DEFINE B == W \ {f.superslot}
           At(l) == {s \in B : f.loc[s] = l}
           Ends == {f.loc[s] + 1 : s \in W} \cup {f.filesize}
<1>1. /\ f.loc \in [Slots -> Locations] /\ f.buf \in [Slots -> Content]
      /\ f.file \in [Locations -> Content] /\ f.filesize \in 0 .. MaxBlocks
      /\ f.dirty \subseteq Slots /\ W \subseteq Slots
  BY FieldTypes
<1>2. /\ g.file = [l \in Locations |->
            IF At(l) = {} THEN f.file[l] ELSE f.buf[CHOOSE s \in At(l) : TRUE]]
      /\ g.filesize = CHOOSE n \in Ends : \A m \in Ends : m <= n
      /\ g.savedsuper = IF f.superslot \in W THEN f.super ELSE f.savedsuper
      /\ g = [f EXCEPT !.file = g.file, !.filesize = g.filesize,
                       !.savedsuper = g.savedsuper, !.dirty = f.dirty \ W]
  BY DEF FlushBlocks, FsType
<1>3. \A l \in Locations : At(l) # {} => (CHOOSE s \in At(l) : TRUE) \in At(l)
  OBVIOUS
<1>4. \A l \in Locations :
         IF At(l) = {} THEN g.file[l] = f.file[l]
                       ELSE \E s \in At(l) : g.file[l] = f.buf[s]
  <2> HIDE DEF At
  <2> QED
    BY <1>2, <1>3
<1>5. g.file \in [Locations -> Content]
  <2>1. DOMAIN g.file = Locations /\ g.file = [l \in Locations |-> g.file[l]]
    BY <1>2
  <2>2. \A l \in Locations : g.file[l] \in Content
    BY <1>1, <1>4
  <2> QED
    BY <2>1, <2>2
<1>6. /\ \A l \in Locations : (\A s \in B : f.loc[s] # l) => g.file[l] = f.file[l]
      /\ \A s \in B : (\A t \in B : f.loc[t] = f.loc[s] => t = s)
                         => g.file[f.loc[s]] = f.buf[s]
  BY <1>1, <1>4
<1>7. PICK n \in Ends : \A m \in Ends : m <= n
  <2>1. Ends \in SUBSET (0 .. MaxBlocks) /\ Ends # {}
    BY <1>1, BoundsType DEF Locations
  <2> QED
    BY <2>1, GreatestNumber, BoundsType
<1>8. g.filesize \in Ends /\ \A m \in Ends : m <= g.filesize
  <2>1. g.filesize = CHOOSE k \in Ends : \A m \in Ends : m <= k
    BY <1>2
  <2> HIDE DEF Ends
  <2> QED
    BY <1>7, <2>1, Zenon
<1>9. g.filesize >= f.filesize /\ \A s \in W : g.filesize >= f.loc[s] + 1
  <2>1. \A s \in W : f.loc[s] + 1 \in Ends
    OBVIOUS
  <2> QED
    BY <1>1, <1>8, <2>1
<1> QED
  BY <1>2, <1>5, <1>6, <1>8, <1>9 DEF Written

(* What is not in the cache is not written.                                *)
KeepsUncached(f, g) ==
  \A l \in Locations :
    (\A s \in f.hashed : f.loc[s] # l) => g.file[l] = f.file[l]

(* flush_fs makes the file and the superblock on disk current, and leaves  *)
(* no block dirty.                                                         *)
LEMMA FlushFsEffect ==
  ASSUME NEW f \in FsType, Coherent(f), f.superslot \in f.hashed,
         NEW g, g = FlushFs(f)
  PROVE  /\ g \in FsType /\ Coherent(g) /\ KeepsSuper(f, g)
         /\ g = [f EXCEPT !.file = g.file, !.filesize = f.filesize,
                          !.savedsuper = f.super, !.dirty = {}]
         /\ KeepsUncached(f, g)
<1> DEFINE d == [f EXCEPT !.dirty = f.dirty \cup {f.superslot}]
           W == Slots \cap d.cached \cap d.dirty
<1>1. g = FlushBlocks(d, Slots)
  BY DEF FlushFs
<1>2. d \in FsType /\ d.superslot = f.superslot
  BY FieldTypes DEF FsType
<1>3. W = f.dirty \cup {f.superslot} /\ W \subseteq f.hashed /\ d.dirty \ W = {}
  BY <1>2, FieldTypes DEF Coherent, FsType
<1>4. /\ d.file = f.file /\ d.buf = f.buf /\ d.loc = f.loc
      /\ d.filesize = f.filesize /\ d.super = f.super
  BY DEF FsType
<1> HIDE DEF d
<1>5. Written(d, W, g)
  <2>1. Slots \in SUBSET Slots
    OBVIOUS
  <2> HIDE DEF W
  <2>2. W = Slots \cap d.cached \cap d.dirty
    BY DEF W
  <2> QED
    BY <1>1, <1>2, <2>1, <2>2, FlushBlocksWrites
<1> HIDE DEF W
<1>6. g.savedsuper = f.super
  BY <1>2, <1>3, <1>4, <1>5 DEF Written
<1>7. g.filesize = f.filesize
  <2>1. \A s \in W : f.loc[s] + 1 <= f.filesize
    BY <1>3, FieldTypes DEF Coherent, Locations
  <2>2. f.filesize \in Nat /\ \A s \in W : f.loc[s] \in Nat
    BY <1>3, FieldTypes DEF Locations
  <2> QED
    BY <1>4, <1>5, <2>1, <2>2 DEF Written
<1>8. g = [f EXCEPT !.file = g.file, !.filesize = f.filesize,
                    !.savedsuper = f.super, !.dirty = {}]
  BY <1>3, <1>5, <1>6, <1>7 DEF d, FsType, Written
<1>9. g \in FsType
  <2>1. g.file \in [Locations -> Content] /\ f.super \in Super
    BY <1>5, FieldTypes DEF Written
  <2> QED
    BY <1>8, <2>1 DEF FsType
<1>10. \A s \in f.hashed \ {f.superslot} : f.buf[s] = g.file[f.loc[s]]
  <2>1. f.loc \in [Slots -> Locations] /\ f.hashed \subseteq Slots
    BY FieldTypes
  <2>2. \A s, t \in f.hashed : f.loc[s] = f.loc[t] => s = t
    BY DEF Coherent
  <2>3. \A s \in f.hashed \ (f.dirty \cup {f.superslot}) : f.buf[s] = f.file[f.loc[s]]
    BY DEF Coherent
  <2> QED
    BY <1>2, <1>3, <1>4, <1>5, <2>1, <2>2, <2>3 DEF Written
<1>11. Coherent(g)
  <2>1. /\ g.hashed = f.hashed /\ g.cached = f.cached /\ g.clone = f.clone
        /\ g.dirty = {} /\ g.loc = f.loc /\ g.buf = f.buf
        /\ g.num_blocks = f.num_blocks /\ g.filesize = f.filesize
        /\ g.super = f.super /\ g.superslot = f.superslot
    BY <1>8 DEF FsType
  <2> QED
    BY <1>10, <2>1 DEF Coherent
<1>12. KeepsSuper(f, g)
  BY <1>8 DEF KeepsSuper, FsType
<1>13. KeepsUncached(f, g)
  BY <1>3, <1>4, <1>5 DEF Written, KeepsUncached
<1> QED
  BY <1>8, <1>9, <1>11, <1>12, <1>13

-----------------------------------------------------------------------------
(* Taking a slot for a block.                                              *)

(* The part of find_free_slot after a slot has been chosen.                *)
Emptied(f, s) ==
  [f EXCEPT !.cached = f.cached \cup {s}, !.dirty = f.dirty \ {s},
            !.clone = f.clone \ {s}, !.hashed = f.hashed \ {s},
            !.pins = [f.pins EXCEPT ![s] = 0]]

(* find_free_slot picks a reusable slot, flushing only when there is none, *)
(* and fails only when that does not help.                                 *)
LEMMA FindFreeSlotEffect ==
  ASSUME NEW f \in FsType, Reusable(f) # {} \/ FlushFs(f) \in FsType,
         NEW g, g = IF Reusable(f) = {} THEN FlushFs(f) ELSE f,
         NEW r, r = FindFreeSlot(f)
  PROVE  \/ /\ Reusable(g) = {}
            /\ r = [fs |-> [g EXCEPT !.fault = TRUE], slot |-> NULL]
         \/ /\ r.slot \in Reusable(g) /\ r.slot \in Slots
            /\ r = [fs |-> Emptied(g, r.slot), slot |-> r.slot]
<1> DEFINE s == CHOOSE x \in Reusable(g) :
                  \A y \in Reusable(g) : g.rank[y] <= g.rank[x]
<1>1. g \in FsType
  OBVIOUS
<1>2. CASE Reusable(g) = {}
  BY <1>2 DEF FindFreeSlot
<1>3. CASE Reusable(g) # {}
  <2> DEFINE R == Reusable(g)
             m == [x \in R |-> g.rank[x]]
  <2>1. R \subseteq Slots /\ g.rank \in [Slots -> 1 .. CacheSize]
    BY <1>1 DEF Reusable, FsType, Orders
  <2>2. m \in [R -> 0 .. CacheSize]
    BY <2>1, CacheSizeNat
  <2>3. \E x \in R : \A y \in R : m[y] <= m[x]
    <3> HIDE DEF R, m
    <3> QED
      BY <1>3, <2>2, CacheSizeNat, GreatestMeasure DEF R
  <2>4. \E x \in R : \A y \in R : g.rank[y] <= g.rank[x]
    BY <2>3
  <2>5. s \in R
    BY <2>4, Zenon
  <2>6. FindFreeSlot(f) = [slot |-> s, fs |-> Emptied(g, s)]
    BY <1>3 DEF FindFreeSlot, Emptied
  <2> HIDE DEF s
  <2> QED
    BY <2>1, <2>5, <2>6
<1> QED
  BY <1>2, <1>3

(* The states a flush can leave a sound f in.                              *)
Flushed(f, g) ==
  /\ Sound(g) /\ KeepsSuper(f, g)
  /\ g.hashed = f.hashed /\ g.cached = f.cached /\ g.clone = f.clone
  /\ g.loc = f.loc /\ g.buf = f.buf /\ g.pins = f.pins

LEMMA FaultSound ==
  ASSUME NEW f, Sound(f), NEW b \in BOOLEAN
  PROVE  LET g == [f EXCEPT !.fault = b] IN Sound(g) /\ KeepsSuper(f, g)
  BY DEF Sound, FsType, Coherent, Rooted, KeepsSuper

LEMMA FlushFsSound ==
  ASSUME NEW f, Sound(f), NEW g, g = FlushFs(f)
  PROVE  Flushed(f, g) /\ g.savedsuper = f.super /\ g.fault = f.fault
<1>1. f \in FsType /\ Coherent(f) /\ f.superslot \in f.hashed
  BY DEF Sound, Rooted
<1>2. /\ g \in FsType /\ Coherent(g) /\ KeepsSuper(f, g)
      /\ g = [f EXCEPT !.file = g.file, !.filesize = f.filesize,
                       !.savedsuper = f.super, !.dirty = {}]
  BY <1>1, FlushFsEffect
<1>3. /\ g.hashed = f.hashed /\ g.cached = f.cached /\ g.clone = f.clone
      /\ g.loc = f.loc /\ g.buf = f.buf /\ g.pins = f.pins
      /\ g.superslot = f.superslot /\ g.num_blocks = f.num_blocks
      /\ g.savedsuper = f.super /\ g.fault = f.fault
  BY <1>1, <1>2 DEF FsType
<1>4. Sound(g)
  BY <1>1, <1>2, <1>3 DEF Sound, Rooted
<1> QED
  BY <1>2, <1>3, <1>4 DEF Flushed

(* find_free_slot yields a slot that is not the superblock's, either empty *)
(* or clean and unpinned.                                                  *)
FreeSlotOf(g, r) ==
  /\ r.slot \in Slots \ {g.superslot}
  /\ r.slot \notin g.dirty
  /\ r.fs = Emptied(g, r.slot)

NoSlotOf(g, r) == r.slot = NULL /\ r.fs = [g EXCEPT !.fault = TRUE]

LEMMA FindFreeSlotSound ==
  ASSUME NEW f, Sound(f), NEW r, r = FindFreeSlot(f)
  PROVE  \E g : Flushed(f, g) /\ (NoSlotOf(g, r) \/ FreeSlotOf(g, r))
<1> DEFINE g == IF Reusable(f) = {} THEN FlushFs(f) ELSE f
<1>1. Flushed(f, f) /\ f \in FsType
  BY DEF Flushed, Sound, KeepsSuper
<1>2. Flushed(f, FlushFs(f)) /\ FlushFs(f) \in FsType
  BY FlushFsSound DEF Flushed, Sound
<1>3. Flushed(f, g)
  BY <1>1, <1>2
<1>4. \/ NoSlotOf(g, r)
      \/ /\ r.slot \in Reusable(g) /\ r.slot \in Slots
         /\ r = [fs |-> Emptied(g, r.slot), slot |-> r.slot]
  <2> HIDE DEF g
  <2>1. g = IF Reusable(f) = {} THEN FlushFs(f) ELSE f
    BY DEF g
  <2>2. \/ /\ Reusable(g) = {}
           /\ r = [fs |-> [g EXCEPT !.fault = TRUE], slot |-> NULL]
        \/ /\ r.slot \in Reusable(g) /\ r.slot \in Slots
           /\ r = [fs |-> Emptied(g, r.slot), slot |-> r.slot]
    BY <1>1, <1>2, <2>1, FindFreeSlotEffect
  <2>3. r = [fs |-> [g EXCEPT !.fault = TRUE], slot |-> NULL] => NoSlotOf(g, r)
    BY DEF NoSlotOf
  <2> QED
    BY <2>2, <2>3
<1> HIDE DEF g
<1>5. ASSUME r.slot \in Reusable(g), r.slot \in Slots,
             r = [fs |-> Emptied(g, r.slot), slot |-> r.slot]
      PROVE  FreeSlotOf(g, r)
  <2>1. g.superslot \in g.hashed /\ g.hashed \subseteq g.cached
    BY <1>3 DEF Flushed, Sound, Rooted, Coherent
  <2>2. g.pins[g.superslot] # 0 /\ g.dirty \subseteq g.cached
    BY <1>3, FieldTypes DEF Flushed, Sound, Rooted, Coherent
  <2>3. r.slot # g.superslot /\ r.slot \notin g.dirty
    BY <1>5, <2>1, <2>2 DEF Reusable
  <2>4. r.fs = Emptied(g, r.slot)
    BY <1>5
  <2> QED
    BY <1>5, <2>3, <2>4 DEF FreeSlotOf
<1> QED
  BY <1>3, <1>4, <1>5

-----------------------------------------------------------------------------
(* Reading a block into the cache.                                         *)

(* The free slot s of g filled with the block at l.                        *)
Loaded(g, s, l) ==
  LET e == Emptied(g, s)
  IN [e EXCEPT !.buf = [e.buf EXCEPT ![s] = e.file[l]],
               !.loc = [e.loc EXCEPT ![s] = l],
               !.hashed = e.hashed \cup {s}]

LEMMA LoadedSound ==
  ASSUME NEW g, Sound(g), NEW s \in Slots \ {g.superslot}, s \notin g.dirty,
         NEW l \in Locations, l < g.num_blocks,
         \A t \in g.hashed : g.loc[t] # l,
         NEW h, h = Loaded(g, s, l)
  PROVE  Sound(h) /\ KeepsSuper(g, h) /\ s \in h.hashed /\ h.loc[s] = l
<1>1. g \in FsType
  BY DEF Sound
<1>2. /\ h.loc = [g.loc EXCEPT ![s] = l]
      /\ h.buf = [g.buf EXCEPT ![s] = g.file[l]]
      /\ h.pins = [g.pins EXCEPT ![s] = 0]
      /\ h.cached = g.cached \cup {s} /\ h.dirty = g.dirty \ {s}
      /\ h.clone = g.clone \ {s} /\ h.hashed = g.hashed \cup {s}
      /\ h.file = g.file /\ h.filesize = g.filesize
      /\ h.num_blocks = g.num_blocks /\ h.superslot = g.superslot
      /\ h.super = g.super /\ h.open = g.open
  BY <1>1 DEF Loaded, Emptied, FsType
<1>3. h \in FsType
  <2>1. /\ h.loc \in [Slots -> Locations] /\ h.buf \in [Slots -> Content]
        /\ h.pins \in [Slots -> Int]
    BY <1>1, <1>2, FieldTypes
  <2>2. /\ h.cached \in SUBSET Slots /\ h.dirty \in SUBSET Slots
        /\ h.clone \in SUBSET Slots /\ h.hashed \in SUBSET Slots
    BY <1>1, <1>2, FieldTypes
  <2> QED
    BY <1>1, <1>2, <2>1, <2>2 DEF FsType, Loaded, Emptied
<1>4. Coherent(h)
  BY <1>1, <1>2, FieldTypes DEF Sound, Coherent
<1>5. Rooted(h)
  BY <1>1, <1>2, FieldTypes DEF Sound, Rooted
<1> QED
  BY <1>1, <1>2, <1>3, <1>4, <1>5, FieldTypes DEF Sound, KeepsSuper

LEMMA KeepsSuperTransitive ==
  ASSUME NEW f, NEW g, NEW h, KeepsSuper(f, g), KeepsSuper(g, h)
  PROVE  KeepsSuper(f, h)
  BY DEF KeepsSuper

(* get_block and read_block yield the slot that holds the block at l, or   *)
(* end the process for want of a free slot.                                *)
Got(f, r, l) ==
  /\ Sound(r.fs) /\ KeepsSuper(f, r.fs)
  /\ r.slot = NULL => r.fs.fault
  /\ r.slot # NULL => /\ r.slot \in Slots
                      /\ r.slot \in r.fs.hashed
                      /\ r.fs.loc[r.slot] = l

LEMMA ReadBlockGets ==
  ASSUME NEW f, Sound(f), NEW l \in Locations, l < f.num_blocks,
         \A t \in f.hashed : f.loc[t] # l,
         NEW r, r = ReadBlock(f, l)
  PROVE  Got(f, r, l)
<1> DEFINE q == FindFreeSlot(f)
<1>1. PICK g : Flushed(f, g) /\ (NoSlotOf(g, q) \/ FreeSlotOf(g, q))
  BY FindFreeSlotSound
<1>2. /\ Sound(g) /\ g \in FsType /\ KeepsSuper(f, g)
      /\ g.hashed = f.hashed /\ g.loc = f.loc
      /\ g.num_blocks = f.num_blocks /\ g.filesize = g.num_blocks
  BY <1>1 DEF Flushed, Sound, Coherent, KeepsSuper
<1>3. CASE NoSlotOf(g, q)
  <2>1. r = q /\ r.slot = NULL
    BY <1>3 DEF ReadBlock, NoSlotOf
  <2>2. r.fs = [g EXCEPT !.fault = TRUE] /\ r.fs.fault
    BY <1>2, <1>3, <2>1 DEF NoSlotOf, FsType
  <2>3. Sound(r.fs) /\ KeepsSuper(g, r.fs)
    BY <1>2, <2>2, FaultSound
  <2> QED
    BY <1>2, <2>1, <2>2, <2>3, KeepsSuperTransitive DEF Got
<1>4. CASE FreeSlotOf(g, q)
  <2>1. /\ q.slot \in Slots \ {g.superslot} /\ q.slot # NULL
        /\ q.slot \notin g.dirty /\ q.fs = Emptied(g, q.slot)
    BY <1>4, SlotsAssumption DEF FreeSlotOf
  <2>2. q.fs.filesize = g.filesize /\ ~ (l >= g.filesize)
    BY <1>2, <2>1, FieldTypes DEF Emptied, FsType, Locations
  <2> HIDE DEF q
  <2>3. r.slot = q.slot /\ r.fs = Loaded(g, q.slot, l)
    BY <2>1, <2>2 DEF ReadBlock, Loaded, q
  <2>4. /\ Sound(r.fs) /\ KeepsSuper(g, r.fs)
        /\ q.slot \in r.fs.hashed /\ r.fs.loc[q.slot] = l
    BY <1>2, <2>1, <2>3, LoadedSound
  <2> QED
    BY <1>2, <2>1, <2>3, <2>4, KeepsSuperTransitive DEF Got
<1> QED
  BY <1>1, <1>3, <1>4

LEMMA GetBlockGets ==
  ASSUME NEW f, Sound(f), NEW l \in Locations, l < f.num_blocks,
         NEW r, r = GetBlock(f, l)
  PROVE  Got(f, r, l)
<1> DEFINE q == IF Hits(f, l) # {}
                THEN [fs |-> f, slot |-> CHOOSE s \in Hits(f, l) : TRUE]
                ELSE ReadBlock(f, l)
<1>1. f \in FsType /\ Coherent(f)
  BY DEF Sound
<1>2. Got(f, q, l)
  <2>1. CASE Hits(f, l) # {}
    <3>1. q.fs = f /\ q.slot \in Hits(f, l)
      BY <2>1
    <3>2. q.slot \in Slots /\ q.slot \in f.hashed /\ f.loc[q.slot] = l
      BY <1>1, <3>1, FieldTypes DEF Hits
    <3>3. KeepsSuper(f, f) /\ q.slot # NULL
      BY <3>2, SlotsAssumption DEF KeepsSuper
    <3> QED
      BY <3>1, <3>2, <3>3 DEF Got
  <2>2. CASE Hits(f, l) = {}
    <3>1. \A t \in f.hashed : f.loc[t] # l
      BY <1>1, <2>2 DEF Hits, Coherent
    <3>2. q = ReadBlock(f, l)
      BY <2>2
    <3> QED
      BY <3>1, <3>2, ReadBlockGets
  <2> QED
    BY <2>1, <2>2
<1>3. r = IF q.slot = NULL THEN q
          ELSE [fs |-> MoveToFront(q.fs, q.slot), slot |-> q.slot]
  BY DEF GetBlock
<1> HIDE DEF q
<1>4. CASE q.slot = NULL
  BY <1>2, <1>3, <1>4
<1>5. CASE q.slot # NULL
  <2>1. r.slot = q.slot /\ r.fs = MoveToFront(q.fs, q.slot)
    BY <1>3, <1>5
  <2>2. q.slot \in Slots /\ q.fs \in FsType /\ Sound(q.fs)
    BY <1>2, <1>5 DEF Got, Sound
  <2>3. PICK k \in Orders : r.fs = [q.fs EXCEPT !.rank = k]
    BY <2>1, <2>2, MoveToFrontOrder
  <2>4. /\ r.fs.hashed = q.fs.hashed /\ r.fs.loc = q.fs.loc
        /\ r.fs.num_blocks = q.fs.num_blocks
    BY <2>2, <2>3 DEF FsType
  <2>5. Sound(r.fs) /\ KeepsSuper(q.fs, r.fs)
    BY <2>2, <2>3, <2>4, ReorderSound DEF Sound
  <2> QED
    BY <1>2, <1>5, <2>1, <2>4, <2>5, KeepsSuperTransitive DEF Got
<1> QED
  BY <1>4, <1>5

-----------------------------------------------------------------------------
(* Clones.                                                                 *)

(* clone_block yields a slot other than the superblock's that is in use,   *)
(* or ends the process.                                                    *)
LEMMA CloneBlockSound ==
  ASSUME NEW f, Sound(f), NEW s \in f.hashed,
         NEW r, r = CloneBlock(f, s)
  PROVE  /\ Sound(r.fs) /\ Keeps(f, r.fs)
         /\ r.slot = NULL => r.fs.fault
         /\ r.slot # NULL => r.slot \in r.fs.cached \ {r.fs.superslot}
<1>1. f \in FsType /\ s \in Slots
  BY FieldTypes DEF Sound
<1>2. CASE f.pins[s] = 0 /\ s \notin f.dirty
  <2>1. r.slot = s
        /\ r.fs = [f EXCEPT !.clone = f.clone \cup {s}, !.hashed = f.hashed \ {s}]
    BY <1>2 DEF CloneBlock
  <2>2. /\ r.fs.hashed = f.hashed \ {s} /\ r.fs.clone = f.clone \cup {s}
        /\ r.fs.cached = f.cached /\ r.fs.dirty = f.dirty /\ r.fs.loc = f.loc
        /\ r.fs.buf = f.buf /\ r.fs.file = f.file /\ r.fs.pins = f.pins
        /\ r.fs.num_blocks = f.num_blocks /\ r.fs.filesize = f.filesize
        /\ r.fs.super = f.super /\ r.fs.superslot = f.superslot
        /\ r.fs.open = f.open
    BY <1>1, <2>1 DEF FsType
  <2>3. f.superslot # s /\ s \in f.cached
    BY <1>1, <1>2 DEF Sound, Rooted, Coherent
  <2>4. r.fs \in FsType
    <3>1. /\ f.clone \cup {s} \in SUBSET Slots
          /\ f.hashed \ {s} \in SUBSET Slots
      BY <1>1, FieldTypes
    <3> QED
      BY <1>1, <2>1, <3>1 DEF FsType
  <2>5. Coherent(r.fs) /\ Rooted(r.fs) /\ r.fs.num_blocks >= 1
    BY <1>2, <2>2, <2>3 DEF Sound, Coherent, Rooted
  <2>6. Keeps(f, r.fs)
    BY <1>1, <2>2, FieldTypes, BoundsType DEF Keeps
  <2>7. r.slot # NULL /\ r.slot \in r.fs.cached \ {r.fs.superslot}
    BY <1>1, <2>1, <2>2, <2>3, SlotsAssumption
  <2> QED
    BY <2>4, <2>5, <2>6, <2>7 DEF Sound
<1>3. CASE ~ (f.pins[s] = 0 /\ s \notin f.dirty)
  <2> DEFINE q == FindFreeSlot(f)
  <2>1. PICK g : Flushed(f, g) /\ (NoSlotOf(g, q) \/ FreeSlotOf(g, q))
    BY FindFreeSlotSound
  <2>2. Sound(g) /\ g \in FsType /\ KeepsSuper(f, g)
    BY <2>1 DEF Flushed, Sound
  <2>3. CASE NoSlotOf(g, q)
    <3>1. r = q /\ r.slot = NULL
      BY <1>3, <2>3 DEF CloneBlock, NoSlotOf
    <3>2. r.fs = [g EXCEPT !.fault = TRUE] /\ r.fs.fault
      BY <2>2, <2>3, <3>1 DEF NoSlotOf, FsType
    <3>3. Sound(r.fs) /\ KeepsSuper(g, r.fs)
      BY <2>2, <3>2, FaultSound
    <3> QED
      BY <1>1, <2>2, <3>1, <3>2, <3>3, KeepsSuperTransitive, KeepsSuperKeeps
      DEF Sound
  <2>4. CASE FreeSlotOf(g, q)
    <3> DEFINE c == q.slot
               e == Emptied(g, c)
    <3>1. /\ c \in Slots \ {g.superslot} /\ c # NULL
          /\ c \notin g.dirty /\ q.fs = e
      BY <2>4, SlotsAssumption DEF FreeSlotOf
    <3>2. /\ r.slot = c
          /\ r.fs = [e EXCEPT !.buf = [e.buf EXCEPT ![c] = e.buf[s]],
                              !.loc = [e.loc EXCEPT ![c] = e.loc[s]],
                              !.clone = e.clone \cup {c}]
      BY <1>3, <3>1 DEF CloneBlock
    <3> HIDE DEF q
    <3>3. /\ r.fs.loc = [g.loc EXCEPT ![c] = g.loc[s]]
          /\ r.fs.buf = [g.buf EXCEPT ![c] = g.buf[s]]
          /\ r.fs.pins = [g.pins EXCEPT ![c] = 0]
          /\ r.fs.cached = g.cached \cup {c} /\ r.fs.dirty = g.dirty \ {c}
          /\ r.fs.clone = g.clone \cup {c} /\ r.fs.hashed = g.hashed \ {c}
          /\ r.fs.file = g.file /\ r.fs.filesize = g.filesize
          /\ r.fs.num_blocks = g.num_blocks /\ r.fs.superslot = g.superslot
          /\ r.fs.super = g.super /\ r.fs.open = g.open
      BY <2>2, <3>2, <3>1, FieldTypes DEF Emptied, FsType
    <3>4. r.fs \in FsType
      <4>1. /\ r.fs.loc \in [Slots -> Locations] /\ r.fs.buf \in [Slots -> Content]
            /\ r.fs.pins \in [Slots -> Int]
        BY <1>1, <2>2, <3>1, <3>3, FieldTypes
      <4>2. /\ r.fs.cached \in SUBSET Slots /\ r.fs.dirty \in SUBSET Slots
            /\ r.fs.clone \in SUBSET Slots /\ r.fs.hashed \in SUBSET Slots
        BY <2>2, <3>1, <3>3, FieldTypes
      <4> QED
        BY <2>2, <3>2, <3>3, <4>1, <4>2, ZenonT(60) DEF FsType, Emptied
    <3>5. Coherent(r.fs)
      BY <2>2, <3>1, <3>3, FieldTypes DEF Sound, Coherent
    <3>6. Rooted(r.fs) /\ r.fs.num_blocks >= 1
      BY <2>2, <3>1, <3>3, FieldTypes DEF Sound, Rooted
    <3>7. Keeps(f, r.fs)
      BY <1>1, <2>2, <3>3, FieldTypes, BoundsType DEF Keeps, KeepsSuper
    <3>8. r.slot \in r.fs.cached \ {r.fs.superslot}
      BY <3>1, <3>2, <3>3
    <3> QED
      BY <3>1, <3>2, <3>4, <3>5, <3>6, <3>7, <3>8 DEF Sound
  <2> QED
    BY <2>1, <2>3, <2>4
<1> QED
  BY <1>2, <1>3

-----------------------------------------------------------------------------
(* Allocation.                                                             *)

(* bitmap_search finds a location below num_blocks in the target's group,  *)
(* which then has a bitmap, or 0.                                          *)
FoundBy(f, target, r) ==
  /\ Sound(r.fs) /\ KeepsSuper(f, r.fs)
  /\ r.addr # 0 => /\ r.addr \in Locations
                   /\ r.addr < f.num_blocks
                   /\ Group(r.addr) = Group(target)
                   /\ f.super.bitmaps[Group(target)] # 0

LEMMA BitmapSearchFinds ==
  ASSUME NEW f, Sound(f), NEW target \in Locations,
         NEW r, r = BitmapSearch(f, target)
  PROVE  FoundBy(f, target, r)
<1> DEFINE b == f.super.bitmaps[Group(target)]
           q == GetBlock(f, b)
           Free == {l \in target .. f.num_blocks - 1 :
                      /\ Group(l) = Group(target)
                      /\ Offset(l) \notin q.fs.buf[q.slot].bits}
<1>1. f \in FsType /\ b \in Locations /\ f.num_blocks \in 0 .. MaxBlocks
  BY GroupType, FieldTypes DEF Sound
<1>2. CASE b = 0
  <2>1. r.fs = f /\ r.addr = 0
    BY <1>2 DEF BitmapSearch
  <2> QED
    BY <2>1 DEF FoundBy, KeepsSuper
<1>3. CASE b # 0
  <2>1. b < f.num_blocks
    BY <1>3, GroupType DEF Sound, Coherent
  <2>2. Got(f, q, b)
    BY <1>1, <2>1, GetBlockGets
  <2>3. /\ r.fs = Need(q)
        /\ r.addr = IF q.slot = NULL \/ Free = {} THEN 0
                    ELSE CHOOSE l \in Free : \A m \in Free : l <= m
    BY <1>3 DEF BitmapSearch
  <2>4. Sound(r.fs) /\ KeepsSuper(f, r.fs)
    <3>1. Sound(q.fs) /\ KeepsSuper(f, q.fs)
      BY <2>2 DEF Got
    <3>2. r.fs = q.fs \/ r.fs = [q.fs EXCEPT !.fault = TRUE]
      BY <2>3 DEF Need
    <3> QED
      BY <3>1, <3>2, FaultSound, KeepsSuperTransitive
  <2>5. ASSUME r.addr # 0
        PROVE  r.addr \in Free
    <3>1. Free # {} /\ r.addr = CHOOSE l \in Free : \A m \in Free : l <= m
      BY <2>3, <2>5
    <3>2. Free \in SUBSET Nat
      BY <1>1 DEF Locations
    <3> HIDE DEF Free
    <3>3. \E l \in Free : \A m \in Free : l <= m
      BY <3>1, <3>2, LeastNatural
    <3> QED
      BY <3>1, <3>3, Zenon
  <2>6. \A l \in Free : l \in Locations /\ l < f.num_blocks /\ Group(l) = Group(target)
    BY <1>1, BoundsType DEF Locations
  <2> QED
    BY <1>3, <2>4, <2>5, <2>6 DEF FoundBy
<1> QED
  BY <1>2, <1>3

(* The state k is in order except for slot s, which is being given to addr. *)
CoreBut(k, s, addr) ==
  /\ k \in FsType
  /\ s \in k.cached \ k.clone /\ s # k.superslot
  /\ k.hashed \ {s} = (k.cached \ k.clone) \ {s}
  /\ k.dirty \ {s} \subseteq k.hashed
  /\ \A t, u \in k.hashed \ {s} : k.loc[t] = k.loc[u] => t = u
  /\ \A t \in k.hashed \ {s} : k.loc[t] < k.num_blocks /\ k.loc[t] # addr
  /\ \A t \in k.hashed \ (k.dirty \cup {k.superslot, s}) :
        k.buf[t] = k.file[k.loc[t]]
  /\ k.filesize = k.num_blocks
  /\ \A g \in Groups :
        k.super.bitmaps[g] # 0 => k.super.bitmaps[g] < k.num_blocks
  /\ k.superslot \in k.hashed /\ k.loc[k.superslot] = 0 /\ k.num_blocks >= 1
  /\ addr \in Locations /\ addr # 0 /\ addr <= k.num_blocks

(* The end of allocate_block: a zeroed block, written at once.             *)
Given(k, s, addr, counts) ==
  [k EXCEPT !.num_blocks = IF addr = k.num_blocks THEN addr + 1 ELSE @,
            !.hashed = k.hashed \ {s},
            !.dirty = k.dirty \cup {s},
            !.loc = [k.loc EXCEPT ![s] = addr],
            !.buf = [k.buf EXCEPT ![s] = ZeroContent],
            !.pins = [k.pins EXCEPT ![s] = 0],
            !.super.counts = counts]

(* What it changes besides the counts, the file and the superblock on      *)
(* disk, and what it leaves.                                               *)
GivenTo(k, s, addr, h) ==
  /\ h.loc = [k.loc EXCEPT ![s] = addr]
  /\ h.buf = [k.buf EXCEPT ![s] = ZeroContent]
  /\ h.pins = [k.pins EXCEPT ![s] = 0]
  /\ h.hashed = k.hashed \cup {s} /\ h.dirty = k.dirty \cup {s}
  /\ h.num_blocks = IF addr = k.num_blocks THEN addr + 1 ELSE k.num_blocks
  /\ h.super.bitmaps = k.super.bitmaps
  /\ h.cached = k.cached /\ h.clone = k.clone
  /\ h.superslot = k.superslot /\ h.open = k.open

(* The block is in the file, zeroed, and counted; nothing else is written. *)
GivenFile(k, addr, counts, h) ==
  /\ h.file[addr] = ZeroContent
  /\ \A l \in Locations : l # addr => h.file[l] = k.file[l]
  /\ h.super.counts = counts
  /\ h.total_pins = k.total_pins /\ h.fault = k.fault

LEMMA GivenCore ==
  ASSUME NEW k, NEW s, NEW addr, CoreBut(k, s, addr),
         NEW counts \in [Types -> Int],
         NEW h, h = SettleBlock(Given(k, s, addr, counts), s)
  PROVE  /\ Core(h) /\ Keeps(k, h) /\ GivenTo(k, s, addr, h)
         /\ GivenFile(k, addr, counts, h)
<1> DEFINE g == Given(k, s, addr, counts)
           f == FlushBlocks(g, {s})
<1>1. /\ k \in FsType /\ s \in Slots /\ s # k.superslot
      /\ addr \in 1 .. MaxBlocks - 1 /\ addr \in Locations
      /\ k.num_blocks \in 1 .. MaxBlocks /\ addr <= k.num_blocks
  BY FieldTypes, BoundsType DEF CoreBut, Locations
<1>2. ZeroContent \in Content
  BY ValuesAssumption DEF ZeroContent, Content
<1>3. /\ g.num_blocks = IF addr = k.num_blocks THEN addr + 1 ELSE k.num_blocks
      /\ g.loc = [k.loc EXCEPT ![s] = addr]
      /\ g.buf = [k.buf EXCEPT ![s] = ZeroContent]
      /\ g.pins = [k.pins EXCEPT ![s] = 0]
      /\ g.super = [k.super EXCEPT !.counts = counts]
      /\ g.hashed = k.hashed \ {s} /\ g.dirty = k.dirty \cup {s}
      /\ g.cached = k.cached /\ g.clone = k.clone
      /\ g.file = k.file /\ g.filesize = k.filesize
      /\ g.superslot = k.superslot /\ g.open = k.open
      /\ g.total_pins = k.total_pins /\ g.fault = k.fault
  BY <1>1 DEF Given, FsType
<1>4. /\ g.super \in Super /\ g.super.bitmaps = k.super.bitmaps
      /\ g.super.counts = counts
  BY <1>1, <1>3, FieldTypes DEF Super
<1>5. g \in FsType
  <2>1. /\ g.num_blocks \in 0 .. MaxBlocks /\ g.loc \in [Slots -> Locations]
        /\ g.buf \in [Slots -> Content] /\ g.pins \in [Slots -> Int]
    BY <1>1, <1>2, <1>3, FieldTypes, BoundsType
  <2>2. g.hashed \in SUBSET Slots /\ g.dirty \in SUBSET Slots
    BY <1>1, <1>3, FieldTypes
  <2> QED
    BY <1>1, <1>3, <1>4, <2>1, <2>2 DEF Given, FsType
<1>6. Written(g, {s}, f)
  <2>1. {s} = {s} \cap g.cached \cap g.dirty /\ {s} \in SUBSET Slots
    BY <1>1, <1>3 DEF CoreBut
  <2> HIDE DEF g
  <2> QED
    BY <1>5, <2>1, FlushBlocksWrites
<1>7. h = [f EXCEPT !.dirty = f.dirty \cup {s}, !.hashed = f.hashed \cup {s}]
  BY DEF SettleBlock
<1> HIDE DEF g, f
<1>8. /\ f.file \in [Locations -> Content] /\ f.file[addr] = ZeroContent
      /\ \A l \in Locations : l # addr => f.file[l] = k.file[l]
  BY <1>1, <1>3, <1>6, FieldTypes DEF Written
<1>9. f.filesize = g.num_blocks
  <2>1. f.filesize \in {g.loc[t] + 1 : t \in {s}} \cup {g.filesize}
        /\ f.filesize >= g.filesize /\ f.filesize >= g.loc[s] + 1
    BY <1>6 DEF Written
  <2>2. g.loc[s] = addr /\ g.filesize = k.num_blocks
    BY <1>1, <1>3, FieldTypes DEF CoreBut
  <2>3. f.filesize = addr + 1 \/ f.filesize = k.num_blocks
    BY <2>1, <2>2
  <2> QED
    BY <1>1, <1>3, <2>1, <2>2, <2>3
<1>10. /\ f \in FsType
       /\ f.loc = g.loc /\ f.buf = g.buf /\ f.pins = g.pins
       /\ f.hashed = g.hashed /\ f.dirty = g.dirty \ {s}
       /\ f.cached = g.cached /\ f.clone = g.clone
       /\ f.num_blocks = g.num_blocks /\ f.super = g.super
       /\ f.superslot = g.superslot /\ f.open = g.open
       /\ f.total_pins = g.total_pins /\ f.fault = g.fault
  <2>1. f = [g EXCEPT !.file = f.file, !.filesize = f.filesize,
                      !.savedsuper = f.savedsuper, !.dirty = g.dirty \ {s}]
    BY <1>6 DEF Written
  <2>2. /\ f.filesize \in 0 .. MaxBlocks /\ f.savedsuper \in Super
        /\ g.dirty \ {s} \in SUBSET Slots
    BY <1>5, <1>6, <1>9, FieldTypes DEF Written
  <2> QED
    BY <1>5, <1>8, <2>1, <2>2 DEF FsType
<1>11. /\ h \in FsType
       /\ h.loc = g.loc /\ h.buf = g.buf /\ h.pins = g.pins
       /\ h.hashed = k.hashed \cup {s} /\ h.dirty = k.dirty \cup {s}
       /\ h.cached = k.cached /\ h.clone = k.clone
       /\ h.file = f.file /\ h.filesize = g.num_blocks
       /\ h.num_blocks = g.num_blocks /\ h.super = g.super
       /\ h.superslot = k.superslot /\ h.open = k.open
       /\ h.total_pins = k.total_pins /\ h.fault = k.fault
  <2>1. f.hashed \cup {s} \in SUBSET Slots /\ f.dirty \cup {s} \in SUBSET Slots
    BY <1>1, <1>10, FieldTypes
  <2>2. h \in FsType
    BY <1>7, <1>10, <2>1 DEF FsType
  <2>3. /\ h.hashed = f.hashed \cup {s} /\ h.dirty = f.dirty \cup {s}
        /\ h.loc = f.loc /\ h.buf = f.buf /\ h.pins = f.pins
        /\ h.cached = f.cached /\ h.clone = f.clone
        /\ h.file = f.file /\ h.filesize = f.filesize
        /\ h.num_blocks = f.num_blocks /\ h.super = f.super
        /\ h.superslot = f.superslot /\ h.open = f.open
        /\ h.total_pins = f.total_pins /\ h.fault = f.fault
    BY <1>7, <1>10 DEF FsType
  <2> QED
    BY <1>3, <1>9, <1>10, <2>2, <2>3
<1>12. Coherent(h)
  <2>1. /\ h.hashed = h.cached \ h.clone /\ h.dirty \subseteq h.hashed
        /\ h.filesize = h.num_blocks
    BY <1>11 DEF CoreBut
  <2>2. /\ h.loc[s] = addr /\ h.buf[s] = ZeroContent
        /\ \A t \in k.hashed \ {s} : h.loc[t] = k.loc[t] /\ h.buf[t] = k.buf[t]
    BY <1>1, <1>3, <1>11, FieldTypes
  <2>3. \A t, u \in h.hashed : h.loc[t] = h.loc[u] => t = u
    BY <1>11, <2>2 DEF CoreBut
  <2>4. \A t \in h.hashed : h.loc[t] < h.num_blocks
    BY <1>1, <1>3, <1>11, <2>2, FieldTypes DEF CoreBut, Locations
  <2>5. \A t \in h.hashed \ (h.dirty \cup {h.superslot}) :
           h.buf[t] = h.file[h.loc[t]]
    BY <1>1, <1>8, <1>11, <2>2, FieldTypes DEF CoreBut
  <2>6. \A b \in Groups : h.super.bitmaps[b] # 0 => h.super.bitmaps[b] < h.num_blocks
    BY <1>1, <1>3, <1>4, <1>11, FieldTypes DEF CoreBut, Locations
  <2> QED
    BY <2>1, <2>3, <2>4, <2>5, <2>6 DEF Coherent
<1>13. Core(h)
  BY <1>1, <1>3, <1>11, <1>12, FieldTypes DEF CoreBut, Core
<1>14. Keeps(k, h)
  BY <1>1, <1>3, <1>4, <1>11 DEF Keeps
<1> QED
  BY <1>3, <1>4, <1>8, <1>11, <1>13, <1>14 DEF GivenTo, GivenFile

LEMMA GivenSound ==
  ASSUME NEW k, NEW s, NEW addr, CoreBut(k, s, addr),
         k.pins[k.superslot] >= 1,
         NEW counts \in [Types -> Int],
         NEW h, h = SettleBlock(Given(k, s, addr, counts), s)
  PROVE  /\ Sound(h) /\ Keeps(k, h)
         /\ h.super.bitmaps = k.super.bitmaps
         /\ h.num_blocks = IF addr = k.num_blocks THEN addr + 1 ELSE k.num_blocks
         /\ s \in h.hashed \ {h.superslot} /\ addr < h.num_blocks
<1>1. Core(h) /\ Keeps(k, h) /\ GivenTo(k, s, addr, h)
  BY GivenCore
<1>2. k \in FsType /\ s \in Slots /\ s # k.superslot /\ addr <= k.num_blocks
      /\ addr \in Nat
  BY FieldTypes DEF CoreBut, Locations
<1>3. h.pins[h.superslot] = k.pins[k.superslot]
  BY <1>1, <1>2, FieldTypes DEF GivenTo, CoreBut
<1>4. Sound(h)
  BY <1>1, <1>3, SoundIsPinnedCore
<1>5. addr < h.num_blocks
  BY <1>1, <1>2, FieldTypes DEF GivenTo
<1> QED
  BY <1>1, <1>2, <1>4, <1>5 DEF GivenTo

(* allocate_block, up to its final bitmap_set, for any block but the       *)
(* superblock: the location is the one bitmap_search found, or a new one   *)
(* at the end of the file.                                                 *)
Took(f, target, t) ==
  /\ Sound(t.fs) /\ Keeps(f, t.fs)
  /\ t.slot = NULL => t.fs.fault
  /\ t.slot # NULL => /\ t.slot \in t.fs.hashed \ {t.fs.superslot}
                      /\ t.addr \in Locations \ {0}
                      /\ t.addr < t.fs.num_blocks
                      /\ t.fs.super.bitmaps = f.super.bitmaps
                      /\ t.fs.num_blocks <= f.num_blocks + 1
                      /\ BitmapSearch(f, target).addr # 0
                            => f.super.bitmaps[Group(t.addr)] # 0

LEMMA TakeBlockTakes ==
  ASSUME NEW f, Sound(f), NEW type \in Types \ {"B_SUPER"},
         NEW target \in Locations,
         BitmapSearch(f, target).addr # 0 \/ f.num_blocks < MaxBlocks,
         NEW t, t = TakeBlock(f, type, target)
  PROVE  Took(f, target, t)
<1> DEFINE found == BitmapSearch(f, target)
           reuse == found.addr # 0
           r == IF reuse THEN GetBlock(found.fs, found.addr)
                         ELSE FindFreeSlot(found.fs)
           s == r.slot
           addr == IF reuse THEN found.addr ELSE r.fs.num_blocks
           counts == [u \in Types |->
              r.fs.super.counts[u] + (IF u = type THEN 1 ELSE 0)
                - (IF reuse /\ u = "B_FREE" THEN 1 ELSE 0)]
<1>1. FoundBy(f, target, found)
  BY BitmapSearchFinds
<1>2. /\ Sound(found.fs) /\ KeepsSuper(f, found.fs) /\ found.fs \in FsType
      /\ found.fs.num_blocks = f.num_blocks /\ found.fs.num_blocks >= 1
      /\ found.fs.super = f.super /\ found.fs.superslot = f.superslot
      /\ f \in FsType
  BY <1>1 DEF FoundBy, Sound, KeepsSuper
<1>3. CASE s = NULL
  <2>1. t.slot = NULL /\ t.fs = Need(r) /\ Need(r) = [r.fs EXCEPT !.fault = TRUE]
    BY <1>3 DEF TakeBlock, Need
  <2>2. Sound(r.fs) /\ KeepsSuper(found.fs, r.fs)
    <3>1. CASE reuse
      <4>1. Got(found.fs, r, found.addr)
        BY <1>1, <1>2, <3>1, GetBlockGets DEF FoundBy
      <4> QED
        BY <4>1 DEF Got
    <3>2. CASE ~reuse
      <4>1. r = FindFreeSlot(found.fs)
        BY <3>2
      <4>2. PICK g : Flushed(found.fs, g) /\ (NoSlotOf(g, r) \/ FreeSlotOf(g, r))
        BY <1>2, <4>1, FindFreeSlotSound
      <4>3. NoSlotOf(g, r)
        BY <1>3, <4>2, SlotsAssumption DEF FreeSlotOf
      <4>4. Sound(g) /\ KeepsSuper(found.fs, g) /\ r.fs = [g EXCEPT !.fault = TRUE]
        BY <4>2, <4>3 DEF Flushed, NoSlotOf
      <4> HIDE DEF r
      <4>5. Sound(r.fs) /\ KeepsSuper(g, r.fs)
        BY <4>4, FaultSound
      <4> QED
        BY <4>4, <4>5, KeepsSuperTransitive
    <3> QED
      BY <3>1, <3>2
  <2> HIDE DEF r
  <2>3. Sound(t.fs) /\ KeepsSuper(r.fs, t.fs) /\ t.fs.fault
    <3>1. r.fs \in FsType /\ t.fs = [r.fs EXCEPT !.fault = TRUE]
      BY <2>1, <2>2 DEF Sound
    <3>2. t.fs.fault
      BY <3>1 DEF FsType
    <3> QED
      BY <2>2, <3>1, <3>2, FaultSound
  <2>4. KeepsSuper(f, t.fs)
    BY <1>2, <2>2, <2>3, KeepsSuperTransitive
  <2>5. Keeps(f, t.fs)
    BY <1>2, <2>3, <2>4, KeepsSuperKeeps DEF Sound
  <2> QED
    BY <2>1, <2>3, <2>5 DEF Took
<1>4. CASE s # NULL
  <2> DEFINE k == r.fs
  <2>1. /\ CoreBut(k, s, addr) /\ k.pins[k.superslot] >= 1
        /\ Keeps(f, k) /\ k.super = f.super
        /\ k.num_blocks = f.num_blocks /\ k \in FsType
        /\ reuse => addr = found.addr /\ addr # k.num_blocks
        /\ ~reuse => addr = k.num_blocks
    <3>1. CASE reuse
      <4>1. Got(found.fs, r, addr) /\ addr = found.addr
        BY <1>1, <1>2, <3>1, GetBlockGets DEF FoundBy
      <4>2. addr \in Locations /\ addr # 0 /\ addr < f.num_blocks
        BY <1>1, <3>1 DEF FoundBy
      <4> HIDE DEF r, addr
      <4>3. /\ Sound(k) /\ KeepsSuper(found.fs, k)
            /\ s \in Slots /\ s \in k.hashed /\ k.loc[s] = addr
        BY <1>4, <4>1 DEF Got
      <4>4. /\ k \in FsType /\ KeepsSuper(f, k)
            /\ k.num_blocks = f.num_blocks /\ k.super = f.super
        BY <1>2, <4>3, KeepsSuperTransitive DEF Sound, KeepsSuper
      <4>5. Keeps(f, k)
        BY <1>2, <4>4, KeepsSuperKeeps
      <4>6. s # k.superslot
        BY <4>2, <4>3 DEF Sound, Rooted
      <4>7. CoreBut(k, s, addr)
        BY <4>2, <4>3, <4>4, <4>6, FieldTypes DEF CoreBut, Sound, Rooted, Coherent, Locations
      <4>8. addr # k.num_blocks
        BY <4>2, <4>4, FieldTypes DEF Locations
      <4> QED
        BY <3>1, <4>1, <4>3, <4>4, <4>5, <4>7, <4>8 DEF Sound, Rooted
    <3>2. CASE ~reuse
      <4>1. r = FindFreeSlot(found.fs) /\ addr = k.num_blocks /\ f.num_blocks < MaxBlocks
        BY <3>2
      <4>2. PICK g : Flushed(found.fs, g) /\ (NoSlotOf(g, r) \/ FreeSlotOf(g, r))
        BY <1>2, <4>1, FindFreeSlotSound
      <4> HIDE DEF r, addr
      <4>3. /\ s \in Slots \ {g.superslot} /\ s \notin g.dirty
            /\ k = Emptied(g, s)
        BY <1>4, <4>2 DEF NoSlotOf, FreeSlotOf
      <4>4. Sound(g) /\ KeepsSuper(f, g) /\ g \in FsType
        BY <1>2, <4>2, KeepsSuperTransitive DEF Flushed, Sound
      <4>5. /\ k.pins = [g.pins EXCEPT ![s] = 0] /\ k.loc = g.loc /\ k.buf = g.buf
            /\ k.cached = g.cached \cup {s} /\ k.dirty = g.dirty \ {s}
            /\ k.clone = g.clone \ {s} /\ k.hashed = g.hashed \ {s}
            /\ k.file = g.file /\ k.filesize = g.filesize
            /\ k.num_blocks = g.num_blocks /\ k.superslot = g.superslot
            /\ k.super = g.super /\ k.open = g.open
        BY <4>3, <4>4 DEF Emptied, FsType
      <4>6. k \in FsType
        <5>1. k.pins \in [Slots -> Int] /\ k.cached \in SUBSET Slots
              /\ k.dirty \in SUBSET Slots /\ k.clone \in SUBSET Slots
              /\ k.hashed \in SUBSET Slots
          BY <4>3, <4>4, <4>5, FieldTypes
        <5> QED
          BY <4>3, <4>4, <4>5, <5>1 DEF Emptied, FsType
      <4>7. addr \in Locations /\ addr # 0 /\ addr <= k.num_blocks
        BY <4>1, <4>4, <4>5, BoundsType, FieldTypes DEF Sound, KeepsSuper, Locations
      <4>8. /\ k.superslot \in k.hashed /\ k.loc[k.superslot] = 0
            /\ k.pins[k.superslot] >= 1 /\ k.num_blocks >= 1
        BY <4>3, <4>4, <4>5, FieldTypes DEF Sound, Rooted
      <4>9. \A u \in k.hashed \ {s} : k.loc[u] < k.num_blocks /\ k.loc[u] # addr
        BY <4>1, <4>4, <4>5, FieldTypes DEF Sound, Coherent, Locations
      <4>10. CoreBut(k, s, addr)
        BY <4>3, <4>4, <4>5, <4>6, <4>7, <4>8, <4>9 DEF CoreBut, Sound, Coherent
      <4>11. Keeps(f, k)
        BY <1>2, <4>4, <4>5, FieldTypes, BoundsType DEF Keeps, KeepsSuper
      <4> QED
        BY <3>2, <4>1, <4>4, <4>5, <4>6, <4>8, <4>10, <4>11 DEF KeepsSuper
    <3> QED
      BY <3>1, <3>2
  <2>2. counts \in [Types -> Int]
    <3>1. k.super.counts \in [Types -> Int]
      BY <2>1, FieldTypes
    <3> QED
      BY <3>1
  <2>3. t.slot = s /\ t.addr = addr
    BY <1>4 DEF TakeBlock
  <2>4. t.fs = SettleBlock(Given(k, s, addr, counts), s)
    <3> DEFINE g == [k EXCEPT
                       !.num_blocks = IF reuse THEN @ ELSE @ + 1,
                       !.hashed = k.hashed \ {s},
                       !.dirty = k.dirty \cup {s},
                       !.loc = [k.loc EXCEPT ![s] = addr],
                       !.buf = [k.buf EXCEPT ![s] = ZeroContent],
                       !.pins = [k.pins EXCEPT ![s] = 0],
                       !.superslot = IF type = "B_SUPER" THEN s ELSE @,
                       !.super.counts = [u \in Types |->
                          @[u] + (IF u = type THEN 1 ELSE 0)
                               - (IF reuse /\ u = "B_FREE" THEN 1 ELSE 0)]]
    <3>1. t.fs = SettleBlock(g, s)
      BY <1>4 DEF TakeBlock
    <3> HIDE DEF r, addr, found
    <3>2. g = Given(k, s, addr, counts)
      BY <2>1, ZenonT(60) DEF Given, FsType, Super
    <3> QED
      BY <3>1, <3>2
  <2> HIDE DEF r, addr, counts, found
  <2>5. /\ Sound(t.fs) /\ Keeps(k, t.fs)
        /\ t.fs.super.bitmaps = k.super.bitmaps
        /\ t.fs.num_blocks = IF addr = k.num_blocks THEN addr + 1 ELSE k.num_blocks
        /\ s \in t.fs.hashed \ {t.fs.superslot} /\ addr < t.fs.num_blocks
    BY <2>1, <2>2, <2>4, GivenSound
  <2>6. Keeps(f, t.fs)
    <3>1. t.fs \in FsType
      BY <2>5 DEF Sound
    <3> QED
      BY <1>2, <2>1, <2>5, <3>1, FieldTypes, BoundsType DEF Keeps
  <2>7. t.fs.num_blocks <= f.num_blocks + 1
    BY <1>2, <2>1, <2>5, FieldTypes
  <2>8. addr \in Locations \ {0}
    BY <2>1 DEF CoreBut
  <2>9. reuse => f.super.bitmaps[Group(addr)] # 0
    BY <1>1, <2>1 DEF FoundBy
  <2> QED
    BY <1>4, <2>1, <2>3, <2>5, <2>6, <2>7, <2>8, <2>9 DEF Took, found
<1> QED
  BY <1>3, <1>4

(* Changing a bit of any block in the index, and marking it dirty.         *)
Toggled(f, s, l, b, g) ==
  /\ KeepsSuper(f, g)
  /\ g.hashed = f.hashed /\ g.cached = f.cached /\ g.clone = f.clone
  /\ g.loc = f.loc /\ g.pins = f.pins /\ g.dirty = f.dirty \cup {s}
  /\ g.buf[s].bits = IF b THEN f.buf[s].bits \cup {Offset(l)}
                          ELSE f.buf[s].bits \ {Offset(l)}

LEMMA ToggleBitCore ==
  ASSUME NEW f, Core(f), NEW s \in f.hashed, NEW l \in Locations,
         NEW b \in BOOLEAN, NEW g, g = ToggleBit(f, s, l, b)
  PROVE  Core(g) /\ Toggled(f, s, l, b, g)
<1> DEFINE bits == f.buf[s].bits
           new == IF b THEN bits \cup {Offset(l)} ELSE bits \ {Offset(l)}
<1>1. f \in FsType /\ s \in Slots
  BY FieldTypes DEF Core
<1>2. Offset(l) \in 0 .. BitmapSize - 1
  BY BoundsType DEF Offset, Locations
<1>3. f.buf[s] \in Content
  BY <1>1, FieldTypes
<1>4. [f.buf[s] EXCEPT !.bits = new] \in Content
  BY <1>2, <1>3 DEF Content
<1>5. /\ g.buf = [f.buf EXCEPT ![s] = [f.buf[s] EXCEPT !.bits = new]]
      /\ g.dirty = f.dirty \cup {s}
      /\ g = [f EXCEPT !.buf = g.buf, !.dirty = g.dirty, !.fault = g.fault]
      /\ g.fault \in BOOLEAN
  BY <1>1, FieldTypes DEF ToggleBit, FsType
<1> HIDE DEF new
<1>6. g \in FsType
  <2>1. g.buf \in [Slots -> Content] /\ g.dirty \in SUBSET Slots
    BY <1>1, <1>4, <1>5, FieldTypes
  <2> QED
    BY <1>1, <1>5, <2>1 DEF FsType
<1>7. /\ g.loc = f.loc /\ g.pins = f.pins /\ g.cached = f.cached
      /\ g.clone = f.clone /\ g.hashed = f.hashed
      /\ g.file = f.file /\ g.filesize = f.filesize
      /\ g.num_blocks = f.num_blocks /\ g.superslot = f.superslot
      /\ g.super = f.super /\ g.open = f.open
  BY <1>1, <1>5 DEF FsType
<1>8. \A t \in Slots \ {s} : g.buf[t] = f.buf[t]
  BY <1>1, <1>5, FieldTypes
<1>9. Coherent(g)
  BY <1>1, <1>5, <1>7, <1>8, FieldTypes DEF Core, Coherent
<1>10. g.buf[s].bits = new
  BY <1>1, <1>3, <1>5, FieldTypes DEF Content
<1> QED
  BY <1>5, <1>6, <1>7, <1>9, <1>10 DEF Core, KeepsSuper, Toggled, new

LEMMA ToggleBitSound ==
  ASSUME NEW f, Sound(f), NEW s \in f.hashed, NEW l \in Locations,
         NEW b \in BOOLEAN, NEW g, g = ToggleBit(f, s, l, b)
  PROVE  Sound(g) /\ KeepsSuper(f, g)
<1>1. Core(f)
  BY SoundIsPinnedCore
<1>2. Core(g) /\ Toggled(f, s, l, b, g)
  BY <1>1, ToggleBitCore
<1> QED
  BY <1>2, SoundIsPinnedCore DEF Toggled, KeepsSuper

LEMMA BitmapSetInSound ==
  ASSUME NEW f, Sound(f), NEW l \in Locations, NEW b \in BOOLEAN,
         NEW g, g = BitmapSetIn(f, l, b)
  PROVE  Sound(g) /\ KeepsSuper(f, g)
<1> DEFINE a == f.super.bitmaps[Group(l)]
           r == GetBlock(f, a)
<1>1. a \in Locations /\ a < f.num_blocks
  BY GroupType, FieldTypes DEF Sound, Coherent, Locations
<1>2. Got(f, r, a)
  BY <1>1, GetBlockGets
<1>3. g = IF r.slot = NULL THEN Need(r) ELSE ToggleBit(r.fs, r.slot, l, b)
  BY DEF BitmapSetIn
<1> HIDE DEF r
<1>4. CASE r.slot = NULL
  <2>1. Sound(r.fs) /\ KeepsSuper(f, r.fs) /\ g = [r.fs EXCEPT !.fault = TRUE]
    BY <1>2, <1>3, <1>4 DEF Need, Got
  <2>2. Sound(g) /\ KeepsSuper(r.fs, g)
    BY <2>1, FaultSound
  <2> QED
    BY <2>1, <2>2, KeepsSuperTransitive
<1>5. CASE r.slot # NULL
  BY <1>2, <1>3, <1>5, ToggleBitSound, KeepsSuperTransitive DEF Got
<1> QED
  BY <1>4, <1>5

LEMMA KeepsTransitive ==
  ASSUME NEW f, NEW g, NEW h, Sound(f), Sound(g), Sound(h),
         Keeps(f, g), Keeps(g, h)
  PROVE  Keeps(f, h)
  BY FieldTypes, BoundsType DEF Keeps, Sound

(* Pointing a group that has none at a bitmap block within the file.       *)
WithBitmap(f, b, a) == [f EXCEPT !.super.bitmaps = [@ EXCEPT ![b] = a]]

LEMMA NewBitmapCore ==
  ASSUME NEW f, Core(f), NEW b \in Groups, NEW a \in Locations,
         a # 0, a < f.num_blocks,
         NEW g, g = WithBitmap(f, b, a)
  PROVE  /\ Core(g) /\ Keeps(f, g) /\ g.super.bitmaps[b] = a
         /\ g.loc = f.loc /\ g.pins = f.pins /\ g.cached = f.cached
         /\ g.buf = f.buf /\ g.dirty = f.dirty
         /\ g.clone = f.clone /\ g.hashed = f.hashed
         /\ g.num_blocks = f.num_blocks /\ g.superslot = f.superslot
<1>1. f \in FsType /\ f.super.bitmaps \in [Groups -> Locations] /\ f.super \in Super
  BY FieldTypes DEF Core
<1>2. g.super = [f.super EXCEPT !.bitmaps = [f.super.bitmaps EXCEPT ![b] = a]]
  BY <1>1 DEF FsType, WithBitmap
<1>3. /\ g.super \in Super
      /\ g.super.bitmaps = [f.super.bitmaps EXCEPT ![b] = a]
  BY <1>1, <1>2 DEF Super
<1>4. g \in FsType
  BY <1>1, <1>2, <1>3 DEF FsType, WithBitmap
<1>5. /\ g.loc = f.loc /\ g.pins = f.pins /\ g.cached = f.cached
      /\ g.buf = f.buf /\ g.dirty = f.dirty
      /\ g.clone = f.clone /\ g.hashed = f.hashed
      /\ g.file = f.file /\ g.filesize = f.filesize
      /\ g.num_blocks = f.num_blocks /\ g.superslot = f.superslot
      /\ g.open = f.open
  BY <1>1 DEF FsType, WithBitmap
<1>6. \A c \in Groups : g.super.bitmaps[c] # 0 => g.super.bitmaps[c] < g.num_blocks
  BY <1>1, <1>3, <1>5 DEF Core, Coherent
<1>7. Coherent(g)
  BY <1>5, <1>6 DEF Core, Coherent
<1>8. Keeps(f, g)
  BY <1>1, <1>3, <1>5, FieldTypes, BoundsType DEF Keeps
<1> QED
  BY <1>1, <1>3, <1>4, <1>5, <1>7, <1>8 DEF Core

LEMMA NewBitmapSound ==
  ASSUME NEW f, Sound(f), NEW b \in Groups, NEW a \in Locations,
         a # 0, a < f.num_blocks, NEW g, g = WithBitmap(f, b, a)
  PROVE  Sound(g) /\ Keeps(f, g) /\ g.hashed = f.hashed /\ g.super.bitmaps[b] = a
<1>1. /\ Core(g) /\ Keeps(f, g) /\ g.super.bitmaps[b] = a
      /\ g.pins = f.pins /\ g.hashed = f.hashed /\ g.superslot = f.superslot
  BY NewBitmapCore, SoundIsPinnedCore
<1> QED
  BY <1>1, SoundIsPinnedCore

LEMMA DirtyCore ==
  ASSUME NEW f, Core(f), NEW s \in f.hashed,
         NEW g, g = [f EXCEPT !.dirty = f.dirty \cup {s}]
  PROVE  /\ Core(g) /\ KeepsSuper(f, g) /\ g.hashed = f.hashed
         /\ g.loc = f.loc /\ g.pins = f.pins /\ g.cached = f.cached
         /\ g.clone = f.clone /\ g.dirty = f.dirty \cup {s}
         /\ g.buf = f.buf
<1>1. f \in FsType /\ f.dirty \cup {s} \in SUBSET Slots
  BY FieldTypes DEF Core
<1>2. g \in FsType
  BY <1>1 DEF FsType
<1>3. /\ g.loc = f.loc /\ g.pins = f.pins /\ g.cached = f.cached
      /\ g.buf = f.buf /\ g.dirty = f.dirty \cup {s}
      /\ g.clone = f.clone /\ g.hashed = f.hashed
      /\ g.file = f.file /\ g.filesize = f.filesize
      /\ g.num_blocks = f.num_blocks /\ g.superslot = f.superslot
      /\ g.super = f.super /\ g.open = f.open
  BY <1>1 DEF FsType
<1> QED
  BY <1>2, <1>3 DEF Core, Coherent, KeepsSuper

LEMMA DirtySound ==
  ASSUME NEW f, Sound(f), NEW s \in f.hashed,
         NEW g, g = [f EXCEPT !.dirty = f.dirty \cup {s}]
  PROVE  Sound(g) /\ KeepsSuper(f, g)
<1>1. Core(g) /\ KeepsSuper(f, g) /\ g.pins = f.pins
  BY DirtyCore, SoundIsPinnedCore
<1> QED
  BY <1>1, SoundIsPinnedCore DEF KeepsSuper

(* bitmap_set, with room for a bitmap when the group has none.             *)
LEMMA BitmapSetSound ==
  ASSUME NEW f, Sound(f), NEW l \in Locations, NEW b \in BOOLEAN,
         f.super.bitmaps[Group(l)] # 0 \/ f.num_blocks < MaxBlocks,
         NEW g, g = BitmapSet(f, l, b)
  PROVE  /\ Sound(g) /\ Keeps(f, g)
         /\ ~g.fault => g.super.bitmaps[Group(l)] # 0
<1> USE BoundsType
<1>1. f \in FsType /\ Group(l) \in Groups
  BY GroupType DEF Sound
<1>2. CASE f.super.bitmaps[Group(l)] # 0
  <2>1. g = BitmapSetIn(f, l, b)
    BY <1>2 DEF BitmapSet
  <2>2. Sound(g) /\ KeepsSuper(f, g)
    BY <2>1, BitmapSetInSound
  <2> QED
    BY <1>1, <1>2, <2>2, KeepsSuperKeeps DEF Sound, KeepsSuper
<1>3. CASE f.super.bitmaps[Group(l)] = 0
  <2> DEFINE t == TakeBlock(f, "B_BITMAP", 0)
             p == [t.fs EXCEPT !.super.bitmaps = [@ EXCEPT ![Group(l)] = t.addr]]
             h == BitmapSetIn(p, t.addr, TRUE)
             d == [h EXCEPT !.dirty = h.dirty \cup {h.superslot}]
  <2>1. Took(f, 0, t)
    BY <1>3, TakeBlockTakes DEF Locations, Types
  <2>2. g = IF t.slot = NULL THEN t.fs ELSE ToggleBit(d, t.slot, l, b)
    BY <1>3 DEF BitmapSet
  <2> HIDE DEF t
  <2>3. CASE t.slot = NULL
    BY <2>1, <2>2, <2>3 DEF Took
  <2>4. CASE t.slot # NULL
    <3>1. /\ Sound(t.fs) /\ Keeps(f, t.fs) /\ t.slot \in t.fs.hashed
          /\ t.addr \in Locations /\ t.addr # 0 /\ t.addr < t.fs.num_blocks
      BY <2>1, <2>4 DEF Took
    <3>2. /\ Sound(p) /\ Keeps(t.fs, p) /\ t.slot \in p.hashed
          /\ p.super.bitmaps[Group(l)] # 0
      <4>1. p = WithBitmap(t.fs, Group(l), t.addr)
        BY DEF WithBitmap
      <4> HIDE DEF p
      <4>2. /\ Sound(p) /\ Keeps(t.fs, p) /\ p.hashed = t.fs.hashed
            /\ p.super.bitmaps[Group(l)] = t.addr
        BY <1>1, <3>1, <4>1, NewBitmapSound
      <4> QED
        BY <3>1, <4>2
    <3> HIDE DEF p
    <3>3. Sound(h) /\ KeepsSuper(p, h)
      BY <3>1, <3>2, BitmapSetInSound
    <3> HIDE DEF h
    <3>4. Sound(d) /\ KeepsSuper(h, d)
      BY <3>3, DirtySound DEF Sound, Rooted
    <3> HIDE DEF d
    <3>5. KeepsSuper(p, d) /\ t.slot \in d.hashed
      BY <3>2, <3>3, <3>4, KeepsSuperTransitive DEF KeepsSuper
    <3>6. Sound(g) /\ KeepsSuper(d, g)
      BY <2>2, <2>4, <3>4, <3>5, ToggleBitSound
    <3>7. KeepsSuper(p, g)
      BY <3>5, <3>6, KeepsSuperTransitive
    <3>8. Keeps(p, g) /\ g.super.bitmaps[Group(l)] # 0
      BY <3>2, <3>6, <3>7, KeepsSuperKeeps DEF KeepsSuper, Sound
    <3> QED
      BY <3>1, <3>2, <3>6, <3>8, KeepsTransitive
  <2> QED
    BY <2>3, <2>4
<1> QED
  BY <1>2, <1>3

(* allocate_block for a client, with room for the block and for a bitmap   *)
(* its group may need, or with a free location to reuse.                   *)
RoomFor(f, target) ==
  \/ BitmapSearch(f, target).addr # 0
  \/ /\ f.num_blocks < MaxBlocks
     /\ \A b \in Groups : f.super.bitmaps[b] = 0 => f.num_blocks + 1 < MaxBlocks

LEMMA AllocateBlockSound ==
  ASSUME NEW f, Sound(f), NEW type \in ClientTypes, NEW target \in Locations,
         RoomFor(f, target), NEW r, r = AllocateBlock(f, type, target)
  PROVE  /\ Sound(r.fs) /\ Keeps(f, r.fs)
         /\ ~r.fs.fault => /\ r.slot \in r.fs.cached \ {r.fs.superslot}
                           /\ r.addr \in Locations /\ r.addr # 0
                           /\ r.addr < r.fs.num_blocks
                           /\ r.fs.super.bitmaps[Group(r.addr)] # 0
<1> DEFINE t == TakeBlock(f, type, target)
<1>1. f \in FsType /\ type \in Types \ {"B_SUPER"}
  BY DEF Sound, ClientTypes, Types
<1>2. BitmapSearch(f, target).addr # 0 \/ f.num_blocks < MaxBlocks
  BY DEF RoomFor
<1>3. Took(f, target, t)
  BY <1>1, <1>2, TakeBlockTakes
<1>4. r = IF t.slot = NULL THEN t
          ELSE [slot |-> t.slot, addr |-> t.addr,
                fs |-> BitmapSet(t.fs, t.addr, TRUE)]
  BY DEF AllocateBlock
<1> HIDE DEF t
<1>5. CASE t.slot = NULL
  BY <1>3, <1>4, <1>5 DEF Took
<1>6. CASE t.slot # NULL
  <2>1. /\ Sound(t.fs) /\ Keeps(f, t.fs) /\ t.slot \in t.fs.hashed \ {t.fs.superslot}
        /\ t.addr \in Locations /\ t.addr # 0 /\ t.addr < t.fs.num_blocks
        /\ t.fs.super.bitmaps = f.super.bitmaps
        /\ t.fs.num_blocks <= f.num_blocks + 1
        /\ BitmapSearch(f, target).addr # 0 => f.super.bitmaps[Group(t.addr)] # 0
    BY <1>3, <1>6 DEF Took
  <2>2. t.fs.num_blocks \in Nat /\ f.num_blocks \in Nat /\ MaxBlocks \in Nat
    BY <1>1, <2>1, FieldTypes, BoundsType DEF Sound
  <2>3. Group(t.addr) \in Groups
    BY <2>1, GroupType
  <2>4. t.fs.super.bitmaps[Group(t.addr)] # 0 \/ t.fs.num_blocks < MaxBlocks
    BY <2>1, <2>2, <2>3 DEF RoomFor
  <2>5. /\ Sound(r.fs) /\ Keeps(t.fs, r.fs)
        /\ ~r.fs.fault => r.fs.super.bitmaps[Group(t.addr)] # 0
        /\ r.slot = t.slot /\ r.addr = t.addr
    <3>1. r.fs = BitmapSet(t.fs, t.addr, TRUE) /\ r.slot = t.slot /\ r.addr = t.addr
      BY <1>4, <1>6
    <3> QED
      BY <2>1, <2>4, <3>1, BitmapSetSound
  <2>6. Keeps(f, r.fs)
    BY <2>1, <2>5, KeepsTransitive
  <2>7. t.slot \in r.fs.cached \ {r.fs.superslot}
    BY <2>1, <2>5 DEF Sound, Coherent, Keeps
  <2>8. r.fs.num_blocks \in Nat /\ t.addr \in Nat
    BY <2>1, <2>5, FieldTypes DEF Sound, Locations
  <2> QED
    BY <2>1, <2>2, <2>5, <2>6, <2>7, <2>8 DEF Keeps
<1> QED
  BY <1>5, <1>6

LEMMA DeallocateBlockSound ==
  ASSUME NEW f, Sound(f), NEW type \in ClientTypes, NEW l \in Locations,
         f.super.bitmaps[Group(l)] # 0,
         NEW g, g = DeallocateBlock(f, type, l)
  PROVE  Sound(g) /\ Keeps(f, g)
<1> DEFINE counts == [t \in Types |->
              f.super.counts[t] + (IF t = "B_FREE" THEN 1 ELSE 0)
                                - (IF t = type THEN 1 ELSE 0)]
           c == [f EXCEPT !.super.counts = counts,
                          !.fault = @ \/ l < 1 \/ l >= f.num_blocks]
<1>1. g = BitmapSet(c, l, FALSE)
  BY DEF DeallocateBlock
<1>2. f \in FsType /\ f.super \in Super /\ counts \in [Types -> Int]
  BY FieldTypes DEF Sound
<1> HIDE DEF counts
<1>3. /\ c.super = [f.super EXCEPT !.counts = counts]
      /\ c.fault \in BOOLEAN
      /\ c.loc = f.loc /\ c.pins = f.pins /\ c.cached = f.cached
      /\ c.buf = f.buf /\ c.dirty = f.dirty
      /\ c.clone = f.clone /\ c.hashed = f.hashed
      /\ c.file = f.file /\ c.filesize = f.filesize
      /\ c.num_blocks = f.num_blocks /\ c.superslot = f.superslot
      /\ c.open = f.open
  BY <1>2 DEF FsType
<1>4. c.super \in Super /\ c.super.bitmaps = f.super.bitmaps
  BY <1>2, <1>3 DEF Super
<1>5. c \in FsType
  BY <1>2, <1>3, <1>4 DEF FsType
<1>6. Sound(c)
  BY <1>3, <1>4, <1>5 DEF Sound, Coherent, Rooted
<1>7. Keeps(f, c)
  BY <1>2, <1>3, <1>4, FieldTypes, BoundsType DEF Keeps
<1> HIDE DEF c
<1>8. Sound(g) /\ Keeps(c, g)
  BY <1>1, <1>4, <1>6, BitmapSetSound
<1> QED
  BY <1>6, <1>7, <1>8, KeepsTransitive

-----------------------------------------------------------------------------
(* Pins.                                                                   *)

LEMMA PinSound ==
  ASSUME NEW f, Sound(f), NEW s, NEW g, g = Pin(f, s)
  PROVE  Sound(g) /\ KeepsSuper(f, g) /\ (f.fault => g.fault)
<1>1. f \in FsType
  BY DEF Sound
<1>2. g.pins \in [Slots -> Int] /\ g.total_pins \in Int
      /\ \A t \in Slots : g.pins[t] >= f.pins[t]
  <2>1. /\ g.pins = [f.pins EXCEPT ![s] = f.pins[s] + 1]
        /\ g.total_pins = f.total_pins + 1
    BY <1>1 DEF Pin, FsType
  <2>2. f.pins \in [Slots -> Int] /\ f.total_pins \in Int
    BY <1>1, FieldTypes
  <2>3. CASE s \in Slots
    BY <2>1, <2>2, <2>3
  <2>4. CASE s \notin Slots
    <3>1. g.pins = f.pins
      BY <2>1, <2>2, <2>4
    <3>2. g.total_pins \in Int /\ \A t \in Slots : f.pins[t] \in Int
      BY <2>1, <2>2
    <3> QED
      BY <2>2, <3>1, <3>2
  <2> QED
    BY <2>3, <2>4
<1>3. /\ g = [f EXCEPT !.pins = g.pins, !.total_pins = g.total_pins,
                       !.fault = g.fault]
      /\ g.fault \in BOOLEAN /\ (f.fault => g.fault)
  BY <1>1, FieldTypes DEF Pin, FsType
<1>4. /\ g.loc = f.loc /\ g.cached = f.cached
      /\ g.buf = f.buf /\ g.dirty = f.dirty
      /\ g.clone = f.clone /\ g.hashed = f.hashed
      /\ g.file = f.file /\ g.filesize = f.filesize
      /\ g.num_blocks = f.num_blocks /\ g.superslot = f.superslot
      /\ g.super = f.super /\ g.open = f.open
  BY <1>1, <1>3 DEF FsType
<1>5. g \in FsType
  BY <1>1, <1>2, <1>3 DEF FsType
<1>6. Rooted(g)
  BY <1>1, <1>2, <1>4, FieldTypes DEF Sound, Rooted
<1> QED
  BY <1>3, <1>4, <1>5, <1>6 DEF Sound, Coherent, KeepsSuper

(* unpin, which may leave the superblock unpinned only at the close.       *)
LEMMA UnpinSound ==
  ASSUME NEW f, Sound(f), NEW s \in Slots, NEW g, g = Unpin(f, s)
  PROVE  /\ g \in FsType /\ Coherent(g) /\ KeepsSuper(f, g)
         /\ g.savedsuper = f.savedsuper
         /\ s # f.superslot => Sound(g)
<1>1. f \in FsType
  BY DEF Sound
<1>2. /\ g.pins = [f.pins EXCEPT ![s] = f.pins[s] - 1]
      /\ g.total_pins = f.total_pins - 1 /\ g.fault \in BOOLEAN
      /\ g = [f EXCEPT !.pins = g.pins, !.total_pins = g.total_pins,
                       !.fault = g.fault]
  BY <1>1, FieldTypes DEF Unpin, FsType
<1>3. /\ g.loc = f.loc /\ g.cached = f.cached
      /\ g.buf = f.buf /\ g.dirty = f.dirty
      /\ g.clone = f.clone /\ g.hashed = f.hashed
      /\ g.file = f.file /\ g.filesize = f.filesize
      /\ g.num_blocks = f.num_blocks /\ g.superslot = f.superslot
      /\ g.super = f.super /\ g.open = f.open /\ g.savedsuper = f.savedsuper
  BY <1>1, <1>2 DEF FsType
<1>4. g.pins \in [Slots -> Int] /\ g.total_pins \in Int
  BY <1>1, <1>2, FieldTypes
<1>5. g \in FsType
  BY <1>1, <1>2, <1>4 DEF FsType
<1>6. s # f.superslot => Rooted(g)
  BY <1>1, <1>2, <1>3, FieldTypes DEF Sound, Rooted
<1> QED
  BY <1>3, <1>5, <1>6 DEF Sound, Coherent, KeepsSuper

-----------------------------------------------------------------------------
(* The inductive invariant.                                                *)

(* What clients own lies within the file, in a group with a bitmap, and is *)
(* never the superblock.                                                   *)
OwnedOK(f, o) ==
  \A l \in Locations : o[l] # "none" =>
    l # 0 /\ l < f.num_blocks /\ f.super.bitmaps[Group(l)] # 0

(* What clients hold is in the cache, and is not the superblock.           *)
HoldOK(f, h) == \A s \in Slots : h[s] # {} => s \in f.cached /\ s # f.superslot

ClientType(o, h) ==
  /\ o \in [Locations -> ClientTypes \cup {"none"}]
  /\ h \in [Slots -> SUBSET View]

(* A closed file system can be opened again with what it had.              *)
ClosedOK(f, h) == (\A s \in Slots : h[s] = {}) /\ f.savedsuper = f.super

IInv ==
  /\ fs \in FsType /\ Coherent(fs) /\ fs.num_blocks >= 1 /\ fs.superslot \in Slots
  /\ ClientType(owned, hold)
  /\ Running => Rooted(fs)
  /\ ~fs.fault => OwnedOK(fs, owned) /\ HoldOK(fs, hold)
  /\ ~fs.fault /\ ~fs.open => ClosedOK(fs, hold)

LEMMA IInvImpliesTypeOK == IInv => TypeOK
  BY FieldTypes, BoundsType DEF IInv, ClientType, TypeOK

LEMMA IInvImpliesCacheCoherent == IInv => CacheCoherent
  BY DEF IInv, Coherent, CacheCoherent

LEMMA RunningSound ==
  ASSUME IInv, Running
  PROVE  /\ Sound(fs) /\ fs \in FsType /\ fs.superslot \in Slots
         /\ fs.open /\ ~fs.fault
         /\ OwnedOK(fs, owned) /\ HoldOK(fs, hold) /\ ClientType(owned, hold)
  BY DEF IInv, Running, Sound

LEMMA KeptOwned ==
  ASSUME NEW f, Sound(f), NEW g, Sound(g), Keeps(f, g), NEW o, OwnedOK(f, o)
  PROVE  OwnedOK(g, o)
  BY GroupType, FieldTypes, BoundsType DEF OwnedOK, Keeps, Sound, Locations

LEMMA KeptHold ==
  ASSUME NEW f, NEW g, Keeps(f, g), NEW h, HoldOK(f, h)
  PROVE  HoldOK(g, h)
  BY DEF HoldOK, Keeps

(* A call from a running state ends in a sound state; unless the process   *)
(* has ended, the clients then own and hold what they should.              *)
LEMMA CallPreserves ==
  ASSUME IInv, Running, NEW f, Sound(f), Keeps(fs, f), NEW o, NEW h,
         Returns(f, o, h),
         ~f.fault => ClientType(o, h) /\ OwnedOK(f, o) /\ HoldOK(f, h)
  PROVE  IInv'
<1>1. /\ fs' = f /\ owned' = (IF f.fault THEN owned ELSE o)
      /\ hold' = IF f.fault THEN hold ELSE h
  BY DEF Returns
<1>2. /\ fs.superslot \in Slots /\ fs.open /\ ClientType(owned, hold)
      /\ f.superslot \in Slots /\ f.open
  BY RunningSound DEF Keeps
<1>3. fs' \in FsType /\ Coherent(fs') /\ fs'.num_blocks >= 1
      /\ fs'.superslot \in Slots /\ Rooted(fs') /\ fs'.open
  BY <1>1, <1>2 DEF Sound
<1>4. ClientType(owned', hold')
  BY <1>1, <1>2
<1>5. ~fs'.fault => OwnedOK(fs', owned') /\ HoldOK(fs', hold')
  BY <1>1
<1> QED
  BY <1>3, <1>4, <1>5 DEF IInv

LEMMA HoldingOK ==
  ASSUME NEW f, HoldOK(f, hold), hold \in [Slots -> SUBSET View],
         NEW s \in f.cached \ {f.superslot}, NEW l \in Locations, NEW v \in Values
  PROVE  HoldOK(f, Holding(s, l, v)) /\ Holding(s, l, v) \in [Slots -> SUBSET View]
<1>1. [loc |-> l, snap |-> v] \in View
  BY DEF View
<1> QED
  BY <1>1 DEF HoldOK, Holding

LEMMA FlushPreserves == ASSUME IInv, Flush PROVE IInv'
<1>1. Running /\ fs' = FlushFs(fs) /\ owned' = owned /\ hold' = hold
  BY DEF Flush
<1>2. /\ Sound(fs) /\ fs \in FsType /\ ~fs.fault
      /\ OwnedOK(fs, owned) /\ HoldOK(fs, hold) /\ ClientType(owned, hold)
  BY <1>1, RunningSound
<1>3. Flushed(fs, fs')
  BY <1>1, <1>2, FlushFsSound
<1>4. Sound(fs') /\ Keeps(fs, fs')
  BY <1>2, <1>3, KeepsSuperKeeps DEF Flushed, Sound
<1>5. Returns(fs', owned, hold)
  BY <1>1 DEF Returns
<1> QED
  BY <1>1, <1>2, <1>4, <1>5, CallPreserves, KeptOwned, KeptHold

(* What get_block returns, or the end of the process.                      *)
LEMMA NeedGot ==
  ASSUME NEW f, Sound(f), NEW l \in Locations, NEW r, Got(f, r, l)
  PROVE  Sound(Need(r)) /\ KeepsSuper(f, Need(r))
<1>1. Sound(r.fs) /\ KeepsSuper(f, r.fs)
  BY DEF Got
<1>2. CASE r.slot = NULL
  <2>1. Need(r) = [r.fs EXCEPT !.fault = TRUE]
    BY <1>2 DEF Need
  <2>2. Sound(Need(r)) /\ KeepsSuper(r.fs, Need(r))
    BY <1>1, <2>1, FaultSound
  <2> QED
    BY <1>1, <2>2, KeepsSuperTransitive
<1>3. CASE r.slot # NULL
  BY <1>1, <1>3 DEF Need
<1> QED
  BY <1>2, <1>3

LEMMA GetAndPinPreserves ==
  ASSUME IInv, NEW l \in Locations, GetAndPin(l) PROVE IInv'
<1> DEFINE r == GetBlock(fs, l)
           f == Pin(Need(r), r.slot)
           h == Holding(r.slot, l, Zero)
<1>1. Running /\ owned[l] = "B_TREE" /\ Returns(f, owned, h)
  BY DEF GetAndPin
<1>2. /\ Sound(fs) /\ fs \in FsType
      /\ OwnedOK(fs, owned) /\ HoldOK(fs, hold) /\ ClientType(owned, hold)
      /\ l # 0 /\ l < fs.num_blocks
  BY <1>1, RunningSound DEF OwnedOK
<1>3. Got(fs, r, l)
  BY <1>2, GetBlockGets
<1> HIDE DEF r
<1>4. Sound(Need(r)) /\ KeepsSuper(fs, Need(r))
  BY <1>2, <1>3, NeedGot
<1>5. Sound(f) /\ KeepsSuper(Need(r), f) /\ (Need(r).fault => f.fault)
  BY <1>4, PinSound
<1>6. Sound(f) /\ Keeps(fs, f)
  BY <1>2, <1>4, <1>5, KeepsSuperTransitive, KeepsSuperKeeps DEF Sound
<1>7. ASSUME ~f.fault
      PROVE  ClientType(owned, h) /\ OwnedOK(f, owned) /\ HoldOK(f, h)
  <2>1. r.slot # NULL
    <3>1. r.slot = NULL => Need(r).fault
      BY <1>3 DEF Need, Got, Sound, FsType
    <3> QED
      BY <1>5, <1>7, <3>1
  <2>2. /\ r.slot \in r.fs.hashed /\ r.fs.loc[r.slot] = l
        /\ Need(r) = r.fs /\ r.slot \in Slots
    BY <1>3, <2>1 DEF Got, Need
  <2>3. r.slot \in r.fs.cached /\ r.slot # r.fs.superslot
    BY <1>2, <1>4, <2>2 DEF Sound, Coherent, Rooted
  <2>4. r.slot \in f.cached \ {f.superslot}
    BY <1>5, <2>2, <2>3 DEF KeepsSuper
  <2>5. OwnedOK(f, owned) /\ HoldOK(f, hold)
    BY <1>2, <1>6, KeptOwned, KeptHold
  <2> QED
    BY <1>2, <2>4, <2>5, HoldingOK, ValuesAssumption DEF ClientType
<1> QED
  BY <1>1, <1>6, <1>7, CallPreserves

LEMMA ReleaseBlockPreserves ==
  ASSUME IInv, NEW s \in Slots, ReleaseBlock(s) PROVE IInv'
<1> DEFINE f == Unpin(fs, s)
           h == [hold EXCEPT ![s] = IF fs.pins[s] > 1 THEN @ ELSE {}]
<1>1. Running /\ hold[s] # {} /\ Returns(f, owned, h)
  BY DEF ReleaseBlock, Held
<1>2. /\ Sound(fs) /\ fs \in FsType
      /\ OwnedOK(fs, owned) /\ HoldOK(fs, hold) /\ ClientType(owned, hold)
  BY <1>1, RunningSound
<1>3. Sound(f) /\ Keeps(fs, f)
  <2>1. s # fs.superslot
    BY <1>1, <1>2 DEF HoldOK
  <2>2. Sound(f) /\ KeepsSuper(fs, f)
    BY <1>2, <2>1, UnpinSound
  <2> QED
    BY <1>2, <2>2, KeepsSuperKeeps DEF Sound
<1>4. OwnedOK(f, owned) /\ HoldOK(f, hold)
  BY <1>2, <1>3, KeptOwned, KeptHold
<1>5. HoldOK(f, h) /\ ClientType(owned, h)
  <2>1. hold \in [Slots -> SUBSET View]
    BY <1>2 DEF ClientType
  <2>2. h \in [Slots -> SUBSET View] /\ \A t \in Slots : h[t] # {} => hold[t] # {}
    BY <2>1
  <2> QED
    BY <1>2, <1>4, <2>2 DEF HoldOK, ClientType
<1> HIDE DEF f, h
<1> QED
  BY <1>1, <1>3, <1>4, <1>5, CallPreserves

(* A client changes the contents of a block it found through the index and *)
(* marks it dirty.                                                         *)
LEMMA WriteSound ==
  ASSUME NEW f, Sound(f), NEW s \in f.hashed, s # f.superslot, NEW v \in Values,
         NEW g, g = SetData(f, s, v)
  PROVE  Sound(g) /\ KeepsSuper(f, g) /\ g.fault = f.fault
<1>1. f \in FsType /\ s \in Slots
  BY FieldTypes DEF Sound
<1>2. /\ g.buf = [f.buf EXCEPT ![s].data = v] /\ g.dirty = f.dirty \cup {s}
      /\ g.loc = f.loc /\ g.pins = f.pins /\ g.cached = f.cached
      /\ g.clone = f.clone /\ g.hashed = f.hashed
      /\ g.file = f.file /\ g.filesize = f.filesize
      /\ g.num_blocks = f.num_blocks /\ g.superslot = f.superslot
      /\ g.super = f.super /\ g.open = f.open /\ g.fault = f.fault
  BY <1>1 DEF SetData, FsType
<1>3. g.buf \in [Slots -> Content] /\ \A t \in Slots \ {s} : g.buf[t] = f.buf[t]
  <2>1. f.buf \in [Slots -> Content] /\ f.buf[s] \in Content
    BY <1>1, FieldTypes
  <2>2. [f.buf[s] EXCEPT !.data = v] \in Content
    BY <2>1 DEF Content
  <2>3. g.buf = [f.buf EXCEPT ![s] = [f.buf[s] EXCEPT !.data = v]]
    BY <1>2, <2>1
  <2> QED
    BY <1>1, <2>1, <2>2, <2>3
<1>4. g \in FsType
  <2>1. g.dirty \in SUBSET Slots
    BY <1>1, <1>2, FieldTypes
  <2>2. g = [f EXCEPT !.buf = g.buf, !.dirty = g.dirty]
    BY <1>2 DEF SetData
  <2> QED
    BY <1>1, <1>3, <2>1, <2>2 DEF FsType
<1>5. Sound(g)
  BY <1>1, <1>2, <1>3, <1>4, FieldTypes DEF Sound, Coherent, Rooted
<1> QED
  BY <1>2, <1>5 DEF KeepsSuper

LEMMA WriteBlockPreserves ==
  ASSUME IInv, NEW s \in Slots, NEW v \in Values, WriteBlock(s, v) PROVE IInv'
<1> DEFINE f == SetData(fs, s, v)
<1>1. Running /\ hold[s] # {} /\ s \notin fs.clone
      /\ fs' = f /\ owned' = owned /\ hold' = hold
  BY DEF WriteBlock, Held
<1>2. /\ Sound(fs) /\ fs \in FsType /\ ~fs.fault
      /\ OwnedOK(fs, owned) /\ HoldOK(fs, hold) /\ ClientType(owned, hold)
  BY <1>1, RunningSound
<1>3. s \in fs.hashed /\ s # fs.superslot
  BY <1>1, <1>2 DEF HoldOK, Sound, Coherent
<1>4. Sound(f) /\ KeepsSuper(fs, f)
  BY <1>2, <1>3, WriteSound
<1> HIDE DEF f
<1>5. Keeps(fs, f)
  BY <1>2, <1>4, KeepsSuperKeeps DEF Sound
<1>6. Returns(f, owned, hold)
  BY <1>1 DEF Returns
<1> QED
  BY <1>1, <1>2, <1>4, <1>5, <1>6, CallPreserves, KeptOwned, KeptHold

LEMMA ReadDataPreserves ==
  ASSUME IInv, NEW l \in Locations, ReadData(l) PROVE IInv'
<1> DEFINE r == GetBlock(fs, l)
           f == Need(r)
<1>1. Running /\ owned[l] = "B_DATA" /\ Returns(f, owned, hold)
  BY DEF ReadData
<1>2. /\ Sound(fs) /\ fs \in FsType
      /\ OwnedOK(fs, owned) /\ HoldOK(fs, hold) /\ ClientType(owned, hold)
      /\ l # 0 /\ l < fs.num_blocks
  BY <1>1, RunningSound DEF OwnedOK
<1>3. Got(fs, r, l)
  BY <1>2, GetBlockGets
<1> HIDE DEF r
<1>4. Sound(f) /\ KeepsSuper(fs, f)
  BY <1>2, <1>3, NeedGot
<1> HIDE DEF f
<1>5. Keeps(fs, f)
  BY <1>2, <1>4, KeepsSuperKeeps DEF Sound
<1> QED
  BY <1>1, <1>2, <1>4, <1>5, CallPreserves, KeptOwned, KeptHold

LEMMA WriteDataPreserves ==
  ASSUME IInv, NEW l \in Locations, NEW v \in Values, WriteData(l, v) PROVE IInv'
<1> DEFINE r == GetBlock(fs, l)
           g == r.fs
           w == SetData(g, r.slot, v)
           f == IF r.slot = NULL THEN Need(r) ELSE w
<1>1. Running /\ owned[l] = "B_DATA" /\ Returns(f, owned, hold)
  BY DEF WriteData
<1>2. /\ Sound(fs) /\ fs \in FsType
      /\ OwnedOK(fs, owned) /\ HoldOK(fs, hold) /\ ClientType(owned, hold)
      /\ l # 0 /\ l < fs.num_blocks
  BY <1>1, RunningSound DEF OwnedOK
<1>3. Got(fs, r, l)
  BY <1>2, GetBlockGets
<1> HIDE DEF r
<1>4. Sound(f) /\ KeepsSuper(fs, f)
  <2>1. CASE r.slot = NULL
    BY <1>2, <1>3, <2>1, NeedGot
  <2>2. CASE r.slot # NULL
    <3>1. /\ Sound(g) /\ KeepsSuper(fs, g)
          /\ r.slot \in g.hashed /\ g.loc[r.slot] = l
      BY <1>3, <2>2 DEF Got
    <3>2. r.slot # g.superslot
      BY <1>2, <3>1 DEF Sound, Coherent, Rooted
    <3> HIDE DEF g
    <3>3. Sound(w) /\ KeepsSuper(g, w)
      BY <3>1, <3>2, WriteSound
    <3> QED
      BY <2>2, <3>1, <3>3, KeepsSuperTransitive
  <2> QED
    BY <2>1, <2>2
<1> HIDE DEF f
<1>5. Keeps(fs, f)
  BY <1>2, <1>4, KeepsSuperKeeps DEF Sound
<1> QED
  BY <1>1, <1>2, <1>4, <1>5, CallPreserves, KeptOwned, KeptHold

LEMMA CloneAndPinPreserves ==
  ASSUME IInv, NEW l \in Locations, CloneAndPin(l) PROVE IInv'
<1> DEFINE g == GetBlock(fs, l)
           r == IF g.slot = NULL THEN g ELSE CloneBlock(g.fs, g.slot)
           f == Pin(Need(r), r.slot)
           v == g.fs.buf[g.slot].data
           h == Holding(r.slot, l, v)
<1>1. Running /\ owned[l] = "B_TREE" /\ Returns(f, owned, h)
  BY DEF CloneAndPin
<1>2. /\ Sound(fs) /\ fs \in FsType
      /\ OwnedOK(fs, owned) /\ HoldOK(fs, hold) /\ ClientType(owned, hold)
      /\ l # 0 /\ l < fs.num_blocks
  BY <1>1, RunningSound DEF OwnedOK
<1>3. Got(fs, g, l)
  BY <1>2, GetBlockGets
<1> HIDE DEF g
<1>4. Sound(g.fs) /\ KeepsSuper(fs, g.fs) /\ g.fs \in FsType /\ Keeps(fs, g.fs)
  BY <1>2, <1>3, KeepsSuperKeeps DEF Got, Sound
<1>5. /\ Sound(r.fs) /\ Keeps(fs, r.fs)
      /\ r.slot = NULL => r.fs.fault
      /\ r.slot # NULL => /\ r.slot \in r.fs.cached \ {r.fs.superslot}
                          /\ v \in Values
  <2>1. CASE g.slot = NULL
    BY <1>3, <1>4, <2>1 DEF Got
  <2>2. CASE g.slot # NULL
    <3>1. g.slot \in g.fs.hashed /\ g.slot \in Slots
      BY <1>3, <2>2 DEF Got
    <3>2. /\ Sound(r.fs) /\ Keeps(g.fs, r.fs)
          /\ r.slot = NULL => r.fs.fault
          /\ r.slot # NULL => r.slot \in r.fs.cached \ {r.fs.superslot}
      <4>1. r = CloneBlock(g.fs, g.slot)
        BY <2>2
      <4> HIDE DEF r
      <4> QED
        BY <1>4, <3>1, <4>1, CloneBlockSound
    <3>3. v \in Values
      BY <1>4, <3>1, FieldTypes DEF Content
    <3> HIDE DEF r, v
    <3> QED
      BY <1>2, <1>4, <3>2, <3>3, KeepsTransitive
  <2> QED
    BY <2>1, <2>2
<1> HIDE DEF r, v
<1>6. Sound(Need(r)) /\ Keeps(fs, Need(r))
  <2>1. CASE r.slot = NULL
    <3>1. Need(r) = [r.fs EXCEPT !.fault = TRUE]
      BY <2>1 DEF Need
    <3>2. Sound(Need(r)) /\ KeepsSuper(r.fs, Need(r))
      BY <1>5, <3>1, FaultSound
    <3>3. Keeps(r.fs, Need(r))
      BY <1>5, <3>2, KeepsSuperKeeps DEF Sound
    <3> QED
      BY <1>2, <1>5, <3>2, <3>3, KeepsTransitive
  <2>2. CASE r.slot # NULL
    BY <1>5, <2>2 DEF Need
  <2> QED
    BY <2>1, <2>2
<1>7. Sound(f) /\ KeepsSuper(Need(r), f) /\ (Need(r).fault => f.fault)
  BY <1>6, PinSound
<1>8. Keeps(fs, f)
  <2>1. Keeps(Need(r), f)
    BY <1>6, <1>7, KeepsSuperKeeps DEF Sound
  <2> QED
    BY <1>2, <1>6, <1>7, <2>1, KeepsTransitive
<1>9. ASSUME ~f.fault
      PROVE  ClientType(owned, h) /\ OwnedOK(f, owned) /\ HoldOK(f, h)
  <2>1. r.slot # NULL
    <3>1. r.slot = NULL => Need(r).fault
      BY <1>5 DEF Need, Sound, FsType
    <3> QED
      BY <1>7, <1>9, <3>1
  <2>2. r.slot \in r.fs.cached \ {r.fs.superslot} /\ v \in Values /\ Need(r) = r.fs
    BY <1>5, <2>1 DEF Need
  <2>3. r.slot \in f.cached \ {f.superslot}
    BY <1>7, <2>2 DEF KeepsSuper
  <2>4. OwnedOK(f, owned) /\ HoldOK(f, hold)
    BY <1>2, <1>7, <1>8, KeptOwned, KeptHold
  <2> QED
    BY <1>2, <2>2, <2>3, <2>4, HoldingOK DEF ClientType
<1> QED
  BY <1>1, <1>7, <1>8, <1>9, CallPreserves

LEMMA CanGrowRoom ==
  ASSUME fs \in FsType, CanGrow(1)
  PROVE  /\ fs.num_blocks < MaxBlocks
         /\ \A b \in Groups : fs.super.bitmaps[b] = 0 => fs.num_blocks + 1 < MaxBlocks
<1> DEFINE M == {g \in Groups : fs.super.bitmaps[g] = 0}
<1>1. IsFiniteSet(M)
  <2>1. Groups \in SUBSET (0 .. MaxBlocks - 1)
    BY BoundsType DEF Groups, Locations
  <2>2. M \in SUBSET (0 .. MaxBlocks - 1)
    BY <2>1
  <2>3. IsFiniteSet(0 .. MaxBlocks - 1)
    BY FS_Interval, BoundsType
  <2> HIDE DEF M
  <2> QED
    BY <2>2, <2>3, FS_Subset
<1>2. Cardinality(M) \in Nat /\ (Cardinality(M) = 0 <=> M = {})
  BY <1>1, FS_CardinalityType, FS_EmptySet
<1>3. fs.num_blocks + 1 + Cardinality(M) <= MaxBlocks
  BY DEF CanGrow
<1>4. fs.num_blocks \in Nat /\ MaxBlocks \in Nat
  BY BoundsType, FieldTypes
<1>5. \A b \in Groups : fs.super.bitmaps[b] = 0 => M # {}
  OBVIOUS
<1> HIDE DEF M
<1> QED
  BY <1>2, <1>3, <1>4, <1>5

LEMMA RoomIsRoom ==
  ASSUME fs \in FsType, NEW target, Room(target)
  PROVE  RoomFor(fs, target)
  BY CanGrowRoom DEF Room, RoomFor

(* A block just allocated belongs to the clients.                          *)
LEMMA AllocatedOwned ==
  ASSUME NEW type \in ClientTypes, NEW f, NEW a \in Locations, a # 0,
         a < f.num_blocks, f.super.bitmaps[Group(a)] # 0,
         OwnedOK(f, owned), ClientType(owned, hold),
         NEW o, o = [owned EXCEPT ![a] = type]
  PROVE  OwnedOK(f, o) /\ o \in [Locations -> ClientTypes \cup {"none"}]
<1>1. o \in [Locations -> ClientTypes \cup {"none"}]
      /\ \A l \in Locations : l # a => o[l] = owned[l]
  BY DEF ClientType
<1> QED
  BY <1>1 DEF OwnedOK

LEMMA AllocateAndPinPreserves ==
  ASSUME IInv, AllocateAndPin PROVE IInv'
<1> DEFINE r == AllocateBlock(fs, "B_TREE", 0)
           f == Pin(r.fs, r.slot)
           o == [owned EXCEPT ![r.addr] = "B_TREE"]
           h == Holding(r.slot, r.addr, Zero)
<1>1. Running /\ Room(0) /\ Returns(f, o, h)
  BY DEF AllocateAndPin, CanAllocate
<1>2. /\ Sound(fs) /\ fs \in FsType /\ 0 \in Locations /\ "B_TREE" \in ClientTypes
      /\ OwnedOK(fs, owned) /\ HoldOK(fs, hold) /\ ClientType(owned, hold)
  BY <1>1, RunningSound, BoundsType DEF Locations, ClientTypes
<1>3. RoomFor(fs, 0)
  BY <1>1, <1>2, RoomIsRoom
<1>4. /\ Sound(r.fs) /\ Keeps(fs, r.fs)
      /\ ~r.fs.fault => /\ r.slot \in r.fs.cached \ {r.fs.superslot}
                        /\ r.addr \in Locations /\ r.addr # 0
                        /\ r.addr < r.fs.num_blocks
                        /\ r.fs.super.bitmaps[Group(r.addr)] # 0
  <2> HIDE DEF r
  <2>1. r = AllocateBlock(fs, "B_TREE", 0)
    BY DEF r
  <2> QED
    BY <1>2, <1>3, <2>1, AllocateBlockSound
<1> HIDE DEF r
<1>5. Sound(f) /\ KeepsSuper(r.fs, f) /\ (r.fs.fault => f.fault)
  BY <1>4, PinSound
<1>6. Keeps(fs, f)
  <2>1. Keeps(r.fs, f)
    BY <1>4, <1>5, KeepsSuperKeeps DEF Sound
  <2> QED
    BY <1>2, <1>4, <1>5, <2>1, KeepsTransitive
<1>7. ASSUME ~f.fault
      PROVE  ClientType(o, h) /\ OwnedOK(f, o) /\ HoldOK(f, h)
  <2>1. /\ r.slot \in r.fs.cached \ {r.fs.superslot}
        /\ r.addr \in Locations /\ r.addr # 0
        /\ r.addr < r.fs.num_blocks /\ r.fs.super.bitmaps[Group(r.addr)] # 0
    BY <1>4, <1>5, <1>7
  <2>2. /\ r.slot \in f.cached \ {f.superslot}
        /\ r.addr < f.num_blocks /\ f.super.bitmaps[Group(r.addr)] # 0
    BY <1>5, <2>1 DEF KeepsSuper
  <2>3. OwnedOK(f, owned) /\ HoldOK(f, hold)
    BY <1>2, <1>5, <1>6, KeptOwned, KeptHold
  <2>4. OwnedOK(f, o) /\ o \in [Locations -> ClientTypes \cup {"none"}]
    BY <1>2, <2>1, <2>2, <2>3, AllocatedOwned
  <2>5. HoldOK(f, h) /\ h \in [Slots -> SUBSET View]
    BY <1>2, <2>1, <2>2, <2>3, HoldingOK, ValuesAssumption DEF ClientType
  <2> QED
    BY <2>4, <2>5 DEF ClientType
<1> HIDE DEF f, o, h
<1> QED
  BY <1>1, <1>5, <1>6, <1>7, CallPreserves

LEMMA AllocateDataPreserves ==
  ASSUME IInv, NEW target \in Locations, AllocateData(target) PROVE IInv'
<1> DEFINE r == AllocateBlock(fs, "B_DATA", target)
           f == r.fs
           o == [owned EXCEPT ![r.addr] = "B_DATA"]
<1>1. Running /\ Room(target) /\ Returns(f, o, hold)
  BY DEF AllocateData, CanAllocate
<1>2. /\ Sound(fs) /\ fs \in FsType /\ "B_DATA" \in ClientTypes
      /\ OwnedOK(fs, owned) /\ HoldOK(fs, hold) /\ ClientType(owned, hold)
  BY <1>1, RunningSound DEF ClientTypes
<1>3. RoomFor(fs, target)
  BY <1>1, <1>2, RoomIsRoom
<1>4. /\ Sound(f) /\ Keeps(fs, f)
      /\ ~f.fault => /\ r.addr \in Locations /\ r.addr # 0
                     /\ r.addr < f.num_blocks /\ f.super.bitmaps[Group(r.addr)] # 0
  <2> HIDE DEF r
  <2>1. r = AllocateBlock(fs, "B_DATA", target)
    BY DEF r
  <2> QED
    BY <1>2, <1>3, <2>1, AllocateBlockSound
<1> HIDE DEF r, f
<1>5. OwnedOK(f, owned) /\ HoldOK(f, hold)
  BY <1>2, <1>4, KeptOwned, KeptHold
<1>6. ASSUME ~f.fault PROVE ClientType(o, hold) /\ OwnedOK(f, o)
  <2>1. OwnedOK(f, o) /\ o \in [Locations -> ClientTypes \cup {"none"}]
    BY <1>2, <1>4, <1>5, <1>6, AllocatedOwned
  <2> QED
    BY <1>2, <2>1 DEF ClientType
<1> HIDE DEF o
<1> QED
  BY <1>1, <1>4, <1>5, <1>6, CallPreserves

LEMMA FreeBlockPreserves ==
  ASSUME IInv, NEW l \in Locations, FreeBlock(l) PROVE IInv'
<1> DEFINE f == DeallocateBlock(fs, owned[l], l)
           o == [owned EXCEPT ![l] = "none"]
<1>1. Running /\ owned[l] # "none" /\ Returns(f, o, hold)
  BY DEF FreeBlock
<1>2. /\ Sound(fs) /\ OwnedOK(fs, owned) /\ HoldOK(fs, hold)
      /\ ClientType(owned, hold) /\ fs.super.bitmaps[Group(l)] # 0
      /\ owned[l] \in ClientTypes
  BY <1>1, RunningSound DEF OwnedOK, ClientType
<1>3. Sound(f) /\ Keeps(fs, f)
  BY <1>2, DeallocateBlockSound
<1> HIDE DEF f
<1>4. OwnedOK(f, owned) /\ HoldOK(f, hold)
  BY <1>2, <1>3, KeptOwned, KeptHold
<1>5. ClientType(o, hold) /\ OwnedOK(f, o)
  <2>1. o \in [Locations -> ClientTypes \cup {"none"}]
        /\ \A m \in Locations : o[m] # "none" => owned[m] # "none"
    BY <1>2 DEF ClientType
  <2> QED
    BY <1>2, <1>4, <2>1 DEF ClientType, OwnedOK
<1> QED
  BY <1>1, <1>3, <1>4, <1>5, CallPreserves

(* Closing flushes everything, the superblock included.                    *)
LEMMA ClosePreserves == ASSUME IInv, Close PROVE IInv'
<1> DEFINE g == FlushFs(fs)
           u == Unpin(g, fs.superslot)
<1>1. Running /\ Held = {} /\ fs' = CloseFs(fs) /\ owned' = owned /\ hold' = hold
  BY DEF Close
<1>2. /\ Sound(fs) /\ fs.superslot \in Slots /\ fs \in FsType
      /\ OwnedOK(fs, owned) /\ ClientType(owned, hold)
  BY <1>1, RunningSound
<1>3. Flushed(fs, g) /\ g.savedsuper = fs.super
  BY <1>2, FlushFsSound
<1> HIDE DEF g
<1>4. Sound(g) /\ KeepsSuper(fs, g) /\ g.savedsuper = fs.super
  BY <1>3 DEF Flushed
<1>5. /\ u \in FsType /\ Coherent(u) /\ KeepsSuper(g, u)
      /\ u.savedsuper = fs.super
  BY <1>2, <1>4, UnpinSound
<1> HIDE DEF u
<1>6. fs' = [u EXCEPT !.open = FALSE, !.fault = @ \/ u.total_pins # 0]
  BY <1>1 DEF CloseFs, g, u
<1>7. /\ fs' \in FsType /\ fs'.open = FALSE
      /\ fs'.loc = u.loc /\ fs'.cached = u.cached
      /\ fs'.buf = u.buf /\ fs'.dirty = u.dirty
      /\ fs'.clone = u.clone /\ fs'.hashed = u.hashed
      /\ fs'.file = u.file /\ fs'.filesize = u.filesize
      /\ fs'.num_blocks = u.num_blocks /\ fs'.superslot = u.superslot
      /\ fs'.super = u.super /\ fs'.savedsuper = u.savedsuper
  BY <1>5, <1>6 DEF FsType
<1>8. Coherent(fs')
  BY <1>5, <1>7 DEF Coherent
<1>9. /\ fs'.num_blocks = fs.num_blocks /\ fs'.superslot = fs.superslot
      /\ fs'.super = fs.super /\ fs'.savedsuper = fs'.super
  BY <1>4, <1>5, <1>7 DEF KeepsSuper
<1>10. \A s \in Slots : hold[s] = {}
  BY <1>1 DEF Held
<1>11. OwnedOK(fs', owned) /\ HoldOK(fs', hold) /\ ClosedOK(fs', hold)
  BY <1>2, <1>9, <1>10 DEF OwnedOK, HoldOK, ClosedOK
<1>12. ~Running'
  BY <1>7 DEF Running
<1>13. fs'.num_blocks >= 1 /\ fs'.superslot \in Slots
  BY <1>2, <1>9 DEF Sound
<1> QED
  BY <1>1, <1>2, <1>7, <1>8, <1>11, <1>12, <1>13 DEF IInv

-----------------------------------------------------------------------------
(* Opening and creating a file system.                                     *)

(* A process that starts has every slot empty.                             *)
Blank(f) ==
  /\ f \in FsType /\ f.cached = {} /\ f.dirty = {}
  /\ f.clone = {} /\ f.hashed = {}

LEMMA EmptySlotReusable ==
  ASSUME NEW f \in FsType, NEW x \in Slots, x \notin f.cached,
         NEW r, r = FindFreeSlot(f)
  PROVE  /\ r.slot \in Reusable(f) /\ r.slot \in Slots
         /\ r.fs = Emptied(f, r.slot)
<1>1. Reusable(f) # {}
  BY DEF Reusable
<1> QED
  BY <1>1, FindFreeSlotEffect

LEMMA SomeSlots ==
  /\ Slots # {}
  /\ \A a, b : \E c \in Slots : c # a /\ c # b
<1>1. IsFiniteSet(Slots) /\ Cardinality(Slots) >= 4
  BY SlotsAssumption
<1>2. ASSUME NEW a, NEW b, Slots \subseteq {a, b}
      PROVE  FALSE
  <2>1. IsFiniteSet({a}) /\ Cardinality({a}) = 1
    BY FS_Singleton
  <2>2. IsFiniteSet({a} \cup {b}) /\ Cardinality({a} \cup {b}) <= 2
    BY <2>1, FS_AddElement
  <2>3. Slots \in SUBSET ({a} \cup {b})
    BY <1>2
  <2>4. Cardinality(Slots) <= Cardinality({a} \cup {b})
    BY <2>2, <2>3, FS_Subset
  <2>5. Cardinality(Slots) \in Nat /\ Cardinality({a} \cup {b}) \in Nat
    BY <1>1, <2>2, FS_CardinalityType
  <2> QED
    BY <1>1, <2>2, <2>4, <2>5
<1> QED
  BY <1>2

(* A block that is not pinned can be, since MAX_PINS is not 0.             *)
LEMMA FirstPin ==
  ASSUME NEW f \in FsType, NEW s, f.pins[s] = 0, NEW g, g = Pin(f, s)
  PROVE  g.fault = f.fault
<1>1. f.fault \in BOOLEAN /\ ~(f.pins[s] >= MAX_PINS)
  BY FieldTypes, BoundsAssumption
<1>2. g.fault = (f.fault \/ f.pins[s] >= MAX_PINS)
  BY DEF Pin, FsType
<1> QED
  BY <1>1, <1>2

(* Only the superblock is in the cache, and it is pinned once.             *)
Reopened(f, g) ==
  /\ g.hashed = {g.superslot} /\ g.cached = {g.superslot}
  /\ g.file = f.file /\ g.fault = f.fault /\ g.total_pins = 1
  /\ g.pins = [t \in Slots |-> IF t = g.superslot THEN 1 ELSE 0]

LEMMA OpenFsSound ==
  ASSUME NEW f \in FsType, Coherent(f), f.num_blocks >= 1,
         f.savedsuper = f.super, NEW g, g = OpenFs(f)
  PROVE  /\ Sound(g) /\ g.superslot \in Slots /\ g.open
         /\ g.num_blocks = f.num_blocks /\ g.super = f.super
         /\ Reopened(f, g)
<1> DEFINE b == BlankCache(f)
           q == FindFreeSlot(b)
           s == q.slot
           r == GetBlock(b, 0)
<1>1. 0 \in Locations /\ ZeroContent \in Content
  BY BoundsType, ValuesAssumption DEF Locations, ZeroContent, Content
<1>2. /\ Blank(b) /\ b.file = f.file /\ b.filesize = f.filesize
      /\ b.savedsuper = f.super /\ b.pins = [t \in Slots |-> 0]
      /\ b.fault = f.fault
  <2>1. /\ [t \in Slots |-> 0] \in [Slots -> Locations]
        /\ [t \in Slots |-> 0] \in [Slots -> Int]
        /\ [t \in Slots |-> ZeroContent] \in [Slots -> Content]
    BY <1>1
  <2> QED
    BY <2>1, OrderAssumption DEF BlankCache, Blank, FsType
<1> HIDE DEF b
<1>3. s \in Slots /\ q.fs = Emptied(b, s) /\ s # NULL
  BY <1>2, SomeSlots, EmptySlotReusable, SlotsAssumption DEF Blank
<1>4. Hits(b, 0) = {}
  BY <1>2 DEF Hits, Blank
<1>5. q.fs.filesize = f.filesize /\ ~ (0 >= f.filesize)
  BY <1>2, <1>3, FieldTypes DEF Emptied, Blank, FsType, Coherent
<1> HIDE DEF q
<1>6. ReadBlock(b, 0) = [slot |-> s, fs |-> Loaded(b, s, 0)]
  BY <1>3, <1>5 DEF ReadBlock, Loaded, q
<1> DEFINE k == Loaded(b, s, 0)
<1>7. r.slot = s /\ r.fs = MoveToFront(k, s)
  BY <1>3, <1>4, <1>6 DEF GetBlock
<1>8. /\ k \in FsType
      /\ k.loc = [b.loc EXCEPT ![s] = 0]
      /\ k.pins = [b.pins EXCEPT ![s] = 0]
      /\ k.cached = {s} /\ k.dirty = {} /\ k.clone = {} /\ k.hashed = {s}
      /\ k.file = f.file /\ k.filesize = f.filesize /\ k.savedsuper = f.super
      /\ k.fault = f.fault
  <2>1. b \in FsType
    BY <1>2 DEF Blank
  <2>2. /\ k.loc = [b.loc EXCEPT ![s] = 0]
        /\ k.buf = [b.buf EXCEPT ![s] = b.file[0]]
        /\ k.pins = [b.pins EXCEPT ![s] = 0]
        /\ k.cached = {s} /\ k.dirty = {} /\ k.clone = {} /\ k.hashed = {s}
        /\ k.file = f.file /\ k.filesize = f.filesize /\ k.savedsuper = f.super
        /\ k.fault = f.fault
    BY <1>2, <1>3, <2>1 DEF Loaded, Emptied, Blank, FsType
  <2>3. /\ k.loc \in [Slots -> Locations] /\ k.buf \in [Slots -> Content]
        /\ k.pins \in [Slots -> Int]
    BY <1>1, <1>3, <2>1, <2>2, FieldTypes
  <2>4. {s} \in SUBSET Slots /\ {} \in SUBSET Slots
    BY <1>3
  <2>5. k = [b EXCEPT !.loc = k.loc, !.buf = k.buf, !.pins = k.pins,
                      !.cached = {s}, !.dirty = {}, !.clone = {}, !.hashed = {s}]
    <3> DEFINE e == Emptied(b, s)
    <3>1. e = [b EXCEPT !.cached = {s}, !.dirty = {}, !.clone = {},
                        !.hashed = {}, !.pins = k.pins]
      BY <1>2, <2>2 DEF Emptied, Blank
    <3>2. e.buf = b.buf /\ e.loc = b.loc /\ e.hashed = {} /\ e.file = b.file
      BY <2>1, <3>1 DEF FsType
    <3>3. k = [e EXCEPT !.buf = k.buf, !.loc = k.loc, !.hashed = {s}]
      BY <1>2, <2>2, <3>2 DEF Loaded
    <3> HIDE DEF e, k
    <3> QED
      BY <2>1, <3>1, <3>3 DEF FsType
  <2> HIDE DEF k
  <2>6. k \in FsType
    BY <2>1, <2>3, <2>4, <2>5 DEF FsType
  <2> QED
    BY <2>2, <2>6
<1> HIDE DEF k
<1>9. PICK o \in Orders : r.fs = [k EXCEPT !.rank = o]
  BY <1>3, <1>7, <1>8, MoveToFrontOrder
<1> DEFINE m == [r.fs EXCEPT !.superslot = s, !.super = f.savedsuper,
                             !.num_blocks = r.fs.filesize, !.total_pins = 0,
                             !.open = TRUE]
<1>10. /\ m \in FsType /\ m.loc = k.loc /\ m.pins = k.pins
       /\ m.cached = {s} /\ m.dirty = {} /\ m.clone = {} /\ m.hashed = {s}
       /\ m.filesize = f.filesize /\ m.num_blocks = f.num_blocks
       /\ m.superslot = s /\ m.super = f.super /\ m.open
       /\ m.file = f.file /\ m.fault = f.fault /\ m.total_pins = 0
  <2>1. r.fs \in FsType /\ r.fs.filesize = f.filesize
    BY <1>8, <1>9 DEF FsType
  <2>2. /\ f.savedsuper \in Super /\ f.filesize = f.num_blocks
        /\ s \in Slots \cup {NULL} /\ f.super \in Super
    BY <1>3, FieldTypes DEF Coherent
  <2> DEFINE e == r.fs
  <2>3. /\ e \in FsType /\ e.filesize \in 0 .. MaxBlocks
        /\ m = [e EXCEPT !.superslot = s, !.super = f.savedsuper,
                         !.num_blocks = e.filesize, !.total_pins = 0,
                         !.open = TRUE]
    BY <2>1, FieldTypes
  <2>4. /\ e.loc = k.loc /\ e.pins = k.pins /\ e.cached = k.cached
        /\ e.dirty = k.dirty /\ e.clone = k.clone /\ e.hashed = k.hashed
        /\ e.file = k.file /\ e.fault = k.fault
    BY <1>8, <1>9 DEF FsType
  <2> HIDE DEF e, m, r, s
  <2>5. m \in FsType
    <3> DEFINE h == [e EXCEPT !.superslot = s, !.super = f.savedsuper]
    <3>1. h \in FsType
      BY <2>2, <2>3 DEF FsType
    <3>2. m = [h EXCEPT !.num_blocks = e.filesize, !.total_pins = 0, !.open = TRUE]
      BY <2>3
    <3> DEFINE j == [h EXCEPT !.num_blocks = e.filesize]
    <3> HIDE DEF h
    <3>3. j \in FsType
      BY <2>3, <3>1 DEF FsType
    <3>4. m = [j EXCEPT !.total_pins = 0, !.open = TRUE]
      BY <3>2
    <3>5. 0 \in Int /\ TRUE \in BOOLEAN
      OBVIOUS
    <3> HIDE DEF j
    <3> QED
      BY <3>3, <3>4, <3>5 DEF FsType
  <2>6. /\ m.loc = e.loc /\ m.pins = e.pins /\ m.cached = e.cached
        /\ m.dirty = e.dirty /\ m.clone = e.clone /\ m.hashed = e.hashed
        /\ m.filesize = e.filesize /\ m.num_blocks = e.filesize
        /\ m.superslot = s /\ m.super = f.savedsuper /\ m.open
        /\ m.file = e.file /\ m.fault = e.fault /\ m.total_pins = 0
    BY <2>3 DEF FsType
  <2>7. e.filesize = f.filesize
    BY <2>1 DEF e
  <2> QED
    BY <1>2, <1>8, <2>2, <2>4, <2>5, <2>6, <2>7
<1>11. g = Pin(m, s)
  BY <1>7 DEF OpenFs, b
<1> HIDE DEF m
<1>12. Core(m)
  BY <1>2, <1>3, <1>8, <1>10, FieldTypes DEF Core, Coherent, Blank
<1>13. m.pins[s] = 0
  BY <1>2, <1>3, <1>8, <1>10
<1>14. /\ Core(g) /\ g.pins[s] = 1 /\ g.superslot = s /\ g.open
       /\ g.num_blocks = f.num_blocks /\ g.super = f.super
       /\ g.pins = [m.pins EXCEPT ![s] = 1] /\ g.total_pins = 1
       /\ g.hashed = {s} /\ g.cached = {s} /\ g.file = f.file /\ g.fault = f.fault
  <2>1. /\ g.pins = [m.pins EXCEPT ![s] = 1] /\ g.total_pins = m.total_pins + 1
        /\ g = [m EXCEPT !.pins = g.pins, !.total_pins = g.total_pins]
    <3>1. g.fault = m.fault
      BY <1>10, <1>11, <1>13, FirstPin
    <3>2. g = [m EXCEPT !.pins = g.pins, !.total_pins = g.total_pins,
                        !.fault = g.fault]
      BY <1>10, <1>11 DEF Pin, FsType
    <3>3. g.pins = [m.pins EXCEPT ![s] = 1] /\ g.total_pins = m.total_pins + 1
      BY <1>10, <1>11, <1>13 DEF Pin, FsType
    <3>4. g = [m EXCEPT !.pins = g.pins, !.total_pins = g.total_pins]
      <4>1. m \in FsType
        BY <1>10
      <4> HIDE DEF s
      <4> QED
        BY ONLY <4>1, <3>1, <3>2 DEF FsType
    <3> QED
      BY <3>3, <3>4
  <2>2. g.pins \in [Slots -> Int] /\ g.total_pins \in Int /\ g.pins[s] = 1
    BY <1>3, <1>10, <2>1, FieldTypes
  <2>3. /\ g.loc = m.loc /\ g.cached = m.cached
        /\ g.buf = m.buf /\ g.dirty = m.dirty
        /\ g.clone = m.clone /\ g.hashed = m.hashed
        /\ g.file = m.file /\ g.filesize = m.filesize
        /\ g.num_blocks = m.num_blocks /\ g.superslot = m.superslot
        /\ g.super = m.super /\ g.open = m.open /\ g.fault = m.fault
    BY <1>10, <2>1 DEF FsType
  <2>4. g \in FsType
    BY <1>10, <2>1, <2>2 DEF FsType
  <2>5. Core(g)
    BY <1>10, <1>12, <2>2, <2>3, <2>4 DEF Core, Coherent
  <2>6. g.total_pins = 1
    BY <1>10, <2>1
  <2> QED
    BY <1>10, <2>1, <2>2, <2>3, <2>5, <2>6
<1>15. g.pins = [t \in Slots |-> IF t = s THEN 1 ELSE 0]
  <2>1. k.pins = [[t \in Slots |-> 0] EXCEPT ![s] = 0]
    BY <1>2, <1>8
  <2>2. g.pins = [[[t \in Slots |-> 0] EXCEPT ![s] = 0] EXCEPT ![s] = 1]
    BY <1>10, <1>14, <2>1
  <2> QED
    BY <2>2
<1>16. Reopened(f, g)
  BY <1>14, <1>15 DEF Reopened
<1>17. Sound(g)
  <2>1. g.pins[s] = 1 /\ g.superslot = s
    BY <1>14
  <2>2. Core(g) /\ g.pins[g.superslot] >= 1
    BY <1>14, <2>1
  <2> QED
    BY <2>2, SoundIsPinnedCore
<1> QED
  BY <1>3, <1>14, <1>16, <1>17

LEMMA OpenPreserves == ASSUME IInv, Open PROVE IInv'
<1>1. ~fs.open /\ ~fs.fault /\ fs' = OpenFs(fs)
      /\ owned' = owned /\ hold' = hold
  BY DEF Open
<1>2. /\ fs \in FsType /\ Coherent(fs) /\ fs.num_blocks >= 1
      /\ OwnedOK(fs, owned) /\ ClosedOK(fs, hold) /\ ClientType(owned, hold)
  BY <1>1 DEF IInv
<1>3. /\ Sound(fs') /\ fs'.superslot \in Slots /\ fs'.open
      /\ fs'.num_blocks = fs.num_blocks /\ fs'.super = fs.super
  BY <1>1, <1>2, OpenFsSound DEF ClosedOK
<1>4. OwnedOK(fs', owned) /\ HoldOK(fs', hold)
  BY <1>2, <1>3 DEF OwnedOK, HoldOK, ClosedOK
<1> QED
  BY <1>1, <1>2, <1>3, <1>4 DEF IInv, Sound

(* Nothing has been written yet but bits.                                  *)
Pristine(f) ==
  /\ ~f.fault /\ f.file = [l \in Locations |-> ZeroContent]
  /\ \A t \in f.cached : f.buf[t].data = Zero

(* While a file system is being created every block is dirty, none is a    *)
(* clone and none is pinned.                                               *)
Fresh(f) ==
  /\ Core(f) /\ f.dirty = f.cached /\ f.hashed = f.cached /\ f.clone = {}
  /\ f.open /\ \A t \in Slots : f.pins[t] = 0
  /\ Pristine(f)

(* The counts that matter to the clients, with n blocks of the tree.       *)
Tally(f, n) ==
  /\ f.super.counts["B_TREE"] = n
  /\ f.super.counts["B_DATA"] = 0 /\ f.super.counts["B_FREE"] = 0

(* Before that there is no block at all, in the cache or in the file.      *)
Unborn(f) ==
  /\ Blank(f) /\ f.num_blocks = 0 /\ f.filesize = 0 /\ f.open
  /\ f.superslot = NULL
  /\ \A t \in Slots : f.pins[t] = 0
  /\ \A g \in Groups : f.super.bitmaps[g] = 0
  /\ Pristine(f) /\ Tally(f, 0)

LEMMA EmptyFileUnborn ==
  ASSUME NEW f, f = EmptyFile PROVE Unborn(f)
<1>1. 0 \in Locations /\ ZeroContent \in Content /\ 0 \in 0 .. MaxBlocks
  BY BoundsType, ValuesAssumption DEF Locations, ZeroContent, Content
<1>2. /\ [t \in Slots |-> 0] \in [Slots -> Locations]
      /\ [t \in Slots |-> 0] \in [Slots -> Int]
      /\ [t \in Slots |-> ZeroContent] \in [Slots -> Content]
      /\ [l \in Locations |-> ZeroContent] \in [Locations -> Content]
  BY <1>1
<1> DEFINE super == [bitmaps |-> [g \in Groups |-> 0], counts |-> [t \in Types |-> 0]]
<1>3. super \in Super
  BY <1>1 DEF Super
<1>4. f = [loc |-> [s \in Slots |-> 0], buf |-> [s \in Slots |-> ZeroContent],
           pins |-> [s \in Slots |-> 0], rank |-> FirstOrder,
           cached |-> {}, dirty |-> {}, clone |-> {}, hashed |-> {},
           file |-> [l \in Locations |-> ZeroContent], filesize |-> 0,
           num_blocks |-> 0, superslot |-> NULL, total_pins |-> 0,
           super |-> super, savedsuper |-> super,
           open |-> TRUE, fault |-> FALSE]
  BY DEF EmptyFile, BlankCache
<1>5. \A g \in Groups : super.bitmaps[g] = 0
  OBVIOUS
<1>5a. /\ super.counts["B_TREE"] = 0 /\ super.counts["B_DATA"] = 0
       /\ super.counts["B_FREE"] = 0
  BY DEF Types
<1> HIDE DEF super
<1>6. f \in FsType
  BY <1>1, <1>2, <1>3, <1>4, OrderAssumption DEF FsType
<1>7. Pristine(f) /\ Tally(f, 0)
  BY <1>4, <1>5a DEF Pristine, Tally
<1> QED
  BY <1>4, <1>5, <1>6, <1>7 DEF Unborn, Blank

(* initialise_fs tries to read a superblock and finds the file empty.      *)
LEMMA NothingToRead ==
  ASSUME NEW f, Unborn(f), NEW e, e = GetBlock(f, 0).fs
  PROVE  Unborn(e)
<1> DEFINE q == FindFreeSlot(f)
           s == q.slot
<1>1. f \in FsType /\ f.cached = {} /\ f.dirty = {} /\ f.clone = {} /\ f.hashed = {}
  BY DEF Unborn, Blank
<1>2. s \in Slots /\ q.fs = Emptied(f, s) /\ s # NULL
  BY <1>1, SomeSlots, EmptySlotReusable, SlotsAssumption
<1>3. Hits(f, 0) = {}
  BY <1>1 DEF Hits
<1>4. q.fs.filesize = 0 /\ q.fs.cached = {s}
  BY <1>1, <1>2 DEF Emptied, FsType, Unborn
<1>5. ReadBlock(f, 0) = [fs |-> [q.fs EXCEPT !.cached = q.fs.cached \ {s}], slot |-> NULL]
  BY <1>2, <1>4 DEF ReadBlock
<1>6. e = [q.fs EXCEPT !.cached = {}]
  BY <1>3, <1>4, <1>5 DEF GetBlock
<1> HIDE DEF q, s
<1> DEFINE d == Emptied(f, s)
<1>7. /\ d.pins = [f.pins EXCEPT ![s] = 0] /\ d.cached = {s}
      /\ d.dirty = {} /\ d.clone = {} /\ d.hashed = {}
      /\ d.num_blocks = 0 /\ d.filesize = 0 /\ d.open
      /\ d.superslot = NULL /\ d.super = f.super
      /\ d.file = f.file /\ d.fault = f.fault
  BY <1>1, <1>2 DEF Emptied, FsType, Unborn
<1>8. d.pins \in [Slots -> Int] /\ \A t \in Slots : d.pins[t] = 0
  BY <1>1, <1>2, <1>7, FieldTypes DEF Unborn
<1>9. d \in FsType
  <2>1. {s} \in SUBSET Slots
    BY <1>2
  <2> QED
    BY <1>1, <1>2, <1>7, <1>8, <2>1 DEF Emptied, FsType
<1>10. e = [d EXCEPT !.cached = {}]
  BY <1>2, <1>6
<1> HIDE DEF d
<1>11. /\ e \in FsType /\ e.pins = d.pins /\ e.cached = {}
       /\ e.dirty = {} /\ e.clone = {} /\ e.hashed = {}
       /\ e.num_blocks = 0 /\ e.filesize = 0 /\ e.open
       /\ e.superslot = NULL /\ e.super = f.super
       /\ e.file = f.file /\ e.fault = f.fault
  BY <1>7, <1>9, <1>10 DEF FsType
<1>12. Pristine(e) /\ Tally(e, 0)
  BY <1>11 DEF Unborn, Pristine, Tally
<1> QED
  BY <1>8, <1>11, <1>12 DEF Unborn, Blank

(* The first block of a new file is the superblock.                        *)
Founded(f, t) ==
  /\ Fresh(t.fs) /\ t.slot = t.fs.superslot /\ t.slot \in Slots
  /\ t.addr = 0 /\ t.fs.num_blocks = 1 /\ t.fs.cached = {t.fs.superslot}
  /\ \A g \in Groups : t.fs.super.bitmaps[g] = 0
  /\ t.fs.buf[t.slot] = ZeroContent /\ Tally(t.fs, 0)

LEMMA TakeSuper ==
  ASSUME NEW e, Unborn(e), NEW t, t = TakeBlock(e, "B_SUPER", 0)
  PROVE  Founded(e, t)
<1> DEFINE r == FindFreeSlot(e)
           s == r.slot
           k == r.fs
           counts == [u \in Types |-> k.super.counts[u]
                        + (IF u = "B_SUPER" THEN 1 ELSE 0)
                        - (IF 0 # 0 /\ u = "B_FREE" THEN 1 ELSE 0)]
           g == [k EXCEPT
                   !.num_blocks = k.num_blocks + 1,
                   !.hashed = k.hashed \ {s},
                   !.dirty = k.dirty \cup {s},
                   !.loc = [k.loc EXCEPT ![s] = k.num_blocks],
                   !.buf = [k.buf EXCEPT ![s] = ZeroContent],
                   !.pins = [k.pins EXCEPT ![s] = 0],
                   !.superslot = s,
                   !.super.counts = counts]
           w == FlushBlocks(g, {s})
<1>1. e \in FsType /\ e.cached = {} /\ e.dirty = {} /\ e.clone = {} /\ e.hashed = {}
  BY DEF Unborn, Blank
<1>2. s \in Slots /\ k = Emptied(e, s) /\ s # NULL
  BY <1>1, SomeSlots, EmptySlotReusable, SlotsAssumption
<1>3. t.slot = s /\ t.addr = k.num_blocks
  BY <1>2 DEF TakeBlock
<1>4. /\ k.cached = {s} /\ k.dirty = {} /\ k.clone = {} /\ k.hashed = {}
      /\ k.pins = [e.pins EXCEPT ![s] = 0] /\ k.loc = e.loc /\ k.buf = e.buf
      /\ k.num_blocks = 0 /\ k.filesize = 0 /\ k.super = e.super /\ k.open
      /\ k.file = e.file /\ k.fault = e.fault
  BY <1>1, <1>2 DEF Emptied, FsType, Unborn
<1>5. k \in FsType
  <2>1. k.pins \in [Slots -> Int] /\ {s} \in SUBSET Slots
    BY <1>1, <1>2, <1>4, FieldTypes
  <2> QED
    BY <1>1, <1>2, <1>4, <2>1 DEF Emptied, FsType
<1>5a. t.fs = SettleBlock(g, s)
  <2> DEFINE found == IF "B_SUPER" = "B_SUPER" THEN [fs |-> e, addr |-> 0]
                                               ELSE BitmapSearch(e, 0)
             reuse == found.addr # 0
             q == IF reuse THEN GetBlock(found.fs, found.addr)
                           ELSE FindFreeSlot(found.fs)
             addr == IF reuse THEN found.addr ELSE q.fs.num_blocks
             g0 == [q.fs EXCEPT
                      !.num_blocks = IF reuse THEN @ ELSE @ + 1,
                      !.hashed = q.fs.hashed \ {q.slot},
                      !.dirty = q.fs.dirty \cup {q.slot},
                      !.loc = [q.fs.loc EXCEPT ![q.slot] = addr],
                      !.buf = [q.fs.buf EXCEPT ![q.slot] = ZeroContent],
                      !.pins = [q.fs.pins EXCEPT ![q.slot] = 0],
                      !.superslot = IF "B_SUPER" = "B_SUPER" THEN q.slot ELSE @,
                      !.super.counts = [u \in Types |->
                         @[u] + (IF u = "B_SUPER" THEN 1 ELSE 0)
                              - (IF reuse /\ u = "B_FREE" THEN 1 ELSE 0)]]
  <2>1. found.fs = e /\ found.addr = 0
    OBVIOUS
  <2>2. ~reuse
    BY <2>1
  <2>3. q = r
    BY <2>1, <2>2
  <2>4. t.fs = SettleBlock(g0, q.slot)
    BY <1>2, <2>3 DEF TakeBlock
  <2> HIDE DEF r, q, reuse, found
  <2>5. g0 = g
    BY <1>5, <2>2, <2>3 DEF FsType, Super
  <2> QED
    BY <2>3, <2>4, <2>5
<1> HIDE DEF r
<1> HIDE DEF k, s
<1>6. 0 \in Locations /\ ZeroContent \in Content /\ 1 \in 0 .. MaxBlocks
  BY BoundsType, ValuesAssumption DEF Locations, ZeroContent, Content
<1>7. counts \in [Types -> Int]
  BY <1>5, FieldTypes
<1>7a. counts["B_TREE"] = 0 /\ counts["B_DATA"] = 0 /\ counts["B_FREE"] = 0
  <2>1. /\ k.super.counts["B_TREE"] = 0 /\ k.super.counts["B_DATA"] = 0
        /\ k.super.counts["B_FREE"] = 0
    BY <1>4 DEF Unborn, Tally
  <2> HIDE DEF k
  <2> QED
    BY <2>1 DEF Types
<1> HIDE DEF counts
<1>8. /\ g = [k EXCEPT !.num_blocks = 1, !.hashed = {}, !.dirty = {s},
                       !.loc = g.loc, !.buf = g.buf, !.pins = g.pins,
                       !.superslot = s, !.super = g.super]
      /\ g.loc = [k.loc EXCEPT ![s] = 0]
      /\ g.buf = [k.buf EXCEPT ![s] = ZeroContent]
      /\ g.pins = [k.pins EXCEPT ![s] = 0]
      /\ g.super = [k.super EXCEPT !.counts = counts]
  BY <1>4, <1>5 DEF FsType
<1>9. /\ g.loc \in [Slots -> Locations] /\ g.loc[s] = 0
      /\ g.buf \in [Slots -> Content]
      /\ g.pins \in [Slots -> Int] /\ \A u \in Slots : g.pins[u] = 0
      /\ g.super \in Super /\ \A b \in Groups : g.super.bitmaps[b] = 0
      /\ g.super.counts = counts /\ g.buf[s] = ZeroContent
  <2>1. e.pins \in [Slots -> Int] /\ \A u \in Slots : e.pins[u] = 0
    BY <1>1, FieldTypes DEF Unborn
  <2>2. g.super \in Super /\ g.super.bitmaps = k.super.bitmaps
        /\ g.super.counts = counts
    BY <1>5, <1>7, <1>8, FieldTypes DEF Super
  <2> HIDE DEF g
  <2> QED
    BY <1>2, <1>4, <1>5, <1>6, <1>8, <2>1, <2>2, FieldTypes DEF Unborn
<1> HIDE DEF g
<1>10. /\ g.num_blocks = 1 /\ g.hashed = {} /\ g.dirty = {s} /\ g.cached = {s}
       /\ g.clone = {} /\ g.superslot = s /\ g.filesize = 0 /\ g.open
       /\ g.file = e.file /\ g.fault = e.fault
  <2>1. /\ g.num_blocks = 1 /\ g.hashed = {} /\ g.dirty = {s} /\ g.superslot = s
    BY <1>5, <1>8 DEF FsType
  <2>2. /\ g.cached = k.cached /\ g.clone = k.clone
        /\ g.filesize = k.filesize /\ g.open = k.open
        /\ g.file = k.file /\ g.fault = k.fault
    BY <1>5, <1>8, ZenonT(60) DEF FsType
  <2> QED
    BY <1>4, <2>1, <2>2
<1>11. g \in FsType
  <2> DEFINE h == [k EXCEPT !.num_blocks = 1, !.hashed = {}, !.dirty = {s},
                            !.loc = g.loc]
  <2>1. h \in FsType
    BY <1>2, <1>5, <1>6, <1>9 DEF FsType
  <2>2. g = [h EXCEPT !.buf = g.buf, !.pins = g.pins,
                      !.superslot = s, !.super = g.super]
    BY <1>8
  <2> HIDE DEF h
  <2> QED
    BY <1>2, <1>9, <2>1, <2>2 DEF FsType
<1>12. Written(g, {s}, w)
  <2>1. {s} = {s} \cap g.cached \cap g.dirty /\ {s} \in SUBSET Slots
    BY <1>2, <1>10
  <2> QED
    BY <1>11, <2>1, FlushBlocksWrites
<1> HIDE DEF w
<1>13. /\ w = [g EXCEPT !.file = w.file, !.filesize = 1,
                        !.savedsuper = g.super, !.dirty = {}]
       /\ w.file \in [Locations -> Content] /\ w.filesize = 1
  <2>1. w.filesize \in {g.loc[u] + 1 : u \in {s}} \cup {g.filesize}
        /\ w.filesize >= g.loc[s] + 1
    BY <1>12 DEF Written
  <2>2. w.filesize = 1
    BY <1>9, <1>10, <2>1
  <2> QED
    BY <1>10, <1>12, <2>2 DEF Written
<1>13a. w.file = e.file
  <2>1. \A l \in Locations : w.file[l] = g.file[l]
    BY <1>10, <1>12 DEF Written
  <2>2. w.file \in [Locations -> Content] /\ g.file \in [Locations -> Content]
    BY <1>11, <1>13, FieldTypes
  <2>3. w.file = g.file
    BY <2>1, <2>2
  <2> QED
    BY <1>10, <2>3
<1> DEFINE h == t.fs
<1>14. /\ w \in FsType /\ w.loc = g.loc /\ w.pins = g.pins /\ w.cached = {s}
       /\ w.dirty = {} /\ w.clone = {} /\ w.hashed = {} /\ w.num_blocks = 1
       /\ w.superslot = s /\ w.super = g.super /\ w.open
       /\ w.buf = g.buf /\ w.fault = g.fault
  <2>1. {} \in SUBSET Slots
    OBVIOUS
  <2>2. w \in FsType
    BY <1>6, <1>9, <1>11, <1>13, <2>1 DEF FsType
  <2>3. /\ w.loc = g.loc /\ w.pins = g.pins /\ w.cached = g.cached
        /\ w.dirty = {} /\ w.clone = g.clone /\ w.hashed = g.hashed
        /\ w.num_blocks = g.num_blocks
        /\ w.superslot = g.superslot /\ w.super = g.super /\ w.open = g.open
        /\ w.buf = g.buf /\ w.fault = g.fault
    BY <1>11, <1>13 DEF FsType
  <2> QED
    BY <1>10, <2>2, <2>3
<1>15. h = [w EXCEPT !.dirty = {s}, !.hashed = {s}]
  <2>1. h = [w EXCEPT !.dirty = w.dirty \cup {s}, !.hashed = w.hashed \cup {s}]
    BY <1>5a DEF SettleBlock, w
  <2>2. w.dirty \cup {s} = {s} /\ w.hashed \cup {s} = {s}
    BY <1>14
  <2> HIDE DEF h
  <2> QED
    BY <2>1, <2>2
<1> HIDE DEF h
<1>16. /\ h \in FsType
       /\ h.loc = g.loc /\ h.pins = g.pins /\ h.cached = {s} /\ h.dirty = {s}
       /\ h.clone = {} /\ h.hashed = {s} /\ h.filesize = 1 /\ h.num_blocks = 1
       /\ h.superslot = s /\ h.super = g.super /\ h.open
       /\ h.buf = g.buf /\ h.fault = g.fault /\ h.file = w.file
  <2>1. {s} \in SUBSET Slots
    BY <1>2
  <2> QED
    BY <1>13, <1>14, <1>15, <2>1 DEF FsType
<1>17. Core(h)
  BY <1>9, <1>16 DEF Core, Coherent
<1>17a. Pristine(h)
  BY <1>9, <1>10, <1>13a, <1>16 DEF Unborn, Pristine, ZeroContent
<1>17b. Tally(h, 0)
  BY <1>7a, <1>9, <1>16 DEF Tally
<1>18. Fresh(h)
  BY <1>9, <1>16, <1>17, <1>17a DEF Fresh
<1> QED
  BY <1>2, <1>3, <1>4, <1>9, <1>16, <1>17b, <1>18 DEF Founded, h

(* Reading a block that is in the cache, or changing a bit of it, leaves    *)
(* the file system as fresh as it was.                                     *)
Alike(f, g) ==
  /\ g.loc = f.loc /\ g.cached = f.cached /\ g.num_blocks = f.num_blocks
  /\ g.super = f.super /\ g.superslot = f.superslot

LEMMA FreshGet ==
  ASSUME NEW f, Fresh(f), NEW s \in f.cached, NEW l, l = f.loc[s],
         NEW r, r = GetBlock(f, l)
  PROVE  /\ r.slot = s /\ Fresh(r.fs) /\ Alike(f, r.fs) /\ r.fs.buf = f.buf
<1>1. /\ f \in FsType /\ Coherent(f) /\ s \in Slots /\ s # NULL
      /\ f.hashed = f.cached /\ f.clone = {}
  BY FieldTypes, SlotsAssumption DEF Fresh, Core
<1>2. Hits(f, l) = {s}
  BY <1>1 DEF Hits, Coherent
<1>3. r = [fs |-> MoveToFront(f, s), slot |-> s]
  BY <1>1, <1>2 DEF GetBlock
<1>4. PICK o \in Orders : r.fs = [f EXCEPT !.rank = o]
  BY <1>1, <1>3, MoveToFrontOrder
<1>5. r.fs \in FsType /\ Coherent(r.fs)
  BY <1>1, <1>4, ReorderSound
<1>6. /\ r.fs.loc = f.loc /\ r.fs.buf = f.buf /\ r.fs.pins = f.pins
      /\ r.fs.cached = f.cached /\ r.fs.dirty = f.dirty
      /\ r.fs.clone = f.clone /\ r.fs.hashed = f.hashed
      /\ r.fs.num_blocks = f.num_blocks /\ r.fs.superslot = f.superslot
      /\ r.fs.super = f.super /\ r.fs.open = f.open
      /\ r.fs.file = f.file /\ r.fs.fault = f.fault
  BY <1>1, <1>4 DEF FsType
<1>7. r.slot = s
  BY <1>3
<1>8. Pristine(r.fs)
  BY <1>6 DEF Fresh, Pristine
<1> QED
  BY <1>5, <1>6, <1>7, <1>8 DEF Fresh, Core, Alike

BitGained(f, s, l, g) ==
  /\ Fresh(g) /\ Alike(f, g)
  /\ g.buf[s].bits = f.buf[s].bits \cup {Offset(l)}

LEMMA FreshToggle ==
  ASSUME NEW f, Fresh(f), NEW s \in f.cached, NEW l \in Locations,
         Offset(l) \notin f.buf[s].bits,
         NEW g, g = ToggleBit(f, s, l, TRUE)
  PROVE  BitGained(f, s, l, g)
<1>1. Core(f) /\ s \in f.hashed
  BY DEF Fresh
<1>2. Core(g) /\ Toggled(f, s, l, TRUE, g)
  BY <1>1, ToggleBitCore
<1>3. f \in FsType /\ s \in Slots /\ f.buf \in [Slots -> Content]
  BY <1>1, FieldTypes DEF Core
<1>4. /\ g.file = f.file
      /\ g.fault = (f.fault \/ (Offset(l) \in f.buf[s].bits) = TRUE)
  BY <1>3 DEF ToggleBit, FsType
<1>5. \A t \in Slots : g.buf[t].data = f.buf[t].data
  <2>1. g.buf = [f.buf EXCEPT ![s] =
                   [f.buf[s] EXCEPT !.bits = f.buf[s].bits \cup {Offset(l)}]]
    BY <1>3 DEF ToggleBit, FsType
  <2>2. f.buf[s] \in Content
    BY <1>3
  <2>3. [f.buf[s] EXCEPT !.bits = f.buf[s].bits \cup {Offset(l)}].data = f.buf[s].data
    BY <2>2 DEF Content
  <2> QED
    BY <1>3, <2>1, <2>3
<1>6. Pristine(g)
  <2>1. ~g.fault /\ g.file = [m \in Locations |-> ZeroContent]
    BY <1>4 DEF Fresh, Pristine
  <2>2. g.cached = f.cached /\ f.cached \subseteq Slots
    BY <1>2, <1>3, FieldTypes DEF Toggled
  <2>3. \A t \in g.cached : g.buf[t].data = Zero
    BY <1>5, <2>2 DEF Fresh, Pristine
  <2> QED
    BY <2>1, <2>3 DEF Pristine
<1> QED
  BY <1>2, <1>6 DEF Toggled, Fresh, KeepsSuper, Alike, BitGained

(* Taking a block at the end of the file: the slot was empty, since all    *)
(* the others are dirty.                                                   *)
Added(f, type, t) ==
  /\ Fresh(t.fs) /\ t.slot \in Slots \ f.cached /\ t.slot # NULL
  /\ t.addr = f.num_blocks
  /\ t.fs.cached = f.cached \cup {t.slot}
  /\ t.fs.loc = [f.loc EXCEPT ![t.slot] = t.addr]
  /\ t.fs.buf = [f.buf EXCEPT ![t.slot] = ZeroContent]
  /\ t.fs.num_blocks = f.num_blocks + 1
  /\ t.fs.super.bitmaps = f.super.bitmaps /\ t.fs.superslot = f.superslot
  /\ t.fs.super.counts =
       [u \in Types |-> f.super.counts[u] + (IF u = type THEN 1 ELSE 0)]

LEMMA FreshTake ==
  ASSUME NEW f, Fresh(f), NEW x \in Slots, x \notin f.cached,
         f.num_blocks < MaxBlocks,
         NEW type \in {"B_TREE", "B_BITMAP"},
         NEW found, found = BitmapSearch(f, 0), found.addr = 0,
         Fresh(found.fs), Alike(f, found.fs), found.fs.buf = f.buf,
         NEW t, t = TakeBlock(f, type, 0)
  PROVE  Added(f, type, t)
<1> DEFINE e == found.fs
           r == FindFreeSlot(e)
           s == r.slot
           k == r.fs
           addr == k.num_blocks
           counts == [u \in Types |->
              k.super.counts[u] + (IF u = type THEN 1 ELSE 0)
                - (IF 0 # 0 /\ u = "B_FREE" THEN 1 ELSE 0)]
<1>1. /\ e \in FsType /\ e.cached = f.cached /\ e.dirty = e.cached
      /\ e.hashed = e.cached /\ e.clone = {} /\ Coherent(e) /\ e.num_blocks >= 1
      /\ e.superslot \in e.hashed /\ e.loc[e.superslot] = 0 /\ e.open
      /\ \A u \in Slots : e.pins[u] = 0
  BY DEF Fresh, Core, Alike
<1>2. /\ s \in Reusable(e) /\ s \in Slots /\ k = Emptied(e, s)
      /\ s # NULL /\ s \notin e.cached
  <2>1. /\ s \in Reusable(e) /\ s \in Slots /\ k = Emptied(e, s)
    BY <1>1, EmptySlotReusable
  <2> QED
    BY <1>1, <2>1, SlotsAssumption DEF Reusable
<1>3. t.slot = s /\ t.addr = addr
  BY <1>2 DEF TakeBlock
<1> HIDE DEF r
<1>4. /\ k.cached = f.cached \cup {s} /\ k.dirty = f.cached /\ k.clone = {}
      /\ k.hashed = f.cached /\ k.pins = [e.pins EXCEPT ![s] = 0]
      /\ k.loc = e.loc /\ k.buf = e.buf /\ k.file = e.file
      /\ k.filesize = e.filesize /\ k.num_blocks = e.num_blocks
      /\ k.superslot = e.superslot /\ k.super = e.super /\ k.open = e.open
      /\ k.fault = e.fault
  BY <1>1, <1>2 DEF Emptied, FsType
<1>5. k \in FsType /\ \A u \in Slots : k.pins[u] = 0
  <2>1. /\ k.pins \in [Slots -> Int] /\ k.cached \in SUBSET Slots
        /\ k.dirty \in SUBSET Slots /\ k.hashed \in SUBSET Slots
        /\ k.clone \in SUBSET Slots
        /\ \A u \in Slots : k.pins[u] = 0
    BY <1>1, <1>2, <1>4, FieldTypes
  <2> QED
    BY <1>1, <1>2, <1>4, <2>1, ZenonT(60) DEF Emptied, FsType
<1>6. t.fs = SettleBlock(Given(k, s, addr, counts), s)
  <2> DEFINE reuse == found.addr # 0
             q == IF reuse THEN GetBlock(found.fs, found.addr)
                           ELSE FindFreeSlot(found.fs)
             at == IF reuse THEN found.addr ELSE q.fs.num_blocks
             g == [q.fs EXCEPT
                     !.num_blocks = IF reuse THEN @ ELSE @ + 1,
                     !.hashed = q.fs.hashed \ {q.slot},
                     !.dirty = q.fs.dirty \cup {q.slot},
                     !.loc = [q.fs.loc EXCEPT ![q.slot] = at],
                     !.buf = [q.fs.buf EXCEPT ![q.slot] = ZeroContent],
                     !.pins = [q.fs.pins EXCEPT ![q.slot] = 0],
                     !.superslot = IF type = "B_SUPER" THEN q.slot ELSE @,
                     !.super.counts = [u \in Types |->
                        @[u] + (IF u = type THEN 1 ELSE 0)
                             - (IF reuse /\ u = "B_FREE" THEN 1 ELSE 0)]]
  <2>1. ~reuse /\ q = r
    BY DEF r
  <2>2. t.fs = SettleBlock(g, q.slot)
    BY <1>2, <2>1 DEF TakeBlock
  <2>4. q.fs = k /\ q.slot = s /\ at = addr /\ addr = k.num_blocks
    BY <2>1
  <2> HIDE DEF q, reuse, at, addr, s, k
  <2> DEFINE h == [k EXCEPT
                     !.num_blocks = addr + 1,
                     !.hashed = k.hashed \ {s},
                     !.dirty = k.dirty \cup {s},
                     !.loc = [k.loc EXCEPT ![s] = addr],
                     !.buf = [k.buf EXCEPT ![s] = ZeroContent],
                     !.pins = [k.pins EXCEPT ![s] = 0],
                     !.super.counts = counts]
  <2>5. h = Given(k, s, addr, counts)
    BY <1>5, <2>4 DEF Given, FsType, Super
  <2>6. g = h
    <3>1. type # "B_SUPER"
      OBVIOUS
    <3>2. g = [k EXCEPT
                     !.num_blocks = addr + 1,
                     !.hashed = k.hashed \ {s},
                     !.dirty = k.dirty \cup {s},
                     !.loc = [k.loc EXCEPT ![s] = addr],
                     !.buf = [k.buf EXCEPT ![s] = ZeroContent],
                     !.pins = [k.pins EXCEPT ![s] = 0],
                     !.superslot = k.superslot,
                     !.super.counts = [u \in Types |->
                        k.super.counts[u] + (IF u = type THEN 1 ELSE 0)
                             - (IF reuse /\ u = "B_FREE" THEN 1 ELSE 0)]]
      BY <2>1, <2>4, <3>1
    <3>3. [u \in Types |->
             k.super.counts[u] + (IF u = type THEN 1 ELSE 0)
               - (IF reuse /\ u = "B_FREE" THEN 1 ELSE 0)] = counts
      BY <2>1
    <3> HIDE DEF counts, g
    <3> QED
      BY <1>5, <3>2, <3>3 DEF FsType, Super
  <2> QED
    BY <2>2, <2>4, <2>5, <2>6
<1>7. counts \in [Types -> Int]
  BY <1>5, FieldTypes
<1>7a. counts = [u \in Types |-> f.super.counts[u] + (IF u = type THEN 1 ELSE 0)]
  <2>1. k.super = f.super
    BY <1>4 DEF Alike
  <2>2. f.super.counts \in [Types -> Int]
    BY FieldTypes DEF Fresh, Core
  <2>3. \A u \in Types : f.super.counts[u] + (IF u = type THEN 1 ELSE 0) - 0
                          = f.super.counts[u] + (IF u = type THEN 1 ELSE 0)
    BY <2>2
  <2> HIDE DEF k
  <2> QED
    BY <2>1, <2>3
<1> HIDE DEF counts, k, s, addr
<1>8. CoreBut(k, s, addr) /\ addr = f.num_blocks
  <2>1. addr = k.num_blocks /\ k.num_blocks = f.num_blocks
    BY <1>4 DEF addr, Alike
  <2>2. addr \in Locations /\ addr # 0 /\ addr <= k.num_blocks
    BY <1>1, <1>4, <2>1, FieldTypes, BoundsType DEF Locations
  <2>3. \A u \in k.hashed \ {s} : k.loc[u] < k.num_blocks /\ k.loc[u] # addr
    BY <1>1, <1>4, <2>1, FieldTypes DEF Coherent, Locations
  <2> QED
    BY <1>1, <1>2, <1>4, <1>5, <2>1, <2>2, <2>3 DEF CoreBut, Coherent
<1> DEFINE h == t.fs
<1>9. Core(h) /\ GivenTo(k, s, addr, h) /\ GivenFile(k, addr, counts, h)
  BY <1>6, <1>7, <1>8, GivenCore
<1> HIDE DEF h
<1>10. /\ h.loc = [f.loc EXCEPT ![s] = addr]
       /\ h.buf = [f.buf EXCEPT ![s] = ZeroContent]
       /\ h.pins = [k.pins EXCEPT ![s] = 0]
       /\ h.cached = f.cached \cup {s} /\ h.hashed = h.cached /\ h.dirty = h.cached
       /\ h.clone = {} /\ h.open /\ h.superslot = f.superslot
       /\ h.super.bitmaps = f.super.bitmaps /\ h.num_blocks = addr + 1
  BY <1>1, <1>4, <1>8, <1>9 DEF GivenTo, Alike, CoreBut
<1>10a. Pristine(h)
  <2>1. Pristine(e) /\ Pristine(f)
    BY DEF Fresh
  <2>2. ~h.fault
    BY <1>4, <1>9, <2>1 DEF GivenFile, Pristine
  <2>3. \A l \in Locations : k.file[l] = ZeroContent
    BY <1>4, <2>1 DEF Pristine
  <2>4. \A l \in Locations : h.file[l] = ZeroContent
    BY <1>9, <2>3 DEF GivenFile
  <2>5. h.file = [l \in Locations |-> ZeroContent]
    BY <1>9, <2>4, FieldTypes DEF Core
  <2>6. f.cached \subseteq Slots /\ f.buf \in [Slots -> Content]
    BY FieldTypes DEF Fresh, Core
  <2>7. \A u \in h.cached : h.buf[u].data = Zero
    BY <1>2, <1>10, <2>1, <2>6 DEF Pristine, ZeroContent
  <2> QED
    BY <2>2, <2>5, <2>7 DEF Pristine
<1>10b. h.super.counts =
          [u \in Types |-> f.super.counts[u] + (IF u = type THEN 1 ELSE 0)]
  BY <1>7a, <1>9 DEF GivenFile
<1>11. Fresh(h)
  <2>1. \A u \in Slots : h.pins[u] = 0
    BY <1>2, <1>5, <1>10, FieldTypes
  <2> QED
    BY <1>9, <1>10, <1>10a, <2>1 DEF Fresh
<1> QED
  BY <1>1, <1>2, <1>3, <1>8, <1>10, <1>10b, <1>11 DEF Added, h

(* bitmap_set on the superblock makes the first bitmap, whose own bit is   *)
(* set as well.                                                            *)
OneBitmap(f) ==
  /\ f.super.bitmaps[0] = 1 /\ \A g \in Groups : g # 0 => f.super.bitmaps[g] = 0

Bitmapped(y) ==
  /\ Fresh(y) /\ y.num_blocks = 2 /\ OneBitmap(y) /\ Tally(y, 0)
  /\ \E c \in y.cached : /\ y.cached = {y.superslot, c} /\ y.loc[c] = 1
                         /\ c # y.superslot /\ y.buf[c].bits = {0, 1}

LEMMA FirstBitmap ==
  ASSUME NEW f, Fresh(f), f.num_blocks = 1, f.cached = {f.superslot},
         \A g \in Groups : f.super.bitmaps[g] = 0, Tally(f, 0),
         NEW y, y = BitmapSet(f, 0, TRUE)
  PROVE  Bitmapped(y)
<1> DEFINE t == TakeBlock(f, "B_BITMAP", 0)
           c == t.slot
           g == WithBitmap(t.fs, 0, 1)
           h == BitmapSetIn(g, 1, TRUE)
           d == [h EXCEPT !.dirty = h.dirty \cup {h.superslot}]
<1>1. 0 \in Locations /\ 1 \in Locations /\ 0 \in Groups /\ Group(0) = 0 /\ Group(1) = 0
  BY GroupType, GroupsOfFirst, BoundsType DEF Locations
<1>2. f \in FsType /\ f.superslot \in Slots
  BY FieldTypes DEF Fresh, Core
<1>3. Added(f, "B_BITMAP", t)
  <2> DEFINE found == BitmapSearch(f, 0)
  <2>0. f.super.bitmaps[Group(0)] = 0
    BY <1>1
  <2>1. found = [fs |-> f, addr |-> 0]
    BY <2>0, Zenon DEF BitmapSearch
  <2>2. found.addr = 0 /\ found.fs = f /\ Alike(f, f)
    BY <2>1 DEF Alike
  <2>3. \E x \in Slots : x \notin f.cached
    BY SomeSlots
  <2>4. f.num_blocks < MaxBlocks
    BY BoundsType
  <2> HIDE DEF found
  <2>5. found = BitmapSearch(f, 0)
    BY DEF found
  <2> HIDE DEF t
  <2>6. t = TakeBlock(f, "B_BITMAP", 0)
    BY DEF t
  <2> QED
    BY <2>2, <2>3, <2>4, <2>5, <2>6, FreshTake
<1> HIDE DEF t
<1>4. /\ Fresh(t.fs) /\ c \in t.fs.cached /\ t.addr = 1 /\ c # NULL
      /\ t.fs.cached = {f.superslot, c} /\ t.fs.superslot = f.superslot
      /\ t.fs.loc[c] = 1 /\ t.fs.num_blocks = 2 /\ c \in Slots
      /\ t.fs.buf[c] = ZeroContent /\ c # f.superslot
      /\ \A b \in Groups : t.fs.super.bitmaps[b] = 0
  BY <1>2, <1>3, FieldTypes DEF Added
<1>4a. Tally(t.fs, 0)
  BY <1>2, <1>3, FieldTypes DEF Added, Tally, Types
<1>5. /\ Fresh(g) /\ OneBitmap(g) /\ Tally(g, 0) /\ g.loc = t.fs.loc
      /\ g.cached = t.fs.cached /\ g.num_blocks = 2 /\ g.buf = t.fs.buf
      /\ g.superslot = f.superslot
  <2>1. Core(t.fs) /\ 1 # 0 /\ 1 < t.fs.num_blocks
    BY <1>4 DEF Fresh
  <2>2. g = WithBitmap(t.fs, 0, 1)
    OBVIOUS
  <2> HIDE DEF g
  <2>3. /\ Core(g) /\ Keeps(t.fs, g) /\ g.super.bitmaps[0] = 1
        /\ g.loc = t.fs.loc /\ g.pins = t.fs.pins /\ g.cached = t.fs.cached
        /\ g.buf = t.fs.buf /\ g.dirty = t.fs.dirty
        /\ g.clone = t.fs.clone /\ g.hashed = t.fs.hashed
        /\ g.num_blocks = t.fs.num_blocks /\ g.superslot = t.fs.superslot
    BY <1>1, <2>1, <2>2, NewBitmapCore
  <2>4. t.fs \in FsType
    BY <2>1 DEF Core
  <2>5. /\ g.file = t.fs.file /\ g.fault = t.fs.fault
        /\ g.super = [t.fs.super EXCEPT !.bitmaps = [@ EXCEPT ![0] = 1]]
    BY <2>2, <2>4 DEF WithBitmap, FsType
  <2>6. /\ g.super.counts = t.fs.super.counts
        /\ g.super.bitmaps = [t.fs.super.bitmaps EXCEPT ![0] = 1]
    BY <2>4, <2>5 DEF FsType, Super
  <2>7. Pristine(g)
    BY <1>4, <2>3, <2>5 DEF Fresh, Pristine
  <2>8. OneBitmap(g)
    BY <1>1, <1>4, <2>4, <2>6, FieldTypes DEF OneBitmap
  <2>9. Tally(g, 0)
    BY <1>4a, <2>6 DEF Tally
  <2> QED
    BY <1>4, <2>3, <2>7, <2>8, <2>9 DEF Fresh, Keeps
<1>6. y = ToggleBit(d, c, 0, TRUE)
  <2>1. f.super.bitmaps[Group(0)] = 0
    BY <1>1
  <2>2. g = [t.fs EXCEPT !.super.bitmaps = [@ EXCEPT ![Group(0)] = t.addr]]
    BY <1>1, <1>4 DEF WithBitmap
  <2> HIDE DEF g
  <2> QED
    BY <1>4, <2>1, <2>2 DEF BitmapSet, t
<1> HIDE DEF g
<1>7. /\ Fresh(h) /\ Alike(g, h) /\ h.buf[c].bits = {1}
  <2> DEFINE r == GetBlock(g, 1)
  <2>1. r = GetBlock(g, 1) /\ 1 = g.loc[c] /\ c \in g.cached
    BY <1>4, <1>5
  <2> HIDE DEF r
  <2>2. r.slot = c /\ Fresh(r.fs) /\ Alike(g, r.fs) /\ r.fs.buf = g.buf
    BY <1>5, <2>1, FreshGet
  <2>3. h = ToggleBit(r.fs, c, 1, TRUE)
    BY <1>1, <1>4, <1>5, <2>2 DEF BitmapSetIn, OneBitmap, r
  <2> HIDE DEF h
  <2>4. c \in r.fs.cached
    BY <2>1, <2>2 DEF Alike
  <2>4a. r.fs.buf[c].bits = {}
    BY <1>4, <1>5, <2>2 DEF ZeroContent
  <2>5. BitGained(r.fs, c, 1, h)
    BY <1>1, <2>2, <2>3, <2>4, <2>4a, FreshToggle
  <2>6. Offset(1) = 1
    BY BoundsType DEF Offset
  <2> QED
    BY <2>2, <2>4a, <2>5, <2>6 DEF Alike, BitGained
<1> HIDE DEF h
<1>8. /\ Fresh(d) /\ Alike(h, d) /\ d.buf = h.buf
  <2>1. Core(h) /\ h.superslot \in h.hashed /\ h.hashed = h.dirty
    BY <1>7 DEF Fresh, Core
  <2>2. /\ Core(d) /\ KeepsSuper(h, d) /\ d.hashed = h.hashed
        /\ d.loc = h.loc /\ d.pins = h.pins /\ d.cached = h.cached
        /\ d.clone = h.clone /\ d.dirty = h.dirty \cup {h.superslot}
        /\ d.buf = h.buf
    BY <2>1, DirtyCore
  <2>3. d.file = h.file /\ d.fault = h.fault
    BY <2>1 DEF Core, FsType
  <2>4. Pristine(d)
    BY <1>7, <2>2, <2>3 DEF Fresh, Pristine
  <2> QED
    BY <1>7, <2>1, <2>2, <2>4 DEF Fresh, KeepsSuper, Alike
<1> HIDE DEF d
<1>8a. Offset(0) = 0
  BY BoundsType DEF Offset
<1>8b. d.buf[c].bits = {1}
  BY <1>7, <1>8
<1>9. BitGained(d, c, 0, y)
  <2>1. c \in d.cached
    BY <1>4, <1>5, <1>7, <1>8 DEF Alike
  <2>2. Offset(0) \notin d.buf[c].bits
    BY <1>8a, <1>8b
  <2> QED
    BY <1>1, <1>6, <1>8, <2>1, <2>2, FreshToggle
<1>10. y.buf[c].bits = {0, 1}
  BY <1>8a, <1>8b, <1>9 DEF BitGained
<1>11. /\ y.num_blocks = 2 /\ y.super = g.super /\ c \in y.cached
       /\ y.cached = {y.superslot, c} /\ y.loc[c] = 1
       /\ c # y.superslot
  BY <1>4, <1>5, <1>7, <1>8, <1>9, ZenonT(60) DEF Alike, BitGained
<1>12. OneBitmap(y) /\ Tally(y, 0)
  BY <1>5, <1>11 DEF OneBitmap, Tally
<1>13. \E b \in y.cached : /\ y.cached = {y.superslot, b} /\ y.loc[b] = 1
                            /\ b # y.superslot /\ y.buf[b].bits = {0, 1}
  <2> HIDE DEF c
  <2> QED
    BY <1>10, <1>11
<1> QED
  BY <1>9, <1>11, <1>12, <1>13 DEF Bitmapped, BitGained

(* allocate_block for the root of the tree.                                *)
ThreeMarked(f) ==
  \E c \in f.cached : /\ c # f.superslot /\ f.loc[c] = 1
                      /\ f.buf[c].bits = {0, 1, 2}

Rootful(r) ==
  /\ Fresh(r.fs) /\ r.fs.num_blocks = 3 /\ OneBitmap(r.fs) /\ Tally(r.fs, 1)
  /\ ThreeMarked(r.fs)

LEMMA RootAllocated ==
  ASSUME NEW f, Bitmapped(f), NEW r, r = AllocateBlock(f, "B_TREE", 0)
  PROVE  Rootful(r)
<1> DEFINE found == BitmapSearch(f, 0)
           q == GetBlock(f, 1)
           t == TakeBlock(f, "B_TREE", 0)
<1>1. /\ 0 \in Locations /\ 2 \in Locations /\ 2 < MaxBlocks
      /\ Group(0) = 0 /\ Group(2) = 0
  BY GroupsOfFirst, BoundsType DEF Locations
<1>2. /\ Fresh(f) /\ f.num_blocks = 2 /\ f.super.bitmaps[0] = 1
      /\ OneBitmap(f) /\ Tally(f, 0)
  BY DEF Bitmapped, OneBitmap
<1>3. PICK c \in f.cached : /\ f.cached = {f.superslot, c} /\ f.loc[c] = 1
                            /\ c # f.superslot /\ f.buf[c].bits = {0, 1}
  BY DEF Bitmapped
<1>4. c \in Slots /\ c # NULL
  BY <1>2, FieldTypes, SlotsAssumption DEF Fresh, Core
<1>5. q.slot = c /\ Fresh(q.fs) /\ Alike(f, q.fs) /\ q.fs.buf = f.buf
  <2>1. q = GetBlock(f, 1) /\ 1 = f.loc[c]
    BY <1>3
  <2> HIDE DEF q
  <2> QED
    BY <1>2, <2>1, FreshGet
<1>6. found.addr = 0 /\ found.fs = q.fs
  <2> DEFINE Free == {l \in 0 .. f.num_blocks - 1 :
                        /\ Group(l) = Group(0)
                        /\ Offset(l) \notin q.fs.buf[q.slot].bits}
  <2>1. found = [fs |-> Need(q),
                 addr |-> IF q.slot = NULL \/ Free = {} THEN 0
                          ELSE CHOOSE l \in Free : \A m \in Free : l <= m]
    <3> DEFINE b == f.super.bitmaps[Group(0)]
               a == GetBlock(f, b)
               In(s) == {l \in 0 .. f.num_blocks - 1 :
                          /\ Group(l) = Group(0)
                          /\ Offset(l) \notin s.fs.buf[s.slot].bits}
    <3>1. b # 0 /\ a = q
      BY <1>1, <1>2
    <3>2. found = IF b = 0 THEN [fs |-> f, addr |-> 0]
                  ELSE [fs |-> Need(a),
                        addr |-> IF a.slot = NULL \/ In(a) = {} THEN 0
                                 ELSE CHOOSE l \in In(a) : \A m \in In(a) : l <= m]
      BY DEF BitmapSearch
    <3>3. In(q) = Free
      OBVIOUS
    <3> HIDE DEF found, b, a, q, In, Free
    <3> QED
      BY <3>1, <3>2, <3>3
  <2>2. Offset(1) = 1
    BY BoundsType DEF Offset
  <2>3. Free \subseteq {0}
    BY <1>2, <1>3, <1>5, <2>2
  <2> HIDE DEF Free, q
  <2>4. (CHOOSE l \in Free : \A m \in Free : l <= m) = 0 \/ Free = {}
    <3>1. SUFFICES ASSUME Free # {} PROVE (CHOOSE l \in Free : \A m \in Free : l <= m) = 0
      OBVIOUS
    <3>2. Free = {0}
      BY <2>3, <3>1
    <3>3. \A m \in Free : 0 <= m
      BY <3>2
    <3>4. \E l \in Free : \A m \in Free : l <= m
      BY <3>2, <3>3
    <3>5. (CHOOSE l \in Free : \A m \in Free : l <= m) \in Free
      BY <3>4, Zenon
    <3> QED
      BY <3>2, <3>5
  <2>5. Need(q) = q.fs
    BY <1>4, <1>5 DEF Need
  <2> HIDE DEF found
  <2> QED
    BY <2>1, <2>4, <2>5
<1> HIDE DEF q
<1>7. Added(f, "B_TREE", t)
  <2>1. PICK x \in Slots : x \notin f.cached
    BY <1>3, SomeSlots
  <2>2. found = BitmapSearch(f, 0) /\ t = TakeBlock(f, "B_TREE", 0)
    OBVIOUS
  <2> HIDE DEF found, t
  <2>3. Fresh(found.fs) /\ Alike(f, found.fs) /\ found.fs.buf = f.buf
    BY <1>5, <1>6
  <2> QED
    BY <1>1, <1>2, <1>6, <2>1, <2>2, <2>3, FreshTake
<1> HIDE DEF found
<1>8. r.fs = BitmapSet(t.fs, 2, TRUE)
  BY <1>2, <1>7 DEF AllocateBlock, Added
<1> HIDE DEF t
<1>9. /\ Fresh(t.fs) /\ t.fs.num_blocks = 3 /\ t.fs.super.bitmaps[0] = 1
      /\ c \in t.fs.cached /\ t.fs.loc[c] = 1 /\ c # t.fs.superslot
      /\ t.fs.buf[c].bits = {0, 1}
  BY <1>2, <1>3, <1>4, <1>7, FieldTypes DEF Added, Fresh, Core
<1>9a. OneBitmap(t.fs)
  BY <1>2, <1>7 DEF Added, OneBitmap
<1>9b. Tally(t.fs, 1)
  <2>1. f.super.counts \in [Types -> Int]
    BY <1>2, FieldTypes DEF Fresh, Core
  <2> QED
    BY <1>2, <1>7, <2>1 DEF Added, Tally, Types
<1> DEFINE p == GetBlock(t.fs, 1)
<1>10. p.slot = c /\ Fresh(p.fs) /\ Alike(t.fs, p.fs) /\ p.fs.buf = t.fs.buf
  <2>1. p = GetBlock(t.fs, 1) /\ 1 = t.fs.loc[c]
    BY <1>9
  <2> HIDE DEF p
  <2> QED
    BY <1>9, <2>1, FreshGet
<1>11. r.fs = ToggleBit(p.fs, c, 2, TRUE)
  <2>1. t.fs.super.bitmaps[Group(2)] = 1
    BY <1>1, <1>9
  <2>2. r.fs = BitmapSetIn(t.fs, 2, TRUE)
    <3> DEFINE x == t.fs
    <3>1. x.super.bitmaps[Group(2)] # 0
      BY <2>1
    <3>1a. r.fs = BitmapSet(x, 2, TRUE)
      BY <1>8
    <3> HIDE DEF x
    <3>2. BitmapSet(x, 2, TRUE) = BitmapSetIn(x, 2, TRUE)
      BY <3>1, Zenon DEF BitmapSet
    <3> QED
      BY <3>1a, <3>2 DEF x
  <2>3. GetBlock(t.fs, t.fs.super.bitmaps[Group(2)]) = p
    BY <2>1
  <2> HIDE DEF p
  <2> QED
    BY <1>4, <1>10, <2>2, <2>3 DEF BitmapSetIn
<1> HIDE DEF p
<1>12. c \in p.fs.cached
  BY <1>9, <1>10 DEF Alike
<1>12a. Offset(2) = 2
  BY <1>1, BoundsType DEF Offset, Group
<1>12b. p.fs.buf[c].bits = {0, 1}
  BY <1>9, <1>10
<1>12c. Offset(2) \notin p.fs.buf[c].bits
  BY <1>12a, <1>12b
<1>13. BitGained(p.fs, c, 2, r.fs)
  BY <1>1, <1>10, <1>11, <1>12, <1>12c, FreshToggle
<1>14. /\ r.fs.super = t.fs.super /\ c # r.fs.superslot /\ c \in r.fs.cached
       /\ r.fs.loc[c] = 1 /\ r.fs.num_blocks = 3
  BY <1>9, <1>10, <1>12, <1>13, ZenonT(60) DEF Alike, BitGained
<1>15. r.fs.buf[c].bits = {0, 1, 2}
  BY <1>12a, <1>12b, <1>13 DEF BitGained
<1>16. OneBitmap(r.fs) /\ Tally(r.fs, 1)
  BY <1>9a, <1>9b, <1>14 DEF OneBitmap, Tally
<1>17. ThreeMarked(r.fs)
  BY <1>14, <1>15 DEF ThreeMarked
<1> QED
  BY <1>13, <1>14, <1>16, <1>17 DEF Rootful, BitGained

(* The file system as create_fs leaves it: the superblock, the bitmap and  *)
(* the root are there, zeroed and marked, and only the superblock is       *)
(* pinned.                                                                 *)
Created(g) ==
  /\ Pristine(g) /\ g.hashed = g.cached /\ g.clone = {}
  /\ OneBitmap(g) /\ Tally(g, 1) /\ ThreeMarked(g)
  /\ g.total_pins = 1
  /\ \A s \in Slots : g.pins[s] = IF s = g.superslot THEN 1 ELSE 0

LEMMA CreateFsSound ==
  ASSUME NEW g, g = CreateFs
  PROVE  /\ Sound(g) /\ g.superslot \in Slots /\ g.open
         /\ g.num_blocks = 3 /\ g.super.bitmaps[0] = 1
         /\ Created(g)
<1> DEFINE f == EmptyFile
           e == GetBlock(f, 0).fs
           b == AllocateBlock(e, "B_SUPER", 0)
           t == TakeBlock(e, "B_SUPER", 0)
           r == AllocateBlock(b.fs, "B_TREE", 0)
           s == r.fs.superslot
           h == [r.fs EXCEPT !.total_pins = 0]
<1>1. g = Pin(h, s)
  BY DEF CreateFs
<1>2. Unborn(e)
  <2>1. Unborn(f)
    BY EmptyFileUnborn
  <2> HIDE DEF f
  <2> QED
    BY <2>1, NothingToRead
<1> HIDE DEF e
<1>3. Founded(e, t)
  BY <1>2, TakeSuper
<1>4. t.slot # NULL /\ t.addr = 0
  BY <1>3, SlotsAssumption DEF Founded
<1>5. b.fs = BitmapSet(t.fs, 0, TRUE)
  BY <1>4 DEF AllocateBlock
<1> HIDE DEF t, b
<1>6. Bitmapped(b.fs)
  BY <1>3, <1>5, FirstBitmap DEF Founded
<1>7. Rootful(r)
  BY <1>6, RootAllocated
<1> HIDE DEF r
<1>8. /\ r.fs \in FsType /\ Core(r.fs) /\ s \in Slots /\ r.fs.open
      /\ \A u \in Slots : r.fs.pins[u] = 0
  BY <1>7, FieldTypes DEF Rootful, Fresh, Core
<1>9. /\ h \in FsType /\ h.pins = r.fs.pins
      /\ h.loc = r.fs.loc /\ h.cached = r.fs.cached
      /\ h.buf = r.fs.buf /\ h.dirty = r.fs.dirty
      /\ h.clone = r.fs.clone /\ h.hashed = r.fs.hashed
      /\ h.file = r.fs.file /\ h.filesize = r.fs.filesize
      /\ h.num_blocks = r.fs.num_blocks /\ h.superslot = s
      /\ h.super = r.fs.super /\ h.open = r.fs.open
  BY <1>8 DEF FsType
<1>9a. h.total_pins = 0 /\ h.fault = r.fs.fault
  BY <1>8 DEF FsType
<1> HIDE DEF h
<1>10. Core(h) /\ h.pins[s] = 0
  BY <1>8, <1>9 DEF Core, Coherent
<1>11. /\ g.pins = [h.pins EXCEPT ![s] = 1] /\ g.total_pins = h.total_pins + 1
       /\ g = [h EXCEPT !.pins = g.pins, !.total_pins = g.total_pins]
  <2>1. g.fault = h.fault
    BY <1>1, <1>9, <1>10, FirstPin
  <2>2. g = [h EXCEPT !.pins = g.pins, !.total_pins = g.total_pins,
                      !.fault = g.fault]
    BY <1>1, <1>9 DEF Pin, FsType
  <2>3. g.pins = [h.pins EXCEPT ![s] = 1] /\ g.total_pins = h.total_pins + 1
    BY <1>1, <1>9, <1>10 DEF Pin, FsType
  <2> QED
    BY <1>9, <2>1, <2>2, <2>3 DEF FsType
<1>12. g.pins \in [Slots -> Int] /\ g.total_pins \in Int /\ g.pins[s] = 1
  BY <1>8, <1>9, <1>11, FieldTypes
<1>13. /\ g.loc = h.loc /\ g.cached = h.cached
       /\ g.buf = h.buf /\ g.dirty = h.dirty
       /\ g.clone = h.clone /\ g.hashed = h.hashed
       /\ g.file = h.file /\ g.filesize = h.filesize
       /\ g.num_blocks = h.num_blocks /\ g.superslot = h.superslot
       /\ g.super = h.super /\ g.open = h.open
  BY <1>9, <1>11 DEF FsType
<1>14. g \in FsType
  BY <1>9, <1>11, <1>12 DEF FsType
<1>15. Core(g)
  BY <1>10, <1>13, <1>14 DEF Core, Coherent
<1>16. Sound(g)
  BY <1>9, <1>12, <1>13, <1>15, SoundIsPinnedCore
<1>17. /\ g.fault = r.fs.fault /\ h.total_pins = 0
  BY <1>8, <1>9, <1>10, <1>11, <1>9a DEF FsType
<1>18. g.hashed = g.cached /\ g.clone = {} /\ Pristine(g)
  BY <1>7, <1>9, <1>13, <1>17 DEF Rootful, Fresh, Pristine
<1>19. OneBitmap(g) /\ Tally(g, 1) /\ ThreeMarked(g)
  BY <1>7, <1>9, <1>13 DEF Rootful, OneBitmap, Tally, ThreeMarked
<1>20. /\ g.total_pins = 1
       /\ \A u \in Slots : g.pins[u] = IF u = g.superslot THEN 1 ELSE 0
  BY <1>8, <1>9, <1>11, <1>13, <1>17, FieldTypes
<1>21. Created(g)
  BY <1>18, <1>19, <1>20 DEF Created
<1>22. /\ g.superslot \in Slots /\ g.open /\ g.num_blocks = 3
       /\ g.super.bitmaps[0] = 1
  BY <1>7, <1>8, <1>9, <1>13 DEF Rootful, OneBitmap
<1> QED
  BY <1>16, <1>21, <1>22

LEMMA InitIInv == Init => IInv
<1> SUFFICES ASSUME Init PROVE IInv
  OBVIOUS
<1>1. fs = CreateFs
  BY DEF Init
<1>2. /\ Sound(fs) /\ fs.superslot \in Slots /\ fs.open
      /\ fs.num_blocks = 3 /\ fs.super.bitmaps[0] = 1
  BY <1>1, CreateFsSound
<1>3. /\ owned = [l \in Locations |-> IF l = 2 THEN "B_TREE" ELSE "none"]
      /\ hold = [s \in Slots |-> {}]
  BY DEF Init
<1>4. ClientType(owned, hold)
  BY <1>3 DEF ClientType, ClientTypes
<1>5. OwnedOK(fs, owned)
  BY <1>2, <1>3, GroupsOfFirst DEF OwnedOK
<1>6. HoldOK(fs, hold)
  BY <1>3 DEF HoldOK
<1> QED
  BY <1>2, <1>4, <1>5, <1>6 DEF IInv, Sound

LEMMA NextPreserves == IInv /\ [Next]_vars => IInv'
<1> SUFFICES ASSUME IInv, [Next]_vars PROVE IInv'
  OBVIOUS
<1>1. CASE Flush
  BY <1>1, FlushPreserves
<1>2. CASE Close
  BY <1>2, ClosePreserves
<1>3. CASE Open
  BY <1>3, OpenPreserves
<1>4. ASSUME NEW l \in Locations, GetAndPin(l) PROVE IInv'
  BY <1>4, GetAndPinPreserves
<1>5. ASSUME NEW l \in Locations, CloneAndPin(l) PROVE IInv'
  BY <1>5, CloneAndPinPreserves
<1>6. ASSUME NEW l \in Locations, FreeBlock(l) PROVE IInv'
  BY <1>6, FreeBlockPreserves
<1>7. ASSUME NEW s \in Slots, ReleaseBlock(s) PROVE IInv'
  BY <1>7, ReleaseBlockPreserves
<1>8. ASSUME NEW s \in Slots, NEW v \in Values, WriteBlock(s, v) PROVE IInv'
  BY <1>8, WriteBlockPreserves
<1>9. CASE AllocateAndPin
  BY <1>9, AllocateAndPinPreserves
<1>9a. ASSUME NEW l \in Locations, AllocateData(l) PROVE IInv'
  BY <1>9a, AllocateDataPreserves
<1>9b. ASSUME NEW l \in Locations, ReadData(l) PROVE IInv'
  BY <1>9b, ReadDataPreserves
<1>9c. ASSUME NEW l \in Locations, NEW v \in Values, WriteData(l, v) PROVE IInv'
  BY <1>9c, WriteDataPreserves
<1>10. CASE UNCHANGED vars
  BY <1>10 DEF vars, IInv, Running, ClientType, OwnedOK, HoldOK, ClosedOK,
              Coherent, Rooted
<1> QED
  BY <1>1, <1>2, <1>3, <1>4, <1>5, <1>6, <1>7, <1>8, <1>9, <1>9a, <1>9b, <1>9c, <1>10 DEF Next

(* In every reachable state the block layer is sound, what the clients own *)
(* lies within the file, and what they hold is in the cache.               *)
THEOREM Invariance == Spec => []IInv
<1>1. Init => IInv
  BY InitIInv
<1>2. IInv /\ [Next]_vars => IInv'
  BY NextPreserves
<1> QED
  BY <1>1, <1>2, PTL DEF Spec

(* struct FS keeps its types, so no location is ever outside the file, no  *)
(* bit outside its bitmap, and the LRU list holds each slot exactly once,  *)
(* whatever the order of calls, evictions and flushes.                     *)
THEOREM TypeCorrect == Spec => []TypeOK
<1>1. IInv => TypeOK
  BY IInvImpliesTypeOK
<1> QED
  BY <1>1, Invariance, PTL

(* The cache never holds two versions of a block, never loses a dirty      *)
(* block from the index, and what find_free_slot may drop without writing  *)
(* is what the file has.                                                   *)
THEOREM CacheIsCoherent == Spec => []CacheCoherent
<1>1. IInv => CacheCoherent
  BY IInvImpliesCacheCoherent
<1> QED
  BY <1>1, Invariance, PTL

(* Every allocated location has been written, so the size of the file      *)
(* always tells how many blocks there are.                                 *)
THEOREM FileCovers == Spec => []FileCoversBlocks
<1>1. IInv => FileCoversBlocks
  BY DEF IInv, Coherent, FileCoversBlocks
<1> QED
  BY <1>1, Invariance, PTL

=============================================================================
