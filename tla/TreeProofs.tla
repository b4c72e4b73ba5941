------------------------------ MODULE TreeProofs ------------------------------
(***************************************************************************)
(* The tree of fs/tree.c with the keys of fs/file.c in it, for every size  *)
(* of a block, every set of names and any number of blocks and extents.    *)
(* Every block has a zone, the names a search for which passes through it, *)
(* and a split, a merge or a change of the root moves zones and keys       *)
(* together.                                                               *)
(***************************************************************************)
EXTENDS Extents, FiniteSetTheorems, SequenceTheorems, WellFoundedInduction, TLAPS

-----------------------------------------------------------------------------
(* Numbers: induction without second-order theorems.                       *)

LEMMA LeastNatural ==
  ASSUME NEW T \in SUBSET Nat, T # {}
  PROVE  \E x \in T : \A y \in T : x <= y
<1>1. \E R : /\ \A x, y \in Nat : y < x => <<y, x>> \in R
             /\ IsWellFoundedOn(R, Nat)
  <2> DEFINE R == OpToRel(<, Nat)
  <2>1. \A x, y \in Nat : y < x => <<y, x>> \in R
    BY DEF OpToRel
  <2>2. IsWellFoundedOn(R, Nat)
    BY NatLessThanWellFounded
  <2> HIDE DEF R
  <2> WITNESS R
  <2> QED
    BY <2>1, <2>2
<1>2. PICK R : /\ \A x, y \in Nat : y < x => <<y, x>> \in R
               /\ IsWellFoundedOn(R, Nat)
  BY <1>1
<1>3. \E x \in T : \A y \in T : ~ (<<y, x>> \in R)
  BY <1>2, WFMin
<1>4. PICK x \in T : \A y \in T : ~ (<<y, x>> \in R)
  BY <1>3
<1>5. \A y \in T : x \in Nat /\ y \in Nat /\ ~ (y < x)
  BY <1>2, <1>4
<1> QED
  BY <1>5

(* What a set of numbers has: 0, and with each number the next one.        *)
LEMMA NatSet ==
  ASSUME NEW S, 0 \in S, \A n \in Nat : n \in S => n + 1 \in S
  PROVE  \A n \in Nat : n \in S
<1> SUFFICES ASSUME Nat \ S # {} PROVE FALSE
  OBVIOUS
<1>1. PICK n \in Nat \ S : \A m \in Nat \ S : n <= m
  <2>1. Nat \ S \in SUBSET Nat
    OBVIOUS
  <2> QED
    BY <2>1, LeastNatural
<1>2. n # 0 /\ n - 1 \in Nat /\ ~ (n <= n - 1) /\ (n - 1) + 1 = n
  BY <1>1
<1> QED
  BY <1>1, <1>2

LEMMA GreatestNumber ==
  ASSUME NEW n \in Nat, NEW T \in SUBSET (0 .. n), T # {}
  PROVE  \E x \in T : \A y \in T : y <= x
<1> DEFINE D == {k \in Nat : n - k \in T}
<1>1. PICK x \in T : TRUE
  OBVIOUS
<1>2. n - x \in D
  BY <1>1
<1>3. PICK k \in D : \A j \in D : k <= j
  BY <1>2, LeastNatural
<1>4. \A y \in T : n - y \in D
  OBVIOUS
<1>5. \A y \in T : y <= n - k
  BY <1>3, <1>4
<1> QED
  BY <1>3, <1>5

LEMMA MaxIs ==
  ASSUME NEW n \in Nat, NEW S \in SUBSET (1 .. n), S # {}
  PROVE  Max(S) \in S /\ \A y \in S : y <= Max(S)
<1>1. S \in SUBSET (0 .. n)
  OBVIOUS
<1>2. PICK x \in S : \A y \in S : y <= x
  BY <1>1, GreatestNumber
<1>3. \A y \in S : x >= y
  BY <1>2
<1> QED
  BY <1>3 DEF Max

-----------------------------------------------------------------------------
(* Folds over a sequence.                                                  *)

(* The steps of a fold, in a set U.                                        *)
StepsIn(U, n, R) == \A u \in U : \A i \in 1 .. n : R[<<u, i>>] \in U
Steps(U, n, b, R, f) ==
  f \in [0 .. n -> U] /\ f[0] = b /\ \A i \in 1 .. n : f[i] = R[<<f[i - 1], i>>]

(* The recursion of FoldLeft, whose steps are R, up to index k.            *)
FoldSolves(k, b, R, g) ==
  \A S \in SUBSET (1 .. k) :
    g[S] = IF S = {} THEN b ELSE R[<<g[S \ {Max(S)}], Max(S)>>]

(* It has a solution.                                                      *)
LEMMA FoldExists ==
  ASSUME NEW U, NEW n \in Nat, NEW b \in U, NEW R, StepsIn(U, n, R)
  PROVE  \E g \in [SUBSET (1 .. n) -> U] : FoldSolves(n, b, R, g)
<1> DEFINE Has(k) == \E g \in [SUBSET (1 .. k) -> U] : FoldSolves(k, b, R, g)
           D == {k \in Nat : k <= n => Has(k)}
<1>1. 0 \in D
  <2> DEFINE g == [S \in SUBSET (1 .. 0) |-> b]
  <2>1. \A S \in SUBSET (1 .. 0) : S = {}
    OBVIOUS
  <2>2. g \in [SUBSET (1 .. 0) -> U] /\ FoldSolves(0, b, R, g)
    BY <2>1 DEF FoldSolves
  <2> QED
    BY <2>2
<1>2. ASSUME NEW k \in Nat, k \in D PROVE k + 1 \in D
  <2> HIDE DEF Has
  <2> SUFFICES ASSUME k + 1 <= n PROVE Has(k + 1)
    OBVIOUS
  <2>1. PICK f \in [SUBSET (1 .. k) -> U] : FoldSolves(k, b, R, f)
    <3>1. Has(k)
      BY <1>2
    <3> QED
      BY <3>1 DEF Has
  <2> DEFINE g == [S \in SUBSET (1 .. (k + 1)) |->
                     IF k + 1 \in S THEN R[<<f[S \ {k + 1}], k + 1>>] ELSE f[S]]
  <2>2. ASSUME NEW S \in SUBSET (1 .. (k + 1))
        PROVE  S \ {k + 1} \in SUBSET (1 .. k) /\ (k + 1 \notin S => S \in SUBSET (1 .. k))
    <3>1. \A y \in S : y \in 1 .. (k + 1)
      OBVIOUS
    <3>2. \A y \in S : y # k + 1 => y \in 1 .. k
      BY <3>1
    <3> QED
      BY <3>2
  <2>3. g \in [SUBSET (1 .. (k + 1)) -> U]
    <3>1. ASSUME NEW S \in SUBSET (1 .. (k + 1)) PROVE g[S] \in U
      <4>1. k + 1 \in 1 .. n
        OBVIOUS
      <4> QED
        BY <2>2, <4>1 DEF StepsIn
    <3> QED
      BY <3>1
  <2>4. ASSUME NEW S \in SUBSET (1 .. (k + 1))
        PROVE  g[S] = IF S = {} THEN b ELSE R[<<g[S \ {Max(S)}], Max(S)>>]
    <3>1. CASE k + 1 \in S
      <4>1. Max(S) \in S /\ \A y \in S : y <= Max(S)
        <5>1. k + 1 \in Nat /\ S # {}
          BY <3>1
        <5> QED
          BY <5>1, MaxIs
      <4>2. Max(S) = k + 1
        <5>1. Max(S) \in 1 .. (k + 1) /\ k + 1 <= Max(S)
          BY <3>1, <4>1
        <5> QED
          BY <5>1
      <4>3. g[S \ {k + 1}] = f[S \ {k + 1}]
        BY <2>2
      <4> QED
        BY <3>1, <4>2, <4>3
    <3>2. CASE k + 1 \notin S
      <4>1. S \in SUBSET (1 .. k) /\ g[S] = f[S]
        BY <2>2, <3>2
      <4>2. S \ {Max(S)} \in SUBSET (1 .. k) /\ k + 1 \notin S \ {Max(S)}
        BY <3>2, <4>1
      <4>3. g[S \ {Max(S)}] = f[S \ {Max(S)}]
        BY <4>2
      <4> QED
        BY <2>1, <4>1, <4>3 DEF FoldSolves
    <3> QED
      BY <3>1, <3>2
  <2> HIDE DEF g
  <2>5. FoldSolves(k + 1, b, R, g)
    BY <2>4 DEF FoldSolves
  <2> QED
    BY <2>3, <2>5 DEF Has
<1>3. n \in D
  <2> HIDE DEF D
  <2> QED
    BY <1>1, <1>2, NatSet
<1>4. Has(n)
  <2> HIDE DEF Has
  <2> QED
    BY <1>3
<1> QED
  BY <1>4

(* What a solution gives from a value of U.                                *)
FoldGives(U, n, b, R, g) ==
  \A S \in SUBSET (1 .. n) :
    /\ S = {} => g[S] = b
    /\ S # {} /\ g[S \ {Max(S)}] \in U => g[S] = R[<<g[S \ {Max(S)}], Max(S)>>]

(* A solution at 1..n is what n steps from b lead to.                      *)
LEMMA FoldSteps ==
  ASSUME NEW U, NEW n \in Nat, NEW b \in U, NEW R, StepsIn(U, n, R),
         NEW g, FoldGives(U, n, b, R, g)
  PROVE  \E f : Steps(U, n, b, R, f) /\ f[n] = g[1 .. n]
<1> DEFINE f == [i \in 0 .. n |-> g[1 .. i]]
           D == {i \in Nat : i <= n => f[i] \in U}
<1>1. ASSUME NEW i \in 1 .. n
      PROVE  1 .. i \in SUBSET (1 .. n) /\ Max(1 .. i) = i /\ (1 .. i) \ {i} = 1 .. (i - 1)
             /\ 1 .. i # {} /\ i \in 0 .. n /\ i - 1 \in 0 .. n
  <2>1. 1 .. i \in SUBSET (1 .. n) /\ i \in 1 .. i
    OBVIOUS
  <2>2. Max(1 .. i) \in 1 .. i /\ \A y \in 1 .. i : y <= Max(1 .. i)
    BY <2>1, MaxIs
  <2> QED
    BY <2>1, <2>2
<1>2. f[0] = b
  <2>1. 1 .. 0 = {} /\ 0 \in 0 .. n /\ {} \in SUBSET (1 .. n)
    OBVIOUS
  <2> QED
    BY <2>1 DEF FoldGives
<1>3. ASSUME NEW i \in 1 .. n, f[i - 1] \in U PROVE f[i] = R[<<f[i - 1], i>>]
  <2>1. f[i] = g[1 .. i] /\ f[i - 1] = g[(1 .. i) \ {Max(1 .. i)}]
    BY <1>1
  <2> QED
    BY <1>1, <1>3, <2>1 DEF FoldGives
<1> HIDE DEF f
<1>4. \A i \in Nat : i \in D
  <2>1. 0 \in D
    BY <1>2
  <2>2. ASSUME NEW i \in Nat, i \in D PROVE i + 1 \in D
    <3> SUFFICES ASSUME i + 1 <= n PROVE f[i + 1] \in U
      OBVIOUS
    <3>1. i + 1 \in 1 .. n /\ (i + 1) - 1 = i /\ f[i] \in U
      BY <2>2
    <3>2. f[i + 1] = R[<<f[i], i + 1>>]
      BY <1>3, <3>1
    <3> QED
      BY <3>1, <3>2 DEF StepsIn
  <2> HIDE DEF D
  <2> QED
    BY <2>1, <2>2, NatSet
<1>5. f \in [0 .. n -> U]
  <2>1. \A i \in 0 .. n : f[i] \in U
    BY <1>4
  <2>2. f = [i \in 0 .. n |-> f[i]]
    BY DEF f
  <2> HIDE DEF D
  <2> QED
    BY <2>1, <2>2
<1>6. \A i \in 1 .. n : f[i] = R[<<f[i - 1], i>>]
  <2>1. \A i \in 1 .. n : i - 1 \in 0 .. n
    OBVIOUS
  <2> QED
    BY <1>3, <1>5, <2>1
<1>7. f[n] = g[1 .. n]
  BY DEF f
<1> QED
  BY <1>2, <1>5, <1>6, <1>7 DEF Steps

-----------------------------------------------------------------------------
(* Sequences.                                                              *)

LEMMA RemoveAtIs ==
  ASSUME NEW T, NEW K \in Seq(T), NEW p \in 1 .. Len(K)
  PROVE  /\ RemoveAt(K, p) \in Seq(T)
         /\ Len(RemoveAt(K, p)) = Len(K) - 1
         /\ \A i \in 1 .. (Len(K) - 1) :
              RemoveAt(K, p)[i] = IF i < p THEN K[i] ELSE K[i + 1]
         /\ RemoveAt(K, p) = SubSeq(K, 1, p - 1) \o SubSeq(K, p + 1, Len(K))
<1> DEFINE A == SubSeq(K, 1, p - 1)
           C == SubSeq(K, p + 1, Len(K))
<1>1. A \in Seq(T) /\ Len(A) = p - 1 /\ \A i \in 1 .. (p - 1) : A[i] = K[i]
  OBVIOUS
<1>3. C \in Seq(T) /\ Len(C) = Len(K) - p /\ \A i \in 1 .. (Len(K) - p) : C[i] = K[p + i]
  <2>1. p + 1 \in 1 .. (Len(K) + 1) /\ Len(K) \in Nat
    OBVIOUS
  <2> QED
    BY <2>1
<1>4. RemoveAt(K, p) = A \o C
  BY DEF RemoveAt
<1> HIDE DEF A, C
<1>5. /\ A \o C \in Seq(T) /\ Len(A \o C) = Len(A) + Len(C)
      /\ \A i \in 1 .. (Len(A) + Len(C)) :
           (A \o C)[i] = IF i <= Len(A) THEN A[i] ELSE C[i - Len(A)]
  BY <1>1, <1>3, ConcatProperties
<1>6. A \o C \in Seq(T) /\ Len(A \o C) = Len(K) - 1
  BY <1>1, <1>3, <1>5
<1>7. ASSUME NEW i \in 1 .. (Len(K) - 1)
      PROVE  (A \o C)[i] = IF i < p THEN K[i] ELSE K[i + 1]
  <2>1. CASE i < p
    BY <1>1, <1>3, <1>5, <2>1
  <2>2. CASE ~ (i < p)
    <3>1. (A \o C)[i] = C[i - (p - 1)]
      BY <1>1, <1>3, <1>5, <2>2
    <3>2. i - (p - 1) \in 1 .. (Len(K) - p) /\ p + (i - (p - 1)) = i + 1
      BY <2>2
    <3> QED
      BY <1>3, <2>2, <3>1, <3>2
  <2> QED
    BY <2>1, <2>2
<1> QED
  BY <1>4, <1>6, <1>7 DEF A, C

LEMMA HalvesAre ==
  ASSUME NEW T, NEW K \in Seq(T), NEW q \in 0 .. Len(K)
  PROVE  /\ SubSeq(K, 1, q) \in Seq(T) /\ Len(SubSeq(K, 1, q)) = q
         /\ \A i \in 1 .. q : SubSeq(K, 1, q)[i] = K[i]
         /\ SubSeq(K, q + 1, Len(K)) \in Seq(T) /\ Len(SubSeq(K, q + 1, Len(K))) = Len(K) - q
         /\ \A i \in 1 .. (Len(K) - q) : SubSeq(K, q + 1, Len(K))[i] = K[q + i]
         /\ SubSeq(K, 1, q) \o SubSeq(K, q + 1, Len(K)) = K
<1> DEFINE A == SubSeq(K, 1, q)
           C == SubSeq(K, q + 1, Len(K))
<1>1. A \in Seq(T) /\ Len(A) = q /\ \A i \in 1 .. q : A[i] = K[i]
  OBVIOUS
<1>2. C \in Seq(T) /\ Len(C) = Len(K) - q /\ \A i \in 1 .. (Len(K) - q) : C[i] = K[q + i]
  <2>1. q + 1 \in 1 .. (Len(K) + 1) /\ Len(K) \in Nat
    OBVIOUS
  <2> QED
    BY <2>1
<1> HIDE DEF A, C
<1>3. A \o C \in Seq(T) /\ Len(A \o C) = Len(K)
  BY <1>1, <1>2
<1>4. ASSUME NEW i \in 1 .. Len(K) PROVE (A \o C)[i] = K[i]
  <2>1. CASE i <= q
    BY <1>1, <1>2, <2>1
  <2>2. CASE ~ (i <= q)
    <3>1. (A \o C)[i] = C[i - q]
      BY <1>1, <1>2, <2>2
    <3>2. i - q \in 1 .. (Len(K) - q) /\ q + (i - q) = i
      BY <2>2
    <3> QED
      BY <1>2, <3>1, <3>2
  <2> QED
    BY <2>1, <2>2
<1>5. A \o C = K
  BY <1>3, <1>4, SeqEqual
<1> QED
  BY <1>1, <1>2, <1>5 DEF A, C

-----------------------------------------------------------------------------
(* Keys and where find_key puts a name among them.                         *)

DataSet == TreeBlocks \cup Data \cup DataBlocks
KeySet == [name : AllNames, data : DataSet]
Sorted(K) == \A i, j \in 1 .. Len(K) : i < j => K[i].name < K[j].name

LEMMA KeyInserted ==
  ASSUME NEW K \in Seq(KeySet), NEW p \in 0 .. Len(K), NEW k \in KeySet
  PROVE  /\ InsertAt(K, p + 1, k) \in Seq(KeySet)
         /\ Len(InsertAt(K, p + 1, k)) = Len(K) + 1
         /\ \A i \in 1 .. Len(K) + 1 :
              InsertAt(K, p + 1, k)[i] =
                IF i <= p THEN K[i] ELSE IF i = p + 1 THEN k ELSE K[i - 1]
         /\ InsertAt(K, p + 1, k) = (SubSeq(K, 1, p) \o <<k>>) \o SubSeq(K, p + 1, Len(K))
<1> DEFINE A == SubSeq(K, 1, p)
           B == <<k>>
           C == SubSeq(K, p + 1, Len(K))
<1>1. A \in Seq(KeySet) /\ Len(A) = p /\ \A i \in 1 .. p : A[i] = K[i]
  OBVIOUS
<1>2. B \in Seq(KeySet) /\ Len(B) = 1 /\ B[1] = k
  OBVIOUS
<1>3. C \in Seq(KeySet) /\ Len(C) = Len(K) - p /\ \A i \in 1 .. (Len(K) - p) : C[i] = K[p + i]
  <2>1. p + 1 \in 1 .. (Len(K) + 1) /\ Len(K) \in Nat
    OBVIOUS
  <2> QED
    BY <2>1
<1>4. InsertAt(K, p + 1, k) = (A \o B) \o C
  <2>1. (p + 1) - 1 = p
    OBVIOUS
  <2> QED
    BY <2>1 DEF InsertAt
<1> HIDE DEF A, B, C
<1> DEFINE AB == A \o B
<1>5. AB \in Seq(KeySet) /\ Len(AB) = p + 1
      /\ \A i \in 1 .. (p + 1) : AB[i] = IF i <= p THEN K[i] ELSE k
  <2>1. /\ A \o B \in Seq(KeySet) /\ Len(A \o B) = Len(A) + Len(B)
        /\ \A i \in 1 .. (Len(A) + Len(B)) :
             (A \o B)[i] = IF i <= Len(A) THEN A[i] ELSE B[i - Len(A)]
    BY <1>1, <1>2, ConcatProperties
  <2>2. ASSUME NEW i \in 1 .. (p + 1) PROVE AB[i] = IF i <= p THEN K[i] ELSE k
    <3>1. CASE i <= p
      BY <1>1, <1>2, <2>1, <3>1
    <3>2. CASE ~ (i <= p)
      <4>1. i - p = 1
        BY <3>2
      <4> QED
        BY <1>1, <1>2, <2>1, <3>2, <4>1
    <3> QED
      BY <3>1, <3>2
  <2> QED
    BY <1>1, <1>2, <2>1, <2>2
<1> HIDE DEF AB
<1>6. /\ AB \o C \in Seq(KeySet) /\ Len(AB \o C) = Len(AB) + Len(C)
      /\ \A i \in 1 .. (Len(AB) + Len(C)) :
           (AB \o C)[i] = IF i <= Len(AB) THEN AB[i] ELSE C[i - Len(AB)]
  BY <1>3, <1>5, ConcatProperties
<1>7. ASSUME NEW i \in 1 .. Len(K) + 1
      PROVE  (AB \o C)[i] =
                IF i <= p THEN K[i] ELSE IF i = p + 1 THEN k ELSE K[i - 1]
  <2>0. Len(AB) + Len(C) = Len(K) + 1
    BY <1>3, <1>5
  <2>1. CASE i <= p + 1
    <3>1. (AB \o C)[i] = AB[i] /\ i \in 1 .. (p + 1)
      BY <1>5, <1>6, <2>0, <2>1
    <3> QED
      BY <1>5, <2>1, <3>1
  <2>2. CASE ~ (i <= p + 1)
    <3>1. (AB \o C)[i] = C[i - (p + 1)]
      BY <1>5, <1>6, <2>0, <2>2
    <3>2. i - (p + 1) \in 1 .. (Len(K) - p) /\ p + (i - (p + 1)) = i - 1
      BY <2>2
    <3>3. C[i - (p + 1)] = K[p + (i - (p + 1))]
      BY <1>3, <3>2
    <3> QED
      BY <2>2, <3>1, <3>2, <3>3
  <2> QED
    BY <2>1, <2>2
<1>8. Len(AB \o C) = Len(K) + 1
  BY <1>3, <1>5, <1>6
<1>9. AB \o C = InsertAt(K, p + 1, k)
  BY <1>4 DEF AB
<1>10. AB \o C = (SubSeq(K, 1, p) \o <<k>>) \o SubSeq(K, p + 1, Len(K))
  BY DEF AB, A, B, C
<1> QED
  BY <1>6, <1>7, <1>8, <1>9, <1>10

LEMMA KeyNames ==
  ASSUME NEW K \in Seq(KeySet)
  PROVE  \A i \in 1 .. Len(K) : K[i] \in KeySet /\ K[i].name \in Nat /\ K[i].name \in AllNames
<1>1. \A i \in 1 .. Len(K) : K[i] \in KeySet
  OBVIOUS
<1> QED
  BY <1>1, NamesAssumption DEF KeySet

LEMMA FindKeyOf ==
  ASSUME NEW K \in Seq(KeySet), NEW n \in Nat, NEW p \in 0 .. Len(K),
         \A i \in 1 .. Len(K) : K[i].name <= n <=> i <= p
  PROVE  FindKey(K, n) = p
<1>1. {i \in DOMAIN K : K[i].name <= n} = 1 .. p
  <2>1. DOMAIN K = 1 .. Len(K)
    OBVIOUS
  <2>2. \A i : i \in 1 .. p <=> i \in 1 .. Len(K) /\ i <= p
    OBVIOUS
  <2> QED
    BY <2>1, <2>2
<1>2. Cardinality(1 .. p) = p
  BY FS_Interval
<1> QED
  BY <1>1, <1>2 DEF FindKey

LEMMA FindKeyIs ==
  ASSUME NEW K \in Seq(KeySet), Sorted(K), NEW n \in Nat
  PROVE  /\ FindKey(K, n) \in 0 .. Len(K)
         /\ \A i \in 1 .. Len(K) : K[i].name <= n <=> i <= FindKey(K, n)
<1> DEFINE S == {i \in 1 .. Len(K) : K[i].name <= n}
<1>1. \E p \in 0 .. Len(K) : \A i \in 1 .. Len(K) : K[i].name <= n <=> i <= p
  <2>1. CASE S = {}
    <3>1. 0 \in 0 .. Len(K) /\ \A i \in 1 .. Len(K) : ~ (K[i].name <= n) /\ ~ (i <= 0)
      BY <2>1
    <3> QED
      BY <3>1
  <2>2. CASE S # {}
    <3>1. S \in SUBSET (0 .. Len(K)) /\ Len(K) \in Nat
      OBVIOUS
    <3>2. PICK p \in S : \A y \in S : y <= p
      BY <2>2, <3>1, GreatestNumber
    <3>3. ASSUME NEW i \in 1 .. Len(K) PROVE K[i].name <= n <=> i <= p
      <4>1. K[i].name \in Nat /\ K[p].name \in Nat /\ K[p].name <= n /\ p \in 1 .. Len(K)
        BY KeyNames
      <4>2. i < p => K[i].name < K[p].name
        BY <4>1 DEF Sorted
      <4>3. K[i].name <= n => i <= p
        BY <3>2
      <4> QED
        BY <4>1, <4>2, <4>3
    <3> QED
      BY <3>1, <3>2, <3>3
  <2> QED
    BY <2>1, <2>2
<1>2. PICK p \in 0 .. Len(K) : \A i \in 1 .. Len(K) : K[i].name <= n <=> i <= p
  BY <1>1
<1>3. FindKey(K, n) = p
  BY <1>2, FindKeyOf
<1> QED
  BY <1>2, <1>3

LEMMA FoundIs ==
  ASSUME NEW K \in Seq(KeySet), Sorted(K), NEW n \in Nat
  PROVE  /\ Found(K, n) => FindKey(K, n) \in 1 .. Len(K) /\ K[FindKey(K, n)].name = n
         /\ \A i \in 1 .. Len(K) : K[i].name = n => Found(K, n) /\ FindKey(K, n) = i
<1>1. /\ FindKey(K, n) \in 0 .. Len(K)
      /\ \A i \in 1 .. Len(K) : K[i].name <= n <=> i <= FindKey(K, n)
  BY FindKeyIs
<1>2. ASSUME NEW i \in 1 .. Len(K), K[i].name = n
      PROVE  Found(K, n) /\ FindKey(K, n) = i
  <2>1. ASSUME NEW j \in 1 .. Len(K) PROVE K[j].name <= n <=> j <= i
    <3>1. K[j].name \in Nat /\ (i < j => n < K[j].name) /\ (j < i => K[j].name < n)
      BY <1>2, KeyNames DEF Sorted
    <3>2. i < j \/ j < i \/ i = j
      OBVIOUS
    <3> QED
      BY <1>2, <3>1, <3>2
  <2>2. i \in 0 .. Len(K)
    OBVIOUS
  <2>3. FindKey(K, n) = i
    BY <2>1, <2>2, FindKeyOf
  <2> QED
    BY <1>2, <2>3 DEF Found
<1>3. Found(K, n) => FindKey(K, n) \in 1 .. Len(K) /\ K[FindKey(K, n)].name = n
  BY <1>1 DEF Found
<1> QED
  BY <1>2, <1>3

-----------------------------------------------------------------------------
(* Space in a block.                                                       *)

LEMMA RequiredIs ==
  ASSUME NEW name \in AllNames, NEW h
  PROVE  /\ RequiredSpace(name, h) \in Nat
         /\ RequiredSpace(name, h) = Length[name] + (IF h = 0 THEN 8 ELSE 7)
         /\ Length[name] \in Nat /\ (Length[name] = 0 <=> name = 0)
  BY NamesAssumption DEF RequiredSpace

FreeStep(node, f, S) ==
  IF S = {} THEN BlockSize - HeaderSize
  ELSE f[S \ {Max(S)}] - RequiredSpace(node.keys[Max(S)].name, node.height)
IsFreeFold(node, f) == f = [S \in SUBSET DOMAIN node.keys |-> FreeStep(node, f, S)]

LEMMA FreeUnfold ==
  ASSUME NEW node
  PROVE  FreeSpace(node) = (CHOOSE f : IsFreeFold(node, f))[DOMAIN node.keys]
  BY DEF FreeSpace, FoldLeft, MapThenFoldSet, IsFreeFold, FreeStep

(* Free space is what is left after one key after the other.               *)
FreeRun(node, f) ==
  /\ f \in [0 .. Len(node.keys) -> Int]
  /\ f[0] = BlockSize - HeaderSize
  /\ \A i \in 1 .. Len(node.keys) :
       f[i] = f[i - 1] - RequiredSpace(node.keys[i].name, node.height)

LEMMA FreeRuns ==
  ASSUME NEW node, node.keys \in Seq(KeySet)
  PROVE  \E f : FreeRun(node, f) /\ FreeSpace(node) = f[Len(node.keys)]
<1> DEFINE n == Len(node.keys)
           b == BlockSize - HeaderSize
           R == [p \in Int \X (1 .. n) |->
                   p[1] - RequiredSpace(node.keys[p[2]].name, node.height)]
<1>1. n \in Nat /\ b \in Int /\ DOMAIN node.keys = 1 .. n
  BY SizesAssumption
<1>2. ASSUME NEW u \in Int, NEW i \in 1 .. n
      PROVE  R[<<u, i>>] \in Int
             /\ R[<<u, i>>] = u - RequiredSpace(node.keys[i].name, node.height)
  <2>1. RequiredSpace(node.keys[i].name, node.height) \in Nat
    BY KeyNames, RequiredIs
  <2> QED
    BY <2>1
<1> HIDE DEF R, b, n
<1>3. StepsIn(Int, n, R)
  BY <1>2 DEF StepsIn
<1>4. PICK g \in [SUBSET (1 .. n) -> Int] : FoldSolves(n, b, R, g)
  BY <1>1, <1>3, FoldExists
<1>5. IsFreeFold(node, g)
  <2>1. ASSUME NEW S \in SUBSET (1 .. n) PROVE g[S] = FreeStep(node, g, S)
    <3>1. CASE S = {}
      BY <1>4, <3>1 DEF FreeStep, b, FoldSolves
    <3>2. CASE S # {}
      <4>1. Max(S) \in 1 .. n /\ S \ {Max(S)} \in SUBSET (1 .. n)
        BY <1>1, <3>2, MaxIs
      <4>2. g[S] = R[<<g[S \ {Max(S)}], Max(S)>>] /\ g[S \ {Max(S)}] \in Int
        BY <1>4, <3>2, <4>1 DEF FoldSolves
      <4> QED
        BY <1>2, <3>2, <4>1, <4>2 DEF FreeStep
    <3> QED
      BY <3>1, <3>2
  <2>2. g = [S \in SUBSET (1 .. n) |-> g[S]]
    OBVIOUS
  <2> QED
    BY <1>1, <2>1, <2>2 DEF IsFreeFold
<1> DEFINE e == CHOOSE f : IsFreeFold(node, f)
<1>6. IsFreeFold(node, e)
  BY <1>5
<1> HIDE DEF e
<1>7. \A S \in SUBSET (1 .. n) : e[S] = FreeStep(node, e, S)
  BY <1>1, <1>6 DEF IsFreeFold
<1>8. ASSUME NEW S \in SUBSET (1 .. n)
      PROVE  /\ S = {} => e[S] = b
             /\ S # {} /\ e[S \ {Max(S)}] \in Int => e[S] = R[<<e[S \ {Max(S)}], Max(S)>>]
  <2>1. CASE S = {}
    BY <1>7, <2>1 DEF FreeStep, b
  <2>2. CASE S # {}
    <3>1. Max(S) \in 1 .. n
      BY <1>1, <2>2, MaxIs
    <3> QED
      BY <1>2, <1>7, <2>2, <3>1 DEF FreeStep
  <2> QED
    BY <2>1, <2>2
<1>9. FoldGives(Int, n, b, R, e)
  BY <1>8 DEF FoldGives
<1>10. PICK f : Steps(Int, n, b, R, f) /\ f[n] = e[1 .. n]
  BY <1>1, <1>3, <1>9, FoldSteps
<1>11. ASSUME NEW i \in 1 .. n
       PROVE  f[i] = f[i - 1] - RequiredSpace(node.keys[i].name, node.height)
  <2>1. i - 1 \in 0 .. n
    BY <1>1
  <2>2. f[i - 1] \in Int
    BY <1>10, <2>1 DEF Steps
  <2> QED
    BY <1>2, <1>10, <2>2 DEF Steps
<1>12. FreeSpace(node) = f[n]
  BY <1>1, <1>10, FreeUnfold DEF e
<1>13. FreeRun(node, f)
  BY <1>10, <1>11 DEF FreeRun, Steps, n, b
<1> QED
  BY <1>12, <1>13 DEF n

LEMMA FreeRunIs ==
  ASSUME NEW node, node.keys \in Seq(KeySet), NEW f, FreeRun(node, f)
  PROVE  FreeSpace(node) = f[Len(node.keys)] /\ FreeSpace(node) \in Int
<1>1. PICK g : FreeRun(node, g) /\ FreeSpace(node) = g[Len(node.keys)]
  BY FreeRuns
<1> DEFINE n == Len(node.keys)
           D == {i \in Nat : i <= n => f[i] = g[i]}
<1>2. n \in Nat
  OBVIOUS
<1>3. 0 \in D
  BY <1>1 DEF FreeRun
<1>4. ASSUME NEW i \in Nat, i \in D PROVE i + 1 \in D
  <2> SUFFICES ASSUME i + 1 <= n PROVE f[i + 1] = g[i + 1]
    OBVIOUS
  <2>1. i + 1 \in 1 .. n /\ (i + 1) - 1 = i /\ f[i] = g[i]
    BY <1>2, <1>4
  <2> QED
    BY <1>1, <2>1 DEF FreeRun
<1>5. \A i \in Nat : i \in D
  <2> HIDE DEF D
  <2> QED
    BY <1>3, <1>4, NatSet
<1>6. f[n] = g[n] /\ n \in 0 .. n
  BY <1>2, <1>5
<1> QED
  BY <1>1, <1>6 DEF FreeRun

Node(h, K) == [height |-> h, keys |-> K]

LEMMA FreeEmpty ==
  ASSUME NEW h
  PROVE  FreeSpace(Node(h, <<>>)) = BlockSize - HeaderSize
<1>1. PICK f : FreeRun(Node(h, <<>>), f) /\ FreeSpace(Node(h, <<>>)) = f[Len(<<>>)]
  <2>1. Node(h, <<>>).keys = <<>> /\ <<>> \in Seq(KeySet)
    BY DEF Node
  <2> QED
    BY <2>1, FreeRuns
<1> QED
  BY <1>1 DEF FreeRun

LEMMA FreeConcat ==
  ASSUME NEW h, NEW A \in Seq(KeySet), NEW B \in Seq(KeySet)
  PROVE  FreeSpace(Node(h, A \o B))
           = FreeSpace(Node(h, A)) + FreeSpace(Node(h, B)) - (BlockSize - HeaderSize)
<1>1. /\ Node(h, A).keys = A /\ Node(h, A).height = h
      /\ Node(h, B).keys = B /\ Node(h, B).height = h
      /\ Node(h, A \o B).keys = A \o B /\ Node(h, A \o B).height = h
  BY DEF Node
<1>2. /\ A \o B \in Seq(KeySet) /\ Len(A \o B) = Len(A) + Len(B)
      /\ \A i \in 1 .. (Len(A) + Len(B)) :
           (A \o B)[i] = IF i <= Len(A) THEN A[i] ELSE B[i - Len(A)]
  BY ConcatProperties
<1>3. PICK f : FreeRun(Node(h, A), f) /\ FreeSpace(Node(h, A)) = f[Len(A)]
  BY <1>1, FreeRuns
<1>4. PICK g : FreeRun(Node(h, B), g) /\ FreeSpace(Node(h, B)) = g[Len(B)]
  BY <1>1, FreeRuns
<1> DEFINE b == BlockSize - HeaderSize
           a == Len(A)
           n == Len(A) + Len(B)
           e == [i \in 0 .. n |-> IF i <= a THEN f[i] ELSE f[a] + g[i - a] - b]
<1>5. a \in Nat /\ Len(B) \in Nat /\ n \in Nat /\ b \in Int /\ n - a = Len(B)
  BY SizesAssumption
<1>6. /\ f \in [0 .. a -> Int] /\ f[0] = b
      /\ \A i \in 1 .. a : f[i] = f[i - 1] - RequiredSpace(A[i].name, h)
  BY <1>1, <1>3 DEF FreeRun
<1>7. /\ g \in [0 .. Len(B) -> Int] /\ g[0] = b
      /\ \A i \in 1 .. Len(B) : g[i] = g[i - 1] - RequiredSpace(B[i].name, h)
  BY <1>1, <1>4 DEF FreeRun
<1> HIDE DEF b
<1>8. ASSUME NEW i \in 0 .. n PROVE e[i] \in Int
  <2>1. CASE i <= a
    BY <1>5, <1>6, <2>1
  <2>2. CASE ~ (i <= a)
    <3>1. i - a \in 0 .. Len(B) /\ a \in 0 .. a
      BY <1>5, <2>2
    <3>2. g[i - a] \in Int /\ f[a] \in Int
      BY <1>6, <1>7, <3>1
    <3> QED
      BY <1>5, <2>2, <3>2
  <2> QED
    BY <2>1, <2>2
<1>9. ASSUME NEW i \in 1 .. n
      PROVE  e[i] = e[i - 1] - RequiredSpace((A \o B)[i].name, h)
  <2>1. i \in 0 .. n /\ i - 1 \in 0 .. n
    BY <1>5
  <2>2. CASE i <= a
    <3>1. i \in 1 .. a /\ i - 1 <= a /\ (A \o B)[i] = A[i]
      BY <1>2, <1>5, <2>2
    <3> QED
      BY <1>6, <2>1, <2>2, <3>1
  <2>3. CASE ~ (i <= a)
    <3>1. i - a \in 1 .. Len(B) /\ (A \o B)[i] = B[i - a] /\ (i - a) - 1 = (i - 1) - a
          /\ (i - a) - 1 \in 0 .. Len(B)
      BY <1>2, <1>5, <2>3
    <3>2. e[i - 1] = f[a] + g[(i - 1) - a] - b
      <4>1. CASE i - 1 = a
        <5>1. (i - 1) - a = 0 /\ a \in 0 .. a /\ f[a] \in Int
          BY <1>5, <1>6, <4>1
        <5>2. e[i - 1] = f[a]
          BY <2>1, <4>1
        <5> QED
          BY <1>5, <1>7, <5>1, <5>2
      <4>2. CASE i - 1 # a
        <5>1. ~ (i - 1 <= a)
          BY <1>5, <2>3, <4>2
        <5> QED
          BY <2>1, <5>1
      <4> QED
        BY <4>1, <4>2
    <3>3. e[i] = f[a] + g[i - a] - b
      BY <2>1, <2>3
    <3>4. g[i - a] = g[(i - 1) - a] - RequiredSpace(B[i - a].name, h) /\ g[(i - 1) - a] \in Int
      BY <1>7, <3>1
    <3>5. RequiredSpace(B[i - a].name, h) \in Nat /\ f[a] \in Int
      <4>1. a \in 0 .. a
        BY <1>5
      <4> QED
        BY <1>6, <3>1, <4>1, KeyNames, RequiredIs
    <3> HIDE DEF e
    <3> QED
      BY <1>5, <3>1, <3>2, <3>3, <3>4, <3>5
  <2> QED
    BY <2>2, <2>3
<1>10. FreeRun(Node(h, A \o B), e)
  <2>1. e[0] = b
    BY <1>5, <1>6
  <2>2. e \in [0 .. n -> Int]
    BY <1>8
  <2> HIDE DEF e
  <2> QED
    BY <1>1, <1>2, <1>9, <2>1, <2>2 DEF FreeRun, b
<1>11. FreeSpace(Node(h, A \o B)) = e[n]
  BY <1>1, <1>2, <1>10, FreeRunIs
<1>12. e[n] = f[a] + g[Len(B)] - b
  <2>1. CASE Len(B) = 0
    <3>1. n <= a /\ n = a /\ n \in 0 .. n /\ a \in 0 .. a
      BY <1>5, <2>1
    <3>2. e[n] = f[a] /\ f[a] \in Int
      BY <1>6, <3>1
    <3> HIDE DEF e
    <3> QED
      BY <1>5, <1>7, <2>1, <3>2
  <2>2. CASE Len(B) # 0
    BY <1>5, <2>2
  <2> QED
    BY <2>1, <2>2
<1> QED
  BY <1>3, <1>4, <1>11, <1>12 DEF b

LEMMA FreeOne ==
  ASSUME NEW h, NEW k \in KeySet
  PROVE  FreeSpace(Node(h, <<k>>)) = BlockSize - HeaderSize - RequiredSpace(k.name, h)
<1> DEFINE K == <<k>>
<1>1. K \in Seq(KeySet) /\ Len(K) = 1 /\ K[1] = k /\ Node(h, K).keys = K /\ Node(h, K).height = h
  BY DEF Node
<1> HIDE DEF K
<1>2. PICK f : FreeRun(Node(h, K), f) /\ FreeSpace(Node(h, K)) = f[1]
  BY <1>1, FreeRuns
<1>3. f[1] = f[0] - RequiredSpace(k.name, h) /\ f[0] = BlockSize - HeaderSize
  <2>1. 1 \in 1 .. Len(K) /\ 1 - 1 = 0
    BY <1>1
  <2> QED
    BY <1>1, <1>2, <2>1 DEF FreeRun
<1> QED
  BY <1>2, <1>3 DEF K

(* The more names, the less space.                                         *)
LEMMA FreeAtMost ==
  ASSUME NEW h, NEW K \in Seq(KeySet)
  PROVE  FreeSpace(Node(h, K)) \in Int /\ FreeSpace(Node(h, K)) <= BlockSize - HeaderSize
<1>1. Node(h, K).keys = K /\ Node(h, K).height = h
  BY DEF Node
<1>2. PICK f : FreeRun(Node(h, K), f) /\ FreeSpace(Node(h, K)) = f[Len(K)]
  BY <1>1, FreeRuns
<1> DEFINE n == Len(K)
           b == BlockSize - HeaderSize
           D == {i \in Nat : i <= n => f[i] <= b}
<1>3. n \in Nat /\ b \in Int /\ f \in [0 .. n -> Int] /\ f[0] = b
  BY <1>1, <1>2, SizesAssumption DEF FreeRun
<1>4. 0 \in D
  BY <1>3
<1>5. ASSUME NEW i \in Nat, i \in D PROVE i + 1 \in D
  <2> SUFFICES ASSUME i + 1 <= n PROVE f[i + 1] <= b
    OBVIOUS
  <2>1. i + 1 \in 1 .. n /\ (i + 1) - 1 = i /\ f[i] <= b /\ i \in 0 .. n
    BY <1>3, <1>5
  <2>2. f[i + 1] = f[i] - RequiredSpace(K[i + 1].name, h) /\ f[i] \in Int
    BY <1>1, <1>2, <1>3, <2>1 DEF FreeRun
  <2>3. RequiredSpace(K[i + 1].name, h) \in Nat
    BY <2>1, KeyNames, RequiredIs
  <2> HIDE DEF b
  <2> QED
    BY <1>3, <2>1, <2>2, <2>3
<1>6. \A i \in Nat : i \in D
  <2> HIDE DEF D
  <2> QED
    BY <1>4, <1>5, NatSet
<1>7. f[n] <= b /\ n \in 0 .. n
  BY <1>3, <1>6
<1> QED
  BY <1>2, <1>3, <1>7

LEMMA FreeSameNames ==
  ASSUME NEW h, NEW K \in Seq(KeySet), NEW J \in Seq(KeySet), Len(J) = Len(K),
         \A i \in 1 .. Len(K) : J[i].name = K[i].name
  PROVE  FreeSpace(Node(h, J)) = FreeSpace(Node(h, K))
<1>1. /\ Node(h, K).keys = K /\ Node(h, K).height = h
      /\ Node(h, J).keys = J /\ Node(h, J).height = h
  BY DEF Node
<1>2. PICK f : FreeRun(Node(h, K), f) /\ FreeSpace(Node(h, K)) = f[Len(K)]
  BY <1>1, FreeRuns
<1>3. FreeRun(Node(h, J), f)
  BY <1>1, <1>2 DEF FreeRun
<1> QED
  BY <1>1, <1>2, <1>3, FreeRunIs

LEMMA FreeInsert ==
  ASSUME NEW h, NEW K \in Seq(KeySet), NEW p \in 0 .. Len(K), NEW k \in KeySet
  PROVE  FreeSpace(Node(h, InsertAt(K, p + 1, k)))
           = FreeSpace(Node(h, K)) - RequiredSpace(k.name, h)
<1> DEFINE A == SubSeq(K, 1, p)
           C == SubSeq(K, p + 1, Len(K))
           b == BlockSize - HeaderSize
<1>1. /\ A \in Seq(KeySet) /\ C \in Seq(KeySet) /\ A \o C = K
      /\ InsertAt(K, p + 1, k) = (A \o <<k>>) \o C
  <2>1. A \in Seq(KeySet) /\ C \in Seq(KeySet) /\ A \o C = K
    BY HalvesAre
  <2>2. InsertAt(K, p + 1, k) = (A \o <<k>>) \o C
    BY KeyInserted
  <2> QED
    BY <2>1, <2>2
<1> HIDE DEF A, C
<1>2. <<k>> \in Seq(KeySet) /\ A \o <<k>> \in Seq(KeySet)
  <2>1. <<k>> \in Seq(KeySet)
    OBVIOUS
  <2> QED
    BY <1>1, <2>1, ConcatProperties
<1>3. FreeSpace(Node(h, K)) = FreeSpace(Node(h, A)) + FreeSpace(Node(h, C)) - b
  BY <1>1, FreeConcat
<1>4. FreeSpace(Node(h, A \o <<k>>)) = FreeSpace(Node(h, A)) + FreeSpace(Node(h, <<k>>)) - b
  BY <1>1, <1>2, FreeConcat
<1>5. FreeSpace(Node(h, (A \o <<k>>) \o C))
        = FreeSpace(Node(h, A \o <<k>>)) + FreeSpace(Node(h, C)) - b
  BY <1>1, <1>2, FreeConcat
<1>6. FreeSpace(Node(h, <<k>>)) = b - RequiredSpace(k.name, h)
  BY FreeOne
<1>7. /\ FreeSpace(Node(h, A)) \in Int /\ FreeSpace(Node(h, C)) \in Int
      /\ b \in Int /\ RequiredSpace(k.name, h) \in Int
  <2>1. k.name \in AllNames
    BY DEF KeySet
  <2> QED
    BY <1>1, <2>1, FreeAtMost, RequiredIs, SizesAssumption
<1> HIDE DEF b
<1>8. FreeSpace(Node(h, A \o <<k>>)) = FreeSpace(Node(h, A)) - RequiredSpace(k.name, h)
  BY <1>4, <1>6, <1>7
<1>9. FreeSpace(Node(h, (A \o <<k>>) \o C))
        = FreeSpace(Node(h, A)) - RequiredSpace(k.name, h) + FreeSpace(Node(h, C)) - b
  BY <1>5, <1>8
<1>10. FreeSpace(Node(h, (A \o <<k>>) \o C)) = FreeSpace(Node(h, K)) - RequiredSpace(k.name, h)
  <2> DEFINE x == FreeSpace(Node(h, A))
             y == FreeSpace(Node(h, C))
             w == RequiredSpace(k.name, h)
  <2>1. x \in Int /\ y \in Int /\ w \in Int /\ b \in Int
    BY <1>7
  <2>2. x - w + y - b = (x + y - b) - w
    <3> HIDE DEF x, y, w
    <3> QED
      BY <2>1
  <2> QED
    BY <1>3, <1>9, <2>2
<1> QED
  BY <1>1, <1>10

LEMMA FreeHalves ==
  ASSUME NEW h, NEW K \in Seq(KeySet), NEW q \in 0 .. Len(K)
  PROVE  /\ FreeSpace(Node(h, SubSeq(K, 1, q))) >= FreeSpace(Node(h, K))
         /\ FreeSpace(Node(h, SubSeq(K, q + 1, Len(K)))) >= FreeSpace(Node(h, K))
         /\ FreeSpace(Node(h, K)) = FreeSpace(Node(h, SubSeq(K, 1, q)))
              + FreeSpace(Node(h, SubSeq(K, q + 1, Len(K)))) - (BlockSize - HeaderSize)
<1> DEFINE A == SubSeq(K, 1, q)
           C == SubSeq(K, q + 1, Len(K))
           b == BlockSize - HeaderSize
<1>1. A \in Seq(KeySet) /\ C \in Seq(KeySet) /\ A \o C = K
  BY HalvesAre
<1> HIDE DEF A, C
<1>2. FreeSpace(Node(h, K)) = FreeSpace(Node(h, A)) + FreeSpace(Node(h, C)) - b
  BY <1>1, FreeConcat
<1>3. /\ FreeSpace(Node(h, A)) \in Int /\ FreeSpace(Node(h, A)) <= b
      /\ FreeSpace(Node(h, C)) \in Int /\ FreeSpace(Node(h, C)) <= b /\ b \in Int
  BY <1>1, FreeAtMost, SizesAssumption
<1> HIDE DEF b
<1>4. /\ FreeSpace(Node(h, A)) >= FreeSpace(Node(h, K))
      /\ FreeSpace(Node(h, C)) >= FreeSpace(Node(h, K))
  BY <1>2, <1>3
<1> QED
  BY <1>2, <1>4 DEF A, C, b

LEMMA FreeRemove ==
  ASSUME NEW h, NEW K \in Seq(KeySet), NEW p \in 1 .. Len(K)
  PROVE  FreeSpace(Node(h, RemoveAt(K, p)))
           = FreeSpace(Node(h, K)) + RequiredSpace(K[p].name, h)
<1> DEFINE A == SubSeq(K, 1, p - 1)
           B == SubSeq(K, p, Len(K))
           C == SubSeq(K, p + 1, Len(K))
           b == BlockSize - HeaderSize
           k == K[p]
<1>1. p - 1 \in 0 .. Len(K) /\ (p - 1) + 1 = p /\ p \in 0 .. Len(K)
  OBVIOUS
<1>2. A \in Seq(KeySet) /\ B \in Seq(KeySet) /\ A \o B = K
  BY <1>1, HalvesAre
<1>3. C \in Seq(KeySet) /\ RemoveAt(K, p) = A \o C
  BY <1>1, HalvesAre, RemoveAtIs
<1>4. <<k>> \in Seq(KeySet) /\ <<k>> \o C = B /\ k \in KeySet
  <2>1. k \in KeySet
    BY KeyNames
  <2>2. /\ Len(C) = Len(K) - p /\ \A i \in 1 .. (Len(K) - p) : C[i] = K[p + i]
    BY <1>1, HalvesAre
  <2>3. Len(B) = Len(K) - (p - 1) /\ \A i \in 1 .. (Len(K) - (p - 1)) : B[i] = K[(p - 1) + i]
    BY <1>1, HalvesAre
  <2>4. <<k>> \in Seq(KeySet) /\ Len(<<k>>) = 1 /\ <<k>>[1] = k
    BY <2>1
  <2> DEFINE J == <<k>>
  <2> HIDE DEF J, B, C
  <2>5. /\ J \o C \in Seq(KeySet) /\ Len(J \o C) = Len(J) + Len(C)
        /\ \A i \in 1 .. (Len(J) + Len(C)) :
             (J \o C)[i] = IF i <= Len(J) THEN J[i] ELSE C[i - Len(J)]
    BY <1>3, <2>4, ConcatProperties DEF J
  <2>6. Len(J) = 1 /\ J[1] = K[p]
    BY <2>4 DEF J
  <2>7. Len(J \o C) = Len(B)
    BY <2>2, <2>3, <2>5, <2>6
  <2>8. ASSUME NEW i \in 1 .. Len(B) PROVE (J \o C)[i] = B[i]
    <3>1. B[i] = K[(p - 1) + i] /\ (J \o C)[i] = IF i <= 1 THEN J[i] ELSE C[i - 1]
      BY <2>2, <2>3, <2>5, <2>6, <2>7
    <3>2. CASE i = 1
      BY <1>1, <2>6, <3>1, <3>2
    <3>3. CASE i # 1
      <4>1. i - 1 \in 1 .. (Len(K) - p) /\ p + (i - 1) = (p - 1) + i /\ ~ (i <= 1)
        BY <2>3, <3>3
      <4>2. C[i - 1] = K[p + (i - 1)]
        BY <2>2, <4>1
      <4> QED
        BY <3>1, <4>1, <4>2
    <3> QED
      BY <3>2, <3>3
  <2>9. J \o C = B
    BY <1>2, <2>5, <2>7, <2>8, SeqEqual
  <2> QED
    BY <2>1, <2>4, <2>9 DEF J
<1> HIDE DEF A, B, C, k
<1>5. FreeSpace(Node(h, K)) = FreeSpace(Node(h, A)) + FreeSpace(Node(h, B)) - b
  BY <1>2, FreeConcat
<1>6. FreeSpace(Node(h, A \o C)) = FreeSpace(Node(h, A)) + FreeSpace(Node(h, C)) - b
  BY <1>2, <1>3, FreeConcat
<1>7. FreeSpace(Node(h, <<k>> \o C)) = FreeSpace(Node(h, <<k>>)) + FreeSpace(Node(h, C)) - b
  BY <1>3, <1>4, FreeConcat
<1>8. FreeSpace(Node(h, <<k>>)) = b - RequiredSpace(k.name, h)
  BY <1>4, FreeOne
<1>9. /\ FreeSpace(Node(h, A)) \in Int /\ FreeSpace(Node(h, C)) \in Int
      /\ b \in Int /\ RequiredSpace(k.name, h) \in Int
  <2>1. k.name \in AllNames
    BY <1>4 DEF KeySet
  <2> QED
    BY <1>2, <1>3, <2>1, FreeAtMost, RequiredIs, SizesAssumption
<1> HIDE DEF b
<1>10. FreeSpace(Node(h, A \o C)) = FreeSpace(Node(h, K)) + RequiredSpace(k.name, h)
  <2> DEFINE x == FreeSpace(Node(h, A))
             y == FreeSpace(Node(h, C))
             w == RequiredSpace(k.name, h)
  <2>1. x \in Int /\ y \in Int /\ w \in Int /\ b \in Int
    BY <1>9
  <2>2. FreeSpace(Node(h, B)) = (b - w) + y - b
    BY <1>4, <1>7, <1>8
  <2>3. FreeSpace(Node(h, K)) = x + ((b - w) + y - b) - b
    BY <1>5, <2>2
  <2>4. FreeSpace(Node(h, A \o C)) = x + y - b
    BY <1>6
  <2>5. x + y - b = (x + ((b - w) + y - b) - b) + w
    <3> HIDE DEF x, y, w
    <3> QED
      BY <2>1
  <2> QED
    BY <2>3, <2>4, <2>5
<1> QED
  BY <1>3, <1>10 DEF k

-----------------------------------------------------------------------------
(* The bytes of the names.                                                 *)

StringStep(K, f, S) == IF S = {} THEN 0 ELSE f[S \ {Max(S)}] + Length[K[Max(S)].name] + 1
IsStringFold(K, f) == f = [S \in SUBSET DOMAIN K |-> StringStep(K, f, S)]

LEMMA StringUnfold ==
  ASSUME NEW K
  PROVE  StringSize(K) = (CHOOSE f : IsStringFold(K, f))[DOMAIN K]
  BY DEF StringSize, FoldLeft, MapThenFoldSet, IsStringFold, StringStep

StringRun(K, f) ==
  /\ f \in [0 .. Len(K) -> Nat]
  /\ f[0] = 0
  /\ \A i \in 1 .. Len(K) : f[i] = f[i - 1] + Length[K[i].name] + 1

LEMMA StringRuns ==
  ASSUME NEW K \in Seq(KeySet)
  PROVE  \E f : StringRun(K, f) /\ StringSize(K) = f[Len(K)]
<1> DEFINE n == Len(K)
           R == [p \in Nat \X (1 .. n) |-> p[1] + Length[K[p[2]].name] + 1]
<1>1. n \in Nat /\ 0 \in Nat /\ DOMAIN K = 1 .. n
  OBVIOUS
<1>2. ASSUME NEW u \in Nat, NEW i \in 1 .. n
      PROVE  R[<<u, i>>] \in Nat /\ R[<<u, i>>] = u + Length[K[i].name] + 1
  <2>1. Length[K[i].name] \in Nat
    BY KeyNames, RequiredIs
  <2> QED
    BY <2>1
<1> HIDE DEF R, n
<1>3. StepsIn(Nat, n, R)
  BY <1>2 DEF StepsIn
<1>4. PICK g \in [SUBSET (1 .. n) -> Nat] : FoldSolves(n, 0, R, g)
  BY <1>1, <1>3, FoldExists
<1>5. IsStringFold(K, g)
  <2>1. ASSUME NEW S \in SUBSET (1 .. n) PROVE g[S] = StringStep(K, g, S)
    <3>1. CASE S = {}
      BY <1>4, <3>1 DEF StringStep, FoldSolves
    <3>2. CASE S # {}
      <4>1. Max(S) \in 1 .. n /\ S \ {Max(S)} \in SUBSET (1 .. n)
        BY <1>1, <3>2, MaxIs
      <4>2. g[S] = R[<<g[S \ {Max(S)}], Max(S)>>] /\ g[S \ {Max(S)}] \in Nat
        BY <1>4, <3>2, <4>1 DEF FoldSolves
      <4> QED
        BY <1>2, <3>2, <4>1, <4>2 DEF StringStep
    <3> QED
      BY <3>1, <3>2
  <2>2. g = [S \in SUBSET (1 .. n) |-> g[S]]
    OBVIOUS
  <2> QED
    BY <1>1, <2>1, <2>2 DEF IsStringFold
<1> DEFINE e == CHOOSE f : IsStringFold(K, f)
<1>6. IsStringFold(K, e)
  BY <1>5
<1> HIDE DEF e
<1>7. \A S \in SUBSET (1 .. n) : e[S] = StringStep(K, e, S)
  BY <1>1, <1>6 DEF IsStringFold
<1>8. ASSUME NEW S \in SUBSET (1 .. n)
      PROVE  /\ S = {} => e[S] = 0
             /\ S # {} /\ e[S \ {Max(S)}] \in Nat => e[S] = R[<<e[S \ {Max(S)}], Max(S)>>]
  <2>1. CASE S = {}
    BY <1>7, <2>1 DEF StringStep
  <2>2. CASE S # {}
    <3>1. Max(S) \in 1 .. n
      BY <1>1, <2>2, MaxIs
    <3> QED
      BY <1>2, <1>7, <2>2, <3>1 DEF StringStep
  <2> QED
    BY <2>1, <2>2
<1>9. FoldGives(Nat, n, 0, R, e)
  BY <1>8 DEF FoldGives
<1>10. PICK f : Steps(Nat, n, 0, R, f) /\ f[n] = e[1 .. n]
  BY <1>1, <1>3, <1>9, FoldSteps
<1>11. ASSUME NEW i \in 1 .. n PROVE f[i] = f[i - 1] + Length[K[i].name] + 1
  <2>1. i - 1 \in 0 .. n
    BY <1>1
  <2>2. f[i - 1] \in Nat
    BY <1>10, <2>1 DEF Steps
  <2> QED
    BY <1>2, <1>10, <2>2 DEF Steps
<1>12. StringSize(K) = f[n]
  BY <1>1, <1>10, StringUnfold DEF e
<1>13. StringRun(K, f)
  BY <1>10, <1>11 DEF StringRun, Steps, n
<1> QED
  BY <1>12, <1>13 DEF n

LEMMA StringRunIs ==
  ASSUME NEW K \in Seq(KeySet), NEW f, StringRun(K, f)
  PROVE  StringSize(K) = f[Len(K)] /\ StringSize(K) \in Nat
<1>1. PICK g : StringRun(K, g) /\ StringSize(K) = g[Len(K)]
  BY StringRuns
<1> DEFINE n == Len(K)
           D == {i \in Nat : i <= n => f[i] = g[i]}
<1>2. n \in Nat
  OBVIOUS
<1>3. 0 \in D
  BY <1>1 DEF StringRun
<1>4. ASSUME NEW i \in Nat, i \in D PROVE i + 1 \in D
  <2> SUFFICES ASSUME i + 1 <= n PROVE f[i + 1] = g[i + 1]
    OBVIOUS
  <2>1. i + 1 \in 1 .. n /\ (i + 1) - 1 = i /\ f[i] = g[i]
    BY <1>2, <1>4
  <2> QED
    BY <1>1, <2>1 DEF StringRun
<1>5. \A i \in Nat : i \in D
  <2> HIDE DEF D
  <2> QED
    BY <1>3, <1>4, NatSet
<1>6. f[n] = g[n] /\ n \in 0 .. n
  BY <1>2, <1>5
<1> QED
  BY <1>1, <1>6 DEF StringRun

(* Every prefix of the keys has the bytes of that step of the run.         *)
LEMMA StringPrefix ==
  ASSUME NEW K \in Seq(KeySet), NEW f, StringRun(K, f), NEW q \in 0 .. Len(K)
  PROVE  StringSize(SubSeq(K, 1, q)) = f[q]
<1> DEFINE A == SubSeq(K, 1, q)
           g == [i \in 0 .. q |-> f[i]]
<1>1. A \in Seq(KeySet) /\ Len(A) = q /\ \A i \in 1 .. q : A[i] = K[i]
  BY HalvesAre
<1> HIDE DEF A
<1>2. StringRun(A, g)
  <2>1. q \in Nat /\ Len(K) \in Nat
    OBVIOUS
  <2>2. \A i \in 0 .. q : i \in 0 .. Len(K) /\ f[i] \in Nat
    BY <2>1 DEF StringRun
  <2>3. g \in [0 .. q -> Nat]
    BY <2>2
  <2>4. g[0] = 0
    BY <2>1 DEF StringRun
  <2>5. ASSUME NEW i \in 1 .. q PROVE g[i] = g[i - 1] + Length[A[i].name] + 1
    <3>1. i \in 1 .. Len(K) /\ i \in 0 .. q /\ i - 1 \in 0 .. q
      BY <2>1
    <3>2. g[i] = f[i] /\ g[i - 1] = f[i - 1]
      BY <3>1
    <3> HIDE DEF g
    <3> QED
      BY <1>1, <3>1, <3>2 DEF StringRun
  <2> QED
    BY <1>1, <2>3, <2>4, <2>5 DEF StringRun
<1>3. StringSize(A) = g[q]
  BY <1>1, <1>2, StringRunIs
<1>4. g[q] = f[q]
  OBVIOUS
<1> QED
  BY <1>3, <1>4 DEF A

(* Each key takes at least a byte, and a key but "" at least two.          *)
LEMMA StringGrows ==
  ASSUME NEW K \in Seq(KeySet), NEW f, StringRun(K, f)
  PROVE  \A i \in 0 .. Len(K) : f[i] >= i
<1> DEFINE D == {i \in Nat : i <= Len(K) => f[i] >= i}
<1>1. 0 \in D
  BY DEF StringRun
<1>2. ASSUME NEW i \in Nat, i \in D PROVE i + 1 \in D
  <2> SUFFICES ASSUME i + 1 <= Len(K) PROVE f[i + 1] >= i + 1
    OBVIOUS
  <2>1. i + 1 \in 1 .. Len(K) /\ (i + 1) - 1 = i /\ f[i] >= i /\ i \in 0 .. Len(K)
    BY <1>2
  <2>2. f[i + 1] = f[i] + Length[K[i + 1].name] + 1 /\ f[i] \in Nat
    BY <2>1 DEF StringRun
  <2>3. Length[K[i + 1].name] \in Nat
    BY <2>1, KeyNames, RequiredIs
  <2> QED
    BY <2>1, <2>2, <2>3
<1>3. \A i \in Nat : i \in D
  <2> HIDE DEF D
  <2> QED
    BY <1>1, <1>2, NatSet
<1> QED
  BY <1>3

LEMMA PivotIs ==
  ASSUME NEW K \in Seq(KeySet), NEW f, StringRun(K, f)
  PROVE  /\ Pivot(K) \in 0 .. Len(K)
         /\ f[Pivot(K)] >= StringSize(K) \div 2
         /\ \A j \in 0 .. Len(K) : f[j] >= StringSize(K) \div 2 => Pivot(K) <= j
<1> DEFINE S == StringSize(K)
           T == {i \in 0 .. Len(K) : f[i] >= S \div 2}
           Half(i) == StringSize(SubSeq(K, 1, i)) >= S \div 2
<1>1. S = f[Len(K)] /\ S \in Nat
  BY StringRunIs
<1>2. \A i \in 0 .. Len(K) : StringSize(SubSeq(K, 1, i)) = f[i]
  BY StringPrefix
<1>3. Len(K) \in T
  <2>1. S >= S \div 2
    BY <1>1
  <2> QED
    BY <1>1, <2>1
<1>4. PICK p \in T : \A y \in T : p <= y
  <2>1. T \in SUBSET Nat
    OBVIOUS
  <2> QED
    BY <1>3, <2>1, LeastNatural
<1>5. p \in 0 .. Len(K) /\ Half(p) /\ \A j \in 0 .. Len(K) : Half(j) => p <= j
  BY <1>2, <1>4
<1> DEFINE P == CHOOSE i \in 0 .. Len(K) : Half(i) /\ \A j \in 0 .. Len(K) : Half(j) => i <= j
<1>6. P \in 0 .. Len(K) /\ Half(P) /\ \A j \in 0 .. Len(K) : Half(j) => P <= j
  <2> HIDE DEF Half
  <2> QED
    BY <1>5
<1>7. Pivot(K) = P
  BY DEF Pivot
<1> HIDE DEF P
<1> QED
  BY <1>2, <1>6, <1>7

LEMMA PivotPositive ==
  ASSUME NEW K \in Seq(KeySet), Pivot(K) = 0, K # <<>>
  PROVE  Len(K) = 1 /\ K[1].name = 0
<1>1. PICK f : StringRun(K, f) /\ StringSize(K) = f[Len(K)]
  BY StringRuns
<1>2. StringSize(K) \in Nat /\ f[0] = 0 /\ f[0] >= StringSize(K) \div 2
  BY <1>1, StringRunIs, PivotIs DEF StringRun
<1>3. StringSize(K) <= 1
  BY <1>2
<1>4. Len(K) \in Nat /\ Len(K) # 0
  BY EmptySeq
<1>5. Len(K) = 1
  <2>1. Len(K) \in 0 .. Len(K)
    BY <1>4
  <2>2. f[Len(K)] >= Len(K)
    BY <1>1, <2>1, StringGrows
  <2>3. StringSize(K) >= Len(K)
    BY <1>1, <2>2
  <2> DEFINE x == StringSize(K)
             y == Len(K)
  <2>4. x \in Nat /\ y \in Nat /\ x >= y /\ x <= 1 /\ y # 0
    BY <1>2, <1>3, <1>4, <2>3
  <2> HIDE DEF x, y
  <2>5. y = 1
    BY <2>4
  <2> QED
    BY <2>5 DEF y
<1>6. f[1] = f[0] + Length[K[1].name] + 1
  <2>1. 1 \in 1 .. Len(K) /\ 1 - 1 = 0
    BY <1>5
  <2> QED
    BY <1>1, <2>1 DEF StringRun
<1>7. Length[K[1].name] \in Nat /\ (Length[K[1].name] = 0 <=> K[1].name = 0)
  <2>1. 1 \in 1 .. Len(K)
    BY <1>5
  <2> QED
    BY <2>1, KeyNames, RequiredIs
<1> QED
  BY <1>1, <1>2, <1>3, <1>5, <1>6, <1>7

-----------------------------------------------------------------------------
(* Trees as values.                                                        *)

Faults == {"none", "space", "pivot", "exists", "missing", "extent", "full"}
BlockSet == [height : Int, keys : Seq(KeySet)]
NodeMap == [TreeBlocks -> BlockSet]
TreeSet == [root : TreeBlocks, fault : Faults, nodes : NodeMap]

Blocks(N) == {l \in TreeBlocks : N[l] # FreeBlock}
With(N, l, node) == [N EXCEPT ![l] = node]

LEMMA LocsAre == ASSUME NEW t PROVE Locs(t) = Blocks(t.nodes)
  BY DEF Locs, Blocks

LEMMA NodeIn == ASSUME NEW h \in Int, NEW K \in Seq(KeySet) PROVE Node(h, K) \in BlockSet
  BY DEF Node, BlockSet

LEMMA BlockIsNode ==
  ASSUME NEW node \in BlockSet
  PROVE  /\ node = Node(node.height, node.keys)
         /\ node.height \in Int /\ node.keys \in Seq(KeySet)
  BY DEF Node, BlockSet

LEMMA NodeFields == ASSUME NEW h, NEW K PROVE Node(h, K).height = h /\ Node(h, K).keys = K
  BY DEF Node

LEMMA WithIs ==
  ASSUME NEW N \in NodeMap, NEW l \in TreeBlocks, NEW node \in BlockSet
  PROVE  /\ With(N, l, node) \in NodeMap
         /\ With(N, l, node)[l] = node
         /\ \A m \in TreeBlocks : m # l => With(N, l, node)[m] = N[m]
  BY DEF With, NodeMap

(* Two trees that differ in their blocks.                                  *)
Changed(t, N) == [t EXCEPT !.nodes = N]

LEMMA TreeFields ==
  ASSUME NEW t \in TreeSet
  PROVE  t.root \in TreeBlocks /\ t.fault \in Faults /\ t.nodes \in NodeMap
         /\ \A l \in TreeBlocks : t.nodes[l] \in BlockSet
  BY DEF TreeSet, NodeMap

LEMMA ChangedIs ==
  ASSUME NEW t \in TreeSet, NEW N \in NodeMap
  PROVE  /\ Changed(t, N) \in TreeSet /\ Changed(t, N).nodes = N
         /\ Changed(t, N).root = t.root /\ Changed(t, N).fault = t.fault
         /\ \A M : Changed(Changed(t, N), M) = Changed(t, M)
  BY DEF Changed, TreeSet

LEMMA FailIs ==
  ASSUME NEW t \in TreeSet, NEW why \in Faults \ {"none"}
  PROVE  /\ Fail(t, why) \in TreeSet /\ Fail(t, why).fault # "none"
         /\ Fail(t, why).nodes = t.nodes /\ Fail(t, why).root = t.root
         /\ Fail(t, why).fault = IF t.fault = "none" THEN why ELSE t.fault
  BY DEF Fail, TreeSet

LEMMA SetKeysIs ==
  ASSUME NEW t \in TreeSet, NEW l \in TreeBlocks, NEW K \in Seq(KeySet)
  PROVE  /\ SetKeys(t, l, K) = Changed(t, With(t.nodes, l, Node(t.nodes[l].height, K)))
         /\ SetKeys(t, l, K) \in TreeSet
<1>1. t.nodes \in NodeMap /\ t.nodes[l] \in BlockSet /\ DOMAIN t.nodes = TreeBlocks
  BY TreeFields DEF NodeMap
<1>2. [t.nodes[l] EXCEPT !.keys = K] = Node(t.nodes[l].height, K)
  BY <1>1 DEF Node, BlockSet
<1>3. SetKeys(t, l, K) = [t EXCEPT !.nodes = [t.nodes EXCEPT ![l] = [t.nodes[l] EXCEPT !.keys = K]]]
  BY <1>1 DEF SetKeys, TreeSet
<1>4. Node(t.nodes[l].height, K) \in BlockSet
  BY <1>1, BlockIsNode, NodeIn
<1>5. With(t.nodes, l, Node(t.nodes[l].height, K)) \in NodeMap
  BY <1>1, <1>4, WithIs
<1>6. SetKeys(t, l, K) = Changed(t, With(t.nodes, l, Node(t.nodes[l].height, K)))
  BY <1>2, <1>3 DEF Changed, With
<1> QED
  BY <1>5, <1>6, ChangedIs

LEMMA StoreIs ==
  ASSUME NEW t \in TreeSet, NEW l \in TreeBlocks, NEW node \in BlockSet
  PROVE  /\ Store(t, l, node) \in TreeSet
         /\ Store(t, l, node).fault = "none" =>
              /\ t.fault = "none" /\ l \notin Blocks(t.nodes)
              /\ Store(t, l, node) = Changed(t, With(t.nodes, l, node))
         /\ Store(t, l, node).root = t.root
<1>1. t.nodes \in NodeMap
  BY TreeFields
<1>2. CASE l \in Locs(t)
  <2>1. Store(t, l, node) = Fail(t, "full") /\ "full" \in Faults \ {"none"}
    BY <1>2 DEF Store, Faults
  <2> QED
    BY <2>1, FailIs
<1>3. CASE l \notin Locs(t)
  <2>1. Store(t, l, node) = Changed(t, With(t.nodes, l, node))
    BY <1>3 DEF Store, Changed, With
  <2>2. With(t.nodes, l, node) \in NodeMap
    BY <1>1, WithIs
  <2>3. l \notin Blocks(t.nodes)
    BY <1>3, LocsAre
  <2> QED
    BY <2>1, <2>2, <2>3, ChangedIs
<1> QED
  BY <1>2, <1>3

LEMMA FreshIn == ASSUME NEW t, TreeBlocks # {} PROVE Fresh(t) \in TreeBlocks
<1>1. \E l \in TreeBlocks : Locs(t) # TreeBlocks => l \notin Locs(t)
  <2>1. CASE Locs(t) = TreeBlocks
    BY <2>1
  <2>2. CASE Locs(t) # TreeBlocks
    <3>1. Locs(t) \subseteq TreeBlocks
      BY DEF Locs
    <3>2. \E l \in TreeBlocks : l \notin Locs(t)
      BY <2>2, <3>1
    <3> QED
      BY <3>2
  <2> QED
    BY <2>1, <2>2
<1> QED
  BY <1>1 DEF Fresh

-----------------------------------------------------------------------------
(* What the operations on one block do to a tree.                          *)

(* Another datum for key i.                                                *)
Put(K, i, d) == [K EXCEPT ![i].data = d]

LEMMA PutIs ==
  ASSUME NEW K \in Seq(KeySet), NEW i \in 1 .. Len(K), NEW d \in DataSet
  PROVE  /\ Put(K, i, d) \in Seq(KeySet) /\ Len(Put(K, i, d)) = Len(K)
         /\ Put(K, i, d)[i] = [name |-> K[i].name, data |-> d]
         /\ \A j \in 1 .. Len(K) : Put(K, i, d)[j].name = K[j].name
         /\ \A j \in 1 .. Len(K) : j # i => Put(K, i, d)[j] = K[j]
         /\ Sorted(K) => Sorted(Put(K, i, d))
<1>1. K[i] \in KeySet
  BY KeyNames
<1>2. [K[i] EXCEPT !.data = d] = [name |-> K[i].name, data |-> d]
  BY <1>1 DEF KeySet
<1>3. [name |-> K[i].name, data |-> d] \in KeySet
  BY <1>1 DEF KeySet
<1>4. Put(K, i, d) = [K EXCEPT ![i] = [name |-> K[i].name, data |-> d]]
  BY <1>2 DEF Put
<1>5. Put(K, i, d) \in Seq(KeySet) /\ Len(Put(K, i, d)) = Len(K)
  BY <1>3, <1>4
<1>6. /\ Put(K, i, d)[i] = [name |-> K[i].name, data |-> d]
      /\ \A j \in 1 .. Len(K) : j # i => Put(K, i, d)[j] = K[j]
  BY <1>4
<1>7. \A j \in 1 .. Len(K) : Put(K, i, d)[j].name = K[j].name
  BY <1>6
<1> QED
  BY <1>5, <1>6, <1>7 DEF Sorted

LEMMA UpdateKeyIs ==
  ASSUME NEW t \in TreeSet, NEW l \in TreeBlocks, Sorted(t.nodes[l].keys),
         NEW i \in 1 .. Len(t.nodes[l].keys), NEW d \in DataSet
  PROVE  /\ UpdateKey(t, l, t.nodes[l].keys[i].name, d)
              = Changed(t, With(t.nodes, l, Node(t.nodes[l].height, Put(t.nodes[l].keys, i, d))))
         /\ UpdateKey(t, l, t.nodes[l].keys[i].name, d) \in TreeSet
<1> DEFINE K == t.nodes[l].keys
           n == K[i].name
<1>1. t.nodes \in NodeMap /\ t.nodes[l] \in BlockSet /\ DOMAIN t.nodes = TreeBlocks
  BY TreeFields DEF NodeMap
<1>2. K \in Seq(KeySet) /\ t.nodes[l].height \in Int
  BY <1>1, BlockIsNode
<1>3. n \in Nat
  BY <1>2, KeyNames
<1>4. FindKey(K, n) = i
  BY <1>2, <1>3, FoundIs
<1>5. UpdateKey(t, l, n, d) = [t EXCEPT !.nodes[l].keys[i].data = d]
  BY <1>4 DEF UpdateKey, SetData
<1>6. [t EXCEPT !.nodes[l].keys[i].data = d] = SetKeys(t, l, Put(K, i, d))
  BY DEF SetKeys, Put
<1>7. Put(K, i, d) \in Seq(KeySet)
  BY <1>2, PutIs
<1> HIDE DEF K, n
<1>8. SetKeys(t, l, Put(K, i, d)) = Changed(t, With(t.nodes, l, Node(t.nodes[l].height, Put(K, i, d))))
      /\ SetKeys(t, l, Put(K, i, d)) \in TreeSet
  BY <1>7, SetKeysIs
<1> QED
  BY <1>5, <1>6, <1>8 DEF K, n

LEMMA FaultStays ==
  ASSUME NEW t \in TreeSet, t.fault # "none", NEW l, NEW key
  PROVE  AddKey(t, l, key).fault # "none"
  BY DEF AddKey, Fail, SetKeys, TreeSet

(* Key among the keys, at its place.                                       *)
Grown(K, key) == InsertAt(K, FindKey(K, key.name) + 1, key)

LEMMA AddKeyIs ==
  ASSUME NEW t \in TreeSet, NEW l \in TreeBlocks, Sorted(t.nodes[l].keys), NEW key \in KeySet,
         AddKey(t, l, key).fault = "none"
  PROVE  /\ t.fault = "none" /\ ~ Found(t.nodes[l].keys, key.name)
         /\ RequiredSpace(key.name, t.nodes[l].height) <= FreeSpace(t.nodes[l])
         /\ Grown(t.nodes[l].keys, key) \in Seq(KeySet)
         /\ AddKey(t, l, key)
              = Changed(t, With(t.nodes, l, Node(t.nodes[l].height, Grown(t.nodes[l].keys, key))))
         /\ FreeSpace(Node(t.nodes[l].height, Grown(t.nodes[l].keys, key))) >= 0
<1> DEFINE K == t.nodes[l].keys
           h == t.nodes[l].height
           p == FindKey(K, key.name)
<1>1. t.nodes[l] \in BlockSet /\ t.nodes[l] = Node(h, K) /\ K \in Seq(KeySet) /\ h \in Int
  BY TreeFields, BlockIsNode
<1>2. key.name \in Nat /\ key.name \in AllNames
  BY NamesAssumption DEF KeySet
<1>3. p \in 0 .. Len(K)
  BY <1>1, <1>2, FindKeyIs
<1>4. t.fault = "none"
  BY FaultStays
<1>5. ~ RequiredSpace(key.name, h) > FreeSpace(t.nodes[l]) /\ ~ Found(K, key.name)
  <2>1. {"space", "exists"} \subseteq Faults \ {"none"}
    BY DEF Faults
  <2>2. Fail(t, "space").fault # "none" /\ Fail(t, "exists").fault # "none"
    BY <2>1, FailIs
  <2> QED
    BY <2>2 DEF AddKey
<1>6. AddKey(t, l, key) = SetKeys(t, l, Grown(K, key))
  BY <1>5 DEF AddKey, AddKeyToIndex, Grown
<1> HIDE DEF p
<1>7. InsertAt(K, p + 1, key) \in Seq(KeySet)
  BY <1>1, <1>3, KeyInserted
<1>8. Grown(K, key) \in Seq(KeySet)
  BY <1>7 DEF Grown, p
<1>9. SetKeys(t, l, Grown(K, key)) = Changed(t, With(t.nodes, l, Node(h, Grown(K, key))))
  BY <1>8, SetKeysIs
<1>10. FreeSpace(t.nodes[l]) \in Int /\ RequiredSpace(key.name, h) \in Nat
  BY <1>1, <1>2, FreeAtMost, RequiredIs
<1>11. FreeSpace(Node(h, InsertAt(K, p + 1, key))) = FreeSpace(Node(h, K)) - RequiredSpace(key.name, h)
  BY <1>1, <1>3, FreeInsert
<1>12. FreeSpace(Node(h, InsertAt(K, p + 1, key))) = FreeSpace(t.nodes[l]) - RequiredSpace(key.name, h)
  BY <1>1, <1>11
<1>13. FreeSpace(Node(h, Grown(K, key))) >= 0
  <2> DEFINE x == FreeSpace(t.nodes[l])
             y == RequiredSpace(key.name, h)
  <2>1. x \in Int /\ y \in Nat /\ ~ y > x /\ FreeSpace(Node(h, Grown(K, key))) = x - y
    BY <1>5, <1>10, <1>12 DEF Grown, p
  <2> HIDE DEF x, y
  <2> QED
    BY <2>1
<1>14. RequiredSpace(key.name, h) <= FreeSpace(t.nodes[l])
  <2> DEFINE x == FreeSpace(t.nodes[l])
             y == RequiredSpace(key.name, h)
  <2>1. x \in Int /\ y \in Nat /\ ~ y > x
    BY <1>5, <1>10
  <2> HIDE DEF x, y
  <2>2. y <= x
    BY <2>1
  <2> QED
    BY <2>2 DEF x, y
<1> QED
  BY <1>4, <1>5, <1>6, <1>8, <1>9, <1>13, <1>14

LEMMA DeleteKeyIs ==
  ASSUME NEW t \in TreeSet, NEW l \in TreeBlocks, Sorted(t.nodes[l].keys), NEW n \in Nat,
         Found(t.nodes[l].keys, n)
  PROVE  /\ DeleteKey(t, l, n).effect = Shrink
         /\ DeleteKey(t, l, n).tree
              = Changed(t, With(t.nodes, l, Node(t.nodes[l].height,
                          RemoveAt(t.nodes[l].keys, FindKey(t.nodes[l].keys, n)))))
         /\ RemoveAt(t.nodes[l].keys, FindKey(t.nodes[l].keys, n)) \in Seq(KeySet)
         /\ DeleteKey(t, l, n).tree \in TreeSet
<1> DEFINE K == t.nodes[l].keys
           J == RemoveAt(K, FindKey(K, n))
<1>1. K \in Seq(KeySet)
  BY TreeFields, BlockIsNode
<1>2. FindKey(K, n) \in 1 .. Len(K)
  BY <1>1, FoundIs
<1>3. J \in Seq(KeySet)
  BY <1>1, <1>2, RemoveAtIs
<1>4. DeleteKey(t, l, n).effect = Shrink /\ DeleteKey(t, l, n).tree = SetKeys(t, l, J)
  BY DEF DeleteKey, RemoveKeyFromIndex
<1> HIDE DEF J
<1>5. SetKeys(t, l, J) = Changed(t, With(t.nodes, l, Node(t.nodes[l].height, J)))
      /\ SetKeys(t, l, J) \in TreeSet
  BY <1>3, SetKeysIs
<1> QED
  BY <1>3, <1>4, <1>5 DEF J

(* The keys of the second of two blocks, from key q + 1 on.                *)
Second(h, K, q) == SecondHalf(Node(h, K), q)

LEMMA SecondIs ==
  ASSUME NEW h \in Int, NEW K \in Seq(KeySet), NEW q \in 0 .. Len(K), q < Len(K)
  PROVE  /\ Second(h, K, q) \in Seq(KeySet) /\ Len(Second(h, K, q)) = Len(K) - q
         /\ Second(h, K, q)[1] = IF h = 0 THEN K[q + 1] ELSE [name |-> 0, data |-> K[q + 1].data]
         /\ \A i \in 2 .. (Len(K) - q) : Second(h, K, q)[i] = K[q + i]
         /\ \A i \in 1 .. (Len(K) - q) : Second(h, K, q)[i].data = K[q + i].data
<1> DEFINE R == SubSeq(K, q + 1, Len(K))
           z == [name |-> 0, data |-> R[1].data]
<1>1. R \in Seq(KeySet) /\ Len(R) = Len(K) - q /\ \A i \in 1 .. (Len(K) - q) : R[i] = K[q + i]
  BY HalvesAre
<1>2. R[1] = K[q + 1] /\ 1 \in 1 .. Len(R)
  BY <1>1
<1>3. Second(h, K, q) = IF h = 0 THEN R ELSE <<z>> \o Tail(R)
  BY DEF Second, SecondHalf, Node
<1> HIDE DEF R
<1>4. CASE h = 0
  BY <1>1, <1>2, <1>3, <1>4
<1>5. CASE h # 0
  <2>1. z \in KeySet
    <3>1. R[1] \in KeySet
      BY <1>1, <1>2, KeyNames
    <3> QED
      BY <3>1, NamesAssumption DEF KeySet
  <2>2. z.name = 0 /\ z = [name |-> 0, data |-> K[q + 1].data] /\ z.data = K[q + 1].data
    BY <1>2
  <2> HIDE DEF z
  <2>3. <<z>> \in Seq(KeySet) /\ Len(<<z>>) = 1 /\ <<z>>[1] = z
    BY <2>1
  <2>4. R # <<>>
    BY <1>2, EmptySeq
  <2>5. Tail(R) \in Seq(KeySet) /\ Len(Tail(R)) = Len(R) - 1
        /\ \A i \in 1 .. (Len(R) - 1) : Tail(R)[i] = R[i + 1]
    BY <1>1, <2>4
  <2> DEFINE S == <<z>> \o Tail(R)
  <2>6. S \in Seq(KeySet) /\ Len(S) = Len(R)
    BY <1>1, <2>3, <2>5, ConcatProperties
  <2>7. \A i \in 1 .. Len(R) : S[i] = IF i <= 1 THEN z ELSE Tail(R)[i - 1]
    <3> SUFFICES ASSUME NEW i \in 1 .. Len(R) PROVE S[i] = IF i <= 1 THEN z ELSE Tail(R)[i - 1]
      OBVIOUS
    <3>1. i \in 1 .. (Len(<<z>>) + Len(Tail(R)))
      BY <1>1, <2>3, <2>5
    <3>2. S[i] = IF i <= Len(<<z>>) THEN <<z>>[i] ELSE Tail(R)[i - Len(<<z>>)]
      BY <2>3, <2>5, <3>1, ConcatProperties
    <3>3. CASE i <= 1
      <4>1. i = 1
        BY <1>1, <3>3
      <4> QED
        BY <2>3, <3>2, <4>1
    <3>4. CASE i > 1
      BY <2>3, <3>2, <3>4
    <3> QED
      BY <1>1, <3>3, <3>4
  <2>8. S[1] = z
    BY <1>1, <1>2, <2>7
  <2>9. ASSUME NEW i \in 2 .. (Len(K) - q) PROVE S[i] = K[q + i]
    <3>1. i \in 1 .. Len(R) /\ ~ i <= 1 /\ i - 1 \in 1 .. (Len(R) - 1) /\ (i - 1) + 1 = i
      BY <1>1
    <3> QED
      BY <1>1, <2>5, <2>7, <3>1
  <2>10. \A i \in 1 .. (Len(K) - q) : S[i].data = K[q + i].data
    <3> SUFFICES ASSUME NEW i \in 1 .. (Len(K) - q) PROVE S[i].data = K[q + i].data
      OBVIOUS
    <3>1. i = 1 \/ i \in 2 .. (Len(K) - q)
      OBVIOUS
    <3> QED
      BY <2>2, <2>8, <2>9, <3>1
  <2>11. Second(h, K, q) = S
    BY <1>3, <1>5
  <2> HIDE DEF S
  <2> QED
    BY <1>1, <1>5, <2>2, <2>6, <2>8, <2>9, <2>10, <2>11
<1> QED
  BY <1>4, <1>5

LEMMA HalvesSorted ==
  ASSUME NEW h \in Int, NEW K \in Seq(KeySet), Sorted(K), NEW q \in 0 .. Len(K), q < Len(K)
  PROVE  Sorted(SubSeq(K, 1, q)) /\ Sorted(Second(h, K, q))
<1>1. Sorted(SubSeq(K, 1, q))
  <2>1. Len(SubSeq(K, 1, q)) = q /\ \A i \in 1 .. q : SubSeq(K, 1, q)[i] = K[i]
    BY HalvesAre
  <2>2. q <= Len(K)
    OBVIOUS
  <2> QED
    BY <2>1, <2>2 DEF Sorted
<1>2. ASSUME NEW i \in 1 .. (Len(K) - q), NEW j \in 1 .. (Len(K) - q), i < j
      PROVE  Second(h, K, q)[i].name < Second(h, K, q)[j].name
  <2>1. j \in 2 .. (Len(K) - q) /\ q + i \in 1 .. Len(K) /\ q + j \in 1 .. Len(K) /\ q + i < q + j
    BY <1>2
  <2>2. Second(h, K, q)[j] = K[q + j]
    BY <2>1, SecondIs
  <2>3. K[q + i].name < K[q + j].name /\ K[q + i].name \in Nat /\ K[q + j].name \in Nat
    BY <2>1, KeyNames DEF Sorted
  <2>4. Second(h, K, q)[i].name <= K[q + i].name /\ Second(h, K, q)[i].name \in Nat
    <3>1. CASE i = 1
      <4>1. Second(h, K, q)[1] = IF h = 0 THEN K[q + 1] ELSE [name |-> 0, data |-> K[q + 1].data]
        BY SecondIs
      <4> QED
        BY <2>3, <3>1, <4>1
    <3>2. CASE i # 1
      <4>1. i \in 2 .. (Len(K) - q)
        BY <3>2
      <4>2. Second(h, K, q)[i] = K[q + i]
        BY <4>1, SecondIs
      <4> QED
        BY <2>3, <4>2
    <3> QED
      BY <3>1, <3>2
  <2> QED
    BY <2>2, <2>3, <2>4
<1>3. Len(Second(h, K, q)) = Len(K) - q
  BY SecondIs
<1> QED
  BY <1>1, <1>2, <1>3 DEF Sorted

(* The second half has at least the space the whole block has.             *)
LEMMA SecondFree ==
  ASSUME NEW h \in Int, NEW K \in Seq(KeySet), NEW q \in 0 .. Len(K), q < Len(K)
  PROVE  FreeSpace(Node(h, Second(h, K, q))) >= FreeSpace(Node(h, K))
<1> DEFINE R == SubSeq(K, q + 1, Len(K))
           S == Second(h, K, q)
<1>1. R \in Seq(KeySet) /\ Len(R) = Len(K) - q /\ \A i \in 1 .. (Len(K) - q) : R[i] = K[q + i]
  BY HalvesAre
<1>2. FreeSpace(Node(h, R)) >= FreeSpace(Node(h, K))
  BY FreeHalves
<1>3. CASE h = 0
  <2>1. S = R
    BY <1>3 DEF Second, SecondHalf, Node
  <2> HIDE DEF R
  <2> QED
    BY <1>2, <2>1
<1>4. CASE h # 0
  <2> DEFINE T == Tail(R)
             y == [name |-> 0, data |-> R[1].data]
  <2> HIDE DEF R
  <2>1. R # <<>> /\ R[1] \in KeySet /\ y \in KeySet
    <3>1. 1 \in 1 .. Len(R)
      BY <1>1
    <3>2. R[1] \in KeySet
      BY <1>1, <3>1, KeyNames
    <3>3. R # <<>>
      BY <3>1, EmptySeq
    <3>4. R[1].data \in DataSet
      BY <3>2 DEF KeySet
    <3> QED
      BY <3>2, <3>3, <3>4, NamesAssumption DEF KeySet
  <2> USE DEF R
  <2>2. S = <<y>> \o T
    BY <1>4 DEF Second, SecondHalf, Node
  <2>3. R = <<R[1]>> \o T /\ T \in Seq(KeySet)
    <3>1. R = <<Head(R)>> \o Tail(R) /\ Tail(R) \in Seq(KeySet) /\ Head(R) = R[1]
      BY <1>1, <2>1, HeadTailProperties
    <3> QED
      BY <3>1
  <2>4. <<R[1]>> \in Seq(KeySet) /\ <<y>> \in Seq(KeySet)
    BY <2>1
  <2> HIDE DEF R, T, y
  <2>5. FreeSpace(Node(h, <<R[1]>> \o T))
          = FreeSpace(Node(h, <<R[1]>>)) + FreeSpace(Node(h, T)) - (BlockSize - HeaderSize)
    BY <2>3, <2>4, FreeConcat
  <2>6. FreeSpace(Node(h, <<y>> \o T))
          = FreeSpace(Node(h, <<y>>)) + FreeSpace(Node(h, T)) - (BlockSize - HeaderSize)
    BY <2>3, <2>4, FreeConcat
  <2>7. FreeSpace(Node(h, <<R[1]>>)) = BlockSize - HeaderSize - RequiredSpace(R[1].name, h)
        /\ FreeSpace(Node(h, <<y>>)) = BlockSize - HeaderSize - RequiredSpace(y.name, h)
    BY <2>1, FreeOne
  <2>8. /\ RequiredSpace(R[1].name, h) \in Nat /\ RequiredSpace(y.name, h) \in Nat
        /\ RequiredSpace(y.name, h) <= RequiredSpace(R[1].name, h)
    <3>1. R[1].name \in AllNames /\ y.name = 0 /\ 0 \in AllNames
      BY <2>1, NamesAssumption DEF KeySet, y
    <3>2. RequiredSpace(R[1].name, h) = Length[R[1].name] + (IF h = 0 THEN 8 ELSE 7)
          /\ Length[R[1].name] \in Nat /\ RequiredSpace(R[1].name, h) \in Nat
      BY <3>1, RequiredIs
    <3>3. RequiredSpace(0, h) = Length[0] + (IF h = 0 THEN 8 ELSE 7)
          /\ Length[0] = 0 /\ RequiredSpace(0, h) \in Nat
      BY <3>1, RequiredIs
    <3> QED
      BY <1>4, <3>1, <3>2, <3>3
  <2>9. FreeSpace(Node(h, T)) \in Int /\ BlockSize - HeaderSize \in Int
        /\ FreeSpace(Node(h, K)) \in Int
    BY <2>3, FreeAtMost, SizesAssumption
  <2> DEFINE b == BlockSize - HeaderSize
             x == FreeSpace(Node(h, T))
             u == RequiredSpace(R[1].name, h)
             v == RequiredSpace(y.name, h)
             w == FreeSpace(Node(h, K))
  <2>10. FreeSpace(Node(h, R)) = (b - u) + x - b /\ FreeSpace(Node(h, S)) = (b - v) + x - b
    BY <2>2, <2>3, <2>5, <2>6, <2>7
  <2>11. b \in Int /\ x \in Int /\ u \in Nat /\ v \in Nat /\ v <= u /\ w \in Int
    BY <2>8, <2>9
  <2>12. (b - u) + x - b >= w
    BY <1>2, <2>10
  <2> HIDE DEF b, x, u, v, w
  <2>13. (b - v) + x - b >= w
    BY <2>11, <2>12
  <2> QED
    BY <2>10, <2>13 DEF w
<1> QED
  BY <1>3, <1>4

(* Two new blocks with the keys of one that was too full.                  *)
SplitInto(N, M, h, K, q, new0, new1) ==
  /\ M \in NodeMap /\ new0 # new1
  /\ new0 \in TreeBlocks \ Blocks(N) /\ new1 \in TreeBlocks \ Blocks(N)
  /\ M[new0] = Node(h, SubSeq(K, 1, q)) /\ M[new1] = Node(h, Second(h, K, q))
  /\ \A x \in TreeBlocks : x # new0 /\ x # new1 => M[x] = N[x]

LEMMA SplitBlockIs ==
  ASSUME NEW t \in TreeSet, NEW l \in TreeBlocks, t.nodes[l].height \in Nat,
         NEW K, K = t.nodes[l].keys, NEW p, p = Pivot(K)
  PROVE  \/ SplitBlock(t, l).effect = NoEffect /\ SplitBlock(t, l).tree.fault # "none"
         \/ /\ p < Len(K)
            /\ SplitBlock(t, l).effect.type = "E_SPLIT"
            /\ SplitBlock(t, l).effect.name = K[p + 1].name
            /\ SplitBlock(t, l).tree \in TreeSet
            /\ SplitBlock(t, l).tree.fault = "none" =>
                 /\ t.fault = "none"
                 /\ SplitBlock(t, l).tree = Changed(t, SplitBlock(t, l).tree.nodes)
                 /\ SplitInto(t.nodes, SplitBlock(t, l).tree.nodes, t.nodes[l].height, K, p,
                              SplitBlock(t, l).effect.new0, SplitBlock(t, l).effect.new1)
<1> DEFINE r == SplitBlock(t, l)
           node == t.nodes[l]
           h == node.height
           n0 == Node(h, SubSeq(K, 1, p))
           n1 == Node(h, Second(h, K, p))
           l0 == Fresh(t)
           t0 == Store(t, l0, n0)
           l1 == Fresh(t0)
           t1 == Store(t0, l1, n1)
           e == [type |-> "E_SPLIT", new0 |-> l0, new1 |-> l1, name |-> K[p + 1].name]
<1>1. node \in BlockSet /\ node = Node(h, K) /\ K \in Seq(KeySet) /\ h \in Int /\ t.nodes \in NodeMap
  BY TreeFields, BlockIsNode
<1>2. p \in 0 .. Len(K)
  BY <1>1, StringRuns, PivotIs
<1>3. [node EXCEPT !.keys = SubSeq(K, 1, p)] = n0 /\ [node EXCEPT !.keys = SecondHalf(node, p)] = n1
  <2>1. \A J : [node EXCEPT !.keys = J] = Node(h, J)
    BY <1>1 DEF Node
  <2>2. SecondHalf(node, p) = Second(h, K, p)
    BY <1>1 DEF Second
  <2> QED
    BY <2>1, <2>2
<1>4. r = IF p >= Len(K) THEN [tree |-> Fail(t, "pivot"), effect |-> NoEffect]
          ELSE [tree |-> t1, effect |-> e]
  BY <1>3 DEF SplitBlock
<1>5. CASE p >= Len(K)
  <2>1. Fail(t, "pivot").fault # "none"
    BY FailIs DEF Faults
  <2> QED
    BY <1>4, <1>5, <2>1
<1>6. CASE ~ p >= Len(K)
  <2>1. p < Len(K)
    BY <1>1, <1>2, <1>6
  <2>2. r.tree = t1 /\ r.effect = e
    BY <1>4, <1>6
  <2>3. n0 \in BlockSet /\ n1 \in BlockSet /\ n0.height = h /\ n1.height = h
    <3>1. SubSeq(K, 1, p) \in Seq(KeySet) /\ Second(h, K, p) \in Seq(KeySet)
      BY <1>1, <1>2, <2>1, HalvesAre, SecondIs
    <3> QED
      BY <1>1, <3>1, NodeIn, NodeFields
  <2>4. e.type = "E_SPLIT" /\ e.name = K[p + 1].name /\ e.new0 = l0 /\ e.new1 = l1
    OBVIOUS
  <2> HIDE DEF r, e, n0, n1
  <2>5. l0 \in TreeBlocks /\ l1 \in TreeBlocks
    BY FreshIn
  <2> HIDE DEF l0, l1
  <2>6. t0 \in TreeSet
    BY <2>3, <2>5, StoreIs
  <2>7. t1 \in TreeSet
    BY <2>3, <2>5, <2>6, StoreIs
  <2>8. ASSUME t1.fault = "none"
        PROVE  t.fault = "none" /\ t1 = Changed(t, t1.nodes)
               /\ SplitInto(t.nodes, t1.nodes, h, K, p, l0, l1)
    <3>1. t0.fault = "none" /\ l1 \notin Blocks(t0.nodes) /\ t1 = Changed(t0, With(t0.nodes, l1, n1))
      BY <2>3, <2>5, <2>6, <2>8, StoreIs
    <3>2. t.fault = "none" /\ l0 \notin Blocks(t.nodes) /\ t0 = Changed(t, With(t.nodes, l0, n0))
      BY <2>3, <2>5, <3>1, StoreIs
    <3> HIDE DEF t0, t1
    <3> DEFINE A == With(t.nodes, l0, n0)
               B == With(A, l1, n1)
    <3>3. A \in NodeMap /\ A[l0] = n0 /\ \A m \in TreeBlocks : m # l0 => A[m] = t.nodes[m]
      BY <1>1, <2>3, <2>5, WithIs
    <3>4. t0.nodes = A
      BY <3>2, <3>3, ChangedIs
    <3> HIDE DEF A
    <3>5. B \in NodeMap /\ B[l1] = n1 /\ \A m \in TreeBlocks : m # l1 => B[m] = A[m]
      BY <2>3, <2>5, <3>3, WithIs
    <3>6. t1 = Changed(t0, B)
      BY <3>1, <3>4
    <3> HIDE DEF B
    <3>7. t1 = Changed(t, B) /\ t1.nodes = B
      BY <3>2, <3>3, <3>5, <3>6, ChangedIs DEF A
    <3>8. n0 # FreeBlock
      BY <2>3 DEF FreeBlock
    <3>9. l0 # l1
      BY <2>5, <3>1, <3>3, <3>4, <3>8 DEF Blocks
    <3>10. l1 \notin Blocks(t.nodes)
      BY <2>5, <3>1, <3>3, <3>4, <3>9 DEF Blocks
    <3> QED
      BY <2>5, <3>2, <3>3, <3>5, <3>7, <3>9, <3>10 DEF SplitInto, n0, n1
  <2> HIDE DEF t1
  <2>9. r.effect.type = "E_SPLIT" /\ r.effect.name = K[p + 1].name /\ r.effect.new0 = l0 /\ r.effect.new1 = l1
    BY <2>2, <2>4
  <2> QED
    BY <2>1, <2>2, <2>7, <2>8, <2>9 DEF r
<1> QED
  BY <1>5, <1>6

LEMMA SameKeys ==
  ASSUME NEW A \in Seq(KeySet), NEW B \in Seq(KeySet), Len(A) = Len(B),
         \A i \in 1 .. Len(A) : A[i] = B[i]
  PROVE  A = B
  BY SeqEqual

LEMMA GrownIs ==
  ASSUME NEW K \in Seq(KeySet), Sorted(K), NEW key \in KeySet
  PROVE  /\ Grown(K, key) \in Seq(KeySet) /\ Len(Grown(K, key)) = Len(K) + 1
         /\ \A i \in 1 .. (Len(K) + 1) :
              Grown(K, key)[i] = IF i <= FindKey(K, key.name) THEN K[i]
                                 ELSE IF i = FindKey(K, key.name) + 1 THEN key ELSE K[i - 1]
         /\ FindKey(K, key.name) \in 0 .. Len(K) /\ key.name \in Nat
<1> DEFINE p == FindKey(K, key.name)
<1>1. key.name \in Nat
  BY NamesAssumption DEF KeySet
<1>2. p \in 0 .. Len(K)
  BY <1>1, FindKeyIs
<1> HIDE DEF p
<1>3. InsertAt(K, p + 1, key) \in Seq(KeySet) /\ Len(InsertAt(K, p + 1, key)) = Len(K) + 1
  BY <1>2, KeyInserted
<1>4. ASSUME NEW i \in 1 .. (Len(K) + 1)
      PROVE  InsertAt(K, p + 1, key)[i] = IF i <= p THEN K[i] ELSE IF i = p + 1 THEN key ELSE K[i - 1]
  <2>1. i \in 1 .. Len(K) + 1
    OBVIOUS
  <2> QED
    BY <1>2, <2>1, KeyInserted
<1> QED
  BY <1>1, <1>2, <1>3, <1>4 DEF Grown, p

(* Adding a key to one half is splitting the block with the key added.     *)
LEMMA GrowFirst ==
  ASSUME NEW h \in Int, NEW K \in Seq(KeySet), Sorted(K), NEW key \in KeySet,
         NEW p \in 0 .. Len(K), p < Len(K), key.name < K[p + 1].name
  PROVE  /\ Grown(SubSeq(K, 1, p), key) = SubSeq(Grown(K, key), 1, p + 1)
         /\ Second(h, K, p) = Second(h, Grown(K, key), p + 1)
         /\ Grown(K, key)[p + 2] = K[p + 1]
<1> DEFINE G == Grown(K, key)
           A == SubSeq(K, 1, p)
           s == FindKey(K, key.name)
<1>1. /\ G \in Seq(KeySet) /\ Len(G) = Len(K) + 1 /\ s \in 0 .. Len(K) /\ key.name \in Nat
      /\ \A i \in 1 .. (Len(K) + 1) : G[i] = IF i <= s THEN K[i] ELSE IF i = s + 1 THEN key ELSE K[i - 1]
  BY GrownIs
<1>2. A \in Seq(KeySet) /\ Len(A) = p /\ (\A i \in 1 .. p : A[i] = K[i]) /\ Sorted(A)
  BY HalvesAre, HalvesSorted
<1> HIDE DEF s
<1>20. key.name \in Nat /\ s \in 0 .. Len(K)
  BY <1>1
<1>21. \A i \in 1 .. Len(K) : K[i].name <= key.name <=> i <= s
  BY <1>20, FindKeyIs DEF s
<1>3. s <= p
  <2>1. p + 1 \in 1 .. Len(K) /\ K[p + 1].name \in Nat
    <3>1. p + 1 \in 1 .. Len(K)
      OBVIOUS
    <3> QED
      BY <3>1, KeyNames
  <2>2. ~ p + 1 <= s
    BY <1>20, <1>21, <2>1
  <2> QED
    BY <1>20, <2>2
<1>4. FindKey(A, key.name) = s
  <2>1. \A i \in 1 .. Len(A) : A[i].name <= key.name <=> i <= s
    BY <1>2, <1>21
  <2> HIDE DEF A
  <2>2. s \in 0 .. Len(A)
    BY <1>2, <1>3, <1>20
  <2> QED
    BY <1>2, <1>20, <2>1, <2>2, FindKeyOf
<1> HIDE DEF G, A
<1>5. /\ Grown(A, key) \in Seq(KeySet) /\ Len(Grown(A, key)) = p + 1
      /\ \A i \in 1 .. (p + 1) : Grown(A, key)[i] = IF i <= s THEN A[i] ELSE IF i = s + 1 THEN key ELSE A[i - 1]
  <2>1. Grown(A, key) \in Seq(KeySet) /\ Len(Grown(A, key)) = Len(A) + 1 /\ FindKey(A, key.name) = s
    BY <1>2, <1>4, GrownIs
  <2>2. ASSUME NEW i \in 1 .. (Len(A) + 1)
        PROVE  Grown(A, key)[i] = IF i <= s THEN A[i] ELSE IF i = s + 1 THEN key ELSE A[i - 1]
    <3>1. Grown(A, key)[i] = IF i <= FindKey(A, key.name) THEN A[i]
                             ELSE IF i = FindKey(A, key.name) + 1 THEN key ELSE A[i - 1]
      BY <1>2, GrownIs
    <3> QED
      BY <2>1, <3>1
  <2> QED
    BY <1>2, <2>1, <2>2
<1>6. p + 1 \in 0 .. Len(G) /\ p + 1 < Len(G)
  BY <1>1
<1>7. /\ SubSeq(G, 1, p + 1) \in Seq(KeySet) /\ Len(SubSeq(G, 1, p + 1)) = p + 1
      /\ \A i \in 1 .. (p + 1) : SubSeq(G, 1, p + 1)[i] = G[i]
  BY <1>1, <1>6, HalvesAre
<1>8. Grown(A, key) = SubSeq(G, 1, p + 1)
  <2>1. ASSUME NEW i \in 1 .. (p + 1) PROVE Grown(A, key)[i] = G[i]
    <3>1. i \in 1 .. (Len(K) + 1)
      OBVIOUS
    <3>2. G[i] = IF i <= s THEN K[i] ELSE IF i = s + 1 THEN key ELSE K[i - 1]
      BY <1>1, <3>1
    <3>3. Grown(A, key)[i] = IF i <= s THEN A[i] ELSE IF i = s + 1 THEN key ELSE A[i - 1]
      BY <1>5
    <3>4. CASE i <= s
      <4>1. i \in 1 .. p
        BY <1>3, <1>20, <3>4
      <4> QED
        BY <1>2, <3>2, <3>3, <3>4, <4>1
    <3>5. CASE i = s + 1
      <4>1. ~ i <= s
        BY <1>20, <3>5
      <4> QED
        BY <3>2, <3>3, <3>5, <4>1
    <3>6. CASE i > s + 1
      <4>1. ~ i <= s /\ i # s + 1 /\ i - 1 \in 1 .. p
        BY <1>20, <3>6
      <4> QED
        BY <1>2, <3>2, <3>3, <4>1
    <3> QED
      BY <1>20, <3>4, <3>5, <3>6
  <2> QED
    BY <1>5, <1>7, <2>1, SameKeys
<1>9. \A i \in (p + 1) .. Len(K) : G[i + 1] = K[i]
  <2> SUFFICES ASSUME NEW i \in (p + 1) .. Len(K) PROVE G[i + 1] = K[i]
    OBVIOUS
  <2>1. i + 1 \in 1 .. (Len(K) + 1) /\ ~ i + 1 <= s /\ i + 1 # s + 1 /\ (i + 1) - 1 = i
    BY <1>1, <1>3
  <2> QED
    BY <1>1, <2>1
<1>10. Second(h, K, p) = Second(h, G, p + 1)
  <2> DEFINE S == Second(h, K, p)
             T == Second(h, G, p + 1)
  <2>1. /\ S \in Seq(KeySet) /\ Len(S) = Len(K) - p
        /\ S[1] = (IF h = 0 THEN K[p + 1] ELSE [name |-> 0, data |-> K[p + 1].data])
        /\ \A i \in 2 .. (Len(K) - p) : S[i] = K[p + i]
    BY SecondIs
  <2>2. /\ T \in Seq(KeySet) /\ Len(T) = Len(G) - (p + 1)
        /\ T[1] = (IF h = 0 THEN G[(p + 1) + 1] ELSE [name |-> 0, data |-> G[(p + 1) + 1].data])
        /\ \A i \in 2 .. (Len(G) - (p + 1)) : T[i] = G[(p + 1) + i]
    BY <1>1, <1>6, SecondIs
  <2> HIDE DEF S, T
  <2>3. G[(p + 1) + 1] = K[p + 1]
    BY <1>9
  <2>4. S[1] = T[1]
    BY <2>1, <2>2, <2>3
  <2>5. Len(G) - (p + 1) = Len(K) - p
    BY <1>1
  <2>6. ASSUME NEW i \in 2 .. (Len(K) - p) PROVE S[i] = T[i]
    <3>1. p + i \in (p + 1) .. Len(K) /\ (p + 1) + i = (p + i) + 1
      OBVIOUS
    <3> QED
      BY <1>9, <2>1, <2>2, <2>5, <3>1
  <2>7. \A i \in 1 .. Len(S) : S[i] = T[i]
    BY <2>1, <2>4, <2>6
  <2> QED
    BY <2>1, <2>2, <2>5, <2>7, SameKeys DEF S, T
<1>11. G[p + 2] = K[p + 1]
  <2>1. p + 1 \in (p + 1) .. Len(K) /\ (p + 1) + 1 = p + 2
    OBVIOUS
  <2> QED
    BY <1>9, <2>1
<1> QED
  BY <1>8, <1>10, <1>11 DEF A, G

LEMMA GrowSecond ==
  ASSUME NEW h \in Int, NEW K \in Seq(KeySet), Sorted(K), NEW key \in KeySet,
         NEW p \in 0 .. Len(K), p < Len(K), key.name >= K[p + 1].name
  PROVE  /\ SubSeq(K, 1, p) = SubSeq(Grown(K, key), 1, p)
         /\ Grown(Second(h, K, p), key) = Second(h, Grown(K, key), p)
         /\ Grown(K, key)[p + 1] = K[p + 1]
<1> DEFINE G == Grown(K, key)
           A == Second(h, K, p)
           s == FindKey(K, key.name)
<1>1. /\ G \in Seq(KeySet) /\ Len(G) = Len(K) + 1 /\ s \in 0 .. Len(K) /\ key.name \in Nat
      /\ \A i \in 1 .. (Len(K) + 1) : G[i] = IF i <= s THEN K[i] ELSE IF i = s + 1 THEN key ELSE K[i - 1]
  BY GrownIs
<1>2. /\ A \in Seq(KeySet) /\ Len(A) = Len(K) - p /\ Sorted(A)
      /\ A[1] = (IF h = 0 THEN K[p + 1] ELSE [name |-> 0, data |-> K[p + 1].data])
      /\ \A i \in 2 .. (Len(K) - p) : A[i] = K[p + i]
  BY SecondIs, HalvesSorted
<1>3. p + 1 \in 1 .. Len(K) /\ K[p + 1].name \in Nat /\ K[p + 1].name <= key.name
  <2>1. p + 1 \in 1 .. Len(K)
    OBVIOUS
  <2>2. K[p + 1].name \in Nat
    BY <2>1, KeyNames
  <2> QED
    BY <1>1, <2>1, <2>2
<1>4. p + 1 <= s
  BY <1>1, <1>3, FindKeyIs
<1>5. FindKey(A, key.name) = s - p
  <2>1. ASSUME NEW i \in 1 .. (Len(K) - p) PROVE A[i].name <= key.name <=> i <= s - p
    <3>1. CASE i = 1
      <4>1. A[1].name = 0 \/ A[1].name = K[p + 1].name
        BY <1>2
      <4>2. A[i].name <= key.name
        BY <1>1, <1>3, <3>1, <4>1
      <4> QED
        BY <1>1, <1>4, <3>1, <4>2
    <3>2. CASE i # 1
      <4>1. i \in 2 .. (Len(K) - p) /\ p + i \in 1 .. Len(K)
        BY <3>2
      <4>2. K[p + i].name <= key.name <=> p + i <= s
        BY <1>1, <4>1, FindKeyIs
      <4>3. p + i <= s <=> i <= s - p
        BY <1>1
      <4> QED
        BY <1>2, <4>1, <4>2, <4>3
    <3> QED
      BY <3>1, <3>2
  <2>2. s - p \in 0 .. Len(A)
    BY <1>1, <1>2, <1>4
  <2> HIDE DEF A, s
  <2> QED
    BY <1>1, <1>2, <2>1, <2>2, FindKeyOf
<1> HIDE DEF G, A, s
<1>6. /\ Grown(A, key) \in Seq(KeySet) /\ Len(Grown(A, key)) = Len(K) - p + 1
      /\ \A i \in 1 .. (Len(K) - p + 1) :
           Grown(A, key)[i] = IF i <= s - p THEN A[i] ELSE IF i = (s - p) + 1 THEN key ELSE A[i - 1]
  <2>1. Grown(A, key) \in Seq(KeySet) /\ Len(Grown(A, key)) = Len(A) + 1 /\ Len(A) + 1 = Len(K) - p + 1
    BY <1>2, GrownIs
  <2>2. ASSUME NEW i \in 1 .. (Len(A) + 1)
        PROVE  Grown(A, key)[i] = IF i <= s - p THEN A[i] ELSE IF i = (s - p) + 1 THEN key ELSE A[i - 1]
    <3>1. Grown(A, key)[i] = IF i <= FindKey(A, key.name) THEN A[i]
                             ELSE IF i = FindKey(A, key.name) + 1 THEN key ELSE A[i - 1]
      BY <1>2, GrownIs
    <3> QED
      BY <1>5, <3>1
  <2> QED
    BY <2>1, <2>2
<1>7. p \in 0 .. Len(G) /\ p < Len(G)
  BY <1>1
<1>8. SubSeq(K, 1, p) = SubSeq(G, 1, p)
  <2>1. SubSeq(K, 1, p) \in Seq(KeySet) /\ Len(SubSeq(K, 1, p)) = p /\ \A i \in 1 .. p : SubSeq(K, 1, p)[i] = K[i]
    BY HalvesAre
  <2>2. SubSeq(G, 1, p) \in Seq(KeySet) /\ Len(SubSeq(G, 1, p)) = p /\ \A i \in 1 .. p : SubSeq(G, 1, p)[i] = G[i]
    BY <1>1, <1>7, HalvesAre
  <2>3. \A i \in 1 .. p : G[i] = K[i]
    <3> SUFFICES ASSUME NEW i \in 1 .. p PROVE G[i] = K[i]
      OBVIOUS
    <3>1. i \in 1 .. (Len(K) + 1) /\ i <= s
      BY <1>1, <1>4
    <3> QED
      BY <1>1, <3>1
  <2> QED
    BY <2>1, <2>2, <2>3, SameKeys
<1>9. G[p + 1] = K[p + 1]
  <2>1. p + 1 \in 1 .. (Len(K) + 1)
    OBVIOUS
  <2> QED
    BY <1>1, <1>4, <2>1
<1>10. Grown(A, key) = Second(h, G, p)
  <2> DEFINE B == Grown(A, key)
             T == Second(h, G, p)
  <2>1. /\ T \in Seq(KeySet) /\ Len(T) = Len(G) - p
        /\ T[1] = (IF h = 0 THEN G[p + 1] ELSE [name |-> 0, data |-> G[p + 1].data])
        /\ \A i \in 2 .. (Len(G) - p) : T[i] = G[p + i]
    BY <1>1, <1>7, SecondIs
  <2> HIDE DEF B, T
  <2>2. Len(G) - p = Len(K) - p + 1
    BY <1>1
  <2>3. B[1] = T[1]
    <3>1. 1 \in 1 .. (Len(K) - p + 1) /\ 1 <= s - p
      BY <1>1, <1>4
    <3>2. B[1] = A[1]
      BY <1>6, <3>1 DEF B
    <3> QED
      BY <1>2, <1>9, <2>1, <3>2
  <2>4. ASSUME NEW i \in 2 .. (Len(K) - p + 1) PROVE B[i] = T[i]
    <3>1. i \in 1 .. (Len(K) - p + 1) /\ p + i \in 1 .. (Len(K) + 1)
      OBVIOUS
    <3>2. B[i] = IF i <= s - p THEN A[i] ELSE IF i = (s - p) + 1 THEN key ELSE A[i - 1]
      BY <1>6, <3>1 DEF B
    <3>3. T[i] = IF p + i <= s THEN K[p + i] ELSE IF p + i = s + 1 THEN key ELSE K[(p + i) - 1]
      BY <1>1, <2>1, <2>2, <3>1
    <3>4. CASE p + i <= s
      <4>1. i <= s - p /\ i \in 2 .. (Len(K) - p)
        BY <1>1, <3>4
      <4> QED
        BY <1>2, <3>2, <3>3, <3>4, <4>1
    <3>5. CASE p + i = s + 1
      <4>1. ~ i <= s - p /\ i = (s - p) + 1 /\ ~ p + i <= s
        BY <1>1, <3>5
      <4> QED
        BY <3>2, <3>3, <3>5, <4>1
    <3>6. CASE p + i > s + 1
      <4>1. ~ i <= s - p /\ i # (s - p) + 1 /\ ~ p + i <= s /\ p + i # s + 1
            /\ i - 1 \in 2 .. (Len(K) - p) /\ (p + i) - 1 = p + (i - 1)
        BY <1>1, <1>4, <3>6
      <4> QED
        BY <1>2, <3>2, <3>3, <4>1
    <3> QED
      BY <1>1, <3>4, <3>5, <3>6
  <2>5. \A i \in 1 .. Len(B) : B[i] = T[i]
    BY <1>6, <2>3, <2>4 DEF B
  <2> QED
    BY <1>6, <2>1, <2>2, <2>5, SameKeys DEF B, T
<1> QED
  BY <1>8, <1>9, <1>10 DEF A, G

(* What insert_key yields: the keys with one more, in the block or, when   *)
(* they do not fit, in two new ones.                                       *)
InsertedIn(t, l, key, r) ==
  /\ r.effect = NoEffect
  /\ r.tree = Changed(t, With(t.nodes, l, Node(t.nodes[l].height, Grown(t.nodes[l].keys, key))))
  /\ FreeSpace(Node(t.nodes[l].height, Grown(t.nodes[l].keys, key))) >= 0

SplitAt(t, h, K, q, r) ==
  /\ r.effect.type = "E_SPLIT" /\ r.effect.name = K[q + 1].name
  /\ q \in 1 .. Len(K) /\ q < Len(K)
  /\ r.tree = Changed(t, r.tree.nodes)
  /\ SplitInto(t.nodes, r.tree.nodes, h, K, q, r.effect.new0, r.effect.new1)
  /\ FreeSpace(Node(h, SubSeq(K, 1, q))) >= 0
  /\ FreeSpace(Node(h, Second(h, K, q))) >= 0

(* The block is one whose split cannot start with the key "".              *)
Divisible(h, K) ==
  /\ h = 0 => \A i \in 1 .. Len(K) : K[i].name # 0
  /\ h > 0 => Len(K) > 0 /\ K[1].name = 0

LEMMA DividesLater ==
  ASSUME NEW h \in Nat, NEW K \in Seq(KeySet), Divisible(h, K), Pivot(K) < Len(K), Pivot(K) = 0
  PROVE  h > 0 /\ Len(K) = 1 /\ K[1].name = 0
<1>1. K # <<>>
  BY EmptySeq
<1>2. Len(K) = 1 /\ K[1].name = 0
  BY <1>1, PivotPositive
<1>3. 1 \in 1 .. Len(K)
  BY <1>2
<1> QED
  BY <1>2, <1>3 DEF Divisible

LEMMA AddToSplit ==
  ASSUME NEW t \in TreeSet, NEW l \in TreeBlocks, t.nodes[l].height \in Nat,
         NEW K, K = t.nodes[l].keys, NEW h, h = t.nodes[l].height,
         Sorted(K), Divisible(h, K), FreeSpace(t.nodes[l]) >= 0, NEW key \in KeySet,
         RequiredSpace(key.name, h) > FreeSpace(t.nodes[l]),
         NEW p, p = Pivot(K), p < Len(K),
         NEW u \in TreeSet, u = Changed(t, u.nodes),
         NEW new0, NEW new1, SplitInto(t.nodes, u.nodes, h, K, p, new0, new1),
         NEW e, e.type = "E_SPLIT", e.new0 = new0, e.new1 = new1, e.name = K[p + 1].name,
         NEW r, r.effect = e, r.tree = AddKey(u, HalfFor(e, key.name), key),
         r.tree.fault = "none"
  PROVE  \E q : SplitAt(t, h, Grown(K, key), q, r)
<1> DEFINE n == key.name
           A == SubSeq(K, 1, p)
           B == Second(h, K, p)
           G == Grown(K, key)
           w == HalfFor(e, n)
<1>1. /\ t.nodes[l] \in BlockSet /\ t.nodes[l] = Node(h, K) /\ K \in Seq(KeySet) /\ h \in Nat
      /\ t.nodes \in NodeMap /\ u.nodes \in NodeMap
  BY TreeFields, BlockIsNode
<1>2. p \in 0 .. Len(K) /\ p + 1 \in 1 .. Len(K)
  BY <1>1, StringRuns, PivotIs
<1>3. n \in Nat /\ n \in AllNames /\ K[p + 1].name \in Nat
  BY <1>1, <1>2, KeyNames, NamesAssumption DEF KeySet
<1>4. /\ A \in Seq(KeySet) /\ B \in Seq(KeySet) /\ Sorted(A) /\ Sorted(B) /\ h \in Int
      /\ FreeSpace(Node(h, A)) >= FreeSpace(Node(h, K)) /\ FreeSpace(Node(h, B)) >= FreeSpace(Node(h, K))
      /\ FreeSpace(Node(h, K)) \in Int /\ FreeSpace(Node(h, A)) \in Int /\ FreeSpace(Node(h, B)) \in Int
  <2>1. A \in Seq(KeySet) /\ B \in Seq(KeySet) /\ Sorted(A) /\ Sorted(B) /\ h \in Int
    <3>1. h \in Int
      BY <1>1
    <3>2. A \in Seq(KeySet)
      BY <1>1, <1>2, HalvesAre
    <3>3. B \in Seq(KeySet)
      BY <1>1, <1>2, <3>1, SecondIs
    <3>4. Sorted(A) /\ Sorted(B)
      BY <1>1, <1>2, <3>1, HalvesSorted
    <3> QED
      BY <3>1, <3>2, <3>3, <3>4
  <2> HIDE DEF A, B
  <2>2. FreeSpace(Node(h, A)) >= FreeSpace(Node(h, K)) /\ FreeSpace(Node(h, B)) >= FreeSpace(Node(h, K))
    BY <1>1, <1>2, FreeHalves, SecondFree DEF A, B
  <2> QED
    BY <1>1, <2>1, <2>2, FreeAtMost
<1>5. FreeSpace(Node(h, K)) >= 0 /\ FreeSpace(Node(h, A)) >= 0 /\ FreeSpace(Node(h, B)) >= 0
  <2> DEFINE x == FreeSpace(Node(h, K))
             y == FreeSpace(Node(h, A))
             z == FreeSpace(Node(h, B))
  <2>1. x \in Int /\ y \in Int /\ z \in Int /\ y >= x /\ z >= x /\ x >= 0
    BY <1>1, <1>4
  <2> HIDE DEF x, y, z
  <2>2. y >= 0 /\ z >= 0
    BY <2>1
  <2> QED
    BY <2>1, <2>2 DEF x, y, z
<1>6. /\ u.nodes[new0] = Node(h, A) /\ u.nodes[new1] = Node(h, B) /\ new0 # new1
      /\ new0 \in TreeBlocks \ Blocks(t.nodes) /\ new1 \in TreeBlocks \ Blocks(t.nodes)
      /\ \A x \in TreeBlocks : x # new0 /\ x # new1 => u.nodes[x] = t.nodes[x]
  BY DEF SplitInto
<1>7. G \in Seq(KeySet) /\ Len(G) = Len(K) + 1
  BY <1>1, GrownIs
<1> HIDE DEF A, B, G
<1>8. CASE n < K[p + 1].name
  <2>1. w = new0
    BY <1>3, <1>8 DEF HalfFor
  <2>2. u.nodes[new0].keys = A /\ u.nodes[new0].height = h
    BY <1>6, NodeFields
  <2>3. AddKey(u, new0, key).fault = "none"
    BY <2>1
  <2>4. /\ AddKey(u, new0, key) = Changed(u, With(u.nodes, new0, Node(h, Grown(A, key))))
        /\ Grown(A, key) \in Seq(KeySet) /\ FreeSpace(Node(h, Grown(A, key))) >= 0
    BY <1>4, <1>6, <2>2, <2>3, AddKeyIs
  <2>5. Grown(A, key) = SubSeq(G, 1, p + 1) /\ B = Second(h, G, p + 1) /\ G[p + 2] = K[p + 1]
    <3>1. K \in Seq(KeySet) /\ h \in Int /\ Sorted(K) /\ p \in 0 .. Len(K) /\ p < Len(K) /\ key.name < K[p + 1].name
      BY <1>1, <1>2, <1>4, <1>8
    <3> QED
      BY <3>1, GrowFirst DEF A, B, G
  <2> DEFINE M == With(u.nodes, new0, Node(h, Grown(A, key)))
             q == p + 1
  <2>6. M \in NodeMap /\ M[new0] = Node(h, Grown(A, key)) /\ \A m \in TreeBlocks : m # new0 => M[m] = u.nodes[m]
    <3>1. Node(h, Grown(A, key)) \in BlockSet /\ u.nodes \in NodeMap /\ new0 \in TreeBlocks
      BY <1>1, <1>4, <1>6, <2>4, NodeIn
    <3> QED
      BY <3>1, WithIs
  <2> HIDE DEF M
  <2>7. r.tree = Changed(t, M) /\ r.tree.nodes = M
    <3>1. r.tree = Changed(u, M)
      BY <2>1, <2>4 DEF M
    <3>2. Changed(Changed(t, u.nodes), M) = Changed(t, M)
      BY <1>1, ChangedIs
    <3> QED
      BY <2>6, <3>1, <3>2, ChangedIs
  <2>8. q \in 1 .. Len(G) /\ q < Len(G) /\ q + 1 = p + 2
    BY <1>2, <1>7
  <2> HIDE DEF q
  <2>9. SplitInto(t.nodes, M, h, G, q, new0, new1)
    BY <1>6, <2>5, <2>6 DEF SplitInto, q
  <2>10. FreeSpace(Node(h, SubSeq(G, 1, q))) >= 0 /\ FreeSpace(Node(h, Second(h, G, q))) >= 0
    BY <1>5, <2>4, <2>5 DEF q
  <2>11. r.effect.type = "E_SPLIT" /\ r.effect.name = G[q + 1].name /\ r.effect.new0 = new0 /\ r.effect.new1 = new1
    BY <2>5, <2>8
  <2>12. SplitAt(t, h, G, q, r)
    BY <2>7, <2>8, <2>9, <2>10, <2>11 DEF SplitAt
  <2> QED
    BY <2>12 DEF G
<1>9. CASE n >= K[p + 1].name
  <2>1. w = new1
    BY <1>3, <1>9 DEF HalfFor
  <2>2. u.nodes[new1].keys = B /\ u.nodes[new1].height = h
    BY <1>6, NodeFields
  <2>3. AddKey(u, new1, key).fault = "none"
    BY <2>1
  <2>4. /\ AddKey(u, new1, key) = Changed(u, With(u.nodes, new1, Node(h, Grown(B, key))))
        /\ Grown(B, key) \in Seq(KeySet) /\ FreeSpace(Node(h, Grown(B, key))) >= 0
        /\ RequiredSpace(n, h) <= FreeSpace(u.nodes[new1])
    BY <1>4, <1>6, <2>2, <2>3, AddKeyIs
  <2>5. SubSeq(K, 1, p) = SubSeq(G, 1, p) /\ Grown(B, key) = Second(h, G, p) /\ G[p + 1] = K[p + 1]
    <3>1. K \in Seq(KeySet) /\ h \in Int /\ Sorted(K) /\ p \in 0 .. Len(K) /\ p < Len(K) /\ key.name >= K[p + 1].name
      BY <1>1, <1>2, <1>4, <1>9
    <3> QED
      BY <3>1, GrowSecond DEF B, G
  <2>6. p # 0
    <3> SUFFICES ASSUME p = 0 PROVE FALSE
      OBVIOUS
    <3>1. h > 0 /\ Len(K) = 1 /\ K[1].name = 0
      BY <1>1, DividesLater
    <3>2. Len(B) = 1 /\ B[1] = [name |-> 0, data |-> K[1].data]
      <4>1. /\ Len(B) = Len(K) - p
            /\ B[1] = IF h = 0 THEN K[p + 1] ELSE [name |-> 0, data |-> K[p + 1].data]
        <5>1. K \in Seq(KeySet) /\ h \in Int /\ p \in 0 .. Len(K) /\ p < Len(K)
          BY <1>1, <1>2, <1>4
        <5>2. Len(Second(h, K, p)) = Len(K) - p
          BY <5>1, SecondIs
        <5>3. Second(h, K, p)[1] = IF h = 0 THEN K[p + 1] ELSE [name |-> 0, data |-> K[p + 1].data]
          BY <5>1, SecondIs
        <5> QED
          BY <5>2, <5>3 DEF B
      <4>2. p + 1 = 1 /\ Len(K) - p = 1 /\ h # 0
        BY <1>1, <3>1
      <4>3. B[1] = [name |-> 0, data |-> K[p + 1].data]
        BY <4>1, <4>2
      <4> QED
        BY <4>1, <4>2, <4>3
    <3>3. FreeSpace(Node(h, B)) = FreeSpace(Node(h, K))
      BY <1>1, <1>4, <3>1, <3>2, FreeSameNames
    <3> DEFINE x == FreeSpace(Node(h, K))
               y == RequiredSpace(n, h)
    <3>4. x \in Int /\ y \in Nat /\ y <= x /\ y > x
      BY <1>1, <1>3, <1>4, <1>6, <2>4, <3>3, RequiredIs
    <3> HIDE DEF x, y
    <3> QED
      BY <3>4
  <2> DEFINE M == With(u.nodes, new1, Node(h, Grown(B, key)))
  <2>7. M \in NodeMap /\ M[new1] = Node(h, Grown(B, key)) /\ \A m \in TreeBlocks : m # new1 => M[m] = u.nodes[m]
    <3>1. Node(h, Grown(B, key)) \in BlockSet /\ u.nodes \in NodeMap /\ new1 \in TreeBlocks
      BY <1>1, <1>4, <1>6, <2>4, NodeIn
    <3> QED
      BY <3>1, WithIs
  <2> HIDE DEF M
  <2>8. r.tree = Changed(t, M) /\ r.tree.nodes = M
    <3>1. r.tree = Changed(u, M)
      BY <2>1, <2>4 DEF M
    <3>2. Changed(Changed(t, u.nodes), M) = Changed(t, M)
      BY <1>1, ChangedIs
    <3> QED
      BY <2>7, <3>1, <3>2, ChangedIs
  <2>9. p \in 1 .. Len(G) /\ p < Len(G)
    BY <1>2, <1>7, <2>6
  <2>10. SplitInto(t.nodes, M, h, G, p, new0, new1)
    BY <1>6, <2>5, <2>7 DEF SplitInto, A
  <2>11. FreeSpace(Node(h, SubSeq(G, 1, p))) >= 0 /\ FreeSpace(Node(h, Second(h, G, p))) >= 0
    BY <1>5, <2>4, <2>5 DEF A
  <2>12. r.effect.type = "E_SPLIT" /\ r.effect.name = G[p + 1].name /\ r.effect.new0 = new0 /\ r.effect.new1 = new1
    BY <2>5
  <2>13. SplitAt(t, h, G, p, r)
    BY <2>8, <2>9, <2>10, <2>11, <2>12 DEF SplitAt
  <2> QED
    BY <2>13 DEF G
<1> QED
  BY <1>3, <1>8, <1>9

LEMMA InsertKeyIs ==
  ASSUME NEW t \in TreeSet, NEW l \in TreeBlocks, t.nodes[l].height \in Nat,
         Sorted(t.nodes[l].keys), Divisible(t.nodes[l].height, t.nodes[l].keys),
         FreeSpace(t.nodes[l]) >= 0, NEW key \in KeySet,
         NEW r, r = InsertKey(t, l, key), r.tree.fault = "none"
  PROVE  /\ t.fault = "none"
         /\ \/ InsertedIn(t, l, key, r)
            \/ \E q : SplitAt(t, t.nodes[l].height, Grown(t.nodes[l].keys, key), q, r)
<1> DEFINE K == t.nodes[l].keys
           h == t.nodes[l].height
           s == SplitBlock(t, l)
           e == s.effect
           Into == IF s.effect.type # "E_SPLIT" THEN s
                   ELSE [s EXCEPT !.tree = AddKey(s.tree, HalfFor(s.effect, key.name), key)]
<1>1. t.nodes[l] \in BlockSet /\ t.nodes[l] = Node(h, K) /\ K \in Seq(KeySet) /\ h \in Nat
  BY TreeFields, BlockIsNode
<1>2. key.name \in AllNames /\ key.name \in Nat
  BY NamesAssumption DEF KeySet
<1>3. RequiredSpace(key.name, h) \in Nat /\ FreeSpace(t.nodes[l]) \in Int
  BY <1>1, <1>2, RequiredIs, FreeAtMost
<1>4. CASE RequiredSpace(key.name, h) > FreeSpace(t.nodes[l])
  <2>1. r = Into
    BY <1>4 DEF InsertKey
  <2> DEFINE p == Pivot(K)
  <2>2. \/ e = NoEffect /\ s.tree.fault # "none"
        \/ /\ p < Len(K) /\ e.type = "E_SPLIT" /\ e.name = K[p + 1].name
           /\ s.tree \in TreeSet
           /\ s.tree.fault = "none" =>
                /\ t.fault = "none" /\ s.tree = Changed(t, s.tree.nodes)
                /\ SplitInto(t.nodes, s.tree.nodes, h, K, p, e.new0, e.new1)
    BY SplitBlockIs
  <2>3. CASE e = NoEffect /\ s.tree.fault # "none"
    <3>1. s.effect.type # "E_SPLIT"
      BY <2>3 DEF NoEffect
    <3> QED
      BY <2>1, <2>3, <3>1
  <2>4. CASE /\ p < Len(K) /\ e.type = "E_SPLIT" /\ e.name = K[p + 1].name
             /\ s.tree \in TreeSet
             /\ s.tree.fault = "none" =>
                  /\ t.fault = "none" /\ s.tree = Changed(t, s.tree.nodes)
                  /\ SplitInto(t.nodes, s.tree.nodes, h, K, p, e.new0, e.new1)
    <3>1. r = [s EXCEPT !.tree = AddKey(s.tree, HalfFor(e, key.name), key)]
      BY <2>1, <2>4
    <3>2. s = [tree |-> s.tree, effect |-> s.effect]
      BY DEF SplitBlock
    <3> HIDE DEF s, p
    <3>3. r.effect = e /\ r.tree = AddKey(s.tree, HalfFor(e, key.name), key)
      BY <3>1, <3>2
    <3>4. s.tree.fault = "none"
      BY <2>4, <3>3, FaultStays
    <3>5. \E q : SplitAt(t, h, Grown(K, key), q, r)
      <4> DEFINE u == s.tree
                 new0 == e.new0
                 new1 == e.new1
      <4>1. u \in TreeSet /\ u = Changed(t, u.nodes) /\ SplitInto(t.nodes, u.nodes, h, K, p, new0, new1)
        BY <2>4, <3>4
      <4>2. p = Pivot(K)
        BY DEF p
      <4>3. e.type = "E_SPLIT" /\ e.name = K[p + 1].name /\ p < Len(K) /\ e.new0 = new0 /\ e.new1 = new1
        BY <2>4
      <4>4. r.effect = e /\ r.tree = AddKey(u, HalfFor(e, key.name), key)
        BY <3>3
      <4> HIDE DEF u, e, new0, new1, K, h
      <4> QED
        BY <1>1, <1>4, <4>1, <4>2, <4>3, <4>4, AddToSplit DEF K, h
    <3> QED
      BY <2>4, <3>4, <3>5
  <2> QED
    BY <2>2, <2>3, <2>4
<1>5. CASE ~ RequiredSpace(key.name, h) > FreeSpace(t.nodes[l])
  <2>1. r = [tree |-> AddKey(t, l, key), effect |-> NoEffect]
    BY <1>5 DEF InsertKey
  <2>2. r.tree = AddKey(t, l, key) /\ r.effect = NoEffect /\ AddKey(t, l, key).fault = "none"
    BY <2>1
  <2>3. /\ t.fault = "none"
        /\ AddKey(t, l, key) = Changed(t, With(t.nodes, l, Node(h, Grown(K, key))))
        /\ FreeSpace(Node(h, Grown(K, key))) >= 0
    BY <2>2, AddKeyIs
  <2> QED
    BY <2>2, <2>3 DEF InsertedIn
<1> QED
  BY <1>4, <1>5

-----------------------------------------------------------------------------
(* Keys added one by one behind those of another block.                    *)

LEMMA FindKeyRange ==
  ASSUME NEW K \in Seq(KeySet), NEW n
  PROVE  FindKey(K, n) \in 0 .. Len(K)
<1> DEFINE S == {i \in DOMAIN K : K[i].name <= n}
<1>1. DOMAIN K = 1 .. Len(K) /\ Len(K) \in Nat
  OBVIOUS
<1>2. IsFiniteSet(1 .. Len(K)) /\ Cardinality(1 .. Len(K)) = Len(K)
  BY <1>1, FS_Interval
<1>3. S \subseteq 1 .. Len(K)
  BY <1>1
<1> HIDE DEF S
<1>4. IsFiniteSet(S) /\ Cardinality(S) <= Len(K)
  BY <1>2, <1>3, FS_Subset
<1>5. Cardinality(S) \in Nat
  BY <1>4, FS_CardinalityType
<1> QED
  BY <1>1, <1>4, <1>5 DEF FindKey, S

LEMMA AddedIs ==
  ASSUME NEW K \in Seq(KeySet), NEW k \in KeySet
  PROVE  AddKeyToIndex(K, k) \in Seq(KeySet)
<1> DEFINE p == FindKey(K, k.name)
<1>1. p \in 0 .. Len(K)
  BY FindKeyRange
<1> HIDE DEF p
<1>2. InsertAt(K, p + 1, k) \in Seq(KeySet)
  BY <1>1, KeyInserted
<1> QED
  BY <1>2 DEF AddKeyToIndex, p

AddStep(B, R, f, S) == IF S = {} THEN B ELSE AddKeyToIndex(f[S \ {Max(S)}], R[Max(S)])
IsAddFold(B, R, f) == f = [S \in SUBSET DOMAIN R |-> AddStep(B, R, f, S)]

LEMMA AddUnfold ==
  ASSUME NEW B, NEW R
  PROVE  FoldLeft(AddKeyToIndex, B, R) = (CHOOSE f : IsAddFold(B, R, f))[DOMAIN R]
  BY DEF FoldLeft, MapThenFoldSet, IsAddFold, AddStep

AddRun(B, R, f) ==
  /\ f \in [0 .. Len(R) -> Seq(KeySet)] /\ f[0] = B
  /\ \A i \in 1 .. Len(R) : f[i] = AddKeyToIndex(f[i - 1], R[i])

LEMMA AddRuns ==
  ASSUME NEW B \in Seq(KeySet), NEW K \in Seq(KeySet)
  PROVE  \E f : AddRun(B, K, f) /\ FoldLeft(AddKeyToIndex, B, K) = f[Len(K)]
<1> DEFINE n == Len(K)
           U == Seq(KeySet)
           R == [p \in U \X (1 .. n) |-> AddKeyToIndex(p[1], K[p[2]])]
<1>1. n \in Nat /\ DOMAIN K = 1 .. n /\ B \in U
  OBVIOUS
<1>2. ASSUME NEW u \in U, NEW i \in 1 .. n
      PROVE  R[<<u, i>>] \in U /\ R[<<u, i>>] = AddKeyToIndex(u, K[i])
  <2>1. K[i] \in KeySet
    BY KeyNames
  <2>2. AddKeyToIndex(u, K[i]) \in U
    BY <2>1, AddedIs
  <2> QED
    BY <2>2
<1> HIDE DEF R, n, U
<1>3. StepsIn(U, n, R)
  BY <1>2 DEF StepsIn
<1>4. PICK g \in [SUBSET (1 .. n) -> U] : FoldSolves(n, B, R, g)
  BY <1>1, <1>3, FoldExists
<1>5. IsAddFold(B, K, g)
  <2>1. ASSUME NEW S \in SUBSET (1 .. n) PROVE g[S] = AddStep(B, K, g, S)
    <3>1. CASE S = {}
      BY <1>4, <3>1 DEF AddStep, FoldSolves
    <3>2. CASE S # {}
      <4>1. Max(S) \in 1 .. n /\ S \ {Max(S)} \in SUBSET (1 .. n)
        BY <1>1, <3>2, MaxIs
      <4>2. g[S] = R[<<g[S \ {Max(S)}], Max(S)>>] /\ g[S \ {Max(S)}] \in U
        BY <1>4, <3>2, <4>1 DEF FoldSolves
      <4> QED
        BY <1>2, <3>2, <4>1, <4>2 DEF AddStep
    <3> QED
      BY <3>1, <3>2
  <2>2. g = [S \in SUBSET (1 .. n) |-> g[S]]
    OBVIOUS
  <2> QED
    BY <1>1, <2>1, <2>2 DEF IsAddFold
<1> DEFINE e == CHOOSE f : IsAddFold(B, K, f)
<1>6. IsAddFold(B, K, e)
  BY <1>5
<1> HIDE DEF e
<1>7. \A S \in SUBSET (1 .. n) : e[S] = AddStep(B, K, e, S)
  BY <1>1, <1>6 DEF IsAddFold
<1>8. ASSUME NEW S \in SUBSET (1 .. n)
      PROVE  /\ S = {} => e[S] = B
             /\ S # {} /\ e[S \ {Max(S)}] \in U => e[S] = R[<<e[S \ {Max(S)}], Max(S)>>]
  <2>1. CASE S = {}
    BY <1>7, <2>1 DEF AddStep
  <2>2. CASE S # {}
    <3>1. Max(S) \in 1 .. n
      BY <1>1, <2>2, MaxIs
    <3> QED
      BY <1>2, <1>7, <2>2, <3>1 DEF AddStep
  <2> QED
    BY <2>1, <2>2
<1>9. FoldGives(U, n, B, R, e)
  BY <1>8 DEF FoldGives
<1>10. PICK f : Steps(U, n, B, R, f) /\ f[n] = e[1 .. n]
  BY <1>1, <1>3, <1>9, FoldSteps
<1>11. ASSUME NEW i \in 1 .. n PROVE f[i] = AddKeyToIndex(f[i - 1], K[i])
  <2>1. i - 1 \in 0 .. n
    BY <1>1
  <2>2. f[i - 1] \in U /\ f[i] = R[<<f[i - 1], i>>]
    BY <1>10, <2>1 DEF Steps
  <2> QED
    BY <1>2, <2>2
<1>12. FoldLeft(AddKeyToIndex, B, K) = e[1 .. n]
  BY <1>1, AddUnfold DEF e
<1>13. AddRun(B, K, f)
  BY <1>10, <1>11 DEF AddRun, Steps, n, U
<1> QED
  BY <1>10, <1>12, <1>13 DEF n

(* Behind all keys a key is appended.                                      *)
LEMMA GrowLast ==
  ASSUME NEW K \in Seq(KeySet), NEW k \in KeySet, \A i \in 1 .. Len(K) : K[i].name < k.name
  PROVE  AddKeyToIndex(K, k) = K \o <<k>>
<1>1. k.name \in Nat
  BY NamesAssumption DEF KeySet
<1>2. \A i \in 1 .. Len(K) : K[i].name <= k.name <=> i <= Len(K)
  BY <1>1, KeyNames
<1>3. FindKey(K, k.name) = Len(K)
  <2>1. Len(K) \in 0 .. Len(K)
    OBVIOUS
  <2> QED
    BY <1>1, <1>2, <2>1, FindKeyOf
<1> DEFINE p == Len(K)
           J == InsertAt(K, p + 1, k)
<1>4. p \in 0 .. Len(K) /\ p \in Nat
  OBVIOUS
<1>5. J \in Seq(KeySet) /\ Len(J) = Len(K) + 1
      /\ \A i \in 1 .. Len(K) + 1 : J[i] = IF i <= p THEN K[i] ELSE IF i = p + 1 THEN k ELSE K[i - 1]
  <2> HIDE DEF p
  <2> QED
    BY <1>4, KeyInserted
<1>6. AddKeyToIndex(K, k) = J
  BY <1>3 DEF AddKeyToIndex
<1> HIDE DEF J
<1>7. <<k>> \in Seq(KeySet) /\ Len(<<k>>) = 1 /\ <<k>>[1] = k
  OBVIOUS
<1>8. /\ K \o <<k>> \in Seq(KeySet) /\ Len(K \o <<k>>) = p + 1
      /\ \A i \in 1 .. (p + 1) : (K \o <<k>>)[i] = IF i <= p THEN K[i] ELSE k
  <2>1. /\ K \o <<k>> \in Seq(KeySet) /\ Len(K \o <<k>>) = p + Len(<<k>>)
        /\ \A i \in 1 .. (p + Len(<<k>>)) : (K \o <<k>>)[i] = IF i <= p THEN K[i] ELSE <<k>>[i - p]
    BY <1>7, ConcatProperties
  <2>2. ASSUME NEW i \in 1 .. (p + 1) PROVE (K \o <<k>>)[i] = IF i <= p THEN K[i] ELSE k
    <3>1. CASE i <= p
      BY <1>7, <2>1, <3>1
    <3>2. CASE i = p + 1
      <4>1. i - p = 1 /\ ~ i <= p
        BY <1>4, <3>2
      <4> QED
        BY <1>7, <2>1, <4>1
    <3> QED
      BY <1>4, <3>1, <3>2
  <2> QED
    BY <1>7, <2>1, <2>2
<1>9. \A i \in 1 .. Len(J) : J[i] = (K \o <<k>>)[i]
  <2> SUFFICES ASSUME NEW i \in 1 .. (p + 1) PROVE J[i] = (K \o <<k>>)[i]
    BY <1>5
  <2>1. i <= p \/ i = p + 1
    BY <1>4
  <2> QED
    BY <1>4, <1>5, <1>8, <2>1
<1> QED
  BY <1>5, <1>6, <1>8, <1>9, SameKeys

LEMMA AppendAll ==
  ASSUME NEW B \in Seq(KeySet), NEW K \in Seq(KeySet), Sorted(K),
         \A i \in 1 .. Len(B) : \A j \in 1 .. Len(K) : B[i].name < K[j].name
  PROVE  FoldLeft(AddKeyToIndex, B, K) = B \o K
<1>1. PICK f : AddRun(B, K, f) /\ FoldLeft(AddKeyToIndex, B, K) = f[Len(K)]
  BY AddRuns
<1> DEFINE n == Len(K)
           D == {i \in Nat : i <= n => f[i] = B \o SubSeq(K, 1, i)}
<1>2. n \in Nat
  OBVIOUS
<1>3. 0 \in D
  <2>1. SubSeq(K, 1, 0) = <<>>
    BY SubSeqProperties
  <2>2. f[0] = B /\ B \o <<>> = B
    BY <1>1, ConcatEmptySeq DEF AddRun
  <2> QED
    BY <2>1, <2>2
<1>4. ASSUME NEW i \in Nat, i \in D PROVE i + 1 \in D
  <2> SUFFICES ASSUME i + 1 <= n PROVE f[i + 1] = B \o SubSeq(K, 1, i + 1)
    OBVIOUS
  <2> DEFINE A == SubSeq(K, 1, i)
             C == B \o A
             k == K[i + 1]
  <2>1. i + 1 \in 1 .. n /\ (i + 1) - 1 = i /\ i \in 0 .. n /\ f[i] = C
    BY <1>2, <1>4
  <2>2. f[i + 1] = AddKeyToIndex(C, k)
    <3>1. f[i + 1] = AddKeyToIndex(f[(i + 1) - 1], K[i + 1])
      BY <1>1, <2>1 DEF AddRun
    <3> QED
      BY <2>1, <3>1
  <2>3. A \in Seq(KeySet) /\ Len(A) = i /\ (\A j \in 1 .. i : A[j] = K[j]) /\ k \in KeySet
    BY <2>1, HalvesAre, KeyNames
  <2> HIDE DEF A
  <2>4. C \in Seq(KeySet) /\ Len(C) = Len(B) + i
        /\ \A j \in 1 .. (Len(B) + i) : C[j] = IF j <= Len(B) THEN B[j] ELSE A[j - Len(B)]
    BY <2>3, ConcatProperties
  <2>5. ASSUME NEW j \in 1 .. Len(C) PROVE C[j].name < k.name
    <3>1. CASE j <= Len(B)
      BY <2>1, <2>4, <3>1
    <3>2. CASE ~ j <= Len(B)
      <4>1. j - Len(B) \in 1 .. i /\ j - Len(B) \in 1 .. n /\ j - Len(B) < i + 1
        BY <2>1, <2>4, <3>2
      <4>2. C[j] = K[j - Len(B)]
        BY <2>3, <2>4, <3>2, <4>1
      <4> QED
        BY <2>1, <4>1, <4>2 DEF Sorted
    <3> QED
      BY <3>1, <3>2
  <2> HIDE DEF C
  <2>6. AddKeyToIndex(C, k) = C \o <<k>>
    BY <2>3, <2>4, <2>5, GrowLast
  <2>7. A \o <<k>> = SubSeq(K, 1, i + 1)
    <3>1. SubSeq(K, 1, i + 1) \in Seq(KeySet) /\ Len(SubSeq(K, 1, i + 1)) = i + 1
          /\ \A j \in 1 .. (i + 1) : SubSeq(K, 1, i + 1)[j] = K[j]
      <4>1. i + 1 \in 0 .. n
        BY <2>1
      <4> QED
        BY <4>1, HalvesAre
    <3>2. <<k>> \in Seq(KeySet) /\ Len(<<k>>) = 1 /\ <<k>>[1] = k
      BY <2>3
    <3>3. /\ A \o <<k>> \in Seq(KeySet) /\ Len(A \o <<k>>) = i + 1
          /\ \A j \in 1 .. (i + 1) : (A \o <<k>>)[j] = IF j <= i THEN A[j] ELSE <<k>>[j - i]
      BY <2>3, <3>2, ConcatProperties
    <3>4. ASSUME NEW j \in 1 .. (i + 1) PROVE (A \o <<k>>)[j] = K[j]
      <4>1. CASE j <= i
        BY <2>3, <3>3, <4>1
      <4>2. CASE j = i + 1
        <5>1. j - i = 1 /\ ~ j <= i
          BY <4>2
        <5> QED
          BY <3>2, <3>3, <4>2, <5>1
      <4>3. j <= i \/ j = i + 1
        OBVIOUS
      <4> QED
        BY <4>1, <4>2, <4>3
    <3> QED
      BY <3>1, <3>3, <3>4, SameKeys
  <2>8. C \o <<k>> = B \o (A \o <<k>>)
    <3>1. <<k>> \in Seq(KeySet)
      BY <2>3
    <3> QED
      BY <2>3, <3>1, ConcatAssociative DEF C
  <2> QED
    BY <2>2, <2>6, <2>7, <2>8
<1>5. \A i \in Nat : i \in D
  <2> HIDE DEF D
  <2> QED
    BY <1>3, <1>4, NatSet
<1>6. f[n] = B \o SubSeq(K, 1, n)
  BY <1>2, <1>5
<1>7. SubSeq(K, 1, n) = K
  BY SubSeqFull
<1> QED
  BY <1>1, <1>6, <1>7

(* The keys of the right of two blocks, its first under the separator.     *)
Renamed(h, s, K) ==
  [i \in 1 .. Len(K) |-> [name |-> IF h > 0 /\ i = 1 THEN s ELSE K[i].name, data |-> K[i].data]]

LEMMA RenamedIs ==
  ASSUME NEW h \in Nat, NEW s \in AllNames, NEW K \in Seq(KeySet)
  PROVE  /\ Renamed(h, s, K) \in Seq(KeySet) /\ Len(Renamed(h, s, K)) = Len(K)
         /\ \A i \in 1 .. Len(K) :
              Renamed(h, s, K)[i] = [name |-> IF h > 0 /\ i = 1 THEN s ELSE K[i].name, data |-> K[i].data]
<1>1. ASSUME NEW i \in 1 .. Len(K)
      PROVE  [name |-> IF h > 0 /\ i = 1 THEN s ELSE K[i].name, data |-> K[i].data] \in KeySet
  <2>1. K[i] \in KeySet
    BY KeyNames
  <2> QED
    BY <2>1 DEF KeySet
<1>2. Len(K) \in Nat
  OBVIOUS
<1>3. Renamed(h, s, K) \in [1 .. Len(K) -> KeySet]
  BY <1>1 DEF Renamed
<1>4. Renamed(h, s, K) \in Seq(KeySet) /\ Len(Renamed(h, s, K)) = Len(K)
  BY <1>2, <1>3, IsASeq
<1> QED
  BY <1>4 DEF Renamed

LEMMA MergeIs ==
  ASSUME NEW h \in Nat, NEW s \in AllNames, NEW A \in Seq(KeySet), NEW K \in Seq(KeySet),
         Sorted(Renamed(h, s, K)),
         \A i \in 1 .. Len(K) : h > 0 /\ K[i].name = 0 <=> h > 0 /\ i = 1,
         \A i \in 1 .. Len(A) : \A j \in 1 .. Len(K) : A[i].name < Renamed(h, s, K)[j].name
  PROVE  MergeIndexes(Node(h, A), s, Node(h, K)) = A \o Renamed(h, s, K)
<1> DEFINE Named(k) == IF h > 0 /\ k.name = 0 THEN [k EXCEPT !.name = s] ELSE k
           R == [i \in DOMAIN K |-> Named(K[i])]
<1>1. MergeIndexes(Node(h, A), s, Node(h, K)) = FoldLeft(AddKeyToIndex, A, R)
  BY DEF MergeIndexes, Node
<1>2. ASSUME NEW i \in 1 .. Len(K)
      PROVE  Named(K[i]) = [name |-> IF h > 0 /\ i = 1 THEN s ELSE K[i].name, data |-> K[i].data]
  <2>1. K[i] \in KeySet
    BY KeyNames
  <2>2. K[i] = [name |-> K[i].name, data |-> K[i].data]
        /\ [K[i] EXCEPT !.name = s] = [name |-> s, data |-> K[i].data]
    BY <2>1 DEF KeySet
  <2> QED
    BY <2>2
<1>3. R = Renamed(h, s, K)
  <2>1. DOMAIN K = 1 .. Len(K)
    OBVIOUS
  <2> HIDE DEF Named
  <2> QED
    BY <1>2, <2>1 DEF Renamed
<1> HIDE DEF R
<1> DEFINE J == Renamed(h, s, K)
<1>4. J \in Seq(KeySet) /\ Len(J) = Len(K)
  BY RenamedIs
<1>5. FoldLeft(AddKeyToIndex, A, J) = A \o J
  <2>1. Sorted(J) /\ \A i \in 1 .. Len(A) : \A j \in 1 .. Len(J) : A[i].name < J[j].name
    BY <1>4
  <2> HIDE DEF J
  <2> QED
    BY <1>4, <2>1, AppendAll
<1> QED
  BY <1>1, <1>3, <1>5

-----------------------------------------------------------------------------
(* Blocks given back.                                                      *)

LEMMA FreeIn == FreeBlock \in BlockSet
  BY DEF FreeBlock, BlockSet

Freed(t, l) == [t EXCEPT !.nodes[l] = FreeBlock]
FreedStep(t, f, S) ==
  IF S = {} THEN t ELSE Freed(f[S \ {CHOOSE x \in S : TRUE}], CHOOSE x \in S : TRUE)
IsFreedFold(t, S, f) == f = [R \in SUBSET S |-> FreedStep(t, f, R)]

LEMMA FreedUnfold ==
  ASSUME NEW t, NEW S
  PROVE  Deallocate(t, S) = (CHOOSE f : IsFreedFold(t, S, f))[S]
  BY DEF Deallocate, FoldSet, MapThenFoldSet, IsFreedFold, FreedStep, Freed

LEMMA FreedIs ==
  ASSUME NEW t \in TreeSet, NEW l \in TreeBlocks
  PROVE  Freed(t, l) = Changed(t, With(t.nodes, l, FreeBlock)) /\ Freed(t, l) \in TreeSet
<1>1. Freed(t, l) = Changed(t, With(t.nodes, l, FreeBlock))
  BY DEF Freed, Changed, With
<1>2. With(t.nodes, l, FreeBlock) \in NodeMap
  BY TreeFields, FreeIn, WithIs
<1> QED
  BY <1>1, <1>2, ChangedIs

LEMMA DeallocateOne ==
  ASSUME NEW t \in TreeSet, NEW l \in TreeBlocks
  PROVE  /\ Deallocate(t, {l}) = Changed(t, With(t.nodes, l, FreeBlock))
         /\ Deallocate(t, {l}) \in TreeSet
<1> DEFINE S == {l}
           g == [R \in SUBSET S |-> IF R = {} THEN t ELSE Freed(t, l)]
<1>1. (CHOOSE x \in S : TRUE) = l /\ S \ {l} = {}
  OBVIOUS
<1>2. \A R \in SUBSET S : R = {} \/ R = S
  OBVIOUS
<1>3. IsFreedFold(t, S, g)
  <2>1. g[{}] = t /\ g[S] = Freed(t, l)
    OBVIOUS
  <2>2. ASSUME NEW R \in SUBSET S PROVE g[R] = FreedStep(t, g, R)
    BY <1>1, <1>2, <2>1 DEF FreedStep
  <2>3. g = [R \in SUBSET S |-> g[R]]
    OBVIOUS
  <2> HIDE DEF g
  <2> QED
    BY <2>2, <2>3 DEF IsFreedFold
<1> DEFINE e == CHOOSE f : IsFreedFold(t, S, f)
<1>4. IsFreedFold(t, S, e)
  BY <1>3
<1> HIDE DEF e, g
<1>5. \A R \in SUBSET S : e[R] = FreedStep(t, e, R)
  BY <1>4 DEF IsFreedFold
<1>6. e[{}] = t
  <2>1. {} \in SUBSET S
    OBVIOUS
  <2>2. e[{}] = FreedStep(t, e, {})
    BY <1>5, <2>1
  <2> QED
    BY <2>2 DEF FreedStep
<1>7. e[S] = Freed(t, l)
  <2>1. e[S] = FreedStep(t, e, S) /\ S # {}
    BY <1>5
  <2> QED
    BY <1>1, <1>6, <2>1 DEF FreedStep
<1>8. Deallocate(t, S) = Freed(t, l)
  BY <1>7, FreedUnfold DEF e
<1> QED
  BY <1>8, FreedIs

LEMMA DeallocateTwo ==
  ASSUME NEW t \in TreeSet, NEW l \in TreeBlocks, NEW m \in TreeBlocks, l # m
  PROVE  /\ Deallocate(t, {l, m}) = Changed(t, With(With(t.nodes, l, FreeBlock), m, FreeBlock))
         /\ Deallocate(t, {l, m}) \in TreeSet
<1> DEFINE S == {l, m}
           c == CHOOSE x \in S : TRUE
           d == IF c = l THEN m ELSE l
           b == Freed(Freed(t, d), c)
           g == [R \in SUBSET S |-> IF R = {} THEN t ELSE IF R = {l} THEN Freed(t, l)
                                    ELSE IF R = {m} THEN Freed(t, m) ELSE b]
<1>1. /\ (CHOOSE x \in {l} : TRUE) = l /\ {l} \ {l} = {}
      /\ (CHOOSE x \in {m} : TRUE) = m /\ {m} \ {m} = {}
  OBVIOUS
<1>2. c \in S /\ S \ {c} = {d} /\ d \in S
  <2>1. c \in S
    OBVIOUS
  <2> HIDE DEF c
  <2> QED
    BY <2>1
<1>3. \A R \in SUBSET S : R = {} \/ R = {l} \/ R = {m} \/ R = S
  OBVIOUS
<1>4. {} \in SUBSET S /\ {l} \in SUBSET S /\ {m} \in SUBSET S /\ S \in SUBSET S
      /\ {l} # {} /\ {m} # {} /\ {m} # {l} /\ S # {} /\ S # {l} /\ S # {m}
  OBVIOUS
<1> HIDE DEF c, d
<1>5. IsFreedFold(t, S, g)
  <2>1. g[{}] = t /\ g[{l}] = Freed(t, l) /\ g[{m}] = Freed(t, m) /\ g[S] = b
    BY <1>4
  <2>2. g = [R \in SUBSET S |-> g[R]]
    OBVIOUS
  <2>10. g[{d}] = Freed(t, d)
    BY <1>2, <2>1
  <2> HIDE DEF g
  <2>3. FreedStep(t, g, {}) = t
    BY DEF FreedStep
  <2>4. FreedStep(t, g, {l}) = Freed(t, l)
    BY <1>1, <1>4, <2>1 DEF FreedStep
  <2>5. FreedStep(t, g, {m}) = Freed(t, m)
    BY <1>1, <1>4, <2>1 DEF FreedStep
  <2>6. FreedStep(t, g, S) = b
    BY <1>2, <1>4, <2>10 DEF FreedStep, c
  <2>7. ASSUME NEW R \in SUBSET S PROVE g[R] = FreedStep(t, g, R)
    BY <1>3, <2>1, <2>3, <2>4, <2>5, <2>6
  <2> QED
    BY <2>2, <2>7 DEF IsFreedFold
<1> DEFINE e == CHOOSE f : IsFreedFold(t, S, f)
<1>6. IsFreedFold(t, S, e)
  BY <1>5
<1> HIDE DEF e, g
<1>7. \A R \in SUBSET S : e[R] = FreedStep(t, e, R)
  BY <1>6 DEF IsFreedFold
<1>8. e[{}] = t
  <2>1. e[{}] = FreedStep(t, e, {})
    BY <1>4, <1>7
  <2> QED
    BY <2>1 DEF FreedStep
<1>9. e[{l}] = Freed(t, l) /\ e[{m}] = Freed(t, m)
  <2>1. e[{l}] = FreedStep(t, e, {l}) /\ e[{m}] = FreedStep(t, e, {m})
    BY <1>4, <1>7
  <2> QED
    BY <1>1, <1>4, <1>8, <2>1 DEF FreedStep
<1>10. e[S] = b
  <2>1. e[S] = FreedStep(t, e, S)
    BY <1>4, <1>7
  <2>2. e[{d}] = Freed(t, d)
    BY <1>2, <1>9
  <2> QED
    BY <1>2, <1>4, <2>1, <2>2 DEF FreedStep, c
<1>11. Deallocate(t, S) = b
  BY <1>10, FreedUnfold DEF e
<1>12. c \in TreeBlocks /\ d \in TreeBlocks /\ {c, d} = {l, m}
  BY <1>2
<1> DEFINE A == With(t.nodes, d, FreeBlock)
<1>13. Freed(t, d) = Changed(t, A) /\ Freed(t, d) \in TreeSet
  BY <1>12, FreedIs
<1>14. A \in NodeMap
  BY <1>12, TreeFields, FreeIn, WithIs
<1>15. Freed(t, d).nodes = A
  BY <1>13, <1>14, ChangedIs
<1>16. b = Changed(Freed(t, d), With(A, c, FreeBlock)) /\ b \in TreeSet
  BY <1>12, <1>13, <1>15, FreedIs
<1>17. b = Changed(t, With(A, c, FreeBlock))
  BY <1>13, <1>14, <1>16, ChangedIs
<1>18. With(A, c, FreeBlock) = With(With(t.nodes, l, FreeBlock), m, FreeBlock)
  <2>1. t.nodes \in NodeMap
    BY TreeFields
  <2>2. (c = l /\ d = m) \/ (c = m /\ d = l)
    BY <1>12
  <2> QED
    BY <2>1, <2>2 DEF With, NodeMap
<1> QED
  BY <1>11, <1>16, <1>17, <1>18

-----------------------------------------------------------------------------
(* Zones.  A leaf holds plain keys and extents; a search for one of the    *)
(* blocks of an extent comes to its leaf, though the extent's own name may *)
(* be in another zone since a truncation.                                  *)

Stored(n) == n \in Names \/ \E a, b \in Nums : a <= b /\ n = Extent(a, b)

(* The names under which a leaf key is searched for.                       *)
Low(n) == IF IsExtent(n) THEN SearchName(StartOf(n)) ELSE n
High(n) == IF IsExtent(n) THEN SearchName(StopOf(n)) ELSE n

LEMMA Division ==
  ASSUME NEW m \in Nat, m > 0, NEW a \in Nat, NEW b \in Nat, b < m
  PROVE  (a * m + b) \div m = a /\ (a * m + b) % m = b
  OBVIOUS

LEMMA ExtentIs ==
  ASSUME NEW a \in Nums, NEW b \in 0 .. (MaxNum + 1)
  PROVE  /\ Extent(a, b) \in Nat /\ Extent(a, b) # 0 /\ IsExtent(Extent(a, b))
         /\ StartOf(Extent(a, b)) = a /\ StopOf(Extent(a, b)) = b
<1> DEFINE m == MaxNum + 2
           x == a * m + b
<1>1. m \in Nat /\ m > 0 /\ a \in Nat /\ b \in Nat /\ b < m /\ XBase \in Nat /\ XBase # 0 /\ MaxNum \in Nat
  BY ExtentsAssumption DEF Nums
<1>2. a * m \in Nat /\ a * m <= MaxNum * m /\ MaxNum * m \in Nat
  <2>1. a <= MaxNum
    BY DEF Nums
  <2> HIDE DEF m
  <2> QED
    BY <1>1, <2>1
<1>3. x \in Nat /\ x \div m = a /\ x % m = b
  <2> HIDE DEF m
  <2>1. (a * m + b) \div m = a /\ (a * m + b) % m = b
    BY <1>1, Division
  <2> QED
    BY <1>1, <1>2, <2>1
<1>4. Extent(a, b) = XBase + x
  BY <1>1, <1>2 DEF Extent
<1>5. SearchName(MaxNum) = XBase + MaxNum * m + (MaxNum + 1)
  BY <1>1, <1>2 DEF SearchName, Extent
<1>6. x <= MaxNum * m + (MaxNum + 1)
  <2> DEFINE u == a * m
             v == MaxNum * m
  <2>1. u \in Nat /\ v \in Nat /\ u <= v
    BY <1>2
  <2> HIDE DEF u, v
  <2>2. u + b <= v + (MaxNum + 1)
    BY <1>1, <2>1
  <2> QED
    BY <2>2 DEF u, v
<1> DEFINE v == MaxNum * m
<1>7. v \in Nat
  BY <1>2
<1> HIDE DEF x, v
<1>8. SearchName(MaxNum) = XBase + v + (MaxNum + 1) /\ x <= v + (MaxNum + 1)
  BY <1>5, <1>6 DEF v
<1> HIDE DEF m
<1>9. Extent(a, b) \in XBase .. SearchName(MaxNum)
  BY <1>1, <1>3, <1>4, <1>7, <1>8
<1>10. Extent(a, b) - XBase = x
  BY <1>1, <1>3, <1>4
<1> QED
  BY <1>1, <1>3, <1>4, <1>9, <1>10 DEF IsExtent, StartOf, StopOf, m

LEMMA ExtentOrder ==
  ASSUME NEW a \in Nums, NEW b \in 0 .. (MaxNum + 1), NEW c \in Nums, NEW d \in 0 .. (MaxNum + 1)
  PROVE  Extent(a, b) < Extent(c, d) <=> a < c \/ (a = c /\ b < d)
<1> DEFINE m == MaxNum + 2
<1>1. /\ m \in Nat /\ m > 0 /\ a \in Nat /\ b \in Nat /\ b < m /\ c \in Nat /\ d \in Nat /\ d < m
      /\ XBase \in Nat
  BY ExtentsAssumption DEF Nums
<1>2. Extent(a, b) = XBase + a * m + b /\ Extent(c, d) = XBase + c * m + d
  BY DEF Extent
<1> HIDE DEF m
<1>3. a * m \in Nat /\ c * m \in Nat
  BY <1>1
<1>4. CASE a < c
  <2>1. a + 1 <= c /\ (a + 1) * m = a * m + m
    BY <1>1, <1>4
  <2>2. (a + 1) * m <= c * m
    BY <1>1, <2>1
  <2> DEFINE u == a * m
             v == c * m
  <2>3. u \in Nat /\ v \in Nat /\ u + m <= v
    BY <1>3, <2>1, <2>2
  <2> HIDE DEF u, v
  <2>4. XBase + u + b < XBase + v + d
    BY <1>1, <2>3
  <2> QED
    BY <1>2, <1>4, <2>4 DEF u, v
<1>5. CASE c < a
  <2>1. c + 1 <= a /\ (c + 1) * m = c * m + m
    BY <1>1, <1>5
  <2>2. (c + 1) * m <= a * m
    BY <1>1, <2>1
  <2> DEFINE u == a * m
             v == c * m
  <2>3. u \in Nat /\ v \in Nat /\ v + m <= u
    BY <1>3, <2>1, <2>2
  <2> HIDE DEF u, v
  <2>4. ~ XBase + u + b < XBase + v + d
    BY <1>1, <2>3
  <2>5. ~ a < c /\ a # c
    BY <1>1, <1>5
  <2> QED
    BY <1>2, <2>4, <2>5 DEF u, v
<1>6. CASE a = c
  <2> DEFINE u == a * m
  <2>1. u \in Nat /\ Extent(a, b) = XBase + u + b /\ Extent(c, d) = XBase + u + d
    BY <1>2, <1>3, <1>6
  <2> HIDE DEF u
  <2> QED
    BY <1>1, <1>6, <2>1
<1> QED
  BY <1>1, <1>4, <1>5, <1>6

LEMMA StoredIs ==
  ASSUME NEW n, Stored(n)
  PROVE  /\ n \in Nat /\ n # 0 /\ n \in AllNames
         /\ Low(n) \in Nat /\ High(n) \in Nat /\ n <= Low(n) /\ Low(n) <= High(n)
<1>1. CASE n \in Names
  <2>1. n \in Nat /\ n # 0 /\ n \in AllNames
    BY <1>1, NamesAssumption
  <2>2. ~ IsExtent(n)
    BY <1>1, ExtentsAssumption
  <2>3. Low(n) = n /\ High(n) = n
    BY <2>2 DEF Low, High
  <2> QED
    BY <2>1, <2>3
<1>2. ASSUME NEW a \in Nums, NEW b \in Nums, a <= b, n = Extent(a, b)
      PROVE  /\ n \in Nat /\ n # 0 /\ n \in AllNames
             /\ Low(n) \in Nat /\ High(n) \in Nat /\ n <= Low(n) /\ Low(n) <= High(n)
  <2>1. MaxNum \in Nat /\ b \in 0 .. (MaxNum + 1) /\ MaxNum + 1 \in 0 .. (MaxNum + 1) /\ a \in Nat /\ b \in Nat
        /\ b < MaxNum + 1
    BY ExtentsAssumption DEF Nums
  <2>2. n \in Nat /\ n # 0 /\ IsExtent(n) /\ StartOf(n) = a /\ StopOf(n) = b
    BY <1>2, <2>1, ExtentIs
  <2>3. n \in AllNames
    BY <1>2, ExtentsAssumption
  <2>4. Low(n) = Extent(a, MaxNum + 1) /\ High(n) = Extent(b, MaxNum + 1)
    BY <2>2 DEF Low, High, SearchName
  <2>5. Extent(a, MaxNum + 1) \in Nat /\ Extent(b, MaxNum + 1) \in Nat
    BY <2>1, ExtentIs
  <2>6. n < Extent(a, MaxNum + 1)
    BY <1>2, <2>1, ExtentOrder
  <2>7. ~ Extent(b, MaxNum + 1) < Extent(a, MaxNum + 1)
    BY <1>2, <2>1, ExtentOrder
  <2> QED
    BY <2>2, <2>3, <2>4, <2>5, <2>6, <2>7
<1> QED
  BY <1>1, <1>2 DEF Stored

Convex(Z) == \A a, c \in Z : \A b \in Nat : a <= b /\ b <= c => b \in Z
Part(K, Z, i) == {n \in Z : FindKey(K, n) = i}

LeafOK(K, Z) ==
  /\ \A i \in 1 .. Len(K) : Stored(K[i].name) /\ Low(K[i].name) \in Z /\ High(K[i].name) \in Z
  /\ \A i, j \in 1 .. Len(K) : i < j => High(K[i].name) < K[j].name

Child(N, z, l, i) ==
  /\ N[l].keys[i].data \in Blocks(N)
  /\ N[N[l].keys[i].data].height = N[l].height - 1
  /\ z[N[l].keys[i].data] = Part(N[l].keys, z[l], i)

InnerOK(N, z, l) ==
  /\ Sorted(N[l].keys) /\ Len(N[l].keys) > 0 /\ N[l].keys[1].name = 0
  /\ \A i \in 1 .. Len(N[l].keys) : Child(N, z, l, i)

BlockOK(N, root, z, l) ==
  /\ N[l].height \in 0 .. N[root].height
  /\ z[l] # {} /\ Convex(z[l])
  /\ N[l].height = 0 => LeafOK(N[l].keys, z[l])
  /\ N[l].height > 0 => InnerOK(N, z, l)

Apart(N, z, l, m) == N[l].height = N[m].height /\ z[l] \cap z[m] # {} => l = m

(* The blocks of N are a tree below root, apart from their sizes.          *)
Zoned(N, root, z) ==
  /\ N \in NodeMap /\ root \in Blocks(N)
  /\ z \in [TreeBlocks -> SUBSET Nat] /\ z[root] = Nat
  /\ \A l \in Blocks(N) : BlockOK(N, root, z, l)
  /\ \A l, m \in Blocks(N) : Apart(N, z, l, m)

LEMMA ZonedTypes ==
  ASSUME NEW N, NEW root, NEW z, Zoned(N, root, z), NEW l \in Blocks(N)
  PROVE  /\ l \in TreeBlocks /\ N[l] \in BlockSet /\ N[l] = Node(N[l].height, N[l].keys)
         /\ N[l].keys \in Seq(KeySet) /\ N[l].height \in Nat /\ N[l].height <= N[root].height
         /\ N[root].height \in Nat
         /\ z[l] \in SUBSET Nat /\ z[l] # {} /\ Convex(z[l]) /\ N[l] # FreeBlock
<1>1. l \in TreeBlocks /\ N[l] # FreeBlock /\ root \in Blocks(N) /\ root \in TreeBlocks
  BY DEF Blocks, Zoned
<1>2. N[l] \in BlockSet /\ N[root] \in BlockSet /\ z[l] \in SUBSET Nat
  BY <1>1 DEF Zoned, NodeMap
<1>3. N[l] = Node(N[l].height, N[l].keys) /\ N[l].keys \in Seq(KeySet) /\ N[root].height \in Int
  BY <1>2, BlockIsNode
<1>4. BlockOK(N, root, z, l) /\ BlockOK(N, root, z, root)
  BY <1>1 DEF Zoned
<1> QED
  BY <1>1, <1>2, <1>3, <1>4 DEF BlockOK

LEMMA LeafSorted ==
  ASSUME NEW K \in Seq(KeySet), NEW Z, LeafOK(K, Z)
  PROVE  Sorted(K)
<1> SUFFICES ASSUME NEW i \in 1 .. Len(K), NEW j \in 1 .. Len(K), i < j
             PROVE  K[i].name < K[j].name
  BY DEF Sorted
<1>1. Stored(K[i].name) /\ Stored(K[j].name) /\ High(K[i].name) < K[j].name
  BY DEF LeafOK
<1> QED
  BY <1>1, StoredIs

LEMMA ZonedSorted ==
  ASSUME NEW N, NEW root, NEW z, Zoned(N, root, z), NEW l \in Blocks(N)
  PROVE  Sorted(N[l].keys) /\ Divisible(N[l].height, N[l].keys)
<1>1. N[l].keys \in Seq(KeySet) /\ N[l].height \in Nat
  BY ZonedTypes
<1>2. BlockOK(N, root, z, l)
  BY DEF Zoned
<1>3. CASE N[l].height = 0
  <2>1. LeafOK(N[l].keys, z[l])
    BY <1>2, <1>3 DEF BlockOK
  <2>2. Sorted(N[l].keys)
    BY <1>1, <2>1, LeafSorted
  <2>3. \A i \in 1 .. Len(N[l].keys) : N[l].keys[i].name # 0
    BY <2>1, StoredIs DEF LeafOK
  <2> QED
    BY <1>3, <2>2, <2>3 DEF Divisible
<1>4. CASE N[l].height > 0
  <2>1. InnerOK(N, z, l)
    BY <1>2, <1>4 DEF BlockOK
  <2> QED
    BY <1>4, <2>1 DEF InnerOK, Divisible
<1> QED
  BY <1>1, <1>3, <1>4

(* The child in whose zone a name is.                                      *)
LEMMA ChildFor ==
  ASSUME NEW N, NEW root, NEW z, Zoned(N, root, z), NEW l \in Blocks(N), N[l].height > 0,
         NEW n \in z[l], NEW K, K = N[l].keys
  PROVE  /\ FindKey(K, n) \in 1 .. Len(K)
         /\ K[FindKey(K, n)].data \in Blocks(N) /\ N[K[FindKey(K, n)].data].height = N[l].height - 1
         /\ n \in z[K[FindKey(K, n)].data]
<1>1. K \in Seq(KeySet) /\ Sorted(K) /\ n \in Nat
  BY ZonedTypes, ZonedSorted
<1>2. InnerOK(N, z, l)
  BY DEF Zoned, BlockOK
<1>3. 1 \in 1 .. Len(K) /\ K[1].name = 0
  BY <1>2 DEF InnerOK
<1>4. K[1].name <= n
  BY <1>1, <1>3
<1>5. FindKey(K, n) \in 0 .. Len(K) /\ 1 <= FindKey(K, n)
  BY <1>1, <1>3, <1>4, FindKeyIs
<1>6. FindKey(K, n) \in 1 .. Len(K)
  BY <1>5
<1> DEFINE i == FindKey(K, n)
<1> HIDE DEF i
<1>7. Child(N, z, l, i)
  BY <1>2, <1>6 DEF InnerOK, i
<1>8. n \in Part(K, z[l], i)
  BY DEF Part, i
<1> QED
  BY <1>6, <1>7, <1>8 DEF Child, i

(* A block is the child of one block only.                                 *)
LEMMA OneParent ==
  ASSUME NEW N, NEW root, NEW z, Zoned(N, root, z),
         NEW l \in Blocks(N), N[l].height > 0, NEW i \in 1 .. Len(N[l].keys),
         NEW m \in Blocks(N), N[m].height > 0, NEW j \in 1 .. Len(N[m].keys),
         N[l].keys[i].data = N[m].keys[j].data
  PROVE  l = m /\ i = j
<1> DEFINE c == N[l].keys[i].data
<1>1. Child(N, z, l, i) /\ Child(N, z, m, j)
  BY DEF Zoned, BlockOK, InnerOK
<1>2. c \in Blocks(N) /\ N[c].height = N[l].height - 1 /\ N[c].height = N[m].height - 1
      /\ z[c] = Part(N[l].keys, z[l], i) /\ z[c] = Part(N[m].keys, z[m], j)
  BY <1>1 DEF Child
<1>3. PICK n \in z[c] : TRUE
  BY <1>2, ZonedTypes
<1>4. n \in z[l] /\ n \in z[m] /\ FindKey(N[l].keys, n) = i /\ FindKey(N[m].keys, n) = j
  BY <1>2, <1>3 DEF Part
<1>5. N[l].height \in Nat /\ N[m].height \in Nat
  BY ZonedTypes
<1>6. N[l].height = N[m].height
  BY <1>2, <1>5
<1>7. Apart(N, z, l, m)
  BY DEF Zoned
<1>8. l = m
  BY <1>4, <1>6, <1>7 DEF Apart
<1> QED
  BY <1>4, <1>8

LEMMA FindKeyHalves ==
  ASSUME NEW h \in Int, NEW K \in Seq(KeySet), Sorted(K), NEW q \in 0 .. Len(K), q < Len(K), NEW n \in Nat
  PROVE  /\ n < K[q + 1].name =>
              FindKey(K, n) <= q /\ FindKey(SubSeq(K, 1, q), n) = FindKey(K, n)
         /\ n >= K[q + 1].name =>
              FindKey(K, n) >= q + 1 /\ FindKey(Second(h, K, q), n) = FindKey(K, n) - q
<1> DEFINE s == FindKey(K, n)
<1>1. s \in 0 .. Len(K)
  BY FindKeyIs
<1>2. \A i \in 1 .. Len(K) : K[i].name <= n <=> i <= s
  BY FindKeyIs
<1> HIDE DEF s
<1>3. q + 1 \in 1 .. Len(K)
  OBVIOUS
<1>4. K[q + 1].name \in Nat
  BY <1>3, KeyNames
<1>5. ASSUME n < K[q + 1].name PROVE s <= q /\ FindKey(SubSeq(K, 1, q), n) = s
  <2> DEFINE A == SubSeq(K, 1, q)
  <2>1. A \in Seq(KeySet) /\ Len(A) = q /\ \A i \in 1 .. q : A[i] = K[i]
    BY HalvesAre
  <2> HIDE DEF A
  <2>2. s <= q
    BY <1>1, <1>2, <1>3, <1>4, <1>5
  <2>3. \A i \in 1 .. Len(A) : A[i].name <= n <=> i <= s
    BY <1>2, <2>1
  <2>4. s \in 0 .. Len(A)
    BY <1>1, <2>1, <2>2
  <2>5. FindKey(A, n) = s
    BY <2>1, <2>3, <2>4, FindKeyOf
  <2> QED
    BY <2>2, <2>5 DEF A
<1>6. ASSUME n >= K[q + 1].name PROVE s >= q + 1 /\ FindKey(Second(h, K, q), n) = s - q
  <2> DEFINE A == Second(h, K, q)
  <2>1. /\ A \in Seq(KeySet) /\ Len(A) = Len(K) - q
        /\ A[1] = (IF h = 0 THEN K[q + 1] ELSE [name |-> 0, data |-> K[q + 1].data])
        /\ \A i \in 2 .. (Len(K) - q) : A[i] = K[q + i]
    BY SecondIs
  <2> HIDE DEF A
  <2>2. s >= q + 1
    BY <1>1, <1>2, <1>3, <1>4, <1>6
  <2>3. ASSUME NEW i \in 1 .. (Len(K) - q) PROVE A[i].name <= n <=> i <= s - q
    <3>1. CASE i = 1
      <4>1. A[1].name = 0 \/ A[1].name = K[q + 1].name
        BY <2>1
      <4>2. A[i].name <= n
        BY <1>4, <1>6, <3>1, <4>1
      <4> QED
        BY <1>1, <2>2, <3>1, <4>2
    <3>2. CASE i # 1
      <4>1. i \in 2 .. (Len(K) - q) /\ q + i \in 1 .. Len(K)
        BY <3>2
      <4>2. K[q + i].name <= n <=> q + i <= s
        BY <1>2, <4>1
      <4>3. q + i <= s <=> i <= s - q
        BY <1>1
      <4> QED
        BY <2>1, <4>1, <4>2, <4>3
    <3> QED
      BY <3>1, <3>2
  <2>4. s - q \in 0 .. Len(A)
    BY <1>1, <2>1, <2>2
  <2>5. FindKey(A, n) = s - q
    BY <2>1, <2>3, <2>4, FindKeyOf
  <2> QED
    BY <2>2, <2>5 DEF A
<1> QED
  BY <1>5, <1>6 DEF s

(* Where a name is found without key p of J.                               *)
LEMMA FindKeyWithout ==
  ASSUME NEW J \in Seq(KeySet), Sorted(J), NEW p \in 1 .. Len(J), NEW K \in Seq(KeySet),
         Len(K) = Len(J) - 1,
         \A i \in 1 .. Len(K) : K[i].name = IF i < p THEN J[i].name ELSE J[i + 1].name,
         NEW n \in Nat
  PROVE  FindKey(K, n) = IF FindKey(J, n) < p THEN FindKey(J, n) ELSE FindKey(J, n) - 1
<1> DEFINE s == FindKey(J, n)
           r == IF s < p THEN s ELSE s - 1
<1>1. s \in 0 .. Len(J)
  BY FindKeyIs
<1>2. \A i \in 1 .. Len(J) : J[i].name <= n <=> i <= s
  BY FindKeyIs
<1> HIDE DEF s
<1>3. r \in 0 .. Len(K)
  BY <1>1
<1>4. ASSUME NEW i \in 1 .. Len(K) PROVE K[i].name <= n <=> i <= r
  <2>1. CASE i < p
    <3>1. i \in 1 .. Len(J)
      OBVIOUS
    <3>2. K[i].name <= n <=> i <= s
      BY <1>2, <2>1, <3>1
    <3>3. i <= s <=> i <= r
      BY <1>1, <2>1
    <3> QED
      BY <3>2, <3>3
  <2>2. CASE i >= p
    <3>1. i + 1 \in 1 .. Len(J) /\ ~ i < p
      BY <2>2
    <3>2. K[i].name <= n <=> i + 1 <= s
      BY <1>2, <3>1
    <3>3. i + 1 <= s <=> i <= r
      BY <1>1, <2>2
    <3> QED
      BY <3>2, <3>3
  <2> QED
    BY <2>1, <2>2
<1> HIDE DEF r
<1>5. FindKey(K, n) = r
  BY <1>3, <1>4, FindKeyOf
<1> QED
  BY <1>5 DEF r, s

(* What the search through a block that is not changed comes to.           *)
LEMMA InnerKept ==
  ASSUME NEW N, NEW root, NEW z, Zoned(N, root, z), NEW M, NEW y, NEW G,
         \A x \in Blocks(N) \ G : x \in Blocks(M) /\ M[x].height = N[x].height /\ y[x] = z[x],
         NEW l \in Blocks(N) \ G, M[l] = N[l], N[l].height > 0,
         \A i \in 1 .. Len(N[l].keys) : N[l].keys[i].data \notin G
  PROVE  InnerOK(M, y, l)
<1>1. InnerOK(N, z, l)
  BY DEF Zoned, BlockOK
<1>2. ASSUME NEW i \in 1 .. Len(N[l].keys) PROVE Child(M, y, l, i)
  <2>1. Child(N, z, l, i)
    BY <1>1 DEF InnerOK
  <2> DEFINE c == N[l].keys[i].data
  <2>2. c \in Blocks(N) \ G /\ N[c].height = N[l].height - 1 /\ z[c] = Part(N[l].keys, z[l], i)
    BY <2>1 DEF Child
  <2>3. c \in Blocks(M) /\ M[c].height = N[c].height /\ y[c] = z[c] /\ y[l] = z[l]
    BY <2>2
  <2> QED
    BY <2>2, <2>3 DEF Child
<1> QED
  BY <1>1, <1>2 DEF InnerOK

(* Other keys in a leaf, in the same zone.                                 *)
LEMMA ZonedLeaf ==
  ASSUME NEW N, NEW root, NEW z, Zoned(N, root, z), NEW l \in Blocks(N), N[l].height = 0,
         NEW K \in Seq(KeySet), LeafOK(K, z[l])
  PROVE  /\ Zoned(With(N, l, Node(0, K)), root, z)
         /\ Blocks(With(N, l, Node(0, K))) = Blocks(N)
<1> DEFINE M == With(N, l, Node(0, K))
<1>1. l \in TreeBlocks /\ N \in NodeMap /\ root \in Blocks(N)
  BY ZonedTypes DEF Zoned
<1>2. M \in NodeMap /\ M[l] = Node(0, K) /\ \A m \in TreeBlocks : m # l => M[m] = N[m]
  BY <1>1, NodeIn, WithIs
<1> HIDE DEF M
<1>3. M[l].height = 0 /\ M[l].keys = K /\ M[l] # FreeBlock
  BY <1>2, NodeFields DEF FreeBlock
<1>4. Blocks(M) = Blocks(N)
  BY <1>1, <1>2, <1>3, ZonedTypes DEF Blocks
<1>5. \A x \in Blocks(N) : x \in TreeBlocks /\ M[x].height = N[x].height
  BY <1>1, <1>2, <1>3, ZonedTypes
<1>6. ASSUME NEW x \in Blocks(N) PROVE BlockOK(M, root, z, x)
  <2>1. BlockOK(N, root, z, x) /\ M[x].height = N[x].height /\ M[root].height = N[root].height
    BY <1>1, <1>5 DEF Zoned
  <2>2. CASE x = l
    <3>1. ~ M[x].height > 0
      BY <1>3, <2>2
    <3> QED
      BY <1>3, <2>1, <2>2, <3>1 DEF BlockOK
  <2>3. CASE x # l
    <3>1. M[x] = N[x]
      BY <1>2, <1>5, <2>3
    <3>2. ASSUME N[x].height > 0 PROVE InnerOK(M, z, x)
      <4> DEFINE G == {}
      <4>1. \A k \in Blocks(N) \ G : k \in Blocks(M) /\ M[k].height = N[k].height /\ z[k] = z[k]
        BY <1>4, <1>5
      <4>2. \A i \in 1 .. Len(N[x].keys) : N[x].keys[i].data \notin G
        OBVIOUS
      <4>3. x \in Blocks(N) \ G
        OBVIOUS
      <4> HIDE DEF G
      <4> QED
        BY <3>1, <3>2, <4>1, <4>2, <4>3, InnerKept
    <3> QED
      BY <2>1, <3>1, <3>2 DEF BlockOK
  <2> QED
    BY <2>2, <2>3
<1>7. \A x, m \in Blocks(N) : Apart(M, z, x, m)
  BY <1>5 DEF Zoned, Apart
<1>8. Zoned(M, root, z)
  BY <1>2, <1>4, <1>6, <1>7 DEF Zoned
<1> QED
  BY <1>4, <1>8 DEF M

(* A name between two keys of a block is in the zone of the block.         *)
LEMMA ZoneBetween ==
  ASSUME NEW N, NEW root, NEW z, Zoned(N, root, z), NEW c \in Blocks(N),
         NEW K, K = N[c].keys, NEW q \in 1 .. Len(K), q < Len(K)
  PROVE  K[q + 1].name \in z[c] /\ \E n \in z[c] : n < K[q + 1].name
<1> DEFINE s == K[q + 1].name
<1>1. K \in Seq(KeySet) /\ Sorted(K) /\ N[c].height \in Nat /\ Convex(z[c]) /\ z[c] \in SUBSET Nat
  BY ZonedTypes, ZonedSorted
<1>2. q + 1 \in 1 .. Len(K) /\ q \in 1 .. Len(K) /\ q < q + 1
  BY <1>1
<1>3. s \in Nat
  BY <1>1, <1>2, KeyNames
<1>4. BlockOK(N, root, z, c)
  BY DEF Zoned
<1>5. \E a, b \in z[c] : a < s /\ s <= b
  <2>1. CASE N[c].height = 0
    <3>1. LeafOK(K, z[c])
      BY <1>4, <2>1 DEF BlockOK
    <3>2. High(K[q].name) \in z[c] /\ High(K[q + 1].name) \in z[c] /\ High(K[q].name) < s
          /\ Stored(K[q + 1].name)
      BY <1>2, <3>1 DEF LeafOK
    <3>3. s <= High(s)
      BY <3>2, StoredIs
    <3> QED
      BY <3>2, <3>3
  <2>2. CASE N[c].height > 0
    <3>1. Child(N, z, c, q) /\ Child(N, z, c, q + 1)
      BY <1>2, <1>4, <2>2 DEF BlockOK, InnerOK
    <3>2. PICK a \in Part(K, z[c], q) : TRUE
      BY <3>1, ZonedTypes DEF Child
    <3>3. PICK b \in Part(K, z[c], q + 1) : TRUE
      BY <3>1, ZonedTypes DEF Child
    <3>4. a \in z[c] /\ a \in Nat /\ FindKey(K, a) = q /\ b \in z[c] /\ b \in Nat /\ FindKey(K, b) = q + 1
      BY <1>1, <3>2, <3>3 DEF Part
    <3>5. ~ K[q + 1].name <= a /\ K[q + 1].name <= b
      <4>1. \A i \in 1 .. Len(K) : K[i].name <= a <=> i <= FindKey(K, a)
        BY <1>1, <3>4, FindKeyIs
      <4>2. \A i \in 1 .. Len(K) : K[i].name <= b <=> i <= FindKey(K, b)
        BY <1>1, <3>4, FindKeyIs
      <4>3. ~ q + 1 <= FindKey(K, a) /\ q + 1 <= FindKey(K, b)
        BY <1>2, <3>4
      <4> QED
        BY <1>2, <4>1, <4>2, <4>3
    <3> QED
      BY <1>3, <3>4, <3>5
  <2> QED
    BY <1>1, <2>1, <2>2
<1> QED
  BY <1>1, <1>3, <1>5 DEF Convex

(* The key of a second child beside that of a first.                       *)
Paired(K, i, s, d, e, J) ==
  /\ J \in Seq(KeySet) /\ Len(J) = Len(K) + 1 /\ Sorted(J)
  /\ J[i] = [name |-> K[i].name, data |-> d] /\ J[i + 1] = [name |-> s, data |-> e]
  /\ \A j \in 1 .. (Len(K) + 1) : j < i => J[j] = K[j]
  /\ \A j \in 1 .. (Len(K) + 1) : j > i + 1 => J[j] = K[j - 1]
  /\ \A n \in Nat : FindKey(J, n) = IF n < s THEN FindKey(K, n) ELSE FindKey(K, n) + 1

LEMMA PairedKeys ==
  ASSUME NEW K \in Seq(KeySet), Sorted(K), NEW i \in 1 .. Len(K), NEW s \in AllNames,
         FindKey(K, s) = i, s # K[i].name, NEW d \in DataSet, NEW e \in DataSet,
         NEW J, J = Grown(Put(K, i, d), [name |-> s, data |-> e])
  PROVE  Paired(K, i, s, d, e, J)
<1> DEFINE P == Put(K, i, d)
           k == [name |-> s, data |-> e]
<1>1. /\ P \in Seq(KeySet) /\ Len(P) = Len(K) /\ P[i] = [name |-> K[i].name, data |-> d] /\ Sorted(P)
      /\ (\A j \in 1 .. Len(K) : P[j].name = K[j].name) /\ \A j \in 1 .. Len(K) : j # i => P[j] = K[j]
  BY PutIs
<1>2. s \in Nat /\ k \in KeySet /\ k.name = s
  BY NamesAssumption DEF KeySet
<1>3. J = Grown(P, k)
  OBVIOUS
<1> HIDE DEF P, k
<1>4. \A j \in 1 .. Len(K) : K[j].name <= s <=> j <= i
  BY <1>2, FindKeyIs
<1>5. FindKey(P, s) = i
  <2>1. \A j \in 1 .. Len(P) : P[j].name <= s <=> j <= i
    BY <1>1, <1>4
  <2>2. i \in 0 .. Len(P)
    BY <1>1
  <2> QED
    BY <1>1, <1>2, <2>1, <2>2, FindKeyOf
<1>6. J \in Seq(KeySet) /\ Len(J) = Len(K) + 1
  BY <1>1, <1>2, <1>3, GrownIs
<1>7. \A j \in 1 .. (Len(K) + 1) : J[j] = IF j <= i THEN P[j] ELSE IF j = i + 1 THEN k ELSE P[j - 1]
  <2> SUFFICES ASSUME NEW j \in 1 .. (Len(K) + 1)
               PROVE  J[j] = IF j <= i THEN P[j] ELSE IF j = i + 1 THEN k ELSE P[j - 1]
    OBVIOUS
  <2>1. j \in 1 .. (Len(P) + 1)
    BY <1>1
  <2>2. Grown(P, k)[j] = IF j <= FindKey(P, k.name) THEN P[j]
                         ELSE IF j = FindKey(P, k.name) + 1 THEN k ELSE P[j - 1]
    <3>1. \A x \in 1 .. (Len(P) + 1) :
            Grown(P, k)[x] = IF x <= FindKey(P, k.name) THEN P[x]
                             ELSE IF x = FindKey(P, k.name) + 1 THEN k ELSE P[x - 1]
      BY <1>1, <1>2, GrownIs
    <3> QED
      BY <2>1, <3>1
  <2> QED
    BY <1>2, <1>3, <1>5, <2>2
<1>8. J[i] = [name |-> K[i].name, data |-> d] /\ J[i + 1] = k
  <2>1. i \in 1 .. (Len(K) + 1) /\ i + 1 \in 1 .. (Len(K) + 1) /\ i <= i /\ ~ i + 1 <= i
    OBVIOUS
  <2> QED
    BY <1>1, <1>7, <2>1
<1>9. ASSUME NEW j \in 1 .. (Len(K) + 1), j < i PROVE J[j] = K[j]
  <2>1. j \in 1 .. Len(K) /\ j # i /\ j <= i
    BY <1>9
  <2> QED
    BY <1>1, <1>7, <2>1
<1>10. ASSUME NEW j \in 1 .. (Len(K) + 1), j > i + 1 PROVE J[j] = K[j - 1]
  <2>1. j - 1 \in 1 .. Len(K) /\ j - 1 # i /\ ~ j <= i /\ j # i + 1
    BY <1>10
  <2> QED
    BY <1>1, <1>7, <2>1
<1>11. \A j \in 1 .. Len(K) : K[j].name \in Nat
  BY KeyNames
<1>12. \A j \in 1 .. (Len(K) + 1) : J[j].name = IF j <= i THEN K[j].name ELSE IF j = i + 1 THEN s ELSE K[j - 1].name
  <2> SUFFICES ASSUME NEW j \in 1 .. (Len(K) + 1)
               PROVE  J[j].name = IF j <= i THEN K[j].name ELSE IF j = i + 1 THEN s ELSE K[j - 1].name
    OBVIOUS
  <2>1. CASE j <= i
    <3>1. j \in 1 .. Len(K)
      BY <2>1
    <3> QED
      BY <1>1, <1>7, <2>1, <3>1
  <2>2. CASE j = i + 1
    BY <1>2, <1>8, <2>2
  <2>3. CASE j > i + 1
    BY <1>10, <2>3
  <2> QED
    BY <2>1, <2>2, <2>3
<1>13. ASSUME NEW a \in 1 .. (Len(K) + 1), NEW b \in 1 .. (Len(K) + 1), a < b
       PROVE  J[a].name < J[b].name
  <2>1. i \in 1 .. Len(K) /\ K[i].name \in Nat /\ K[i].name <= s /\ K[i].name # s
    BY <1>4, <1>11
  <2>2. CASE b <= i
    <3>1. a \in 1 .. Len(K) /\ b \in 1 .. Len(K) /\ a <= i
      BY <1>13, <2>2
    <3> QED
      BY <1>12, <1>13, <2>2, <3>1 DEF Sorted
  <2>3. CASE b = i + 1
    <3>1. a \in 1 .. Len(K) /\ a <= i /\ ~ b <= i
      BY <1>13, <2>3
    <3>2. K[a].name <= K[i].name
      BY <1>11, <2>1, <3>1 DEF Sorted
    <3>3. J[a].name = K[a].name /\ J[b].name = s
      BY <1>12, <2>3, <3>1
    <3> QED
      BY <1>2, <1>11, <2>1, <3>1, <3>2, <3>3
  <2>4. CASE b > i + 1
    <3>1. b - 1 \in 1 .. Len(K) /\ ~ b <= i /\ b # i + 1 /\ ~ b - 1 <= i /\ J[b].name = K[b - 1].name
      BY <1>12, <2>4
    <3>2. CASE a <= i
      <4>1. a \in 1 .. Len(K) /\ a < b - 1
        BY <2>4, <3>2
      <4> QED
        BY <1>12, <3>1, <3>2, <4>1 DEF Sorted
    <3>3. CASE a = i + 1
      <4>1. J[a].name = s
        BY <1>12, <3>3
      <4>2. ~ K[b - 1].name <= s
        BY <1>4, <3>1
      <4> QED
        BY <1>2, <1>11, <3>1, <4>1, <4>2
    <3>4. CASE a > i + 1
      <4>1. a - 1 \in 1 .. Len(K) /\ a - 1 < b - 1 /\ ~ a <= i /\ a # i + 1
        BY <1>13, <3>4
      <4>2. J[a].name = K[a - 1].name
        BY <1>12, <4>1
      <4> QED
        BY <3>1, <4>1, <4>2 DEF Sorted
    <3> QED
      BY <3>2, <3>3, <3>4
  <2> QED
    BY <2>2, <2>3, <2>4
<1>14. Sorted(J)
  BY <1>6, <1>13 DEF Sorted
<1>15. ASSUME NEW n \in Nat
       PROVE  FindKey(J, n) = IF n < s THEN FindKey(K, n) ELSE FindKey(K, n) + 1
  <2> DEFINE p == i + 1
  <2>1. p \in 1 .. Len(J) /\ Len(K) = Len(J) - 1 /\ J[p].name = s
    BY <1>2, <1>6, <1>8
  <2>2. \A j \in 1 .. Len(K) : K[j].name = IF j < p THEN J[j].name ELSE J[j + 1].name
    <3> SUFFICES ASSUME NEW j \in 1 .. Len(K) PROVE K[j].name = IF j < p THEN J[j].name ELSE J[j + 1].name
      OBVIOUS
    <3>1. CASE j < p
      <4>1. j <= i /\ j \in 1 .. (Len(K) + 1)
        BY <3>1
      <4> QED
        BY <1>12, <3>1, <4>1
    <3>2. CASE ~ j < p
      <4>1. ~ j + 1 <= i /\ j + 1 # i + 1 /\ j + 1 \in 1 .. (Len(K) + 1) /\ (j + 1) - 1 = j
        BY <3>2
      <4> QED
        BY <1>12, <3>2, <4>1
    <3> QED
      BY <3>1, <3>2
  <2> HIDE DEF p
  <2>3. FindKey(K, n) = IF FindKey(J, n) < p THEN FindKey(J, n) ELSE FindKey(J, n) - 1
    BY <1>6, <1>14, <2>1, <2>2, FindKeyWithout
  <2>4. FindKey(J, n) \in 0 .. Len(J) /\ (J[p].name <= n <=> p <= FindKey(J, n))
    BY <1>6, <1>14, <2>1, FindKeyIs
  <2> QED
    BY <1>2, <2>1, <2>3, <2>4
<1> QED
  BY <1>6, <1>8, <1>9, <1>10, <1>14, <1>15 DEF k, Paired

Below(Z, s) == {n \in Z : n < s}
From(Z, s) == {n \in Z : n >= s}

LEMMA HalvesConvex ==
  ASSUME NEW Z \in SUBSET Nat, Convex(Z), NEW s \in Nat
  PROVE  Convex(Below(Z, s)) /\ Convex(From(Z, s))
         /\ Below(Z, s) \in SUBSET Nat /\ From(Z, s) \in SUBSET Nat
<1>1. Below(Z, s) \in SUBSET Nat /\ From(Z, s) \in SUBSET Nat
  BY DEF Below, From
<1>2. ASSUME NEW a \in Below(Z, s), NEW c \in Below(Z, s), NEW b \in Nat, a <= b, b <= c
      PROVE  b \in Below(Z, s)
  <2>1. a \in Z /\ c \in Z /\ c < s /\ c \in Nat
    BY DEF Below
  <2>2. b \in Z /\ b < s
    BY <1>2, <2>1 DEF Convex
  <2> QED
    BY <2>2 DEF Below
<1>3. ASSUME NEW a \in From(Z, s), NEW c \in From(Z, s), NEW b \in Nat, a <= b, b <= c
      PROVE  b \in From(Z, s)
  <2>1. a \in Z /\ c \in Z /\ a >= s /\ a \in Nat
    BY DEF From
  <2>2. b \in Z /\ b >= s
    BY <1>3, <2>1 DEF Convex
  <2> QED
    BY <2>2 DEF From
<1> QED
  BY <1>1, <1>2, <1>3 DEF Convex

LEMMA LeafHalves ==
  ASSUME NEW K \in Seq(KeySet), NEW Z \in SUBSET Nat, LeafOK(K, Z), NEW q \in 1 .. Len(K), q < Len(K),
         NEW s, s = K[q + 1].name
  PROVE  LeafOK(SubSeq(K, 1, q), Below(Z, s)) /\ LeafOK(Second(0, K, q), From(Z, s))
<1> DEFINE A == SubSeq(K, 1, q)
           B == Second(0, K, q)
<1>1. q \in 0 .. Len(K) /\ q + 1 \in 1 .. Len(K) /\ Len(K) \in Nat
  OBVIOUS
<1>2. Len(A) = q /\ \A i \in 1 .. q : A[i] = K[i]
  BY <1>1, HalvesAre
<1>3. Len(B) = Len(K) - q /\ \A i \in 1 .. (Len(K) - q) : B[i] = K[q + i]
  <2>1. B = SubSeq(K, q + 1, Len(K))
    BY DEF Second, SecondHalf, Node
  <2> HIDE DEF B
  <2> QED
    BY <1>1, <2>1, HalvesAre
<1> HIDE DEF A, B
<1>4. \A i \in 1 .. Len(K) : /\ Stored(K[i].name) /\ Low(K[i].name) \in Z /\ High(K[i].name) \in Z
                             /\ K[i].name <= Low(K[i].name) /\ Low(K[i].name) <= High(K[i].name)
                             /\ K[i].name \in Nat /\ Low(K[i].name) \in Nat /\ High(K[i].name) \in Nat
  BY StoredIs DEF LeafOK
<1>5. LeafOK(A, Below(Z, s))
  <2>1. ASSUME NEW i \in 1 .. q PROVE Low(K[i].name) < s /\ High(K[i].name) < s
    <3>1. i \in 1 .. Len(K) /\ i < q + 1
      BY <1>1
    <3>2. High(K[i].name) < K[q + 1].name
      BY <1>1, <3>1 DEF LeafOK
    <3> QED
      BY <1>1, <1>4, <3>1, <3>2
  <2>2. \A i \in 1 .. q : i \in 1 .. Len(K)
    BY <1>1
  <2>3. \A i \in 1 .. q : Stored(A[i].name) /\ Low(A[i].name) \in Below(Z, s) /\ High(A[i].name) \in Below(Z, s)
    BY <1>2, <1>4, <2>1, <2>2 DEF Below
  <2>4. \A i, j \in 1 .. q : i < j => High(A[i].name) < A[j].name
    BY <1>2, <2>2 DEF LeafOK
  <2> QED
    BY <1>2, <2>3, <2>4 DEF LeafOK
<1>6. LeafOK(B, From(Z, s))
  <2>1. \A i \in 1 .. (Len(K) - q) : q + i \in 1 .. Len(K)
    BY <1>1
  <2>2. Sorted(K)
    BY LeafSorted
  <2>3. ASSUME NEW i \in 1 .. (Len(K) - q) PROVE K[q + i].name >= s
    <3>1. i = 1 \/ q + 1 < q + i
      BY <1>1
    <3>2. q + i \in 1 .. Len(K) /\ K[q + i].name \in Nat /\ s \in Nat
      BY <1>1, <1>4, <2>1
    <3>3. CASE i = 1
      BY <3>2, <3>3
    <3>4. CASE q + 1 < q + i
      <4>1. K[q + 1].name < K[q + i].name
        BY <1>1, <2>2, <3>2, <3>4 DEF Sorted
      <4> QED
        BY <3>2, <4>1
    <3> QED
      BY <3>1, <3>3, <3>4
  <2>4. ASSUME NEW i \in 1 .. (Len(K) - q)
        PROVE  Stored(B[i].name) /\ Low(B[i].name) \in From(Z, s) /\ High(B[i].name) \in From(Z, s)
    <3>1. B[i] = K[q + i] /\ q + i \in 1 .. Len(K) /\ K[q + i].name >= s
      BY <1>3, <2>1, <2>3
    <3>2. s \in Nat
      BY <1>1, <1>4
    <3>3. Low(K[q + i].name) >= s /\ High(K[q + i].name) >= s
      <4> DEFINE k == K[q + i].name
      <4>1. /\ k <= Low(k) /\ Low(k) <= High(k) /\ k \in Nat /\ Low(k) \in Nat /\ High(k) \in Nat
            /\ k >= s
        BY <1>4, <3>1
      <4> HIDE DEF k
      <4>2. Low(k) >= s /\ High(k) >= s
        BY <3>2, <4>1
      <4> QED
        BY <4>2 DEF k
    <3> QED
      BY <1>4, <3>1, <3>3 DEF From
  <2>5. ASSUME NEW i \in 1 .. (Len(K) - q), NEW j \in 1 .. (Len(K) - q), i < j
        PROVE  High(B[i].name) < B[j].name
    <3>1. q + i \in 1 .. Len(K) /\ q + j \in 1 .. Len(K) /\ q + i < q + j
      BY <2>1, <2>5
    <3> QED
      BY <1>3, <3>1 DEF LeafOK
  <2> QED
    BY <1>3, <2>4, <2>5 DEF LeafOK
<1> QED
  BY <1>5, <1>6 DEF A, B

PartsKept(h, K, q, s, Z) ==
  /\ \A i \in 1 .. q : Part(SubSeq(K, 1, q), Below(Z, s), i) = Part(K, Z, i)
  /\ \A i \in 1 .. (Len(K) - q) : Part(Second(h, K, q), From(Z, s), i) = Part(K, Z, q + i)

LEMMA InnerHalves ==
  ASSUME NEW h \in Int, NEW K \in Seq(KeySet), Sorted(K), NEW q \in 1 .. Len(K), q < Len(K),
         NEW s, s = K[q + 1].name, NEW Z \in SUBSET Nat
  PROVE  PartsKept(h, K, q, s, Z)
<1>1. q \in 0 .. Len(K) /\ q + 1 \in 1 .. Len(K) /\ Len(K) \in Nat
  OBVIOUS
<1>2. s \in Nat
  BY <1>1, KeyNames
<1>3. ASSUME NEW n \in Nat
      PROVE  /\ FindKey(K, n) \in 0 .. Len(K)
             /\ n < s => FindKey(K, n) <= q /\ FindKey(SubSeq(K, 1, q), n) = FindKey(K, n)
             /\ n >= s => FindKey(K, n) >= q + 1 /\ FindKey(Second(h, K, q), n) = FindKey(K, n) - q
  BY <1>1, FindKeyHalves, FindKeyIs
<1>4. ASSUME NEW i \in 1 .. q PROVE Part(SubSeq(K, 1, q), Below(Z, s), i) = Part(K, Z, i)
  <2>1. ASSUME NEW n \in Z
        PROVE  n < s /\ FindKey(SubSeq(K, 1, q), n) = i <=> FindKey(K, n) = i
    <3>1. n \in Nat /\ i <= q
      OBVIOUS
    <3>2. n < s \/ n >= s
      BY <1>2, <3>1
    <3>3. CASE n < s
      <4>1. FindKey(SubSeq(K, 1, q), n) = FindKey(K, n)
        BY <1>3, <3>1, <3>3
      <4> QED
        BY <3>3, <4>1
    <3>4. CASE n >= s
      <4>1. FindKey(K, n) >= q + 1 /\ FindKey(K, n) \in 0 .. Len(K)
        BY <1>3, <3>1, <3>4
      <4>2. ~ n < s
        BY <1>2, <3>1, <3>4
      <4>3. FindKey(K, n) # i
        BY <1>1, <3>1, <4>1
      <4> QED
        BY <4>2, <4>3
    <3> QED
      BY <3>2, <3>3, <3>4
  <2> QED
    BY <2>1 DEF Part, Below
<1>5. ASSUME NEW i \in 1 .. (Len(K) - q) PROVE Part(Second(h, K, q), From(Z, s), i) = Part(K, Z, q + i)
  <2>1. ASSUME NEW n \in Z
        PROVE  n >= s /\ FindKey(Second(h, K, q), n) = i <=> FindKey(K, n) = q + i
    <3>1. n \in Nat /\ i >= 1
      OBVIOUS
    <3>2. n < s \/ n >= s
      BY <1>2, <3>1
    <3>3. CASE n < s
      <4>1. FindKey(K, n) <= q /\ FindKey(K, n) \in 0 .. Len(K)
        BY <1>3, <3>1, <3>3
      <4>2. ~ n >= s
        BY <1>2, <3>1, <3>3
      <4>3. FindKey(K, n) # q + i
        BY <1>1, <3>1, <4>1
      <4> QED
        BY <4>2, <4>3
    <3>4. CASE n >= s
      <4>1. FindKey(Second(h, K, q), n) = FindKey(K, n) - q
        BY <1>3, <3>1, <3>4
      <4>2. FindKey(K, n) \in 0 .. Len(K)
        BY <1>3, <3>1
      <4>3. FindKey(K, n) - q = i <=> FindKey(K, n) = q + i
        BY <1>1, <4>2
      <4> QED
        BY <3>4, <4>1, <4>3
    <3> QED
      BY <3>2, <3>3, <3>4
  <2> QED
    BY <2>1 DEF Part, From
<1> QED
  BY <1>4, <1>5 DEF PartsKept

(* Two new blocks in the place of child c of m, the keys of m as they are  *)
(* after update_key and insert_key.                                        *)
ChildSplit(N, M, m, i, c, q, new0, new1) ==
  /\ M \in NodeMap /\ new0 # new1
  /\ new0 \in TreeBlocks \ Blocks(N) /\ new1 \in TreeBlocks \ Blocks(N)
  /\ M[new0] = Node(N[c].height, SubSeq(N[c].keys, 1, q))
  /\ M[new1] = Node(N[c].height, Second(N[c].height, N[c].keys, q))
  /\ M[c] = FreeBlock
  /\ M[m] = Node(N[m].height, Grown(Put(N[m].keys, i, new0),
                                    [name |-> N[c].keys[q + 1].name, data |-> new1]))
  /\ \A x \in TreeBlocks : x \notin {new0, new1, c, m} => M[x] = N[x]

SplitZone(z, c, s, new0, new1) ==
  [x \in TreeBlocks |-> IF x = new0 THEN Below(z[c], s) ELSE IF x = new1 THEN From(z[c], s) ELSE z[x]]

(* The separator is no key of the parent.                                  *)
LEMMA SeparatorNew ==
  ASSUME NEW N, NEW root, NEW z, Zoned(N, root, z), NEW m \in Blocks(N), N[m].height > 0,
         NEW i \in 1 .. Len(N[m].keys), NEW c, c = N[m].keys[i].data,
         NEW q \in 1 .. Len(N[c].keys), q < Len(N[c].keys), NEW s, s = N[c].keys[q + 1].name
  PROVE  /\ c \in Blocks(N) /\ N[c].height = N[m].height - 1 /\ c # m
         /\ s \in AllNames /\ s \in Nat /\ FindKey(N[m].keys, s) = i /\ s # N[m].keys[i].name
<1>1. Child(N, z, m, i)
  BY DEF Zoned, BlockOK, InnerOK
<1>2. c \in Blocks(N) /\ N[c].height = N[m].height - 1 /\ z[c] = Part(N[m].keys, z[m], i)
  BY <1>1 DEF Child
<1>3. N[m].height \in Nat /\ N[m].keys \in Seq(KeySet) /\ Sorted(N[m].keys) /\ N[c].keys \in Seq(KeySet)
      /\ z[c] \in SUBSET Nat
  BY <1>2, ZonedTypes, ZonedSorted
<1>4. s \in z[c] /\ \E n \in z[c] : n < s
  BY <1>2, ZoneBetween
<1>5. PICK n \in z[c] : n < s
  BY <1>4
<1>6. FindKey(N[m].keys, s) = i /\ FindKey(N[m].keys, n) = i /\ s \in Nat /\ n \in Nat
  BY <1>2, <1>3, <1>4, <1>5 DEF Part
<1>7. N[m].keys[i].name <= n /\ N[m].keys[i].name \in Nat
  <2>1. i <= FindKey(N[m].keys, n)
    BY <1>6
  <2>2. N[m].keys[i].name <= n
    BY <1>3, <1>6, <2>1, FindKeyIs
  <2> QED
    BY <1>3, <2>2, KeyNames
<1>8. s # N[m].keys[i].name
  <2> DEFINE k == N[m].keys[i].name
  <2>1. k <= n /\ k \in Nat /\ n < s /\ n \in Nat /\ s \in Nat
    BY <1>5, <1>6, <1>7
  <2> HIDE DEF k
  <2>2. ~ n < k
    BY <2>1
  <2>3. s # k
    BY <2>1, <2>2, Zenon
  <2> QED
    BY <2>3 DEF k
<1>9. s \in AllNames
  <2>1. q + 1 \in 1 .. Len(N[c].keys)
    BY <1>3
  <2> QED
    BY <1>3, <2>1, KeyNames
<1>10. c # m
  BY <1>2, <1>3
<1> QED
  BY <1>2, <1>6, <1>8, <1>9, <1>10

SplitDone(N, M, root, z, c, s, new0, new1) ==
  /\ Zoned(M, root, SplitZone(z, c, s, new0, new1))
  /\ Blocks(M) = (Blocks(N) \ {c}) \cup {new0, new1}
  /\ c \in Blocks(N) /\ c # root

LEMMA ZonedSplit ==
  ASSUME NEW N, NEW root, NEW z, Zoned(N, root, z), NEW m \in Blocks(N), N[m].height > 0,
         NEW i \in 1 .. Len(N[m].keys), NEW c, c = N[m].keys[i].data,
         NEW q \in 1 .. Len(N[c].keys), q < Len(N[c].keys), NEW s, s = N[c].keys[q + 1].name,
         NEW M, NEW new0, NEW new1, ChildSplit(N, M, m, i, c, q, new0, new1)
  PROVE  SplitDone(N, M, root, z, c, s, new0, new1)
<1> DEFINE y == SplitZone(z, c, s, new0, new1)
           K == N[c].keys
           Km == N[m].keys
           h == N[c].height
           hm == N[m].height
           ht == N[root].height
           A == SubSeq(K, 1, q)
           B == Second(h, K, q)
           J == Grown(Put(Km, i, new0), [name |-> s, data |-> new1])
<1>1. /\ c \in Blocks(N) /\ h = hm - 1 /\ c # m
      /\ s \in AllNames /\ s \in Nat /\ FindKey(Km, s) = i /\ s # Km[i].name
  BY SeparatorNew
<1>2. /\ K \in Seq(KeySet) /\ Km \in Seq(KeySet) /\ Sorted(K) /\ Sorted(Km)
      /\ h \in Nat /\ hm \in Nat /\ hm <= ht /\ ht \in Nat
      /\ z[c] \in SUBSET Nat /\ z[m] \in SUBSET Nat /\ c \in TreeBlocks /\ m \in TreeBlocks
      /\ Convex(z[c]) /\ root \in Blocks(N) /\ root \in TreeBlocks
  <2>1. root \in Blocks(N)
    BY DEF Zoned
  <2> QED
    BY <1>1, <2>1, ZonedTypes, ZonedSorted
<1>3. /\ M \in NodeMap /\ new0 # new1
      /\ new0 \in TreeBlocks \ Blocks(N) /\ new1 \in TreeBlocks \ Blocks(N)
      /\ M[new0] = Node(h, A) /\ M[new1] = Node(h, B) /\ M[c] = FreeBlock
      /\ M[m] = Node(hm, J)
      /\ \A x \in TreeBlocks : x \notin {new0, new1, c, m} => M[x] = N[x]
  BY DEF ChildSplit
<1>40. /\ N[c].height = h /\ N[c].keys = K /\ N[m].keys = Km /\ N[m].height = hm /\ N[root].height = ht
       /\ q \in 1 .. Len(K) /\ q < Len(K) /\ s = K[q + 1].name /\ i \in 1 .. Len(Km) /\ c = Km[i].data
       /\ hm > 0
  OBVIOUS
<1> HIDE DEF K, Km, h, hm, ht
<1>4. Paired(Km, i, s, new0, new1, J)
  <2>1. new0 \in DataSet /\ new1 \in DataSet
    BY <1>3 DEF DataSet
  <2> HIDE DEF J
  <2>2. J = Grown(Put(Km, i, new0), [name |-> s, data |-> new1])
    BY DEF J
  <2> QED
    BY <1>1, <1>2, <1>40, <2>1, <2>2, PairedKeys
<1> HIDE DEF A, B, J
<1>41. /\ J \in Seq(KeySet) /\ Len(J) = Len(Km) + 1 /\ Sorted(J)
       /\ J[i].name = Km[i].name /\ J[i].data = new0 /\ J[i + 1].data = new1
       /\ \A j \in 1 .. (Len(Km) + 1) : j < i => J[j] = Km[j]
       /\ \A j \in 1 .. (Len(Km) + 1) : j > i + 1 => J[j] = Km[j - 1]
  BY <1>4 DEF Paired
<1>42. \A n \in Nat : FindKey(J, n) = IF n < s THEN FindKey(Km, n) ELSE FindKey(Km, n) + 1
  BY <1>4 DEF Paired
<1>43. Len(K) \in Nat /\ Len(Km) \in Nat /\ q \in Nat /\ i \in Nat /\ 1 <= i /\ 1 <= q
  BY <1>2, <1>40
<1>44. h < hm /\ h < ht /\ h # h - 1 /\ h \in 0 .. ht /\ ~ hm = 0 /\ h \in Int
  BY <1>1, <1>2
<1>5. new0 \notin {c, m, root} /\ new1 \notin {c, m, root} /\ c # root
  <2>1. c # root
    BY <1>40, <1>44, <1>2
  <2> QED
    BY <1>1, <1>2, <1>3, <2>1
<1>6. /\ M[new0].height = h /\ M[new0].keys = A /\ M[new1].height = h /\ M[new1].keys = B
      /\ M[m].height = hm /\ M[m].keys = J
  BY <1>3, NodeFields
<1>7. Blocks(M) = (Blocks(N) \ {c}) \cup {new0, new1}
  <2>1. M[new0] # FreeBlock /\ M[new1] # FreeBlock /\ M[m] # FreeBlock
    BY <1>2, <1>6 DEF FreeBlock
  <2> QED
    BY <1>1, <1>2, <1>3, <1>5, <2>1 DEF Blocks
<1>8. /\ y \in [TreeBlocks -> SUBSET Nat] /\ y[new0] = Below(z[c], s) /\ y[new1] = From(z[c], s)
      /\ \A x \in TreeBlocks : x # new0 /\ x # new1 => y[x] = z[x]
  <2>1. Below(z[c], s) \in SUBSET Nat /\ From(z[c], s) \in SUBSET Nat
    BY <1>1, <1>2, HalvesConvex
  <2>2. z \in [TreeBlocks -> SUBSET Nat]
    BY DEF Zoned
  <2> QED
    BY <1>3, <2>1, <2>2 DEF SplitZone
<1> HIDE DEF y
<1>9. \A x \in Blocks(N) \ {c} : x \in Blocks(M) /\ M[x].height = N[x].height /\ y[x] = z[x]
  <2> SUFFICES ASSUME NEW x \in Blocks(N) \ {c}
               PROVE  x \in Blocks(M) /\ M[x].height = N[x].height /\ y[x] = z[x]
    OBVIOUS
  <2>1. x \in TreeBlocks /\ x # new0 /\ x # new1
    BY <1>3 DEF Blocks
  <2>2. M[x].height = N[x].height
    BY <1>3, <1>6, <1>40, <2>1
  <2> QED
    BY <1>7, <1>8, <2>1, <2>2
<1>10. M[root].height = ht /\ y[root] = Nat /\ root \in Blocks(M)
  BY <1>2, <1>5, <1>9, <1>40 DEF Zoned
<1>11. ASSUME NEW x \in Blocks(N), N[x].height > 0, NEW j \in 1 .. Len(N[x].keys),
              N[x].keys[j].data = c
       PROVE  x = m /\ j = i
  BY <1>11, OneParent
<1>12. BlockOK(N, root, z, c) /\ BlockOK(N, root, z, m)
  BY <1>1 DEF Zoned
<1>13. ASSUME h > 0, NEW j \in 1 .. Len(K)
       PROVE  /\ K[j].data \in Blocks(M) /\ M[K[j].data].height = h - 1
              /\ y[K[j].data] = Part(K, z[c], j)
  <2>1. Child(N, z, c, j)
    BY <1>12, <1>13, <1>40 DEF BlockOK, InnerOK
  <2>2. K[j].data \in Blocks(N) /\ N[K[j].data].height = h - 1 /\ z[K[j].data] = Part(K, z[c], j)
    BY <1>40, <2>1 DEF Child
  <2>3. K[j].data # c
    BY <1>40, <1>44, <2>2
  <2> QED
    BY <1>9, <2>2, <2>3
<1>14. q \in 0 .. Len(K) /\ q < Len(K)
  BY <1>40
<1>15. /\ A \in Seq(KeySet) /\ Len(A) = q /\ Sorted(A) /\ \A j \in 1 .. q : A[j] = K[j]
  BY <1>2, <1>14, <1>44, HalvesAre, HalvesSorted DEF A
<1>16. /\ B \in Seq(KeySet) /\ Len(B) = Len(K) - q /\ Sorted(B)
       /\ B[1] = (IF h = 0 THEN K[q + 1] ELSE [name |-> 0, data |-> K[q + 1].data])
       /\ \A j \in 1 .. (Len(K) - q) : B[j].data = K[q + j].data
  <2>1. Sorted(B)
    BY <1>2, <1>14, <1>44, HalvesSorted DEF B
  <2>2. /\ B \in Seq(KeySet) /\ Len(B) = Len(K) - q
        /\ B[1] = (IF h = 0 THEN K[q + 1] ELSE [name |-> 0, data |-> K[q + 1].data])
    BY <1>2, <1>14, <1>44, SecondIs DEF B
  <2>3. \A j \in 1 .. (Len(K) - q) : B[j].data = K[q + j].data
    BY <1>2, <1>14, <1>44, SecondIs DEF B
  <2> QED
    BY <2>1, <2>2, <2>3
<1>17. /\ \A j \in 1 .. q : Part(A, Below(z[c], s), j) = Part(K, z[c], j)
       /\ \A j \in 1 .. (Len(K) - q) : Part(B, From(z[c], s), j) = Part(K, z[c], q + j)
  <2>1. PartsKept(h, K, q, s, z[c])
    BY <1>2, <1>40, <1>44, InnerHalves
  <2> QED
    BY <2>1 DEF A, B, PartsKept
<1>18. BlockOK(M, root, y, new0)
  <2>1. y[new0] # {} /\ Convex(y[new0])
    <3>1. \E n \in z[c] : n < s
      BY <1>1, <1>40, ZoneBetween
    <3>2. Below(z[c], s) # {}
      BY <3>1 DEF Below
    <3> QED
      BY <1>1, <1>2, <1>8, <3>2, HalvesConvex
  <2>2. ASSUME h = 0 PROVE LeafOK(A, y[new0])
    <3>1. LeafOK(K, z[c])
      BY <1>12, <1>40, <2>2 DEF BlockOK
    <3> QED
      BY <1>2, <1>8, <1>40, <3>1, LeafHalves DEF A
  <2>3. ASSUME h > 0 PROVE InnerOK(M, y, new0)
    <3>1. A[1].name = 0 /\ Len(A) > 0
      <4>1. K[1].name = 0
        BY <1>12, <1>40, <2>3 DEF BlockOK, InnerOK
      <4>2. 1 \in 1 .. q
        BY <1>43
      <4>3. q > 0
        BY <1>43
      <4> QED
        BY <1>15, <4>1, <4>2, <4>3
    <3>2. ASSUME NEW j \in 1 .. q PROVE Child(M, y, new0, j)
      <4>1. j \in 1 .. Len(K)
        BY <1>40, <1>43
      <4>2. A[j].data \in Blocks(M) /\ M[A[j].data].height = h - 1 /\ y[A[j].data] = Part(K, z[c], j)
        BY <1>13, <1>15, <2>3, <4>1
      <4>3. Part(A, Below(z[c], s), j) = Part(K, z[c], j)
        BY <1>17
      <4> QED
        BY <1>6, <1>8, <4>2, <4>3 DEF Child
    <3> QED
      BY <1>6, <1>15, <3>1, <3>2 DEF InnerOK
  <2> QED
    BY <1>6, <1>10, <1>44, <2>1, <2>2, <2>3 DEF BlockOK
<1>19. BlockOK(M, root, y, new1)
  <2>1. y[new1] # {} /\ Convex(y[new1])
    <3>1. s \in z[c]
      BY <1>1, <1>40, ZoneBetween
    <3>2. s >= s
      BY <1>1
    <3>3. From(z[c], s) # {}
      BY <3>1, <3>2 DEF From
    <3> QED
      BY <1>1, <1>2, <1>8, <3>3, HalvesConvex
  <2>2. ASSUME h = 0 PROVE LeafOK(B, y[new1])
    <3>1. LeafOK(K, z[c])
      BY <1>12, <1>40, <2>2 DEF BlockOK
    <3>2. LeafOK(Second(0, K, q), From(z[c], s))
      BY <1>2, <1>40, <3>1, LeafHalves
    <3> QED
      BY <1>8, <2>2, <3>2 DEF B
  <2>3. ASSUME h > 0 PROVE InnerOK(M, y, new1)
    <3>1. B[1].name = 0 /\ Len(B) > 0
      <4>1. h # 0
        BY <2>3
      <4>2. Len(K) - q > 0
        BY <1>14, <1>43
      <4>3. B[1] = [name |-> 0, data |-> K[q + 1].data]
        BY <1>16, <4>1
      <4> QED
        BY <1>16, <4>2, <4>3
    <3>2. ASSUME NEW j \in 1 .. (Len(K) - q) PROVE Child(M, y, new1, j)
      <4>1. q + j \in 1 .. Len(K)
        BY <1>43
      <4>2. B[j].data = K[q + j].data
        BY <1>16
      <4>3. B[j].data \in Blocks(M) /\ M[B[j].data].height = h - 1 /\ y[B[j].data] = Part(K, z[c], q + j)
        BY <1>13, <2>3, <4>1, <4>2
      <4>4. Part(B, From(z[c], s), j) = Part(K, z[c], q + j)
        BY <1>17
      <4> QED
        BY <1>6, <1>8, <4>3, <4>4 DEF Child
    <3> QED
      BY <1>6, <1>16, <3>1, <3>2 DEF InnerOK
  <2> QED
    BY <1>6, <1>10, <1>44, <2>1, <2>2, <2>3 DEF BlockOK
<1>50. /\ Sorted(Km) /\ Len(Km) > 0 /\ Km[1].name = 0 /\ \A j \in 1 .. Len(Km) : Child(N, z, m, j)
  BY <1>12, <1>40 DEF BlockOK, InnerOK
<1>51. ASSUME NEW n \in z[m]
       PROVE  n \in Nat /\ FindKey(Km, n) \in 0 .. Len(Km)
              /\ (n < s => FindKey(Km, n) <= i) /\ (~ n < s => FindKey(Km, n) >= i)
  <2> DEFINE f == FindKey(Km, n)
  <2>1. n \in Nat
    BY <1>2
  <2>2. f \in 0 .. Len(Km) /\ \A j \in 1 .. Len(Km) : Km[j].name <= n <=> j <= f
    BY <1>2, <2>1, FindKeyIs
  <2>3. \A j \in 1 .. Len(Km) : Km[j].name <= s <=> j <= i
    BY <1>1, <1>2, FindKeyIs
  <2>4. \A j \in 1 .. Len(Km) : Km[j].name \in Nat
    BY <1>2, KeyNames
  <2> HIDE DEF f
  <2>5. ASSUME n < s, ~ f <= i PROVE FALSE
    <3>1. f \in 1 .. Len(Km) /\ f <= f
      BY <1>43, <2>2, <2>5
    <3>2. Km[f].name <= n /\ ~ Km[f].name <= s /\ Km[f].name \in Nat
      BY <2>2, <2>3, <2>4, <2>5, <3>1
    <3> DEFINE k == Km[f].name
    <3> HIDE DEF k
    <3> DEFINE w == s
    <3>3. k <= n /\ ~ k <= w /\ k \in Nat /\ w \in Nat /\ n < w
      BY <1>1, <2>5, <3>2 DEF k
    <3> HIDE DEF w
    <3> QED
      BY <2>1, <3>3
  <2>6. ASSUME ~ n < s, ~ f >= i PROVE FALSE
    <3>1. ~ i <= f /\ i <= i
      BY <1>43, <2>2, <2>6
    <3>2. ~ Km[i].name <= n /\ Km[i].name <= s /\ Km[i].name \in Nat
      BY <1>40, <2>2, <2>3, <2>4, <3>1
    <3> DEFINE k == Km[i].name
    <3> HIDE DEF k
    <3> DEFINE w == s
    <3>3. ~ k <= n /\ k <= w /\ k \in Nat /\ w \in Nat /\ ~ n < w
      BY <1>1, <2>6, <3>2 DEF k
    <3> HIDE DEF w
    <3> QED
      BY <2>1, <3>3
  <2> QED
    BY <2>1, <2>2, <2>5, <2>6 DEF f
<1>52. ASSUME NEW n \in z[m], NEW j \in Nat
       PROVE  /\ j < i => (FindKey(J, n) = j <=> FindKey(Km, n) = j)
              /\ FindKey(J, n) = i <=> FindKey(Km, n) = i /\ n < s
              /\ FindKey(J, n) = i + 1 <=> FindKey(Km, n) = i /\ n >= s
              /\ j > i + 1 => (FindKey(J, n) = j <=> FindKey(Km, n) = j - 1)
  <2> DEFINE f == FindKey(Km, n)
             g == FindKey(J, n)
  <2>1. /\ f \in 0 .. Len(Km) /\ n \in Nat /\ (n < s => f <= i) /\ (~ n < s => f >= i)
        /\ g = (IF n < s THEN f ELSE f + 1)
    BY <1>42, <1>51
  <2> HIDE DEF f, g
  <2>2. f \in Nat /\ s \in Nat
    BY <1>1, <1>43, <2>1
  <2>3. CASE n < s
    <3>1. g = f /\ f <= i
      BY <2>1, <2>3
    <3>2. ~ n >= s
      <4> DEFINE w == s
      <4>1. n < w /\ w \in Nat
        BY <2>2, <2>3
      <4> HIDE DEF w
      <4>2. ~ n >= w
        BY <2>1, <4>1
      <4> QED
        BY <4>2 DEF w
    <3>3. /\ j < i => (g = j <=> f = j)
          /\ g # i + 1
          /\ j > i + 1 => (g # j /\ f # j - 1)
      BY <1>43, <2>2, <3>1
    <3> QED
      BY <2>3, <3>1, <3>2, <3>3 DEF f, g
  <2>4. CASE ~ n < s
    <3>1. g = f + 1 /\ f >= i
      BY <2>1, <2>4
    <3>2. n >= s
      <4> DEFINE w == s
      <4>1. ~ n < w /\ w \in Nat
        BY <2>2, <2>4
      <4> HIDE DEF w
      <4>2. n >= w
        BY <2>1, <4>1
      <4> QED
        BY <4>2 DEF w
    <3>3. /\ j < i => (g # j /\ f # j)
          /\ g # i
          /\ g = i + 1 <=> f = i
          /\ j > i + 1 => (g = j <=> f = j - 1)
      BY <1>43, <2>2, <3>1
    <3> QED
      BY <2>4, <3>2, <3>3 DEF f, g
  <2> QED
    BY <2>3, <2>4
<1>20. BlockOK(M, root, y, m)
  <2>2. J[1].name = 0
    <3>1. i = 1 \/ (1 < i /\ 1 \in 1 .. (Len(Km) + 1))
      BY <1>43
    <3> QED
      BY <1>41, <1>50, <3>1
  <2>4. ASSUME NEW j \in 1 .. (Len(Km) + 1) PROVE Child(M, y, m, j)
    <3>1. y[m] = z[m] /\ M[m].keys = J /\ M[m].height = hm /\ j \in Nat /\ z[c] = Part(Km, z[m], i)
      BY <1>1, <1>6, <1>9, <1>40, <1>43, <1>50 DEF Child
    <3>2. CASE j < i
      <4>1. j \in 1 .. Len(Km) /\ J[j] = Km[j] /\ j # i
        BY <1>40, <1>41, <1>43, <3>2
      <4>2. Child(N, z, m, j)
        BY <1>50, <4>1
      <4>3. Km[j].data # c
        BY <1>11, <1>40, <4>1
      <4>4. /\ Km[j].data \in Blocks(M) /\ M[Km[j].data].height = hm - 1
            /\ y[Km[j].data] = Part(Km, z[m], j)
        BY <1>9, <1>40, <4>2, <4>3 DEF Child
      <4>5. Part(J, z[m], j) = Part(Km, z[m], j)
        BY <1>52, <3>1, <3>2 DEF Part
      <4> QED
        BY <3>1, <4>1, <4>4, <4>5 DEF Child
    <3>3. CASE j = i
      <4>1. Part(J, z[m], j) = Below(z[c], s)
        BY <1>52, <3>1, <3>3 DEF Part, Below
      <4> QED
        BY <1>1, <1>6, <1>7, <1>8, <1>41, <3>1, <3>3, <4>1 DEF Child
    <3>4. CASE j = i + 1
      <4>1. Part(J, z[m], j) = From(z[c], s)
        BY <1>52, <3>1, <3>4 DEF Part, From
      <4> QED
        BY <1>1, <1>6, <1>7, <1>8, <1>41, <3>1, <3>4, <4>1 DEF Child
    <3>5. CASE j > i + 1
      <4>1. j - 1 \in 1 .. Len(Km) /\ J[j] = Km[j - 1] /\ j - 1 # i
        BY <1>41, <1>43, <3>5
      <4>2. Child(N, z, m, j - 1)
        BY <1>50, <4>1
      <4>3. Km[j - 1].data # c
        BY <1>11, <1>40, <4>1
      <4>4. /\ Km[j - 1].data \in Blocks(M) /\ M[Km[j - 1].data].height = hm - 1
            /\ y[Km[j - 1].data] = Part(Km, z[m], j - 1)
        BY <1>9, <1>40, <4>2, <4>3 DEF Child
      <4>5. Part(J, z[m], j) = Part(Km, z[m], j - 1)
        BY <1>52, <3>1, <3>5 DEF Part
      <4> QED
        BY <3>1, <4>1, <4>4, <4>5 DEF Child
    <3>6. j < i \/ j = i \/ j = i + 1 \/ j > i + 1
      BY <1>43, <3>1
    <3> QED
      BY <3>2, <3>3, <3>4, <3>5, <3>6
  <2>5. InnerOK(M, y, m)
    <3>1. Len(J) > 0
      BY <1>41, <1>43
    <3> QED
      BY <1>6, <1>41, <2>2, <2>4, <3>1 DEF InnerOK
  <2>6. y[m] = z[m]
    BY <1>1, <1>9
  <2> QED
    BY <1>6, <1>10, <1>12, <1>40, <1>44, <2>5, <2>6 DEF BlockOK
<1>21. ASSUME NEW x \in Blocks(N), x # c, x # m PROVE BlockOK(M, root, y, x)
  <2>1. x \in TreeBlocks /\ x \notin {new0, new1, c, m}
    BY <1>3, <1>21 DEF Blocks
  <2>2. M[x] = N[x] /\ y[x] = z[x]
    BY <1>3, <1>8, <2>1
  <2>3. ASSUME N[x].height > 0 PROVE InnerOK(M, y, x)
    <3> DEFINE G == {c}
    <3>1. \A k \in Blocks(N) \ G : k \in Blocks(M) /\ M[k].height = N[k].height /\ y[k] = z[k]
      BY <1>9
    <3>2. \A j \in 1 .. Len(N[x].keys) : N[x].keys[j].data \notin G
      BY <1>11, <1>21, <2>3
    <3>3. x \in Blocks(N) \ G
      BY <1>21
    <3> HIDE DEF G
    <3> QED
      BY <2>2, <2>3, <3>1, <3>2, <3>3, InnerKept
  <2>4. BlockOK(N, root, z, x)
    BY DEF Zoned
  <2> QED
    BY <1>10, <1>40, <2>2, <2>3, <2>4 DEF BlockOK
<1> DEFINE o(x) == IF x \in {new0, new1} THEN c ELSE x
<1>22. ASSUME NEW x \in Blocks(M)
       PROVE  o(x) \in Blocks(N) /\ M[x].height = N[o(x)].height /\ y[x] \subseteq z[o(x)]
  <2>1. CASE x \in {new0, new1}
    BY <1>1, <1>6, <1>8, <1>40, <2>1 DEF Below, From
  <2>2. CASE x \notin {new0, new1}
    BY <1>7, <1>9, <2>2
  <2> QED
    BY <2>1, <2>2
<1>23. ASSUME NEW x \in Blocks(M), NEW w \in Blocks(M) PROVE Apart(M, y, x, w)
  <2> SUFFICES ASSUME M[x].height = M[w].height, y[x] \cap y[w] # {} PROVE x = w
    BY DEF Apart
  <2>1. Apart(N, z, o(x), o(w))
    BY <1>22 DEF Zoned
  <2>2. o(x) = o(w)
    <3> HIDE DEF o
    <3> QED
      BY <1>22, <2>1 DEF Apart
  <2>3. x \in {new0, new1} <=> w \in {new0, new1}
    BY <1>7, <2>2
  <2>4. CASE x \notin {new0, new1}
    BY <2>2, <2>3, <2>4
  <2>5. CASE x \in {new0, new1}
    <3>1. PICK n \in y[x] : n \in y[w]
      OBVIOUS
    <3>2. ~ (n \in Below(z[c], s) /\ n \in From(z[c], s))
      <4> SUFFICES ASSUME n \in Below(z[c], s), n \in From(z[c], s) PROVE FALSE
        OBVIOUS
      <4>1. n \in Nat /\ n < s /\ n >= s
        BY <1>2 DEF Below, From
      <4> QED
        BY <1>1, <4>1
    <3> QED
      BY <1>8, <2>3, <2>5, <3>1, <3>2
  <2> QED
    BY <2>4, <2>5
<1>24. \A x \in Blocks(M) : BlockOK(M, root, y, x)
  BY <1>7, <1>18, <1>19, <1>20, <1>21
<1>25. Zoned(M, root, y)
  BY <1>3, <1>8, <1>10, <1>23, <1>24 DEF Zoned
<1> QED
  BY <1>1, <1>5, <1>7, <1>25 DEF y, SplitDone

(* The case as one formula.                                                *)
SplitCase(N, root, z, m, i, c, q) ==
  /\ Zoned(N, root, z) /\ m \in Blocks(N) /\ N[m].height > 0
  /\ i \in 1 .. Len(N[m].keys) /\ c = N[m].keys[i].data
  /\ q \in 1 .. Len(N[c].keys) /\ q < Len(N[c].keys)

LEMMA SplitZoned ==
  ASSUME NEW N, NEW root, NEW z, NEW m, NEW i, NEW c, NEW q, SplitCase(N, root, z, m, i, c, q),
         NEW M, NEW new0, NEW new1, ChildSplit(N, M, m, i, c, q, new0, new1)
  PROVE  /\ Zoned(M, root, SplitZone(z, c, N[c].keys[q + 1].name, new0, new1))
         /\ Blocks(M) = (Blocks(N) \ {c}) \cup {new0, new1}
         /\ c \in Blocks(N) /\ c # root /\ c # m
<1> DEFINE s == N[c].keys[q + 1].name
<1> SUFFICES /\ Zoned(M, root, SplitZone(z, c, s, new0, new1))
             /\ Blocks(M) = (Blocks(N) \ {c}) \cup {new0, new1}
             /\ c \in Blocks(N) /\ c # root /\ c # m
  OBVIOUS
<1>1. s = N[c].keys[q + 1].name
  OBVIOUS
<1> HIDE DEF s
<1>2. /\ Zoned(N, root, z) /\ m \in Blocks(N) /\ N[m].height > 0
      /\ i \in 1 .. Len(N[m].keys) /\ c = N[m].keys[i].data
      /\ q \in 1 .. Len(N[c].keys) /\ q < Len(N[c].keys)
  BY DEF SplitCase
<1>3. c # m
  BY <1>1, <1>2, SeparatorNew
<1>4. SplitDone(N, M, root, z, c, s, new0, new1)
  BY <1>1, <1>2, ZonedSplit
<1> QED
  BY <1>3, <1>4 DEF SplitDone
=============================================================================
