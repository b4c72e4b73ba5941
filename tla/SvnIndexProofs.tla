--------------------------- MODULE SvnIndexProofs ---------------------------
(***************************************************************************)
(* The node records of svnindex, for any paths, any number of programs and *)
(* any commits, the ones that the index gets wrong included: revisions are *)
(* committed in order by one transaction at a time and stay as they are,   *)
(* every record is well formed, and no two of a revision break the unique  *)
(* constraint of svn.node.                                                 *)
(***************************************************************************)
EXTENDS SvnIndex, FiniteSetTheorems, SequenceTheorems, WellFoundedInduction, TLAPS

-----------------------------------------------------------------------------
(* Induction and recursion without second-order theorems.                  *)

LEMMA LeastNatural ==
  ASSUME NEW T \in SUBSET Nat, T # {}
  PROVE  \E x \in T : \A y \in T : x <= y
<1>1. \E R : /\ \A x, y \in Nat : y < x => <<y, x>> \in R
             /\ IsWellFoundedOn(R, Nat)
  <2> DEFINE R == OpToRel(<, Nat)
  <2>1. \A x, y \in Nat : y < x => <<y, x>> \in R
    BY DEF OpToRel
  <2>2. IsWellFoundedOn(R, Nat)
    BY NatLessThanWellFounded
  <2> HIDE DEF R
  <2> WITNESS R
  <2> QED
    BY <2>1, <2>2
<1>2. PICK R : /\ \A x, y \in Nat : y < x => <<y, x>> \in R
               /\ IsWellFoundedOn(R, Nat)
  BY <1>1
<1>3. \E x \in T : \A y \in T : ~ (<<y, x>> \in R)
  BY <1>2, WFMin
<1>4. PICK x \in T : \A y \in T : ~ (<<y, x>> \in R)
  BY <1>3
<1>5. \A y \in T : x \in Nat /\ y \in Nat /\ ~ (y < x)
  BY <1>2, <1>4
<1> QED
  BY <1>5

(* What a set of numbers has: 0, and with each number the next one.        *)
LEMMA NatSet ==
  ASSUME NEW S, 0 \in S, \A n \in Nat : n \in S => n + 1 \in S
  PROVE  \A n \in Nat : n \in S
<1> SUFFICES ASSUME Nat \ S # {} PROVE FALSE
  OBVIOUS
<1>1. PICK n \in Nat \ S : \A m \in Nat \ S : n <= m
  <2>1. Nat \ S \in SUBSET Nat
    OBVIOUS
  <2> QED
    BY <2>1, LeastNatural
<1>2. n # 0 /\ n - 1 \in Nat /\ ~ (n <= n - 1) /\ (n - 1) + 1 = n
  BY <1>1
<1> QED
  BY <1>1, <1>2

(* R[<<n, x>>] applied to x for n = 1, 2, ...; T says of what each value is. *)
Iterated(N, a, R, g) == g[0] = a /\ \A n \in 1..N : g[n] = R[<<n, g[n - 1]>>]
Within(N, T, g) == \A n \in 0..N : g[n] \in T[n]

LEMMA Iterates ==
  ASSUME NEW U, NEW N \in Nat, NEW T \in [0..N -> SUBSET U], NEW a \in T[0], NEW R,
         \A n \in 1..N : \A x \in T[n - 1] : R[<<n, x>>] \in T[n]
  PROVE  \E g \in [0..N -> U] : Iterated(N, a, R, g) /\ Within(N, T, g)
<1> DEFINE S == {n \in Nat : n <= N => \E g \in [0..n -> U] : /\ Iterated(n, a, R, g)
                                                             /\ Within(n, T, g)}
<1>1. 0 \in S
  <2> DEFINE g == [n \in 0..0 |-> a]
  <2>1. a \in U /\ 0 \in 0..N
    OBVIOUS
  <2>2. g \in [0..0 -> U] /\ Iterated(0, a, R, g) /\ Within(0, T, g)
    BY <2>1 DEF Iterated, Within
  <2> QED
    BY <2>2
<1>2. ASSUME NEW n \in Nat, n \in S PROVE n + 1 \in S
  <2> SUFFICES ASSUME n + 1 <= N
               PROVE  \E g \in [0..(n + 1) -> U] : /\ Iterated(n + 1, a, R, g)
                                                   /\ Within(n + 1, T, g)
    OBVIOUS
  <2>1. PICK g \in [0..n -> U] : Iterated(n, a, R, g) /\ Within(n, T, g)
    BY <1>2
  <2> DEFINE h == [m \in 0..(n + 1) |-> IF m <= n THEN g[m] ELSE R[<<n + 1, g[n]>>]]
  <2>2. g[n] \in T[n] /\ n + 1 \in 1..N /\ (n + 1) - 1 = n
    BY <2>1 DEF Within
  <2>3. R[<<n + 1, g[n]>>] \in T[n + 1]
    BY <2>2
  <2>4. T[n + 1] \in SUBSET U
    BY <2>2
  <2>5. h \in [0..(n + 1) -> U]
    BY <2>3, <2>4
  <2>6. h[0] = a
    BY <2>1 DEF Iterated
  <2>7. ASSUME NEW m \in 1..(n + 1) PROVE h[m] = R[<<m, h[m - 1]>>]
    <3>1. m - 1 \in 0..n /\ m - 1 \in 0..(n + 1) /\ m - 1 <= n
      OBVIOUS
    <3>2. CASE m <= n
      <4>1. m \in 1..n /\ m \in 0..(n + 1)
        BY <3>2
      <4>2. h[m] = g[m] /\ h[m - 1] = g[m - 1]
        BY <3>1, <3>2, <4>1
      <4> QED
        BY <2>1, <4>1, <4>2 DEF Iterated
    <3>3. CASE ~ (m <= n)
      <4>1. m = n + 1 /\ m - 1 = n
        BY <3>3
      <4> QED
        BY <3>1, <3>3, <4>1
    <3> QED
      BY <3>2, <3>3
  <2>8. ASSUME NEW m \in 0..(n + 1) PROVE h[m] \in T[m]
    <3>1. CASE m <= n
      <4>1. m \in 0..n /\ h[m] = g[m]
        BY <3>1
      <4> QED
        BY <2>1, <4>1 DEF Within
    <3>2. CASE ~ (m <= n)
      <4>1. m = n + 1
        BY <3>2
      <4> QED
        BY <2>3, <3>2, <4>1
    <3> QED
      BY <3>1, <3>2
  <2> HIDE DEF h
  <2> QED
    BY <2>5, <2>6, <2>7, <2>8 DEF Iterated, Within
<1> HIDE DEF S
<1>3. N \in S
  BY <1>1, <1>2, NatSet
<1> QED
  BY <1>3 DEF S

(* What holds of the first of 0..N and passes on holds of each.            *)
LEMMA UpTo ==
  ASSUME NEW N \in Nat, NEW T, NEW f, f[0] \in T[0],
         \A n \in 1..N : f[n - 1] \in T[n - 1] => f[n] \in T[n]
  PROVE  \A n \in 0..N : f[n] \in T[n]
<1> DEFINE S == {n \in Nat : n <= N => f[n] \in T[n]}
<1>1. 0 \in S
  OBVIOUS
<1>2. ASSUME NEW n \in Nat, n \in S PROVE n + 1 \in S
  <2>1. CASE n + 1 <= N
    <3>1. n + 1 \in 1..N /\ (n + 1) - 1 = n /\ n <= N
      BY <2>1
    <3> QED
      BY <1>2, <3>1
  <2> QED
    BY <2>1
<1> HIDE DEF S
<1>3. \A n \in Nat : n \in S
  BY <1>1, <1>2, NatSet
<1> QED
  BY <1>3 DEF S

-----------------------------------------------------------------------------
(* Paths.                                                                  *)

Names == UNION {Range(p) : p \in Paths}

LEMMA PathType ==
  ASSUME NEW p \in Paths
  PROVE  /\ p \in Seq(Names) /\ Len(p) \in Nat
         /\ p = <<>> <=> Len(p) = 0
         /\ p # <<>> => Front(p) \in Paths
<1>1. p \in Seq(Range(p)) /\ Range(p) \subseteq Names
  BY PathsAssumption DEF Names
<1>2. p \in Seq(Names)
  BY <1>1, SeqMonotonic
<1>3. Len(p) \in Nat /\ (p = <<>> <=> Len(p) = 0)
  BY <1>2, EmptySeq, LenProperties
<1> QED
  BY <1>2, <1>3, PathsAssumption

LEMMA PathEqual ==
  ASSUME NEW p \in Paths, NEW q \in Paths, Len(p) = Len(q),
         \A i \in 1..Len(p) : p[i] = q[i]
  PROVE  p = q
  BY PathType, SeqEqual

LEMMA TakeType ==
  ASSUME NEW p \in Paths, NEW n \in 0..Len(p)
  PROVE  /\ Len(SubSeq(p, 1, n)) = n
         /\ \A i \in 1..n : SubSeq(p, 1, n)[i] = p[i]
<1>1. p \in Seq(Names) /\ Len(p) \in Nat
  BY PathType
<1>2. \A i \in 1..n : p[i] \in Names
  BY <1>1, ElementOfSeq
<1>3. n \in Int /\ 1 \in Int
  BY <1>1
<1> QED
  BY <1>1, <1>2, <1>3, SubSeqProperties

LEMMA FrontType ==
  ASSUME NEW p \in Paths, p # <<>>
  PROVE  /\ Front(p) \in Paths /\ Len(Front(p)) = Len(p) - 1
         /\ \A i \in 1..(Len(p) - 1) : Front(p)[i] = p[i]
<1>1. Len(p) - 1 \in 0..Len(p)
  BY PathType
<1> QED
  BY <1>1, PathType, TakeType DEF Front

LEMMA TakeIsPath ==
  ASSUME NEW p \in Paths, NEW n \in 0..Len(p)
  PROVE  SubSeq(p, 1, n) \in Paths
<1> DEFINE S == {k \in Nat : k <= Len(p) => SubSeq(p, 1, Len(p) - k) \in Paths}
<1>1. Len(p) \in Nat
  BY PathType
<1>2. 0 \in S
  <2>1. SubSeq(p, 1, Len(p)) = p
    BY PathType, SubSeqFull
  <2>2. Len(p) - 0 = Len(p) /\ p \in Paths
    BY <1>1
  <2> QED
    BY <2>1, <2>2
<1>3. ASSUME NEW k \in Nat, k \in S PROVE k + 1 \in S
  <2> SUFFICES ASSUME k + 1 <= Len(p) PROVE SubSeq(p, 1, Len(p) - (k + 1)) \in Paths
    OBVIOUS
  <2> DEFINE m == Len(p) - k
             q == SubSeq(p, 1, m)
             t == SubSeq(p, 1, m - 1)
  <2>1. m \in 1..Len(p) /\ m \in 0..Len(p) /\ m - 1 \in 0..Len(p) /\ m \in Nat
    BY <1>1
  <2>2. q \in Paths
    BY <1>1, <1>3
  <2>3. Len(q) = m /\ \A i \in 1..m : q[i] = p[i]
    BY <2>1, TakeType
  <2>4. Len(t) = m - 1 /\ \A i \in 1..(m - 1) : t[i] = p[i]
    BY <2>1, TakeType
  <2>5. t \in Seq(Names)
    <3>1. \A i \in 1..(m - 1) : p[i] \in Names
      BY <1>1, <2>1, PathType, ElementOfSeq
    <3>2. m - 1 \in Int /\ 1 \in Int
      BY <2>1
    <3> QED
      BY <3>1, <3>2, SubSeqProperties
  <2> HIDE DEF q, t, m
  <2>6. q # <<>>
    BY <2>1, <2>2, <2>3, PathType
  <2>7. Front(q) \in Paths /\ Len(Front(q)) = m - 1 /\ Front(q) \in Seq(Names)
        /\ \A i \in 1..(m - 1) : Front(q)[i] = q[i]
    BY <2>2, <2>3, <2>6, FrontType, PathType
  <2>8. \A i \in 1..(m - 1) : Front(q)[i] = t[i]
    BY <2>1, <2>3, <2>4, <2>7
  <2>9. Front(q) = t
    BY <2>4, <2>5, <2>7, <2>8, SeqEqual
  <2>10. Len(p) - (k + 1) = m - 1
    BY <1>1 DEF m
  <2> QED
    BY <2>7, <2>9, <2>10 DEF t
<1> HIDE DEF S
<1>4. Len(p) - n \in Nat /\ Len(p) - n <= Len(p) /\ Len(p) - (Len(p) - n) = n
  BY <1>1
<1>5. Len(p) - n \in S
  BY <1>2, <1>3, <1>4, NatSet
<1> QED
  BY <1>4, <1>5 DEF S

(* p is q or lies above it.                                                *)
LEMMA PrefixIs ==
  ASSUME NEW p \in Paths, NEW q \in Paths
  PROVE  IsPrefix(p, q) <=> Len(p) <= Len(q) /\ \A i \in 1..Len(p) : p[i] = q[i]
<1>1. Len(p) \in Nat /\ Len(q) \in Nat
  BY PathType
<1>2. SubSeq(p, 1, Len(p)) = p
  BY PathType, SubSeqFull
<1>3. CASE Len(p) <= Len(q)
  <2>1. Len(p) \in 0..Len(q)
    BY <1>1, <1>3
  <2>2. /\ SubSeq(q, 1, Len(p)) \in Paths /\ Len(SubSeq(q, 1, Len(p))) = Len(p)
        /\ \A i \in 1..Len(p) : SubSeq(q, 1, Len(p))[i] = q[i]
    BY <2>1, TakeType, TakeIsPath
  <2> QED
    BY <1>2, <1>3, <2>2, PathEqual DEF IsPrefix
<1>4. CASE ~ (Len(p) <= Len(q))
  BY <1>4 DEF IsPrefix
<1> QED
  BY <1>3, <1>4

LEMMA PrefixReflexive ==
  ASSUME NEW p \in Paths
  PROVE  IsPrefix(p, p)
  BY PathType, PrefixIs

LEMMA PrefixTransitive ==
  ASSUME NEW p \in Paths, NEW q \in Paths, NEW r \in Paths, IsPrefix(p, q), IsPrefix(q, r)
  PROVE  IsPrefix(p, r)
<1>1. /\ Len(p) \in Nat /\ Len(q) \in Nat /\ Len(r) \in Nat
      /\ Len(p) <= Len(q) /\ \A i \in 1..Len(p) : p[i] = q[i]
      /\ Len(q) <= Len(r) /\ \A i \in 1..Len(q) : q[i] = r[i]
  BY PathType, PrefixIs
<1>2. \A i \in 1..Len(p) : i \in 1..Len(q)
  BY <1>1
<1>3. Len(p) <= Len(r) /\ \A i \in 1..Len(p) : p[i] = r[i]
  BY <1>1, <1>2
<1> QED
  BY <1>3, PrefixIs

(* Two prefixes of one path, the same length.                              *)
LEMMA PrefixUnique ==
  ASSUME NEW p \in Paths, NEW q \in Paths, NEW r \in Paths,
         IsPrefix(p, r), IsPrefix(q, r), Len(p) = Len(q)
  PROVE  p = q
<1>1. /\ \A i \in 1..Len(p) : p[i] = r[i]
      /\ \A i \in 1..Len(q) : q[i] = r[i]
  BY PrefixIs
<1> QED
  BY <1>1, PathEqual

LEMMA StrictIsShorter ==
  ASSUME NEW p \in Paths, NEW q \in Paths, IsPrefix(p, q), p # q
  PROVE  Len(p) < Len(q)
<1>1. Len(p) \in Nat /\ Len(q) \in Nat
  BY PathType
<1>2. Len(p) <= Len(q) /\ \A i \in 1..Len(p) : p[i] = q[i]
  BY PrefixIs
<1> QED
  BY <1>1, <1>2, PathEqual

LEMMA TakeIsPrefix ==
  ASSUME NEW p \in Paths, NEW n \in 0..Len(p)
  PROVE  SubSeq(p, 1, n) \in Paths /\ IsPrefix(SubSeq(p, 1, n), p) /\ Len(SubSeq(p, 1, n)) = n
<1>1. Len(p) \in Nat
  BY PathType
<1>2. /\ SubSeq(p, 1, n) \in Paths /\ Len(SubSeq(p, 1, n)) = n
      /\ \A i \in 1..n : SubSeq(p, 1, n)[i] = p[i]
  BY TakeType, TakeIsPath
<1>3. n <= Len(p)
  BY <1>1
<1> QED
  BY <1>2, <1>3, PrefixIs

LEMMA FrontIsAbove ==
  ASSUME NEW p \in Paths, p # <<>>
  PROVE  /\ Front(p) \in Paths /\ IsPrefix(Front(p), p) /\ Front(p) # p
         /\ Len(Front(p)) = Len(p) - 1
<1>1. Len(p) \in Nat
  BY PathType
<1> QED
  BY <1>1, FrontType, PrefixIs

(* What lies above a path lies above or at its parent.                     *)
LEMMA AboveIsAtFront ==
  ASSUME NEW p \in Paths, NEW q \in Paths, IsPrefix(p, q), p # q
  PROVE  q # <<>> /\ IsPrefix(p, Front(q))
<1>1. Len(p) \in Nat /\ Len(q) \in Nat /\ Len(p) < Len(q)
  BY PathType, StrictIsShorter
<1>2. q # <<>>
  BY <1>1, PathType
<1>3. /\ Front(q) \in Paths /\ Len(Front(q)) = Len(q) - 1
      /\ \A i \in 1..(Len(q) - 1) : Front(q)[i] = q[i]
  BY <1>2, FrontType
<1>4. \A i \in 1..Len(p) : p[i] = q[i]
  BY PrefixIs
<1>5. \A i \in 1..Len(p) : i \in 1..(Len(q) - 1)
  BY <1>1
<1>6. Len(p) <= Len(Front(q)) /\ \A i \in 1..Len(p) : p[i] = Front(q)[i]
  BY <1>1, <1>3, <1>4, <1>5
<1> QED
  BY <1>2, <1>3, <1>6, PrefixIs

-----------------------------------------------------------------------------
(* Records.  While revision rev is indexed the database is a function on   *)
(* 0..rev; the references of a record are to records of its own or of      *)
(* earlier revisions.                                                      *)

Kinds == {"file", "dir", "unknown"}
Actions == {"add", "change", "delete"}
Acts == {"add", "change", "delete", "replace"}
SourceSet == [rev : Int, path : Paths]
RowSet == [path : Paths, kind : Kinds, action : Actions,
           children : SUBSET (Nat \X Nat), props : Nat, text : Nat]
Databases(rev) == [0..rev -> Seq(RowSet)]

IdsOf(d) == {id \in Nat \X Nat : id[1] \in DOMAIN d /\ id[2] \in DOMAIN d[id[1]]}

RowOK(d, r, row) ==
  /\ row.props \in 0..r
  /\ row.text \in 0..r
  /\ row.children \subseteq IdsOf(d)
  /\ \A c \in row.children : c[1] <= r
  /\ row.kind # "dir" => row.children = {}

RowsOK(rev, d) == \A r \in 0..rev : \A k \in DOMAIN d[r] : RowOK(d, r, d[r][k])

LEMMA RowsType ==
  ASSUME NEW rev \in Nat, NEW d \in Databases(rev), NEW r \in 0..rev
  PROVE  /\ d[r] \in Seq(RowSet) /\ Len(d[r]) \in Nat /\ DOMAIN d[r] = 1..Len(d[r])
         /\ \A k \in DOMAIN d[r] : d[r][k] \in RowSet
<1>1. d[r] \in Seq(RowSet)
  BY DEF Databases
<1> QED
  BY <1>1, LenProperties, ElementOfSeq

LEMMA NodeType ==
  ASSUME NEW rev \in Nat, NEW d \in Databases(rev), RowsOK(rev, d), NEW id \in IdsOf(d)
  PROVE  /\ id \in Nat \X Nat /\ id[1] \in 0..rev
         /\ Node(d, id) \in RowSet /\ RowOK(d, id[1], Node(d, id))
<1>1. id \in Nat \X Nat /\ id[1] \in DOMAIN d /\ id[2] \in DOMAIN d[id[1]]
  BY DEF IdsOf
<1>2. DOMAIN d = 0..rev
  BY DEF Databases
<1> QED
  BY <1>1, <1>2, RowsType DEF RowsOK, Node

LEMMA RootIdsType ==
  ASSUME NEW rev \in Nat, NEW d \in Databases(rev), NEW s
  PROVE  RootIds(d, s) \subseteq IdsOf(d)
<1> SUFFICES ASSUME NEW id \in RootIds(d, s) PROVE id \in IdsOf(d)
  OBVIOUS
<1>1. PICK r \in DOMAIN d : \E k \in DOMAIN d[r] : id = <<r, k>>
  BY DEF RootIds
<1>2. PICK k \in DOMAIN d[r] : id = <<r, k>>
  BY <1>1
<1>3. r \in 0..rev
  BY DEF Databases
<1>4. r \in Nat /\ k \in Nat
  BY <1>2, <1>3, RowsType
<1> QED
  BY <1>2, <1>4 DEF IdsOf

LEMMA PredecessorIdsType ==
  ASSUME NEW rev \in Nat, NEW d \in Databases(rev), RowsOK(rev, d), NEW s, NEW path \in Paths
  PROVE  PredecessorIds(d, s, path) \subseteq IdsOf(d)
<1> DEFINE N == Len(path)
           U == SUBSET IdsOf(d)
           T == [n \in 0..N |-> U]
           Step(n, ids) == UNION {NamedAmong(d, Node(d, id).children, path[n]) : id \in ids}
           R == [z \in (1..N) \X U |-> Step(z[1], z[2])]
           Eq(f) == f = [n \in 0..N |-> IF n = 0 THEN RootIds(d, s) ELSE Step(n, f[n - 1])]
           f == CHOOSE f : Eq(f)
<1>1. N \in Nat
  BY PathType
<1>2. ASSUME NEW n, NEW ids \in U PROVE Step(n, ids) \in U
  <2> SUFFICES ASSUME NEW id \in ids, NEW c \in NamedAmong(d, Node(d, id).children, path[n])
               PROVE  c \in IdsOf(d)
    OBVIOUS
  <2>1. RowOK(d, id[1], Node(d, id))
    BY NodeType
  <2> QED
    BY <2>1 DEF RowOK, NamedAmong
<1>3. RootIds(d, s) \in U
  BY RootIdsType
<1> HIDE DEF Step, U
<1>4. T \in [0..N -> SUBSET U] /\ RootIds(d, s) \in T[0]
  BY <1>1, <1>3
<1>5. \A n \in 1..N : \A x \in T[n - 1] : R[<<n, x>>] = Step(n, x) /\ R[<<n, x>>] \in T[n]
  BY <1>1, <1>2
<1>6. PICK g \in [0..N -> U] : Iterated(N, RootIds(d, s), R, g) /\ Within(N, T, g)
  <2> HIDE DEF R, T, N
  <2> QED
    BY <1>1, <1>4, <1>5, Iterates
<1>7. Eq(g)
  <2>1. \A n \in 0..N : n # 0 => n \in 1..N /\ n - 1 \in 0..N
    BY <1>1
  <2>2. ASSUME NEW n \in 1..N PROVE g[n] = Step(n, g[n - 1])
    <3> HIDE DEF R, T
    <3>1. n - 1 \in 0..N
      BY <1>1
    <3>2. g[n - 1] \in T[n - 1] /\ g[n] = R[<<n, g[n - 1]>>]
      BY <1>6, <3>1 DEF Iterated, Within
    <3> QED
      BY <1>5, <3>2
  <2> QED
    BY <1>6, <2>1, <2>2 DEF Iterated
<1>8. Eq(f)
  <2> HIDE DEF Eq
  <2> QED
    BY <1>7
<1> HIDE DEF f
<1>9. f[0] \in T[0] /\ \A n \in 1..N : f[n - 1] \in T[n - 1] => f[n] \in T[n]
  <2>1. f[0] = RootIds(d, s)
    BY <1>1, <1>8
  <2>2. \A n \in 1..N : f[n] = Step(n, f[n - 1])
    BY <1>1, <1>8
  <2> QED
    BY <1>1, <1>2, <1>4, <2>1, <2>2
<1>10. \A n \in 0..N : f[n] \in T[n]
  <2> HIDE DEF T, N, Eq
  <2> QED
    BY <1>1, <1>9, UpTo
<1>11. f[N] \in U
  BY <1>1, <1>10
<1>12. PredecessorIds(d, s, path) = f[N]
  BY DEF PredecessorIds, f, Step
<1> QED
  BY <1>11, <1>12 DEF U

(* What a record starts with.                                              *)
OldOK(d, rev, old) ==
  /\ old.props \in 0..rev
  /\ old.text \in 0..rev
  /\ old.children \subseteq IdsOf(d)
  /\ \A c \in old.children : c[1] <= rev

LEMMA PredecessorType ==
  ASSUME NEW rev \in Nat, NEW d \in Databases(rev), RowsOK(rev, d), NEW s, NEW path \in Paths
  PROVE  OldOK(d, rev, Predecessor(d, s, path))
<1> DEFINE ids == PredecessorIds(d, s, path)
           id == CHOOSE id \in ids : TRUE
<1>1. CASE ids = {}
  BY <1>1 DEF Predecessor, NoData, OldOK
<1>2. CASE ids # {}
  <2>1. id \in IdsOf(d)
    BY <1>2, PredecessorIdsType
  <2>2. Predecessor(d, s, path) = Node(d, id)
    BY <1>2 DEF Predecessor
  <2> HIDE DEF id
  <2>3. id[1] \in 0..rev /\ Node(d, id) \in RowSet /\ RowOK(d, id[1], Node(d, id))
    BY <2>1, NodeType
  <2>4. \A c \in Node(d, id).children : c \in IdsOf(d) /\ c[1] <= id[1]
    BY <2>3 DEF RowOK
  <2>5. \A c \in Node(d, id).children : c[1] <= rev
    BY <2>3, <2>4 DEF IdsOf
  <2> QED
    BY <2>2, <2>3, <2>4, <2>5 DEF RowOK, OldOK
<1> QED
  BY <1>1, <1>2

-----------------------------------------------------------------------------
(* create_node: one record more; the others keep their path, kind and      *)
(* action, and earlier revisions stay.                                     *)

SameNode(row, old) == row.path = old.path /\ row.kind = old.kind /\ row.action = old.action
IsOf(row, path, kind, action) == row.path = path /\ row.kind = kind /\ row.action = action
EarlierStay(rev, d, e) == \A r \in 0..(rev - 1) : e[r] = d[r]

Added(rev, d, e, path, kind, action) ==
  /\ e \in Databases(rev)
  /\ RowsOK(rev, e)
  /\ EarlierStay(rev, d, e)
  /\ Len(e[rev]) = Len(d[rev]) + 1
  /\ \A k \in 1..Len(d[rev]) : SameNode(e[rev][k], d[rev][k])
  /\ IsOf(e[rev][Len(d[rev]) + 1], path, kind, action)

(* The directory that gets the new record's reference is a directory.      *)
ParentIsDir(rows, path) ==
  path # <<>> => \A k \in DOMAIN rows : rows[k].path = Front(path) => rows[k].kind = "dir"

LEMMA SourceType == NoSource \in SourceSet
  BY PathsAssumption DEF NoSource, SourceSet

LEMMA InsertNodeAdds ==
  ASSUME NEW rev \in Nat, NEW d \in Databases(rev), RowsOK(rev, d), NEW path \in Paths,
         NEW kind \in Kinds, NEW action \in Actions, NEW from \in SourceSet,
         ParentIsDir(d[rev], path)
  PROVE  Added(rev, d, InsertNode(d, rev, path, kind, action, from), path, kind, action)
<1> DEFINE rows == d[rev]
           N    == Len(rows)
           nid  == <<rev, N + 1>>
           old  == IF from = NoSource THEN Predecessor(d, rev - 1, path)
                                      ELSE Predecessor(d, from.rev, from.path)
           new  == NewNode(path, kind, action, old)
           listed(ids) == (ids \ NamedAmong(d, ids, Last(path)))
                            \union (IF action = "delete" THEN {} ELSE {nid})
           relisted == [k \in DOMAIN rows |->
                          IF k \in ParentIds(rows, path)
                            THEN [rows[k] EXCEPT !.children = listed(@)] ELSE rows[k]]
           e == InsertNode(d, rev, path, kind, action, from)
<1>1. OldOK(d, rev, old)
  <2>1. from.path \in Paths
    BY DEF SourceSet
  <2> QED
    BY <2>1, PredecessorType
<1>2. e = [d EXCEPT ![rev] = Append(relisted, new)]
  BY DEF InsertNode
<1> HIDE DEF e, old
<1>3. rows \in Seq(RowSet) /\ N \in Nat /\ DOMAIN rows = 1..N /\ rev \in 0..rev
      /\ \A k \in 1..N : rows[k] \in RowSet /\ RowOK(d, rev, rows[k])
  BY RowsType DEF RowsOK
<1>4. /\ IsOf(new, path, kind, action)
      /\ new.props = old.props /\ new.text \in {0, old.text}
      /\ new.children \in {{}, old.children} /\ (kind # "dir" => new.children = {})
  BY DEF NewNode, IsOf
<1>5. new \in RowSet
  <2>1. old.props \in Nat /\ old.text \in Nat /\ old.children \in SUBSET (Nat \X Nat)
    BY <1>1 DEF OldOK, IdsOf
  <2> QED
    BY <2>1 DEF NewNode, RowSet
<1> HIDE DEF new
<1>6. nid \in Nat \X Nat
  BY <1>3
<1>7. ASSUME NEW ids \in SUBSET (Nat \X Nat)
      PROVE  listed(ids) \subseteq ids \union {nid} /\ listed(ids) \in SUBSET (Nat \X Nat)
  BY <1>6
<1> HIDE DEF listed
<1>8. ASSUME NEW k \in 1..N
      PROVE  /\ relisted[k] \in RowSet /\ SameNode(relisted[k], rows[k])
             /\ relisted[k].props = rows[k].props /\ relisted[k].text = rows[k].text
             /\ relisted[k].children \subseteq rows[k].children \union {nid}
             /\ rows[k].kind # "dir" => relisted[k].children = rows[k].children
  <2>1. rows[k] \in RowSet
    BY <1>3
  <2>2. CASE k \in ParentIds(rows, path)
    <3>1. relisted[k] = [rows[k] EXCEPT !.children = listed(rows[k].children)]
      BY <1>3, <2>2
    <3>2. rows[k].children \in SUBSET (Nat \X Nat)
      BY <2>1 DEF RowSet
    <3>3. listed(rows[k].children) \subseteq rows[k].children \union {nid}
          /\ listed(rows[k].children) \in SUBSET (Nat \X Nat)
      BY <1>7, <3>2
    <3>4. rows[k].kind = "dir"
      BY <1>3, <2>2 DEF ParentIds, ParentIsDir
    <3> HIDE DEF relisted, rows
    <3> QED
      BY <2>1, <3>1, <3>3, <3>4 DEF RowSet, SameNode
  <2>3. CASE k \notin ParentIds(rows, path)
    <3>1. relisted[k] = rows[k]
      BY <1>3, <2>3
    <3> QED
      BY <2>1, <3>1 DEF SameNode
  <2> QED
    BY <2>2, <2>3
<1>9. relisted \in Seq(RowSet) /\ Len(relisted) = N
  <2>1. relisted \in [1..N -> RowSet]
    <3>1. DOMAIN relisted = 1..N /\ relisted = [k \in 1..N |-> relisted[k]]
      BY <1>3
    <3> HIDE DEF relisted
    <3> QED
      BY <1>8, <3>1
  <2> HIDE DEF relisted
  <2> QED
    BY <1>3, <2>1, IsASeq, LenProperties
<1> HIDE DEF relisted, rows, N, nid
<1>10. /\ Append(relisted, new) \in Seq(RowSet)
       /\ Len(Append(relisted, new)) = N + 1
       /\ \A k \in 1..N : Append(relisted, new)[k] = relisted[k]
       /\ Append(relisted, new)[N + 1] = new
  BY <1>3, <1>5, <1>9, AppendProperties
<1>11. /\ e \in Databases(rev) /\ e[rev] = Append(relisted, new)
       /\ \A r \in 0..rev : r # rev => e[r] = d[r]
  BY <1>2, <1>3, <1>10 DEF Databases
<1>12. /\ Len(e[rev]) = N + 1 /\ DOMAIN e[rev] = 1..(N + 1)
       /\ \A k \in 1..N : e[rev][k] = relisted[k]
       /\ e[rev][N + 1] = new
  <2>1. DOMAIN e[rev] = 1..Len(e[rev])
    BY <1>3, <1>11, RowsType
  <2> QED
    BY <1>10, <1>11, <2>1
<1>13. IdsOf(d) \subseteq IdsOf(e) /\ nid \in IdsOf(e) /\ nid[1] <= rev
  <2>1. DOMAIN d = 0..rev /\ DOMAIN e = 0..rev
    BY <1>11 DEF Databases
  <2>2. \A r \in 0..rev : DOMAIN d[r] \subseteq DOMAIN e[r]
    BY <1>3, <1>11, <1>12 DEF rows
  <2>3. IdsOf(d) \subseteq IdsOf(e)
    BY <2>1, <2>2 DEF IdsOf
  <2>4. nid \in IdsOf(e)
    BY <1>3, <1>6, <1>12, <2>1 DEF IdsOf, nid
  <2> QED
    BY <1>3, <2>3, <2>4 DEF nid
<1>14. ASSUME NEW r \in 0..rev, NEW k \in DOMAIN e[r] PROVE RowOK(e, r, e[r][k])
  <2>1. CASE r # rev
    <3>1. e[r] = d[r]
      BY <1>11, <2>1
    <3>2. RowOK(d, r, d[r][k])
      BY <3>1 DEF RowsOK
    <3> QED
      BY <1>13, <3>1, <3>2 DEF RowOK
  <2>2. CASE r = rev /\ k # N + 1
    <3>1. k \in 1..N /\ e[r][k] = relisted[k]
      BY <1>3, <1>12, <2>2
    <3>2. RowOK(d, rev, rows[k])
      BY <1>3, <3>1
    <3>3. \A c \in relisted[k].children : c \in IdsOf(e) /\ c[1] <= rev
      BY <1>8, <1>13, <3>1, <3>2 DEF RowOK
    <3>4. relisted[k].props \in 0..rev /\ relisted[k].text \in 0..rev
      BY <1>8, <3>1, <3>2 DEF RowOK
    <3>5. relisted[k].kind # "dir" => relisted[k].children = {}
      BY <1>8, <3>1, <3>2 DEF RowOK, SameNode
    <3> QED
      BY <2>2, <3>1, <3>3, <3>4, <3>5 DEF RowOK
  <2>3. CASE r = rev /\ k = N + 1
    <3>1. e[r][k] = new
      BY <1>12, <2>3
    <3>2. new.children \subseteq IdsOf(e) /\ \A c \in new.children : c[1] <= rev
      BY <1>1, <1>4, <1>13 DEF OldOK
    <3>3. new.props \in 0..rev /\ new.text \in 0..rev
      BY <1>1, <1>3, <1>4 DEF OldOK
    <3>4. new.kind # "dir" => new.children = {}
      BY <1>4 DEF IsOf
    <3> QED
      BY <2>3, <3>1, <3>2, <3>3, <3>4 DEF RowOK
  <2> QED
    BY <2>1, <2>2, <2>3
<1>15. EarlierStay(rev, d, e)
  <2>1. \A r \in 0..(rev - 1) : r \in 0..rev /\ r # rev
    OBVIOUS
  <2> QED
    BY <1>11, <2>1 DEF EarlierStay
<1>16. \A k \in 1..N : SameNode(e[rev][k], rows[k])
  BY <1>8, <1>12
<1> QED
  BY <1>4, <1>11, <1>12, <1>14, <1>15, <1>16 DEF Added, RowsOK, N, rows, e

(* Of the records of the revision that is indexed: those of directories    *)
(* with changes below are of kind dir; each is at or above a path of done, *)
(* those that index_node was called for; no two break the unique           *)
(* constraint.                                                             *)
DirsAbove(C, rows) ==
  \A k \in DOMAIN rows : \A p \in C :
    IsPrefix(rows[k].path, p) /\ rows[k].path # p => rows[k].kind = "dir"

AboveDone(done, rows) == \A k \in DOMAIN rows : \E p \in done : IsPrefix(rows[k].path, p)

NoTwins(rows) ==
  \A j, k \in DOMAIN rows :
    rows[j].path = rows[k].path /\ rows[j].action = rows[k].action => j = k

Indexed(rev, C, done, d) ==
  /\ C \in SUBSET Paths
  /\ done \in SUBSET C
  /\ d \in Databases(rev)
  /\ RowsOK(rev, d)
  /\ DirsAbove(C, d[rev])
  /\ AboveDone(done, d[rev])
  /\ NoTwins(d[rev])

NoneAt(rows, path, action) ==
  \A k \in DOMAIN rows : ~ (rows[k].path = path /\ rows[k].action = action)

NoChangeBelow(C, path) == \A p \in C : ~ (IsPrefix(path, p) /\ path # p)
KindFits(C, path, kind) == kind = "dir" \/ NoChangeBelow(C, path)

OnlyNewAt(rows, then, path, action) ==
  \A act : act # action /\ NoneAt(rows, path, act) => NoneAt(then, path, act)

(* No record but one of this path and action comes in.                     *)
OnlyNew(rows, then, q, action) ==
  \A path, act : (path # q \/ act # action) /\ NoneAt(rows, path, act) => NoneAt(then, path, act)

LEMMA InsertNodeIndexes ==
  ASSUME NEW rev \in Nat, NEW C, NEW done,
         NEW d, Indexed(rev, C, done, d),
         NEW q \in Paths, NEW p \in done, IsPrefix(q, p),
         NEW kind \in Kinds, KindFits(C, q, kind),
         NEW action \in Actions, NoneAt(d[rev], q, action), NEW from \in SourceSet,
         NEW e, e = InsertNode(d, rev, q, kind, action, from)
  PROVE  /\ Indexed(rev, C, done, e)
         /\ EarlierStay(rev, d, e)
         /\ Len(e[rev]) >= 1
         /\ OnlyNew(d[rev], e[rev], q, action)
<1> DEFINE N == Len(d[rev])
<1>1. d \in Databases(rev) /\ RowsOK(rev, d) /\ rev \in 0..rev
      /\ DirsAbove(C, d[rev]) /\ AboveDone(done, d[rev]) /\ NoTwins(d[rev])
      /\ C \in SUBSET Paths /\ done \in SUBSET C
  BY DEF Indexed
<1>2. N \in Nat /\ DOMAIN d[rev] = 1..N /\ \A k \in 1..N : d[rev][k] \in RowSet
  BY <1>1, RowsType
<1>3. p \in Paths /\ p \in C
  BY <1>1
<1>4. ParentIsDir(d[rev], q)
  <2> SUFFICES ASSUME q # <<>>, NEW k \in DOMAIN d[rev], d[rev][k].path = Front(q)
               PROVE  d[rev][k].kind = "dir"
    BY DEF ParentIsDir
  <2>1. Front(q) \in Paths /\ IsPrefix(Front(q), q) /\ Len(Front(q)) = Len(q) - 1
    BY FrontIsAbove
  <2>2. IsPrefix(Front(q), p)
    BY <1>3, <2>1, PrefixTransitive
  <2>3. Front(q) # p
    BY <1>3, <2>1, PathType, PrefixIs
  <2> QED
    BY <1>1, <1>3, <2>2, <2>3 DEF DirsAbove
<1>5. Added(rev, d, e, q, kind, action)
  BY <1>1, <1>4, InsertNodeAdds
<1>6. /\ e \in Databases(rev) /\ RowsOK(rev, e) /\ EarlierStay(rev, d, e)
      /\ Len(e[rev]) = N + 1
      /\ \A k \in 1..N : SameNode(e[rev][k], d[rev][k])
      /\ IsOf(e[rev][N + 1], q, kind, action)
  BY <1>5 DEF Added
<1>7. DOMAIN e[rev] = 1..(N + 1) /\ \A k \in 1..(N + 1) : k \in 1..N \/ k = N + 1
  BY <1>1, <1>2, <1>6, RowsType
<1> HIDE DEF N
<1>8. DirsAbove(C, e[rev])
  <2> SUFFICES ASSUME NEW k \in 1..(N + 1), NEW c \in C,
                      IsPrefix(e[rev][k].path, c), e[rev][k].path # c
               PROVE  e[rev][k].kind = "dir"
    BY <1>7 DEF DirsAbove
  <2>1. CASE k \in 1..N
    BY <1>1, <1>2, <1>6, <2>1 DEF DirsAbove, SameNode
  <2>2. CASE k = N + 1
    BY <1>6, <2>2 DEF IsOf, KindFits, NoChangeBelow
  <2> QED
    BY <1>7, <2>1, <2>2
<1>9. AboveDone(done, e[rev])
  <2> SUFFICES ASSUME NEW k \in 1..(N + 1)
               PROVE  \E c \in done : IsPrefix(e[rev][k].path, c)
    BY <1>7 DEF AboveDone
  <2>1. CASE k \in 1..N
    BY <1>1, <1>2, <1>6, <2>1 DEF AboveDone, SameNode
  <2>2. CASE k = N + 1
    BY <1>6, <2>2 DEF IsOf
  <2> QED
    BY <1>7, <2>1, <2>2
<1>10. ASSUME NEW path, NEW act, path # q \/ act # action, NoneAt(d[rev], path, act)
       PROVE  NoneAt(e[rev], path, act)
  <2> SUFFICES ASSUME NEW k \in 1..(N + 1)
               PROVE  ~ (e[rev][k].path = path /\ e[rev][k].action = act)
    BY <1>7 DEF NoneAt
  <2>1. CASE k \in 1..N
    BY <1>2, <1>6, <1>10, <2>1 DEF NoneAt, SameNode
  <2>2. CASE k = N + 1
    BY <1>6, <1>10, <2>2 DEF IsOf
  <2> QED
    BY <1>7, <2>1, <2>2
<1>11. NoTwins(e[rev])
  <2> SUFFICES ASSUME NEW j \in 1..(N + 1), NEW k \in 1..(N + 1),
                      e[rev][j].path = e[rev][k].path, e[rev][j].action = e[rev][k].action
               PROVE  j = k
    BY <1>7 DEF NoTwins
  <2>1. \A m \in 1..N : ~ (e[rev][m].path = q /\ e[rev][m].action = action)
    BY <1>2, <1>6 DEF NoneAt, SameNode
  <2>2. CASE j \in 1..N /\ k \in 1..N
    BY <1>1, <1>2, <1>6, <2>2 DEF NoTwins, SameNode
  <2>3. e[rev][N + 1].path = q /\ e[rev][N + 1].action = action
    BY <1>6 DEF IsOf
  <2> QED
    BY <1>7, <2>1, <2>2, <2>3
<1>12. Len(e[rev]) >= 1
  BY <1>2, <1>6 DEF N
<1> QED
  BY <1>1, <1>6, <1>8, <1>9, <1>10, <1>11, <1>12 DEF Indexed, OnlyNew

LEMMA InsertAboveIndexes ==
  ASSUME NEW rev \in Nat, NEW C, NEW done,
         NEW d, Indexed(rev, C, done, d),
         NEW q \in Paths, NEW p \in done, IsPrefix(q, p), ~ HasNode(d[rev], q),
         NEW e, e = InsertNode(d, rev, q, "dir", "change", NoSource)
  PROVE  /\ Indexed(rev, C, done, e)
         /\ EarlierStay(rev, d, e)
         /\ \A path, act : path # q /\ NoneAt(d[rev], path, act) => NoneAt(e[rev], path, act)
<1>1. PICK kind \in Kinds, action \in Actions, from \in SourceSet :
        kind = "dir" /\ action = "change" /\ from = NoSource
  BY SourceType DEF Kinds, Actions
<1>2. NoneAt(d[rev], q, action)
  BY DEF HasNode, NoneAt
<1>3. e = InsertNode(d, rev, q, kind, action, from)
  BY <1>1
<1>4. KindFits(C, q, kind)
  BY <1>1 DEF KindFits
<1>5. /\ Indexed(rev, C, done, e)
      /\ EarlierStay(rev, d, e)
      /\ OnlyNew(d[rev], e[rev], q, action)
  BY <1>2, <1>3, <1>4, InsertNodeIndexes
<1> QED
  BY <1>5 DEF OnlyNew

(* create_node with the ancestors that have no record yet.                 *)
LEMMA CreateNodeIndexes ==
  ASSUME NEW rev \in Nat, NEW C, NEW done,
         NEW d, Indexed(rev, C, done, d), NEW path \in done,
         NEW kind \in Kinds, KindFits(C, path, kind),
         NEW action \in Actions, NoneAt(d[rev], path, action), NEW from \in SourceSet,
         NEW e, e = CreateNode(d, rev, path, kind, action, from)
  PROVE  /\ Indexed(rev, C, done, e)
         /\ EarlierStay(rev, d, e)
         /\ Len(e[rev]) >= 1
         /\ OnlyNewAt(d[rev], e[rev], path, action)
<1> DEFINE N == Len(path)
           U == Databases(rev)
           V == {x \in U : /\ Indexed(rev, C, done, x) /\ EarlierStay(rev, d, x)
                           /\ \A act : NoneAt(d[rev], path, act) => NoneAt(x[rev], path, act)}
           T == [n \in 0..N |-> V]
           Step(n, x) == IF HasNode(x[rev], SubSeq(path, 1, n - 1)) THEN x
                         ELSE InsertNode(x, rev, SubSeq(path, 1, n - 1), "dir", "change", NoSource)
           R == [z \in (1..N) \X U |-> Step(z[1], z[2])]
           Eq(f) == f = [n \in 0..N |-> IF n = 0 THEN d ELSE Step(n, f[n - 1])]
           f == CHOOSE f : Eq(f)
<1>1. path \in Paths /\ N \in Nat
  <2>1. path \in Paths
    BY DEF Indexed
  <2> QED
    BY <2>1, PathType
<1>2. ASSUME NEW n \in 1..N, NEW x \in V PROVE Step(n, x) \in V
  <2> DEFINE q == SubSeq(path, 1, n - 1)
  <2>1. n - 1 \in 0..N /\ n - 1 # N
    BY <1>1
  <2>2. q \in Paths /\ IsPrefix(q, path) /\ q # path
    BY <1>1, <2>1, TakeIsPrefix
  <2>3. CASE HasNode(x[rev], q)
    BY <2>3
  <2>4. CASE ~ HasNode(x[rev], q)
    <3> DEFINE y == InsertNode(x, rev, q, "dir", "change", NoSource)
    <3>1. Indexed(rev, C, done, x) /\ EarlierStay(rev, d, x)
          /\ \A act : NoneAt(d[rev], path, act) => NoneAt(x[rev], path, act)
      OBVIOUS
    <3>2. Step(n, x) = y /\ y = InsertNode(x, rev, q, "dir", "change", NoSource)
      BY <2>4
    <3> HIDE DEF q, V, y, Step
    <3>3. /\ Indexed(rev, C, done, y) /\ EarlierStay(rev, x, y)
          /\ \A pth, act : pth # q /\ NoneAt(x[rev], pth, act) => NoneAt(y[rev], pth, act)
      <4> HIDE DEF U, T, R, N, f, Eq
      <4> QED
        BY <2>2, <2>4, <3>1, <3>2, InsertAboveIndexes, SMTT(30)
    <3>6. EarlierStay(rev, d, y)
      BY <3>1, <3>3 DEF EarlierStay
    <3>7. \A act : NoneAt(d[rev], path, act) => NoneAt(y[rev], path, act)
      BY <2>2, <3>1, <3>3
    <3>8. y \in U
      BY <3>3 DEF Indexed
    <3> QED
      BY <3>2, <3>3, <3>6, <3>7, <3>8 DEF V
  <2> QED
    BY <2>3, <2>4
<1>3. d \in V
  BY DEF Indexed, EarlierStay
<1> HIDE DEF Step
<1>4. T \in [0..N -> SUBSET U] /\ d \in T[0]
  BY <1>1, <1>3
<1> HIDE DEF V
<1>5. \A n \in 1..N : \A x \in T[n - 1] : R[<<n, x>>] = Step(n, x) /\ R[<<n, x>>] \in T[n]
  BY <1>1, <1>2 DEF V
<1>6. PICK g \in [0..N -> U] : Iterated(N, d, R, g) /\ Within(N, T, g)
  <2> HIDE DEF R, T, N, U
  <2> QED
    BY <1>1, <1>4, <1>5, Iterates
<1>7. Eq(g)
  <2>1. \A n \in 0..N : n # 0 => n \in 1..N /\ n - 1 \in 0..N
    BY <1>1
  <2>2. ASSUME NEW n \in 1..N PROVE g[n] = Step(n, g[n - 1])
    <3> HIDE DEF R, T
    <3>1. n - 1 \in 0..N
      BY <1>1
    <3>2. g[n - 1] \in T[n - 1] /\ g[n] = R[<<n, g[n - 1]>>]
      BY <1>6, <3>1 DEF Iterated, Within
    <3> QED
      BY <1>5, <3>2
  <2> HIDE DEF U
  <2> QED
    BY <1>6, <2>1, <2>2 DEF Iterated
<1>8. Eq(f)
  <2> HIDE DEF Eq
  <2> QED
    BY <1>7
<1> HIDE DEF f
<1>9. f[0] \in T[0] /\ \A n \in 1..N : f[n - 1] \in T[n - 1] => f[n] \in T[n]
  <2>1. f[0] = d
    BY <1>1, <1>8
  <2>2. \A n \in 1..N : f[n] = Step(n, f[n - 1])
    BY <1>1, <1>8
  <2> QED
    BY <1>1, <1>2, <1>4, <2>1, <2>2
<1>10. \A n \in 0..N : f[n] \in T[n]
  <2> HIDE DEF T, N, Eq
  <2> QED
    BY <1>1, <1>9, UpTo
<1>11. f[N] \in V
  BY <1>1, <1>10
<1>12. e = InsertNode(f[N], rev, path, kind, action, from)
  BY DEF CreateNode, f, Step
<1> HIDE DEF Eq, T, R, N
<1>13. /\ Indexed(rev, C, done, f[N]) /\ EarlierStay(rev, d, f[N])
       /\ \A act : NoneAt(d[rev], path, act) => NoneAt(f[N][rev], path, act)
  BY <1>11 DEF V
<1>14. /\ Indexed(rev, C, done, e) /\ EarlierStay(rev, f[N], e) /\ Len(e[rev]) >= 1
       /\ OnlyNew(f[N][rev], e[rev], path, action)
  <2>1. IsPrefix(path, path)
    BY <1>1, PrefixReflexive
  <2>2. NoneAt(f[N][rev], path, action)
    BY <1>13
  <2> QED
    BY <1>1, <1>12, <1>13, <2>1, <2>2, InsertNodeIndexes
<1>15. EarlierStay(rev, d, e)
  BY <1>13, <1>14 DEF EarlierStay
<1>16. OnlyNewAt(d[rev], e[rev], path, action)
  BY <1>13, <1>14 DEF OnlyNew, OnlyNewAt
<1> QED
  BY <1>14, <1>15, <1>16

-----------------------------------------------------------------------------
(* index_node                                                              *)

LEMMA SetNodeIndexes ==
  ASSUME NEW rev \in Nat, NEW C, NEW done,
         NEW d, Indexed(rev, C, done, d), Len(d[rev]) >= 1,
         NEW field \in {"text", "props"}, NEW v \in 0..rev,
         NEW e, e = SetNode(d, rev, field, v)
  PROVE  Indexed(rev, C, done, e) /\ EarlierStay(rev, d, e) /\ Len(e[rev]) >= 1
<1> DEFINE N    == Len(d[rev])
           row  == d[rev][N]
           new  == [row EXCEPT ![field] = v]
           rows == [d[rev] EXCEPT ![N] = new]
<1>1. d \in Databases(rev) /\ RowsOK(rev, d) /\ rev \in 0..rev
      /\ DirsAbove(C, d[rev]) /\ AboveDone(done, d[rev]) /\ NoTwins(d[rev])
      /\ C \in SUBSET Paths /\ done \in SUBSET C
  BY DEF Indexed
<1>2. /\ d[rev] \in Seq(RowSet) /\ N \in Nat /\ DOMAIN d[rev] = 1..N
      /\ \A k \in 1..N : d[rev][k] \in RowSet /\ RowOK(d, rev, d[rev][k])
  BY <1>1, RowsType DEF RowsOK
<1>3. N \in 1..N
  BY <1>2
<1>4. row \in RowSet /\ RowOK(d, rev, row)
  BY <1>2, <1>3
<1>5. e = [d EXCEPT ![rev] = rows]
  BY DEF SetNode
<1> HIDE DEF row
<1>6. /\ new \in RowSet /\ SameNode(new, row) /\ new.children = row.children
      /\ new.props \in {v, row.props} /\ new.text \in {v, row.text}
  <2>1. CASE field = "text"
    <3>1. new = [row EXCEPT !["text"] = v]
      BY <2>1
    <3> HIDE DEF new
    <3> QED
      BY <1>4, <3>1 DEF RowSet, SameNode
  <2>2. CASE field = "props"
    <3>1. new = [row EXCEPT !["props"] = v]
      BY <2>2
    <3> HIDE DEF new
    <3> QED
      BY <1>4, <3>1 DEF RowSet, SameNode
  <2> QED
    BY <2>1, <2>2
<1> HIDE DEF new
<1>7. /\ rows \in Seq(RowSet) /\ Len(rows) = N
      /\ rows[N] = new /\ \A k \in 1..N : k # N => rows[k] = d[rev][k]
  BY <1>2, <1>3, <1>6, ExceptSeq
<1> HIDE DEF rows
<1>8. /\ e \in Databases(rev) /\ e[rev] = rows
      /\ \A r \in 0..rev : r # rev => e[r] = d[r]
  BY <1>1, <1>5, <1>7 DEF Databases
<1>9. DOMAIN e[rev] = 1..N
  BY <1>1, <1>7, <1>8, RowsType
<1>10. IdsOf(e) = IdsOf(d)
  <2>1. DOMAIN d = 0..rev /\ DOMAIN e = 0..rev
    BY <1>1, <1>8 DEF Databases
  <2>2. \A r \in 0..rev : DOMAIN d[r] = DOMAIN e[r]
    BY <1>2, <1>8, <1>9
  <2> QED
    BY <2>1, <2>2 DEF IdsOf
<1>11. \A k \in 1..N : SameNode(e[rev][k], d[rev][k])
  BY <1>6, <1>7, <1>8 DEF SameNode, row
<1>12. RowOK(d, rev, new)
  BY <1>4, <1>6 DEF RowOK, SameNode
<1>13. RowsOK(rev, e)
  <2> SUFFICES ASSUME NEW r \in 0..rev, NEW k \in DOMAIN e[r] PROVE RowOK(e, r, e[r][k])
    BY DEF RowsOK
  <2>1. RowOK(d, r, e[r][k])
    <3>1. CASE r # rev
      <4>1. e[r] = d[r]
        BY <1>8, <3>1
      <4> QED
        BY <1>1, <4>1 DEF RowsOK
    <3>2. CASE r = rev
      BY <1>2, <1>7, <1>8, <1>9, <1>12, <3>2
    <3> QED
      BY <3>1, <3>2
  <2> QED
    BY <1>10, <2>1 DEF RowOK
<1>14. DirsAbove(C, e[rev])
  BY <1>1, <1>2, <1>9, <1>11 DEF DirsAbove, SameNode
<1>15. AboveDone(done, e[rev])
  BY <1>1, <1>2, <1>9, <1>11 DEF AboveDone, SameNode
<1>16. NoTwins(e[rev])
  BY <1>1, <1>2, <1>9, <1>11 DEF NoTwins, SameNode
<1>17. EarlierStay(rev, d, e)
  <2>1. \A r \in 0..(rev - 1) : r \in 0..rev /\ r # rev
    OBVIOUS
  <2> QED
    BY <1>8, <2>1 DEF EarlierStay
<1> QED
  BY <1>1, <1>7, <1>8, <1>13, <1>14, <1>15, <1>16, <1>17 DEF Indexed

LEMMA DumpNodeIndexes ==
  ASSUME NEW rev \in Nat, NEW C, NEW done,
         NEW d, Indexed(rev, C, done, d), Len(d[rev]) >= 1,
         NEW ts, NEW path, ts[rev][path].text \in 0..rev, ts[rev][path].props \in 0..rev,
         NEW kind, NEW cmp, NEW all \in BOOLEAN,
         NEW e, e = DumpNode(ts, d, rev, path, kind, cmp, all)
  PROVE  Indexed(rev, C, done, e) /\ EarlierStay(rev, d, e)
<1> DEFINE node  == ts[rev][path]
           texts == kind = "file" /\ (all \/ MustDump(ts, rev, path, cmp, "text"))
           sized == IF texts THEN SetNode(d, rev, "text", node.text) ELSE d
           both  == SetNode(sized, rev, "props", node.props)
<1>1. e \in {both, sized}
  BY DEF DumpNode
<1>2. sized \in {SetNode(d, rev, "text", node.text), d}
  OBVIOUS
<1>3. PICK text, props : text = "text" /\ props = "props"
  OBVIOUS
<1>4. text \in {"text", "props"} /\ props \in {"text", "props"}
  BY <1>3
<1>5. SetNode(d, rev, "text", node.text) = SetNode(d, rev, text, node.text)
      /\ both = SetNode(sized, rev, props, node.props)
  BY <1>3
<1>6. node.text \in 0..rev /\ node.props \in 0..rev
  OBVIOUS
<1> HIDE DEF node, sized, both
<1>7. Indexed(rev, C, done, d) /\ EarlierStay(rev, d, d) /\ Len(d[rev]) >= 1
  BY DEF EarlierStay
<1>8. Indexed(rev, C, done, sized) /\ EarlierStay(rev, d, sized) /\ Len(sized[rev]) >= 1
  <2>1. CASE sized = d
    BY <1>7, <2>1
  <2>2. CASE sized = SetNode(d, rev, text, node.text)
    BY <1>4, <1>6, <2>2, SetNodeIndexes
  <2> QED
    BY <1>2, <1>5, <2>1, <2>2
<1>9. Indexed(rev, C, done, both) /\ EarlierStay(rev, sized, both)
  BY <1>4, <1>5, <1>6, <1>8, SetNodeIndexes
<1> QED
  BY <1>1, <1>8, <1>9 DEF EarlierStay

(* What a commit's change of p says of the tree after it.                  *)
ChangeOK(ts, rev, C, p, c) ==
  /\ c.act \in Acts /\ c.kind \in Kinds /\ c.from \in SourceSet
  /\ KindFits(C, p, c.kind)
  /\ c.act # "delete" => ts[rev][p].text \in 0..rev /\ ts[rev][p].props \in 0..rev

LEMMA IndexNodeIndexes ==
  ASSUME NEW rev \in Nat, NEW C, NEW done,
         NEW d, Indexed(rev, C, done, d),
         NEW path \in C, \A q \in done : ~ IsPrefix(path, q),
         NEW ts, NEW c, ChangeOK(ts, rev, C, path, c), NEW cmp,
         NEW e, e = IndexNode(ts, d, rev, path, c.act, c, cmp)
  PROVE  Indexed(rev, C, done \union {path}, e) /\ EarlierStay(rev, d, e)
<1> DEFINE now == done \union {path}
           create(x, action, from) == CreateNode(x, rev, path, c.kind, action, from)
           default == [rev |-> rev - 1, path |-> path]
<1>1. C \in SUBSET Paths /\ now \in SUBSET C /\ path \in now
  BY DEF Indexed
<1>2. Indexed(rev, C, now, d)
  BY DEF Indexed, AboveDone
<1>3. \A action : NoneAt(d[rev], path, action)
  BY DEF Indexed, AboveDone, NoneAt
<1>4. /\ c.act \in Acts /\ c.kind \in Kinds /\ c.from \in SourceSet /\ NoSource \in SourceSet
      /\ KindFits(C, path, c.kind)
      /\ c.act # "delete" => ts[rev][path].text \in 0..rev /\ ts[rev][path].props \in 0..rev
  BY SourceType DEF ChangeOK
<1> HIDE DEF now
<1>5. ASSUME NEW action \in Actions, NEW from \in SourceSet
      PROVE  /\ Indexed(rev, C, now, create(d, action, from))
             /\ EarlierStay(rev, d, create(d, action, from))
             /\ Len(create(d, action, from)[rev]) >= 1
             /\ OnlyNewAt(d[rev], create(d, action, from)[rev], path, action)
  <2>a. PICK kind \in Kinds : kind = c.kind
    BY <1>4
  <2>1. PICK x : x = create(d, action, from)
    OBVIOUS
  <2>2. x = CreateNode(d, rev, path, kind, action, from) /\ NoneAt(d[rev], path, action)
        /\ KindFits(C, path, kind)
    BY <1>3, <1>4, <2>a, <2>1
  <2>3. /\ Indexed(rev, C, now, x) /\ EarlierStay(rev, d, x) /\ Len(x[rev]) >= 1
        /\ OnlyNewAt(d[rev], x[rev], path, action)
    BY <1>1, <1>2, <2>2, CreateNodeIndexes
  <2> QED
    BY <2>1, <2>3
<1>6. ASSUME NEW x, Indexed(rev, C, now, x), EarlierStay(rev, d, x), Len(x[rev]) >= 1,
             c.act # "delete", NEW from, NEW all \in BOOLEAN,
             e = DumpNode(ts, x, rev, path, c.kind, from, all)
      PROVE  Indexed(rev, C, now, e) /\ EarlierStay(rev, d, e)
  <2>1. Indexed(rev, C, now, e) /\ EarlierStay(rev, x, e)
    BY <1>1, <1>4, <1>6, DumpNodeIndexes
  <2> QED
    BY <1>6, <2>1 DEF EarlierStay
<1>7. "delete" \in Actions /\ "change" \in Actions /\ "add" \in Actions
  BY DEF Actions
<1>8. CASE c.act = "delete"
  <2>1. e = create(d, "delete", NoSource)
    BY <1>8 DEF IndexNode
  <2> HIDE DEF create
  <2> QED
    BY <1>4, <1>5, <1>7, <2>1 DEF now
<1>9. CASE c.act = "change"
  <2> DEFINE x == create(d, "change", NoSource)
             from == IF cmp = NoSource THEN default ELSE cmp
  <2>1. e = DumpNode(ts, x, rev, path, c.kind, from, FALSE)
    BY <1>9 DEF IndexNode
  <2> HIDE DEF create, from
  <2>2. Indexed(rev, C, now, x) /\ EarlierStay(rev, d, x) /\ Len(x[rev]) >= 1
    BY <1>4, <1>5, <1>7
  <2> HIDE DEF x
  <2> QED
    BY <1>6, <1>9, <2>1, <2>2 DEF now
<1>10. CASE c.act = "replace" /\ c.from = NoSource
  <2> DEFINE x == create(d, "change", NoSource)
  <2>1. e = DumpNode(ts, x, rev, path, c.kind, default, TRUE)
    BY <1>10 DEF IndexNode
  <2> HIDE DEF create, default
  <2>2. Indexed(rev, C, now, x) /\ EarlierStay(rev, d, x) /\ Len(x[rev]) >= 1
    BY <1>4, <1>5, <1>7
  <2> HIDE DEF x
  <2> QED
    BY <1>6, <1>10, <2>1, <2>2 DEF now
<1>11. CASE c.act = "replace" /\ c.from # NoSource
  <2> DEFINE x == create(d, "delete", NoSource)
             y == create(x, "add", c.from)
  <2>1. e = DumpNode(ts, y, rev, path, c.kind, c.from, FALSE)
    BY <1>11 DEF IndexNode
  <2>2. /\ Indexed(rev, C, now, x) /\ EarlierStay(rev, d, x) /\ Len(x[rev]) >= 1
        /\ NoneAt(x[rev], path, "add")
    <3> HIDE DEF create
    <3>1. Indexed(rev, C, now, x) /\ EarlierStay(rev, d, x) /\ Len(x[rev]) >= 1
          /\ OnlyNewAt(d[rev], x[rev], path, "delete")
      BY <1>4, <1>5, <1>7
    <3> HIDE DEF x
    <3> QED
      BY <1>3, <3>1 DEF OnlyNewAt
  <2> HIDE DEF x
  <2>3. Indexed(rev, C, now, y) /\ EarlierStay(rev, x, y) /\ Len(y[rev]) >= 1
    BY <1>1, <1>4, <1>7, <2>2, CreateNodeIndexes
  <2> HIDE DEF y
  <2>4. EarlierStay(rev, d, y)
    BY <2>2, <2>3 DEF EarlierStay
  <2> QED
    BY <1>6, <1>11, <2>1, <2>3, <2>4 DEF now
<1>12. CASE c.act = "add"
  <2> DEFINE x == create(d, "add", c.from)
             all == ~ (c.from # NoSource)
  <2>1. e = DumpNode(ts, x, rev, path, c.kind, c.from, all)
    BY <1>12 DEF IndexNode
  <2> HIDE DEF create
  <2>2. Indexed(rev, C, now, x) /\ EarlierStay(rev, d, x) /\ Len(x[rev]) >= 1
    BY <1>4, <1>5, <1>7
  <2>3. all \in BOOLEAN
    OBVIOUS
  <2> HIDE DEF x, all
  <2> QED
    BY <1>6, <1>12, <2>1, <2>2, <2>3 DEF now
<1> QED
  BY <1>4, <1>8, <1>9, <1>10, <1>11, <1>12 DEF Acts

-----------------------------------------------------------------------------
(* The order of the editor's calls.                                        *)

LEMMA SetToSeqType ==
  ASSUME NEW S, IsFiniteSet(S)
  PROVE  /\ Cardinality(S) \in Nat
         /\ SetToSeq(S) \in Seq(S) /\ SetToSeq(S) \in [1..Cardinality(S) -> S]
         /\ Len(SetToSeq(S)) = Cardinality(S)
         /\ \A j, k \in 1..Cardinality(S) : SetToSeq(S)[j] = SetToSeq(S)[k] => j = k
<1> DEFINE N == Cardinality(S)
           F == {f \in [1..N -> S] : IsInjective(f)}
<1>1. N \in Nat /\ ExistsBijection(1..N, S)
  BY FS_CardinalityType
<1>2. \E f \in [1..N -> S] : IsInjective(f)
  BY <1>1 DEF ExistsBijection, Bijection, Injection
<1>3. SetToSeq(S) \in [1..N -> S] /\ IsInjective(SetToSeq(S))
  BY <1>2 DEF SetToSeq
<1> HIDE DEF N
<1>4. SetToSeq(S) \in Seq(S) /\ Len(SetToSeq(S)) = N
  BY <1>1, <1>3
<1>5. \A j, k \in 1..N : SetToSeq(S)[j] = SetToSeq(S)[k] => j = k
  BY <1>3 DEF IsInjective
<1> QED
  BY <1>1, <1>3, <1>4, <1>5 DEF N

LEMMA PathsBounded == \E D \in Nat : \A p \in Paths : Len(p) <= D
<1> DEFINE N == Cardinality(Paths)
<1>1. PICK f \in Bijection(1..N, Paths) : TRUE
  BY PathsAssumption, FS_CardinalityType DEF ExistsBijection
<1>2. N \in Nat /\ f \in [1..N -> Paths] /\ \A p \in Paths : \E n \in 1..N : f[n] = p
  BY <1>1, PathsAssumption, FS_CardinalityType DEF Bijection, Injection, Surjection
<1> HIDE DEF N
<1> DEFINE S == {n \in Nat : n <= N => \E D \in Nat : \A k \in 1..n : Len(f[k]) <= D}
<1>3. 0 \in S
  BY <1>2
<1>4. ASSUME NEW n \in Nat, n \in S PROVE n + 1 \in S
  <2> SUFFICES ASSUME n + 1 <= N PROVE \E D \in Nat : \A k \in 1..(n + 1) : Len(f[k]) <= D
    OBVIOUS
  <2>1. PICK D \in Nat : \A k \in 1..n : Len(f[k]) <= D
    BY <1>2, <1>4
  <2>2. Len(f[n + 1]) \in Nat /\ \A k \in 1..n : Len(f[k]) \in Nat
    BY <1>2, PathType
  <2>3. D + Len(f[n + 1]) \in Nat
        /\ \A k \in 1..(n + 1) : Len(f[k]) <= D + Len(f[n + 1])
    BY <2>1, <2>2
  <2> QED
    BY <2>3
<1> HIDE DEF S
<1>5. N \in S
  BY <1>2, <1>3, <1>4, NatSet
<1>6. PICK D \in Nat : \A k \in 1..N : Len(f[k]) <= D
  BY <1>2, <1>5 DEF S
<1> QED
  BY <1>2, <1>6

GrowsIn(m, seqs, T) == \A n \in 1..m : \A x \in T[n - 1] : x \o seqs[n] \in T[n]

LEMMA FlattenSeqIn ==
  ASSUME NEW V, NEW m \in Nat, NEW seqs \in [1..m -> Seq(V)],
         NEW T \in [0..m -> SUBSET Seq(V)], <<>> \in T[0], GrowsIn(m, seqs, T)
  PROVE  FlattenSeq(seqs) \in T[m]
<1> DEFINE U == Seq(V)
           R == [z \in (1..m) \X U |-> z[2] \o seqs[z[1]]]
           Eq(f) == f = [i \in 1..m |-> IF i = 1 THEN seqs[i] ELSE f[i - 1] \o seqs[i]]
           f == CHOOSE f : Eq(f)
<1>1. seqs \in Seq(U) /\ Len(seqs) = m
  OBVIOUS
<1>2. CASE m = 0
  <2>1. seqs = <<>>
    BY <1>1, <1>2, EmptySeq
  <2> QED
    BY <1>1, <1>2, <2>1 DEF FlattenSeq
<1>3. CASE m # 0
  <2>1. ASSUME NEW n \in 1..m, NEW x \in T[n - 1]
        PROVE  R[<<n, x>>] = x \o seqs[n] /\ R[<<n, x>>] \in T[n]
    <3>1. n - 1 \in 0..m
      OBVIOUS
    <3>2. x \in U
      BY <3>1
    <3> HIDE DEF U
    <3>3. R[<<n, x>>] = x \o seqs[n]
      BY <3>2
    <3> QED
      BY <3>3 DEF GrowsIn
  <2>2. PICK g \in [0..m -> U] : Iterated(m, <<>>, R, g) /\ Within(m, T, g)
    <3> HIDE DEF R, U
    <3> QED
      BY <2>1, Iterates DEF U
  <2>3. ASSUME NEW n \in 1..m PROVE g[n] = g[n - 1] \o seqs[n]
    <3>1. n - 1 \in 0..m
      OBVIOUS
    <3>2. g[n - 1] \in T[n - 1] /\ g[n] = R[<<n, g[n - 1]>>]
      BY <2>2, <3>1 DEF Iterated, Within
    <3> HIDE DEF R
    <3> QED
      BY <2>1, <3>2
  <2>4. g[1] = seqs[1] /\ 1 \in 1..m
    <3>1. 1 \in 1..m /\ g[0] = <<>>
      BY <1>3, <2>2 DEF Iterated
    <3>2. \A n \in 1..m : g[n] = g[n - 1] \o seqs[n]
      BY <2>3
    <3>4. g[1] = g[1 - 1] \o seqs[1]
      BY <3>1, <3>2, Zenon
    <3>5. 1 - 1 = 0
      OBVIOUS
    <3>3. g[1] = <<>> \o seqs[1] /\ seqs[1] \in Seq(V)
      BY <3>1, <3>4, <3>5
    <3> QED
      BY <3>1, <3>3, ConcatEmptySeq
  <2> DEFINE h == [i \in 1..m |-> g[i]]
  <2>5. Eq(h)
    <3>1. \A i \in 1..m : i # 1 => i - 1 \in 1..m
      OBVIOUS
    <3> QED
      BY <2>3, <2>4, <3>1
  <2>6. Eq(f)
    <3> HIDE DEF Eq, h
    <3> QED
      BY <2>5
  <2>7. FlattenSeq(seqs) = f[m]
    BY <1>1, <1>3 DEF FlattenSeq
  <2> HIDE DEF f
  <2>8. f[1] = seqs[1] /\ \A n \in 1..m : n # 1 => f[n] = f[n - 1] \o seqs[n]
    BY <2>4, <2>6
  <2> DEFINE S == {n \in Nat : n + 1 <= m => f[n + 1] = g[n + 1]}
  <2>9. 0 \in S
    BY <2>4, <2>8
  <2>10. ASSUME NEW n \in Nat, n \in S PROVE n + 1 \in S
    <3> SUFFICES ASSUME (n + 1) + 1 <= m PROVE f[(n + 1) + 1] = g[(n + 1) + 1]
      OBVIOUS
    <3>1. (n + 1) + 1 \in 1..m /\ (n + 1) + 1 # 1 /\ ((n + 1) + 1) - 1 = n + 1 /\ n + 1 <= m
      OBVIOUS
    <3>2. f[n + 1] = g[n + 1]
      BY <2>10, <3>1
    <3> HIDE DEF S
    <3> QED
      BY <2>3, <2>8, <3>1, <3>2
  <2> HIDE DEF S
  <2>11. m - 1 \in Nat /\ (m - 1) + 1 = m
    BY <1>3
  <2>12. f[m] = g[m]
    <3>1. m - 1 \in S
      BY <2>9, <2>10, <2>11, NatSet
    <3> QED
      BY <2>11, <3>1 DEF S
  <2> QED
    BY <2>2, <2>7, <2>12 DEF Within
<1> QED
  BY <1>2, <1>3

(* A call of index_node, and its path; the action is the one of the change. *)
PathOf(x) == x[1]
CallOf(changes, p) == <<p, changes[p].act>>
Calls(changes) == {CallOf(changes, p) : p \in DOMAIN changes}

LEMMA CallType ==
  ASSUME NEW changes, NEW x \in Calls(changes)
  PROVE  PathOf(x) \in DOMAIN changes /\ x = <<PathOf(x), changes[PathOf(x)].act>>
BY DEF Calls, CallOf, PathOf

(* No path of the sequence comes after one at or below it.                 *)
Descends(s) == \A j, k \in DOMAIN s : j < k => ~ IsPrefix(PathOf(s[k]), PathOf(s[j]))

(* What is indexed while the editor is in p: p, if it was opened or added, *)
(* and changed paths below it.                                             *)
ReachedFrom(changes, p, x) == IsPrefix(p, x) /\ (x = p => changes[p].act # "delete")

Visits(changes, S, s) ==
  /\ s \in Seq(Calls(changes))
  /\ Descends(s)
  /\ \A k \in DOMAIN s : \E p \in S : ReachedFrom(changes, p, PathOf(s[k]))

DeletesAreLeaves(changes) ==
  \A p \in DOMAIN changes : changes[p].act = "delete" => NoChangeBelow(DOMAIN changes, p)

Apart(s, t) == \A j \in DOMAIN s, k \in DOMAIN t : ~ IsPrefix(PathOf(t[k]), PathOf(s[j]))

FromEither(u, s, t) ==
  \A i \in DOMAIN u : \/ \E j \in DOMAIN s : u[i] = s[j]
                      \/ \E k \in DOMAIN t : u[i] = t[k]

LEMMA ConcatDescends ==
  ASSUME NEW C, NEW s \in Seq(C), NEW t \in Seq(C), Descends(s), Descends(t), Apart(s, t),
         NEW u, u = s \o t
  PROVE  u \in Seq(C) /\ Descends(u) /\ FromEither(u, s, t)
<1>1. /\ Len(s) \in Nat /\ DOMAIN s = 1..Len(s) /\ Len(t) \in Nat /\ DOMAIN t = 1..Len(t)
      /\ u \in Seq(C) /\ Len(u) = Len(s) + Len(t) /\ DOMAIN u = 1..Len(u)
      /\ \A i \in 1..(Len(s) + Len(t)) : u[i] = IF i <= Len(s) THEN s[i] ELSE t[i - Len(s)]
  BY ConcatProperties, LenProperties
<1>2. ASSUME NEW i \in DOMAIN u
      PROVE  \/ i \in DOMAIN s /\ u[i] = s[i]
             \/ i > Len(s) /\ i - Len(s) \in DOMAIN t /\ u[i] = t[i - Len(s)]
  BY <1>1
<1>3. ASSUME NEW j \in DOMAIN u, NEW k \in DOMAIN u, j < k
      PROVE  ~ IsPrefix(PathOf(u[k]), PathOf(u[j]))
  <2>1. CASE k \in DOMAIN s /\ u[k] = s[k]
    <3>1. j \in DOMAIN s /\ u[j] = s[j]
      BY <1>1, <1>3, <2>1
    <3> QED
      BY <1>3, <2>1, <3>1 DEF Descends
  <2>2. CASE k > Len(s) /\ k - Len(s) \in DOMAIN t /\ u[k] = t[k - Len(s)]
    <3>1. CASE j \in DOMAIN s /\ u[j] = s[j]
      BY <2>2, <3>1 DEF Apart
    <3>2. CASE j > Len(s) /\ j - Len(s) \in DOMAIN t /\ u[j] = t[j - Len(s)]
      <4>1. j - Len(s) < k - Len(s)
        BY <1>1, <1>3
      <4> QED
        BY <2>2, <3>2, <4>1 DEF Descends
    <3> QED
      BY <1>2, <3>1, <3>2
  <2> QED
    BY <1>2, <2>1, <2>2
<1>4. FromEither(u, s, t)
  BY <1>2 DEF FromEither
<1>5. Descends(u)
  BY <1>3 DEF Descends
<1> QED
  BY <1>1, <1>4, <1>5

Around(changes, f, p) ==
  OpenOrAdd(changes, p)
    \o FlattenSeq([k \in 1..Cardinality(ChildPaths(p)) |-> f[SetToSeq(ChildPaths(p))[k]]])
    \o CloseDirectory(changes, p)

LEMMA ChildType ==
  ASSUME NEW p \in Paths
  PROVE  /\ ChildPaths(p) \in SUBSET Paths /\ IsFiniteSet(ChildPaths(p))
         /\ \A q \in ChildPaths(p) : IsPrefix(p, q) /\ p # q /\ Len(q) = Len(p) + 1
<1>1. ChildPaths(p) \in SUBSET Paths
  BY DEF ChildPaths
<1>2. IsFiniteSet(ChildPaths(p))
  BY <1>1, FS_Subset, PathsAssumption
<1>3. ASSUME NEW q \in ChildPaths(p) PROVE IsPrefix(p, q) /\ p # q /\ Len(q) = Len(p) + 1
  <2>1. q \in Paths /\ q # <<>> /\ Front(q) = p
    BY DEF ChildPaths
  <2>2. Len(q) \in Nat
    BY <2>1, PathType
  <2> QED
    BY <2>1, <2>2, FrontIsAbove
<1> QED
  BY <1>1, <1>2, <1>3

(* A path that is opened or added is reported once, with its own action;   *)
(* that an addition of a deleted entry is a replacement needs the entry to *)
(* be one of its parent's.                                                 *)
ActsFit(changes) ==
  \A p \in DOMAIN changes :
    /\ changes[p].act \in {"add", "change", "delete", "replace"}
    /\ changes[p].act # "change" => p # <<>>

LEMMA OpenOrAddCalls ==
  ASSUME NEW changes, DOMAIN changes \in SUBSET Paths, ActsFit(changes), NEW p \in Paths
  PROVE  LET s == OpenOrAdd(changes, p)
         IN  /\ s \in Seq(Calls(changes)) /\ Descends(s)
             /\ \A k \in DOMAIN s : PathOf(s[k]) = p /\ changes[p].act # "delete"
<1> DEFINE s == OpenOrAdd(changes, p)
           x == CallOf(changes, p)
<1>1. CASE p \notin DOMAIN changes \/ changes[p].act = "delete"
  <2>1. s = <<>>
    BY <1>1 DEF OpenOrAdd
  <2> QED
    BY <2>1, EmptySeq DEF Descends
<1>2. CASE p \in DOMAIN changes /\ changes[p].act # "delete"
  <2>1. s = <<x>>
    <3>1. CASE changes[p].act = "change"
      BY <1>2, <3>1 DEF OpenOrAdd, CallOf
    <3>2. CASE changes[p].act # "change"
      <4>1. p # <<>> /\ changes[p].act \in {"add", "replace"}
        BY <1>2, <3>2 DEF ActsFit
      <4>2. p \in ChildPaths(Front(p))
        BY <4>1 DEF ChildPaths
      <4>3. p \in DeletedEntries(changes, Front(p)) <=> changes[p].act = "replace"
        BY <1>2, <4>1, <4>2 DEF DeletedEntries, Entries
      <4> QED
        BY <1>2, <3>2, <4>1, <4>3 DEF OpenOrAdd, CallOf
    <3> QED
      BY <3>1, <3>2
  <2>2. x \in Calls(changes) /\ PathOf(x) = p
    BY <1>2 DEF Calls, CallOf, PathOf
  <2> HIDE DEF s, x
  <2>3. s \in Seq(Calls(changes)) /\ DOMAIN s = {1} /\ s[1] = x
    BY <2>1, <2>2
  <2> QED
    BY <1>2, <2>2, <2>3 DEF Descends, s
<1> QED
  BY <1>1, <1>2

(* Paths of one length: none is at or above another.                       *)
LEMMA CloseDirectoryCalls ==
  ASSUME NEW changes, DOMAIN changes \in SUBSET Paths, ActsFit(changes), NEW p \in Paths
  PROVE  LET s == CloseDirectory(changes, p)
         IN  /\ s \in Seq(Calls(changes)) /\ Descends(s)
             /\ \A k \in DOMAIN s : /\ PathOf(s[k]) \in ChildPaths(p) \intersect DOMAIN changes
                                    /\ changes[PathOf(s[k])].act = "delete"
<1> DEFINE V == Unclaimed(changes, p)
           N == Cardinality(V)
           t == SetToSeq(V)
           s == CloseDirectory(changes, p)
<1>1. \A q \in V : q \in ChildPaths(p) \intersect DOMAIN changes /\ changes[q].act = "delete"
  BY DEF Unclaimed, DeletedEntries, AddedEntries, Entries
<1>2. ChildPaths(p) \in SUBSET Paths /\ IsFiniteSet(ChildPaths(p))
      /\ \A q \in ChildPaths(p) : Len(q) = Len(p) + 1
  BY ChildType
<1>3. IsFiniteSet(V)
  <2>1. V \in SUBSET ChildPaths(p)
    BY <1>1
  <2> QED
    BY <1>2, <2>1, FS_Subset
<1>4. s = [k \in DOMAIN t |-> <<t[k], "delete">>]
  BY DEF CloseDirectory
<1> HIDE DEF s, V
<1>5. /\ t \in [1..N -> V] /\ N \in Nat
      /\ \A j, k \in 1..N : t[j] = t[k] => j = k
  BY <1>3, SetToSeqType
<1> HIDE DEF t, N
<1>6. DOMAIN s = 1..N /\ \A k \in 1..N : s[k] = <<t[k], "delete">> /\ PathOf(s[k]) = t[k] /\ t[k] \in V
  BY <1>4, <1>5 DEF PathOf
<1>7. \A k \in 1..N : s[k] \in Calls(changes)
  BY <1>1, <1>6 DEF Calls, CallOf
<1>8. s \in Seq(Calls(changes))
  <2>1. s = [k \in 1..N |-> s[k]]
    BY <1>4, <1>5
  <2>2. s \in [1..N -> Calls(changes)]
    BY <1>7, <2>1
  <2> QED
    BY <1>5, <2>2
<1>9. ASSUME NEW j \in DOMAIN s, NEW k \in DOMAIN s, j < k, IsPrefix(PathOf(s[k]), PathOf(s[j])) PROVE FALSE
  <2>1. j \in 1..N /\ k \in 1..N /\ IsPrefix(t[k], t[j])
    BY <1>6, <1>9
  <2>2. t[j] \in Paths /\ t[k] \in Paths /\ Len(t[j]) = Len(t[k])
    BY <1>1, <1>2, <1>6, <2>1
  <2>3. IsPrefix(t[j], t[j])
    BY <2>2, PrefixReflexive
  <2>4. t[j] = t[k]
    BY <2>1, <2>2, <2>3, PrefixUnique
  <2> QED
    BY <1>5, <1>9, <2>1, <2>4
<1>10. Descends(s)
  BY <1>9 DEF Descends
<1> QED
  BY <1>1, <1>6, <1>8, <1>10 DEF s

LEMMA AroundType ==
  ASSUME NEW changes, DOMAIN changes \in SUBSET Paths, ActsFit(changes),
         NEW f \in [Paths -> Seq(Calls(changes))], NEW p \in Paths
  PROVE  Around(changes, f, p) \in Seq(Calls(changes))
<1> DEFINE C == Calls(changes)
           M == Cardinality(ChildPaths(p))
           seqs == [k \in 1..M |-> f[SetToSeq(ChildPaths(p))[k]]]
           T == [k \in 0..M |-> Seq(C)]
<1>1. ChildPaths(p) \in SUBSET Paths /\ IsFiniteSet(ChildPaths(p))
      /\ \A q \in ChildPaths(p) : Len(q) = Len(p) + 1
  BY ChildType
<1>2. M \in Nat /\ \A k \in 1..M : SetToSeq(ChildPaths(p))[k] \in Paths
  BY <1>1, SetToSeqType
<1>3. seqs \in [1..M -> Seq(C)]
  BY <1>2
<1> HIDE DEF M, seqs
<1>4. T \in [0..M -> SUBSET Seq(C)] /\ <<>> \in T[0]
  BY <1>2, EmptySeq
<1>5. GrowsIn(M, seqs, T)
  <2> SUFFICES ASSUME NEW n \in 1..M, NEW x \in T[n - 1] PROVE x \o seqs[n] \in T[n]
    BY DEF GrowsIn
  <2>1. n - 1 \in 0..M /\ n \in 0..M
    BY <1>2
  <2>2. x \in Seq(C) /\ T[n] = Seq(C)
    BY <2>1
  <2>3. seqs[n] \in Seq(C)
    BY <1>3
  <2> HIDE DEF T, C
  <2> QED
    BY <2>2, <2>3, ConcatProperties
<1>6. FlattenSeq(seqs) \in Seq(C)
  <2>1. FlattenSeq(seqs) \in T[M]
    <3> HIDE DEF T
    <3> QED
      BY <1>2, <1>3, <1>4, <1>5, FlattenSeqIn
  <2> QED
    BY <1>2, <2>1
<1>7. OpenOrAdd(changes, p) \in Seq(C) /\ CloseDirectory(changes, p) \in Seq(C)
  BY OpenOrAddCalls, CloseDirectoryCalls
<1>8. Around(changes, f, p) = OpenOrAdd(changes, p) \o FlattenSeq(seqs)
                                \o CloseDirectory(changes, p)
  BY DEF Around, M, seqs
<1>9. OpenOrAdd(changes, p) \o FlattenSeq(seqs) \in Seq(C)
  <2> HIDE DEF C
  <2> QED
    BY <1>6, <1>7, ConcatProperties
<1>10. Around(changes, f, p) \in Seq(C)
  <2> HIDE DEF C
  <2> QED
    BY <1>7, <1>8, <1>9, ConcatProperties
<1> QED
  BY <1>10

LEMMA NotBelowItself ==
  ASSUME NEW p \in Paths, NEW q \in Paths, Len(q) = Len(p) + 1
  PROVE  ~ IsPrefix(q, p)
<1>1. Len(p) \in Nat /\ Len(q) \in Nat
  BY PathType
<1> QED
  BY <1>1, PrefixIs

LEMMA ChildrenVisited ==
  ASSUME NEW changes, DOMAIN changes \in SUBSET Paths,
         NEW f \in [Paths -> Seq(Calls(changes))], NEW p \in Paths,
         \A q \in ChildPaths(p) : Visits(changes, {q}, f[q]),
         NEW B, B = FlattenSeq([k \in 1..Cardinality(ChildPaths(p)) |->
                                  f[SetToSeq(ChildPaths(p))[k]]])
  PROVE  Visits(changes, ChildPaths(p), B)
<1> DEFINE C == Calls(changes)
           M == Cardinality(ChildPaths(p))
           ch == SetToSeq(ChildPaths(p))
           seqs == [k \in 1..M |-> f[ch[k]]]
           first(n) == {ch[k] : k \in 1..n}
           T == [n \in 0..M |-> {s \in Seq(C) : Visits(changes, first(n), s)}]
<1>1. ChildPaths(p) \in SUBSET Paths /\ IsFiniteSet(ChildPaths(p))
      /\ \A q \in ChildPaths(p) : Len(q) = Len(p) + 1
  BY ChildType
<1>2. /\ M \in Nat /\ \A k \in 1..M : ch[k] \in ChildPaths(p)
      /\ \A j, k \in 1..M : ch[j] = ch[k] => j = k
  BY <1>1, SetToSeqType
<1> HIDE DEF M, ch
<1>3. seqs \in [1..M -> Seq(C)] /\ \A n \in 1..M : seqs[n] = f[ch[n]]
  BY <1>1, <1>2
<1> HIDE DEF seqs
<1>4. T \in [0..M -> SUBSET Seq(C)]
  OBVIOUS
<1>5. <<>> \in T[0]
  <2>1. <<>> \in Seq(C) /\ DOMAIN <<>> = {}
    BY EmptySeq
  <2>2. Visits(changes, first(0), <<>>)
    BY <2>1 DEF Visits, Descends
  <2> QED
    BY <1>2, <2>1, <2>2
<1>6. ASSUME NEW n \in 1..M, NEW x \in T[n - 1] PROVE x \o seqs[n] \in T[n]
  <2> DEFINE y == seqs[n]
  <2>1. n - 1 \in 0..M /\ n \in 0..M /\ n \in 1..n
    BY <1>2
  <2>2. x \in Seq(C) /\ Visits(changes, first(n - 1), x)
    BY <2>1
  <2>3. y \in Seq(C) /\ Visits(changes, {ch[n]}, y)
    BY <1>2, <1>3
  <2> HIDE DEF y, T
  <2>4. ASSUME NEW j \in DOMAIN x, NEW k \in DOMAIN y, IsPrefix(PathOf(y[k]), PathOf(x[j])) PROVE FALSE
    <3>1. PICK i \in 1..(n - 1) : ReachedFrom(changes, ch[i], PathOf(x[j]))
      BY <2>2 DEF Visits
    <3>2. ReachedFrom(changes, ch[n], PathOf(y[k]))
      BY <2>3 DEF Visits
    <3>3. i \in 1..M /\ i # n
      BY <1>2
    <3>4. /\ ch[i] \in Paths /\ ch[n] \in Paths /\ PathOf(x[j]) \in Paths /\ PathOf(y[k]) \in Paths
          /\ Len(ch[i]) = Len(ch[n])
      <4>1. x[j] \in C /\ y[k] \in C
        BY <2>2, <2>3, LenProperties, ElementOfSeq
      <4>2. PathOf(x[j]) \in DOMAIN changes /\ PathOf(y[k]) \in DOMAIN changes
        BY <4>1, CallType
      <4> QED
        BY <1>1, <1>2, <3>3, <4>2
    <3>5. IsPrefix(ch[n], PathOf(x[j])) /\ IsPrefix(ch[i], PathOf(x[j]))
      BY <2>4, <3>1, <3>2, <3>4, PrefixTransitive DEF ReachedFrom
    <3>6. ch[i] = ch[n]
      BY <3>4, <3>5, PrefixUnique
    <3> QED
      BY <1>2, <3>3, <3>6
  <2>5. Apart(x, y)
    BY <2>4 DEF Apart
  <2> DEFINE z == x \o y
  <2>6. z \in Seq(C) /\ Descends(z) /\ FromEither(z, x, y)
    <3>1. Descends(x) /\ Descends(y)
      BY <2>2, <2>3 DEF Visits
    <3>2. x \in Seq(C) /\ y \in Seq(C) /\ z = x \o y
      BY <2>2, <2>3
    <3> HIDE DEF C, first, z
    <3> QED
      BY <2>5, <3>1, <3>2, ConcatDescends
  <2> HIDE DEF z
  <2>7. ASSUME NEW i \in DOMAIN z
        PROVE  \E q \in first(n) : ReachedFrom(changes, q, PathOf(z[i]))
    <3>1. CASE \E j \in DOMAIN x : z[i] = x[j]
      <4>1. PICK k \in 1..(n - 1) : ReachedFrom(changes, ch[k], PathOf(z[i]))
        BY <2>2, <3>1 DEF Visits
      <4>2. k \in 1..n
        OBVIOUS
      <4> QED
        BY <4>1, <4>2
    <3>2. CASE \E k \in DOMAIN y : z[i] = y[k]
      <4>1. ReachedFrom(changes, ch[n], PathOf(z[i]))
        BY <2>3, <3>2 DEF Visits
      <4> QED
        BY <2>1, <4>1
    <3> QED
      BY <2>6, <3>1, <3>2 DEF FromEither
  <2>8. Visits(changes, first(n), z)
    BY <2>6, <2>7 DEF Visits
  <2> QED
    BY <2>1, <2>6, <2>8 DEF T, y, z
<1>7. B = FlattenSeq(seqs)
  BY DEF seqs, M, ch
<1>8. B \in T[M]
  <2>1. GrowsIn(M, seqs, T)
    BY <1>6 DEF GrowsIn
  <2>2. M \in Nat /\ seqs \in [1..M -> Seq(C)]
    BY <1>2, <1>3
  <2> HIDE DEF T, C, first
  <2>3. FlattenSeq(seqs) \in T[M]
    BY ONLY <1>4, <1>5, <2>1, <2>2, FlattenSeqIn
  <2> QED
    BY <1>7, <2>3
<1>9. Visits(changes, first(M), B)
  BY <1>2, <1>8
<1>10. first(M) \subseteq ChildPaths(p)
  BY <1>2
<1> HIDE DEF first
<1> QED
  BY <1>9, <1>10 DEF Visits

LEMMA AroundVisits ==
  ASSUME NEW changes, DOMAIN changes \in SUBSET Paths, ActsFit(changes), DeletesAreLeaves(changes),
         NEW f \in [Paths -> Seq(Calls(changes))], NEW p \in Paths,
         \A q \in ChildPaths(p) : Visits(changes, {q}, f[q])
  PROVE  Visits(changes, {p}, Around(changes, f, p))
<1> DEFINE C == Calls(changes)
           A == OpenOrAdd(changes, p)
           B == FlattenSeq([k \in 1..Cardinality(ChildPaths(p)) |->
                              f[SetToSeq(ChildPaths(p))[k]]])
           Z == CloseDirectory(changes, p)
           AB == A \o B
<1>1. ChildPaths(p) \in SUBSET Paths /\ IsFiniteSet(ChildPaths(p))
      /\ \A q \in ChildPaths(p) : /\ IsPrefix(p, q) /\ p # q /\ Len(q) = Len(p) + 1
                                  /\ ~ IsPrefix(q, p)
  BY ChildType, NotBelowItself
<1>2. /\ A \in Seq(C) /\ Descends(A)
      /\ \A k \in DOMAIN A : PathOf(A[k]) = p /\ changes[p].act # "delete"
  BY OpenOrAddCalls
<1>3. Visits(changes, ChildPaths(p), B)
  BY ChildrenVisited
<1>4. B \in Seq(C) /\ Descends(B)
      /\ \A k \in DOMAIN B : B[k] \in C /\ PathOf(B[k]) \in DOMAIN changes /\ \E q \in ChildPaths(p) : ReachedFrom(changes, q, PathOf(B[k]))
  <2> HIDE DEF B, C
  <2> QED
    BY <1>3, LenProperties, ElementOfSeq, CallType DEF Visits, C
<1>5. /\ Z \in Seq(C) /\ Descends(Z)
      /\ \A k \in DOMAIN Z : /\ PathOf(Z[k]) \in ChildPaths(p)
                             /\ PathOf(Z[k]) \in DOMAIN changes
                             /\ changes[PathOf(Z[k])].act = "delete"
  BY CloseDirectoryCalls
<1> HIDE DEF A, B, Z
<1>6. ASSUME NEW k \in DOMAIN B
      PROVE  /\ PathOf(B[k]) \in Paths /\ IsPrefix(p, PathOf(B[k]))
             /\ ~ IsPrefix(PathOf(B[k]), p) /\ PathOf(B[k]) # p
  <2>1. PICK q \in ChildPaths(p) : ReachedFrom(changes, q, PathOf(B[k]))
    BY <1>4
  <2>2. q \in Paths /\ PathOf(B[k]) \in Paths /\ IsPrefix(q, PathOf(B[k]))
    BY <1>1, <1>4, <2>1 DEF ReachedFrom
  <2>3. IsPrefix(p, PathOf(B[k])) /\ ~ IsPrefix(PathOf(B[k]), p)
    BY <1>1, <2>2, PrefixTransitive
  <2> QED
    BY <2>2, <2>3, PrefixReflexive
<1>7. Apart(A, B)
  BY <1>2, <1>6 DEF Apart
<1>8. /\ AB \in Seq(C) /\ Descends(AB)
      /\ FromEither(AB, A, B)
  <2> HIDE DEF C
  <2> QED
    BY <1>2, <1>4, <1>7, ConcatDescends
<1> HIDE DEF AB
<1>9. ASSUME NEW i \in DOMAIN AB, NEW k \in DOMAIN Z, IsPrefix(PathOf(Z[k]), PathOf(AB[i])) PROVE FALSE
  <2>1. PathOf(Z[k]) \in Paths /\ ~ IsPrefix(PathOf(Z[k]), p) /\ Len(PathOf(Z[k])) = Len(p) + 1
    BY <1>1, <1>5
  <2>2. PICK j \in DOMAIN B : AB[i] = B[j]
    BY <1>2, <1>8, <1>9, <2>1 DEF FromEither
  <2>3. PICK q \in ChildPaths(p) : ReachedFrom(changes, q, PathOf(B[j]))
    BY <1>4
  <2>4. /\ q \in Paths /\ PathOf(B[j]) \in Paths /\ PathOf(B[j]) \in DOMAIN changes
        /\ IsPrefix(q, PathOf(B[j])) /\ Len(q) = Len(p) + 1
    BY <1>1, <1>6, <1>4, <2>3 DEF ReachedFrom
  <2>5. q = PathOf(Z[k])
    BY <1>9, <2>1, <2>2, <2>4, PrefixUnique
  <2>6. q \in DOMAIN changes /\ changes[q].act = "delete"
    BY <1>5, <2>5
  <2>7. q # PathOf(B[j])
    BY <2>3, <2>6 DEF ReachedFrom
  <2> QED
    BY <2>4, <2>6, <2>7 DEF DeletesAreLeaves, NoChangeBelow
<1>10. Apart(AB, Z)
  BY <1>9 DEF Apart
<1> DEFINE s == AB \o Z
<1>11. /\ s \in Seq(C) /\ Descends(s)
       /\ FromEither(s, AB, Z)
  <2> HIDE DEF C
  <2> QED
    BY <1>5, <1>8, <1>10, ConcatDescends
<1>12. s = Around(changes, f, p)
  BY DEF Around, AB, A, B, Z
<1> HIDE DEF s
<1>13. ASSUME NEW i \in DOMAIN s PROVE ReachedFrom(changes, p, PathOf(s[i]))
  <2>1. CASE \E j \in DOMAIN A : s[i] = A[j]
    BY <1>2, <2>1, PrefixReflexive DEF ReachedFrom
  <2>2. CASE \E k \in DOMAIN B : s[i] = B[k]
    BY <1>6, <2>2 DEF ReachedFrom
  <2>3. CASE \E k \in DOMAIN Z : s[i] = Z[k]
    BY <1>1, <1>5, <2>3 DEF ReachedFrom
  <2> QED
    BY <1>8, <1>11, <2>1, <2>2, <2>3 DEF FromEither
<1> QED
  BY <1>11, <1>12, <1>13 DEF Visits

LEMMA AroundSame ==
  ASSUME NEW changes, NEW p \in Paths, NEW g, NEW h, \A q \in ChildPaths(p) : g[q] = h[q]
  PROVE  Around(changes, g, p) = Around(changes, h, p)
<1> DEFINE M == Cardinality(ChildPaths(p))
           ch == SetToSeq(ChildPaths(p))
<1>1. \A k \in 1..M : ch[k] \in ChildPaths(p)
  BY ChildType, SetToSeqType
<1> HIDE DEF M, ch
<1>2. [k \in 1..M |-> g[ch[k]]] = [k \in 1..M |-> h[ch[k]]]
  BY <1>1
<1> QED
  BY <1>2 DEF Around, M, ch

LEMMA DriveOrderDescends ==
  ASSUME NEW changes, DOMAIN changes \in SUBSET Paths, ActsFit(changes), DeletesAreLeaves(changes)
  PROVE  DriveOrder(changes) \in Seq(Calls(changes)) /\ Descends(DriveOrder(changes))
<1> DEFINE U == [Paths -> Seq(Calls(changes))]
           Eq(f) == f = [p \in Paths |-> Around(changes, f, p)]
           f == CHOOSE f : Eq(f)
<1>1. PICK D \in Nat : \A p \in Paths : Len(p) <= D
  BY PathsBounded
<1>2. \A p \in Paths : Len(p) \in Nat
  BY PathType
<1> DEFINE Deep(n) == {p \in Paths : Len(p) + n > D}
<1>3. Deep(0) = {} /\ Deep(D + 1) = Paths
  BY <1>1, <1>2
<1>4. ASSUME NEW n \in Nat, NEW p \in Deep(n + 1)
      PROVE  p \in Paths /\ ChildPaths(p) \subseteq Deep(n) /\ ChildPaths(p) \subseteq Paths
  <2>1. \A q \in ChildPaths(p) : q \in Paths /\ Len(q) = Len(p) + 1
    BY ChildType
  <2>2. \A q \in ChildPaths(p) : Len(q) + n > D
    BY <1>2, <2>1
  <2> QED
    BY <2>1, <2>2
<1> HIDE DEF Deep
<1> DEFINE Solves(g, n) == \A p \in Deep(n) : g[p] = Around(changes, g, p)
           S == {n \in Nat : \E g \in U : Solves(g, n)}
<1>5. 0 \in S
  <2>1. [p \in Paths |-> <<>>] \in U
    BY EmptySeq
  <2> HIDE DEF U
  <2> QED
    BY <1>3, <2>1
<1>6. ASSUME NEW n \in Nat, n \in S PROVE n + 1 \in S
  <2>1. PICK g \in U : Solves(g, n)
    BY <1>6
  <2> DEFINE h == [p \in Paths |-> Around(changes, g, p)]
  <2>2. h \in U
    BY AroundType
  <2>3. ASSUME NEW p \in Deep(n + 1) PROVE h[p] = Around(changes, h, p)
    <3>1. p \in Paths /\ ChildPaths(p) \subseteq Deep(n) /\ ChildPaths(p) \subseteq Paths
      BY <1>4
    <3>2. \A q \in ChildPaths(p) : g[q] = h[q]
      BY <2>1, <3>1
    <3>3. h[p] = Around(changes, g, p)
      BY <3>1
    <3> HIDE DEF h
    <3> QED
      BY <3>1, <3>2, <3>3, AroundSame
  <2> HIDE DEF h, U
  <2> QED
    BY <2>2, <2>3
<1>7. D + 1 \in S
  <2> HIDE DEF S
  <2> QED
    BY <1>5, <1>6, NatSet
<1>8. PICK g \in U : \A p \in Paths : g[p] = Around(changes, g, p)
  BY <1>3, <1>7
<1>9. Eq(f)
  <2>1. g = [p \in Paths |-> g[p]]
    OBVIOUS
  <2>2. Eq(g)
    BY <1>8, <2>1
  <2> HIDE DEF Eq
  <2> QED
    BY <2>2
<1>10. DriveOrder(changes) = f[<<>>]
  BY DEF DriveOrder, Around
<1> HIDE DEF f, S, Solves
<1>11. \A p \in Paths : f[p] = Around(changes, f, p)
  BY <1>9
<1> DEFINE Same == {n \in Nat : \A p \in Deep(n) : f[p] = g[p]}
<1>12. 0 \in Same
  BY <1>3
<1>13. ASSUME NEW n \in Nat, n \in Same PROVE n + 1 \in Same
  <2>1. ASSUME NEW p \in Deep(n + 1) PROVE f[p] = g[p]
    <3>1. p \in Paths /\ ChildPaths(p) \subseteq Deep(n)
      BY <1>4
    <3>2. \A q \in ChildPaths(p) : f[q] = g[q]
      BY <1>13, <3>1
    <3>3. Around(changes, f, p) = Around(changes, g, p)
      BY <3>1, <3>2, AroundSame
    <3> QED
      BY <1>8, <1>11, <3>1, <3>3
  <2>2. \A p \in Deep(n + 1) : f[p] = g[p]
    BY <2>1
  <2> QED
    BY <2>2
<1>14. \A p \in Paths : f[p] = g[p]
  <2>1. D + 1 \in Same
    <3> HIDE DEF Same
    <3> QED
      BY <1>12, <1>13, NatSet
  <2> QED
    BY <1>3, <2>1
<1> DEFINE Seen == {n \in Nat : \A p \in Deep(n) : Visits(changes, {p}, g[p])}
<1>15. 0 \in Seen
  BY <1>3
<1>16. ASSUME NEW n \in Nat, n \in Seen PROVE n + 1 \in Seen
  <2>1. ASSUME NEW p \in Deep(n + 1) PROVE Visits(changes, {p}, g[p])
    <3>1. p \in Paths /\ ChildPaths(p) \subseteq Deep(n)
      BY <1>4
    <3>2. \A q \in ChildPaths(p) : Visits(changes, {q}, g[q])
      BY <1>16, <3>1
    <3>3. Visits(changes, {p}, Around(changes, g, p))
      BY <3>1, <3>2, AroundVisits
    <3> QED
      BY <1>8, <3>1, <3>3
  <2>2. \A p \in Deep(n + 1) : Visits(changes, {p}, g[p])
    BY <2>1
  <2> HIDE DEF U, Eq, Same
  <2> QED
    BY <2>2
<1>17. \A p \in Paths : Visits(changes, {p}, g[p])
  <2>1. D + 1 \in Seen
    <3> HIDE DEF Seen
    <3> QED
      BY <1>15, <1>16, NatSet
  <2> QED
    BY <1>3, <2>1
<1>18. Visits(changes, {<<>>}, DriveOrder(changes))
  <2>1. <<>> \in Paths
    BY PathsAssumption
  <2>2. DriveOrder(changes) = g[<<>>]
    BY <1>10, <1>14, <2>1
  <2> QED
    BY <1>17, <2>1, <2>2
<1> QED
  BY <1>18 DEF Visits

-----------------------------------------------------------------------------
(* The records of a revision.                                              *)

ChangesOK(ts, rev, changes) ==
  /\ DOMAIN changes \in SUBSET Paths
  /\ DeletesAreLeaves(changes)
  /\ ActsFit(changes)
  /\ \A p \in DOMAIN changes : ChangeOK(ts, rev, DOMAIN changes, p, changes[p])

LEMMA IndexNodesIndexes ==
  ASSUME NEW rev \in Nat, NEW ts, NEW changes, ChangesOK(ts, rev, changes),
         NEW d, Indexed(rev, DOMAIN changes, {}, d),
         NEW e, e = IndexNodes(ts, d, rev, changes)
  PROVE  Indexed(rev, DOMAIN changes, DOMAIN changes, e) /\ EarlierStay(rev, d, e)
<1> DEFINE C == DOMAIN changes
           order == DriveOrder(changes)
           cmp == CompareWith(changes)
           N == Len(order)
           U == Databases(rev)
           done(n) == {PathOf(order[i]) : i \in 1..n}
           V(n) == {x \in U : Indexed(rev, C, done(n), x) /\ EarlierStay(rev, d, x)}
           T == [n \in 0..N |-> V(n)]
           Step(n, x) == IndexNode(ts, x, rev, order[n][1], order[n][2],
                                   changes[order[n][1]], cmp[order[n][1]])
           R == [z \in (1..N) \X U |-> Step(z[1], z[2])]
           Eq(f) == f = [n \in 0..N |-> IF n = 0 THEN d ELSE Step(n, f[n - 1])]
           f == CHOOSE f : Eq(f)
<1>1. /\ N \in Nat /\ DOMAIN order = 1..N
      /\ \A n \in 1..N : /\ PathOf(order[n]) \in C /\ order[n][1] = PathOf(order[n])
                        /\ order[n][2] = changes[PathOf(order[n])].act
      /\ \A j, k \in 1..N : j < k => ~ IsPrefix(PathOf(order[k]), PathOf(order[j]))
  <2>1. order \in Seq(Calls(changes)) /\ Descends(order)
    BY DriveOrderDescends DEF ChangesOK
  <2> HIDE DEF order
  <2>2. N \in Nat /\ DOMAIN order = 1..N /\ \A n \in 1..N : order[n] \in Calls(changes)
    BY <2>1, LenProperties, ElementOfSeq
  <2> HIDE DEF N
  <2>3. ASSUME NEW n \in 1..N
        PROVE  /\ PathOf(order[n]) \in C /\ order[n][1] = PathOf(order[n])
               /\ order[n][2] = changes[PathOf(order[n])].act
    BY <2>2, CallType DEF PathOf
  <2> HIDE DEF C
  <2> QED
    BY <2>1, <2>2, <2>3 DEF Descends
<1>2. e = f[N]
  BY DEF IndexNodes
<1> HIDE DEF order, cmp, N
<1>3. ASSUME NEW n \in 1..N, NEW x \in V(n - 1) PROVE Step(n, x) \in V(n)
  <2> DEFINE y == Step(n, x)
             p == PathOf(order[n])
  <2>1. Indexed(rev, C, done(n - 1), x) /\ EarlierStay(rev, d, x)
    OBVIOUS
  <2>2. \A q \in done(n - 1) : ~ IsPrefix(p, q)
    <3>1. \A i \in 1..(n - 1) : i \in 1..N /\ i < n
      BY <1>1
    <3> QED
      BY <1>1, <3>1
  <2>3. p \in C /\ ChangeOK(ts, rev, C, p, changes[p])
    BY <1>1 DEF ChangesOK
  <2>4. done(n) = done(n - 1) \union {p}
    <3>1. \A i \in 1..n : i = n \/ i \in 1..(n - 1)
      BY <1>1
    <3>2. n \in 1..n /\ \A i \in 1..(n - 1) : i \in 1..n
      BY <1>1
    <3> QED
      BY <3>1, <3>2
  <2>5. y = IndexNode(ts, x, rev, p, changes[p].act, changes[p], cmp[p])
    BY <1>1
  <2> HIDE DEF y, p, done, C
  <2>6. Indexed(rev, C, done(n - 1) \union {p}, y) /\ EarlierStay(rev, x, y)
    BY <2>1, <2>2, <2>3, <2>5, IndexNodeIndexes
  <2>7. EarlierStay(rev, d, y)
    BY <2>1, <2>6 DEF EarlierStay
  <2>8. Indexed(rev, C, done(n), y)
    BY <2>4, <2>6
  <2>9. y \in U
    BY <2>8 DEF Indexed
  <2> HIDE DEF Step, U
  <2>10. y \in V(n)
    BY <2>7, <2>8, <2>9
  <2> QED
    BY <2>10 DEF y
<1>4. d \in V(0)
  <2>1. done(0) = {}
    OBVIOUS
  <2>2. d \in U /\ Indexed(rev, C, done(0), d) /\ EarlierStay(rev, d, d)
    BY <2>1 DEF Indexed, EarlierStay
  <2> QED
    BY <2>2
<1> HIDE DEF Step, done
<1>5. \A n \in 0..N : V(n) \in SUBSET U
  OBVIOUS
<1> HIDE DEF V
<1>6. T \in [0..N -> SUBSET U] /\ d \in T[0] /\ \A n \in 0..N : T[n] = V(n)
  BY <1>1, <1>4, <1>5
<1>7. ASSUME NEW n \in 1..N, NEW x \in T[n - 1]
      PROVE  R[<<n, x>>] = Step(n, x) /\ R[<<n, x>>] \in T[n] /\ Step(n, x) \in T[n]
  <2>1. n - 1 \in 0..N /\ n \in 0..N
    BY <1>1
  <2>2. x \in V(n - 1) /\ x \in U
    BY <1>5, <1>6, <2>1
  <2>3. R[<<n, x>>] = Step(n, x)
    BY <2>2
  <2> HIDE DEF R, T
  <2> QED
    BY <1>3, <1>6, <2>1, <2>2, <2>3
<1>8. PICK g \in [0..N -> U] : Iterated(N, d, R, g) /\ Within(N, T, g)
  <2> HIDE DEF R, T, U
  <2> QED
    BY <1>1, <1>6, <1>7, Iterates
<1>9. Eq(g)
  <2>1. \A n \in 0..N : n # 0 => n \in 1..N /\ n - 1 \in 0..N
    BY <1>1
  <2>2. ASSUME NEW n \in 1..N PROVE g[n] = Step(n, g[n - 1])
    <3> HIDE DEF R, T
    <3>1. n - 1 \in 0..N
      BY <1>1
    <3>2. g[n - 1] \in T[n - 1] /\ g[n] = R[<<n, g[n - 1]>>]
      BY <1>8, <3>1 DEF Iterated, Within
    <3> QED
      BY <1>7, <3>2
  <2> HIDE DEF U
  <2> QED
    BY <1>8, <2>1, <2>2 DEF Iterated
<1>10. Eq(f)
  <2> HIDE DEF Eq
  <2> QED
    BY <1>9
<1> HIDE DEF f
<1>11. f[0] \in T[0] /\ \A n \in 1..N : f[n - 1] \in T[n - 1] => f[n] \in T[n]
  <2>1. f[0] = d
    BY <1>1, <1>10
  <2> HIDE DEF T, R, U, C
  <2>2. ASSUME NEW n \in 1..N PROVE f[n] = Step(n, f[n - 1])
    <3>1. n \in 0..N /\ n # 0
      BY <1>1
    <3> QED
      BY <1>10, <3>1
  <2> QED
    BY <1>1, <1>6, <1>7, <2>1, <2>2
<1>12. f[N] \in V(N)
  <2>1. N \in 0..N
    BY <1>1
  <2> HIDE DEF T, Eq
  <2>2. \A n \in 0..N : f[n] \in T[n]
    BY <1>1, <1>11, UpTo
  <2> QED
    BY <1>6, <2>1, <2>2
<1>13. Indexed(rev, C, done(N), e) /\ EarlierStay(rev, d, e)
  BY <1>2, <1>12 DEF V
<1>14. done(N) \subseteq C
  BY <1>1 DEF done
<1> QED
  BY <1>13, <1>14 DEF Indexed, AboveDone

(* Revision 0 has its root already, and no changes.                        *)
LEMMA IndexNothing ==
  ASSUME NEW rev, NEW ts, NEW changes, DOMAIN changes = {}, NEW d
  PROVE  IndexNodes(ts, d, rev, changes) = d
<1> DEFINE order == DriveOrder(changes)
           cmp == CompareWith(changes)
           Step(n, x) == IndexNode(ts, x, rev, order[n][1], order[n][2],
                                   changes[order[n][1]], cmp[order[n][1]])
           Eq(f) == f = [n \in 0..Len(order) |-> IF n = 0 THEN d ELSE Step(n, f[n - 1])]
           f == CHOOSE f : Eq(f)
<1>1. Len(order) = 0
  <2>1. DOMAIN changes \in SUBSET Paths /\ DeletesAreLeaves(changes) /\ ActsFit(changes)
    BY DEF DeletesAreLeaves, ActsFit
  <2>2. order \in Seq({})
    BY <2>1, DriveOrderDescends DEF Calls
  <2> HIDE DEF order
  <2>3. Len(order) \in Nat /\ \A n \in 1..Len(order) : order[n] \in {}
    BY <2>2, LenProperties, ElementOfSeq
  <2> QED
    BY <2>3
<1>2. IndexNodes(ts, d, rev, changes) = f[Len(order)]
  BY DEF IndexNodes
<1> HIDE DEF order, Step
<1>3. Eq([n \in 0..0 |-> d])
  BY <1>1
<1>4. Eq(f)
  <2> HIDE DEF Eq
  <2> QED
    BY <1>3
<1> HIDE DEF f
<1>5. f[0] = d
  BY <1>1, <1>4
<1> QED
  BY <1>1, <1>2, <1>5

-----------------------------------------------------------------------------
(* The trees of the repository: every path lies in a directory of it, and  *)
(* no number of the data is of a later revision.                           *)

NodeSet(rev) == [kind : {"file", "dir"}, props : 0..rev, text : 0..rev]
TreeSet(rev) == UNION {[S -> NodeSet(rev)] : S \in SUBSET Paths}

IsDirOf(tree, p) == p \in DOMAIN tree /\ tree[p].kind = "dir"

GoodTree(rev, tree) ==
  /\ tree \in TreeSet(rev)
  /\ IsDirOf(tree, <<>>)
  /\ \A p \in DOMAIN tree : p # <<>> => IsDirOf(tree, Front(p))

LEMMA TreeType ==
  ASSUME NEW rev, NEW tree
  PROVE  tree \in TreeSet(rev) <=> /\ DOMAIN tree \subseteq Paths
                                   /\ tree = [p \in DOMAIN tree |-> tree[p]]
                                   /\ \A p \in DOMAIN tree : tree[p] \in NodeSet(rev)
  BY DEF TreeSet

(* What lies above a path of a tree is a directory of it.                  *)
LEMMA AncestorsAreDirs ==
  ASSUME NEW rev, NEW tree, GoodTree(rev, tree), NEW q \in DOMAIN tree,
         NEW p \in Paths, IsPrefix(p, q)
  PROVE  p \in DOMAIN tree /\ (p # q => IsDirOf(tree, p))
<1> DEFINE Found(r) == p \in DOMAIN tree /\ (p # r => IsDirOf(tree, p))
           S == {n \in Nat : \A r \in DOMAIN tree :
                               IsPrefix(p, r) /\ Len(r) = Len(p) + n => Found(r)}
<1>1. DOMAIN tree \subseteq Paths
  BY TreeType DEF GoodTree
<1>2. Len(p) \in Nat /\ \A r \in DOMAIN tree : Len(r) \in Nat
  BY <1>1, PathType
<1>3. 0 \in S
  <2> SUFFICES ASSUME NEW r \in DOMAIN tree, IsPrefix(p, r), Len(r) = Len(p) + 0
               PROVE  Found(r)
    OBVIOUS
  <2>1. p = r
    <3>1. r \in Paths /\ Len(r) = Len(p) /\ IsPrefix(r, r)
      BY <1>1, <1>2, PrefixReflexive
    <3> QED
      BY <3>1, PrefixUnique
  <2> QED
    BY <2>1
<1>4. ASSUME NEW n \in Nat, n \in S PROVE n + 1 \in S
  <2> SUFFICES ASSUME NEW r \in DOMAIN tree, IsPrefix(p, r), Len(r) = Len(p) + (n + 1)
               PROVE  Found(r)
    OBVIOUS
  <2>1. r \in Paths /\ p # r
    BY <1>1, <1>2
  <2>2. r # <<>> /\ IsPrefix(p, Front(r))
    BY <2>1, AboveIsAtFront
  <2>3. Front(r) \in Paths /\ Len(Front(r)) = Len(r) - 1 /\ IsDirOf(tree, Front(r))
    BY <2>1, <2>2, FrontIsAbove DEF GoodTree
  <2>4. Front(r) \in DOMAIN tree /\ Len(Front(r)) = Len(p) + n
    BY <1>2, <2>3 DEF IsDirOf
  <2>5. Found(Front(r))
    BY <1>4, <2>2, <2>4
  <2> QED
    BY <2>1, <2>3, <2>5
<1>5. Len(q) - Len(p) \in Nat /\ Len(q) = Len(p) + (Len(q) - Len(p))
  BY <1>1, <1>2, PrefixIs
<1>6. Len(q) - Len(p) \in S
  <2> HIDE DEF S
  <2> QED
    BY <1>3, <1>4, <1>5, NatSet
<1> QED
  BY <1>5, <1>6

(* delete, and the first half of replace                                   *)
NoneBelow(tree, p) == \A q \in DOMAIN tree : ~ IsPrefix(p, q)

LEMMA WithoutIsGood ==
  ASSUME NEW rev, NEW tree, GoodTree(rev, tree), NEW p \in Paths, p # <<>>
  PROVE  /\ GoodTree(rev, Without(tree, p)) /\ NoneBelow(Without(tree, p), p)
         /\ \A q \in Paths : ~ IsPrefix(p, q) =>
              /\ q \in DOMAIN tree <=> q \in DOMAIN Without(tree, p)
              /\ q \in DOMAIN tree => Without(tree, p)[q] = tree[q]
<1> DEFINE e == Without(tree, p)
<1>1. /\ DOMAIN tree \subseteq Paths /\ \A q \in DOMAIN tree : tree[q] \in NodeSet(rev)
      /\ IsDirOf(tree, <<>>) /\ \A q \in DOMAIN tree : q # <<>> => IsDirOf(tree, Front(q))
  BY TreeType DEF GoodTree
<1>2. DOMAIN e = DOMAIN tree \ Below(p) /\ e = [q \in DOMAIN e |-> tree[q]]
  BY DEF Without
<1>3. /\ \A q \in DOMAIN e : q \in DOMAIN tree /\ q \in Paths /\ ~ IsPrefix(p, q) /\ e[q] = tree[q]
      /\ \A q \in DOMAIN tree : ~ IsPrefix(p, q) => q \in DOMAIN e
  BY <1>1, <1>2 DEF Below
<1> HIDE DEF e
<1>4. e \in TreeSet(rev)
  <2>1. e = [q \in DOMAIN e |-> e[q]]
    BY <1>2
  <2>2. DOMAIN e \subseteq Paths /\ \A q \in DOMAIN e : e[q] \in NodeSet(rev)
    BY <1>1, <1>3
  <2> QED
    BY <2>1, <2>2, TreeType
<1>5. IsDirOf(e, <<>>)
  <2>1. ~ IsPrefix(p, <<>>)
    <3>1. <<>> \in Paths
      BY PathsAssumption
    <3>2. Len(p) \in Nat /\ Len(p) # 0 /\ Len(<<>>) = 0
      BY <3>1, PathType
    <3> QED
      BY <3>1, <3>2, PrefixIs
  <2> QED
    BY <1>1, <1>3, <2>1 DEF IsDirOf
<1>6. ASSUME NEW q \in DOMAIN e, q # <<>> PROVE IsDirOf(e, Front(q))
  <2>1. q \in DOMAIN tree /\ q \in Paths /\ ~ IsPrefix(p, q) /\ IsDirOf(tree, Front(q))
    BY <1>1, <1>3, <1>6
  <2>2. Front(q) \in Paths /\ IsPrefix(Front(q), q)
    BY <1>6, <2>1, FrontIsAbove
  <2>3. ~ IsPrefix(p, Front(q))
    BY <2>1, <2>2, PrefixTransitive
  <2> QED
    BY <1>3, <2>1, <2>3 DEF IsDirOf
<1>7. NoneBelow(e, p)
  BY <1>3 DEF NoneBelow
<1>8. \A q \in Paths : ~ IsPrefix(p, q) =>
        (q \in DOMAIN tree <=> q \in DOMAIN e) /\ (q \in DOMAIN tree => e[q] = tree[q])
  BY <1>3
<1> QED
  BY <1>4, <1>5, <1>6, <1>7, <1>8 DEF GoodTree, e

(* A tree that grows a branch at p.                                        *)
GoodBranch(rev, g, p) ==
  /\ DOMAIN g \subseteq Below(p) /\ p \in DOMAIN g
  /\ \A q \in DOMAIN g : g[q] \in NodeSet(rev) /\ (q # p => IsDirOf(g, Front(q)))

LEMMA GrowIsGood ==
  ASSUME NEW rev, NEW tree, GoodTree(rev, tree), NEW p \in Paths, p # <<>>,
         NoneBelow(tree, p), IsDirOf(tree, Front(p)),
         NEW g, GoodBranch(rev, g, p), NEW e, e = Over(g, tree)
  PROVE  /\ GoodTree(rev, e) /\ p \in DOMAIN e /\ e[p] = g[p]
         /\ \A q \in Paths : ~ IsPrefix(p, q) =>
              (q \in DOMAIN tree <=> q \in DOMAIN e) /\ (q \in DOMAIN tree => e[q] = tree[q])
<1>1. /\ DOMAIN tree \subseteq Paths /\ \A q \in DOMAIN tree : tree[q] \in NodeSet(rev)
      /\ IsDirOf(tree, <<>>) /\ \A q \in DOMAIN tree : q # <<>> => IsDirOf(tree, Front(q))
  BY TreeType DEF GoodTree
<1>2. /\ \A q \in DOMAIN g : /\ q \in Paths /\ IsPrefix(p, q) /\ g[q] \in NodeSet(rev)
                             /\ q # p => IsDirOf(g, Front(q))
      /\ p \in DOMAIN g
  BY DEF GoodBranch, Below
<1>3. /\ DOMAIN e = DOMAIN g \union DOMAIN tree
      /\ e = [q \in DOMAIN e |-> IF q \in DOMAIN g THEN g[q] ELSE tree[q]]
  BY DEF Over
<1>4. /\ \A q \in DOMAIN g : q \in DOMAIN e /\ e[q] = g[q]
      /\ \A q \in DOMAIN tree : q \in DOMAIN e /\ e[q] = tree[q] /\ ~ IsPrefix(p, q)
      /\ \A q \in DOMAIN e : q \in DOMAIN g \/ q \in DOMAIN tree
  <2>1. \A q \in DOMAIN tree : ~ IsPrefix(p, q) /\ q \notin DOMAIN g
    BY <1>2 DEF NoneBelow
  <2> QED
    BY <1>3, <2>1
<1>5. e \in TreeSet(rev)
  <2>1. e = [q \in DOMAIN e |-> e[q]]
    BY <1>3
  <2>2. DOMAIN e \subseteq Paths /\ \A q \in DOMAIN e : e[q] \in NodeSet(rev)
    BY <1>1, <1>2, <1>4
  <2> QED
    BY <2>1, <2>2, TreeType
<1>6. \A q : IsDirOf(tree, q) => IsDirOf(e, q)
  BY <1>4 DEF IsDirOf
<1>7. \A q : IsDirOf(g, q) => IsDirOf(e, q)
  BY <1>4 DEF IsDirOf
<1>8. ASSUME NEW q \in DOMAIN e, q # <<>> PROVE IsDirOf(e, Front(q))
  <2>1. CASE q \in DOMAIN tree
    BY <1>1, <1>6, <1>8, <2>1
  <2>2. CASE q \in DOMAIN g
    <3>1. CASE q = p
      BY <1>6, <3>1
    <3>2. CASE q # p
      BY <1>2, <1>7, <2>2, <3>2
    <3> QED
      BY <3>1, <3>2
  <2> QED
    BY <1>4, <2>1, <2>2
<1>9. \A q \in Paths : ~ IsPrefix(p, q) =>
        (q \in DOMAIN tree <=> q \in DOMAIN e) /\ (q \in DOMAIN tree => e[q] = tree[q])
  BY <1>2, <1>4
<1> QED
  BY <1>1, <1>2, <1>4, <1>5, <1>6, <1>8, <1>9 DEF GoodTree

(* The path that q below p was copied from when p was copied from `from'.  *)
Rebase(from, p, q) == from \o SubSeq(q, Len(p) + 1, Len(q))

IsRebased(r, from, p, q) ==
  /\ r \in Seq(Names) /\ Len(r) = Len(from) + Len(q) - Len(p)
  /\ \A i \in 1..Len(r) :
       r[i] = IF i <= Len(from) THEN from[i] ELSE q[Len(p) + (i - Len(from))]

LEMMA RebaseElements ==
  ASSUME NEW from \in Paths, NEW p \in Paths, NEW q \in Paths, IsPrefix(p, q)
  PROVE  IsRebased(Rebase(from, p, q), from, p, q)
<1> DEFINE r == Rebase(from, p, q)
<1> DEFINE t == SubSeq(q, Len(p) + 1, Len(q))
<1>1. /\ from \in Seq(Names) /\ q \in Seq(Names)
      /\ Len(from) \in Nat /\ Len(p) \in Nat /\ Len(q) \in Nat
  BY PathType
<1>2. Len(p) <= Len(q)
  BY PrefixIs
<1>3. \A i \in (Len(p) + 1)..Len(q) : q[i] \in Names
  <2>1. \A i \in (Len(p) + 1)..Len(q) : i \in 1..Len(q)
    BY <1>1
  <2> QED
    BY <1>1, <2>1, ElementOfSeq
<1>4. Len(p) + 1 \in Int /\ Len(q) \in Int
  BY <1>1
<1>5. /\ t \in Seq(Names)
      /\ Len(t) = IF Len(p) + 1 <= Len(q) THEN Len(q) - (Len(p) + 1) + 1 ELSE 0
      /\ \A i \in 1..(Len(q) - (Len(p) + 1) + 1) : t[i] = q[Len(p) + 1 + i - 1]
  BY <1>3, <1>4, SubSeqProperties
<1>0. r = from \o t
  BY DEF Rebase
<1> HIDE DEF t, r
<1>6. Len(t) = Len(q) - Len(p) /\ \A i \in 1..Len(t) : t[i] = q[Len(p) + i]
  BY <1>1, <1>2, <1>5
<1>7. /\ r \in Seq(Names) /\ Len(r) = Len(from) + Len(t)
      /\ \A i \in 1..(Len(from) + Len(t)) :
           r[i] = IF i <= Len(from) THEN from[i] ELSE t[i - Len(from)]
  <2>2. /\ from \o t \in Seq(Names) /\ Len(from \o t) = Len(from) + Len(t)
        /\ \A i \in 1..(Len(from) + Len(t)) :
             (from \o t)[i] = IF i <= Len(from) THEN from[i] ELSE t[i - Len(from)]
    BY <1>1, <1>5, ConcatProperties, Zenon
  <2> QED
    BY <1>0, <2>2, Zenon
<1>8. Len(r) = Len(from) + Len(q) - Len(p)
  BY <1>1, <1>6, <1>7
<1>9. ASSUME NEW i \in 1..Len(r)
      PROVE  r[i] = IF i <= Len(from) THEN from[i] ELSE q[Len(p) + (i - Len(from))]
  <2>1. i \in 1..(Len(from) + Len(t))
    BY <1>7
  <2>2. CASE i <= Len(from)
    BY <1>7, <2>1, <2>2
  <2>3. CASE ~ (i <= Len(from))
    <3>1. i - Len(from) \in 1..Len(t)
      BY <1>1, <1>2, <1>6, <2>1, <2>3
    <3> QED
      BY <1>6, <1>7, <2>1, <2>3, <3>1
  <2> QED
    BY <2>2, <2>3
<1> QED
  BY <1>7, <1>8, <1>9 DEF IsRebased, r

LEMMA RebaseSelf ==
  ASSUME NEW from \in Paths, NEW p \in Paths
  PROVE  Rebase(from, p, p) = from
<1>1. Len(p) \in Nat /\ Len(from) \in Nat /\ from \in Seq(Names) /\ IsPrefix(p, p)
  BY PathType, PrefixReflexive
<1> DEFINE r == Rebase(from, p, p)
<1>2. /\ r \in Seq(Names) /\ Len(r) = Len(from) + Len(p) - Len(p)
      /\ \A i \in 1..Len(r) :
           r[i] = IF i <= Len(from) THEN from[i] ELSE p[Len(p) + (i - Len(from))]
  BY <1>1, RebaseElements DEF IsRebased
<1> HIDE DEF r
<1>3. Len(r) = Len(from) /\ \A i \in 1..Len(r) : r[i] = from[i]
  BY <1>1, <1>2
<1>4. r = from
  BY <1>1, <1>2, <1>3, SeqEqual
<1> QED
  BY <1>4 DEF r

(* The entry of a directory and the directory are copied from the same one. *)
LEMMA RebaseFront ==
  ASSUME NEW from \in Paths, NEW p \in Paths, NEW q \in Paths, IsPrefix(p, q), p # q,
         Rebase(from, p, q) \in Paths
  PROVE  /\ Rebase(from, p, q) # <<>>
         /\ Rebase(from, p, Front(q)) = Front(Rebase(from, p, q))
<1> DEFINE r == Rebase(from, p, q)
           s == Rebase(from, p, Front(q))
<1>1. /\ Len(from) \in Nat /\ Len(p) \in Nat /\ Len(q) \in Nat
      /\ Len(p) < Len(q)
  BY PathType, StrictIsShorter
<1>2. q # <<>> /\ IsPrefix(p, Front(q))
  BY AboveIsAtFront
<1>3. /\ Front(q) \in Paths /\ Len(Front(q)) = Len(q) - 1
      /\ \A i \in 1..(Len(q) - 1) : Front(q)[i] = q[i]
  BY <1>2, FrontType
<1>4. /\ Len(r) = Len(from) + Len(q) - Len(p)
      /\ \A i \in 1..Len(r) :
           r[i] = IF i <= Len(from) THEN from[i] ELSE q[Len(p) + (i - Len(from))]
  BY RebaseElements DEF IsRebased
<1>5. /\ s \in Seq(Names) /\ Len(s) = Len(from) + Len(Front(q)) - Len(p)
      /\ \A i \in 1..Len(s) :
           s[i] = IF i <= Len(from) THEN from[i] ELSE Front(q)[Len(p) + (i - Len(from))]
  <2>1. IsRebased(s, from, p, Front(q))
    BY <1>2, <1>3, RebaseElements
  <2> HIDE DEF s
  <2> QED
    BY <2>1 DEF IsRebased
<1>6. r \in Paths
  OBVIOUS
<1> HIDE DEF r, s
<1>7. r # <<>>
  BY <1>1, <1>4, <1>6, PathType
<1>8. /\ Front(r) \in Seq(Names) /\ Len(Front(r)) = Len(r) - 1
      /\ \A i \in 1..(Len(r) - 1) : Front(r)[i] = r[i]
  BY <1>6, <1>7, FrontType, PathType
<1>9. Len(s) = Len(r) - 1 /\ Len(s) = Len(Front(r))
  BY <1>1, <1>3, <1>4, <1>5, <1>8
<1>10. ASSUME NEW i \in 1..Len(s) PROVE s[i] = Front(r)[i]
  <2>1. i \in 1..Len(r) /\ i \in 1..(Len(r) - 1)
    BY <1>1, <1>4, <1>9
  <2>2. CASE i <= Len(from)
    BY <1>4, <1>5, <1>8, <2>1, <2>2
  <2>3. CASE ~ (i <= Len(from))
    <3>1. Len(p) + (i - Len(from)) \in 1..(Len(q) - 1)
      BY <1>1, <1>4, <2>1, <2>3
    <3> QED
      BY <1>3, <1>4, <1>5, <1>8, <2>1, <2>3, <3>1
  <2> QED
    BY <2>2, <2>3
<1>11. s = Front(r)
  BY <1>5, <1>8, <1>9, <1>10, SeqEqual
<1> QED
  BY <1>7, <1>11 DEF r, s

(* What is copied is a branch that can be grown.                           *)
LEMMA GraftIsGood ==
  ASSUME NEW rev \in Nat, NEW r \in 0..rev, NEW source, GoodTree(r, source),
         NEW from \in DOMAIN source, NEW p \in Paths
  PROVE  /\ GoodBranch(rev, Graft(source, from, p), p)
         /\ Graft(source, from, p)[p] = source[from]
<1> DEFINE g == Graft(source, from, p)
<1>1. /\ DOMAIN source \subseteq Paths /\ \A q \in DOMAIN source : source[q] \in NodeSet(r)
      /\ \A q \in DOMAIN source : q # <<>> => IsDirOf(source, Front(q))
  BY TreeType DEF GoodTree
<1>2. /\ DOMAIN g = {q \in Paths : IsPrefix(p, q) /\ Rebase(from, p, q) \in DOMAIN source}
      /\ \A q \in DOMAIN g : g[q] = source[Rebase(from, p, q)]
  BY DEF Graft, Rebase
<1> HIDE DEF g
<1>3. Rebase(from, p, p) = from /\ IsPrefix(p, p)
  BY <1>1, RebaseSelf, PrefixReflexive
<1>4. p \in DOMAIN g /\ g[p] = source[from]
  BY <1>2, <1>3
<1>5. DOMAIN g \subseteq Below(p)
  BY <1>2 DEF Below
<1>6. NodeSet(r) \subseteq NodeSet(rev)
  <2>1. 0..r \subseteq 0..rev
    OBVIOUS
  <2> QED
    BY <2>1 DEF NodeSet
<1>7. ASSUME NEW q \in DOMAIN g, q # p PROVE IsDirOf(g, Front(q))
  <2>1. q \in Paths /\ IsPrefix(p, q) /\ Rebase(from, p, q) \in DOMAIN source /\ from \in Paths
    BY <1>1, <1>2
  <2>2. Rebase(from, p, q) # <<>> /\ Rebase(from, p, Front(q)) = Front(Rebase(from, p, q))
    BY <1>1, <1>7, <2>1, RebaseFront
  <2>3. IsDirOf(source, Rebase(from, p, Front(q)))
    BY <1>1, <2>1, <2>2
  <2>4. q # <<>> /\ IsPrefix(p, Front(q)) /\ Front(q) \in Paths
    BY <1>7, <2>1, AboveIsAtFront, FrontIsAbove
  <2> QED
    BY <1>2, <2>3, <2>4 DEF IsDirOf
<1>8. \A q \in DOMAIN g : g[q] \in NodeSet(rev)
  BY <1>1, <1>2, <1>6
<1> QED
  BY <1>4, <1>5, <1>7, <1>8 DEF GoodBranch, g

(* A new node is one too.                                                  *)
LEMMA NewIsGood ==
  ASSUME NEW rev, NEW tree, NEW p \in Paths, NEW v \in NodeSet(rev)
  PROVE  /\ GoodBranch(rev, [q \in {p} |-> v], p)
         /\ Put(tree, p, v) = Over([q \in {p} |-> v], tree)
<1>1. p \in Below(p)
  BY PrefixReflexive DEF Below
<1>2. GoodBranch(rev, [q \in {p} |-> v], p)
  BY <1>1 DEF GoodBranch
<1>3. Put(tree, p, v) = Over([q \in {p} |-> v], tree)
  <2>1. DOMAIN [q \in {p} |-> v] = {p} /\ [q \in {p} |-> v][p] = v
    OBVIOUS
  <2>2. DOMAIN tree \union {p} = {p} \union DOMAIN tree
    OBVIOUS
  <2> QED
    BY <2>1, <2>2 DEF Put, Over
<1> QED
  BY <1>2, <1>3

-----------------------------------------------------------------------------
(* Commits: what a change may be, and what it does to the tree.            *)

ChangeSet == [act : Acts, kind : Kinds, from : SourceSet, mod : {"none", "text", "props"}]

GoodTrees(rev, ts) ==
  DOMAIN ts = 0..(rev - 1) /\ \A r \in 0..(rev - 1) : GoodTree(r, ts[r])

IsCopyOf(ts, s, kind) ==
  /\ s.rev \in DOMAIN ts /\ s.path \in DOMAIN ts[s.rev]
  /\ kind = ts[s.rev][s.path].kind

IsNewOrCopy(ts, c) ==
  \/ c.from = NoSource /\ c.kind \in {"file", "dir"}
  \/ IsCopyOf(ts, c.from, c.kind)

Fits(ts, tree, p, c) ==
  /\ c \in ChangeSet
  /\ c.act # "add" => p \in DOMAIN tree
  /\ c.act = "add" => p \notin DOMAIN tree /\ IsDirOf(tree, Front(p))
  /\ c.act = "change" => c.kind = tree[p].kind
  /\ c.act # "change" => p # <<>>
  /\ c.act \in {"add", "replace"} => IsNewOrCopy(ts, c)

LEMMA AddsAre ==
  ASSUME NEW rev \in Nat, NEW ts, GoodTrees(rev, ts), NEW p \in Paths,
         NEW act \in {"add", "replace"}, NEW c \in AddsOf(ts, act, p)
  PROVE  c \in ChangeSet /\ c.act = act /\ IsNewOrCopy(ts, c)
<1>1. NoSource \in SourceSet
  BY SourceType
<1>2. CASE \E k \in {"file", "dir"} : c = Change(act, k, NoSource, "none")
  <2>1. PICK k \in {"file", "dir"} : c = Change(act, k, NoSource, "none")
    BY <1>2
  <2>2. c = [act |-> act, kind |-> k, from |-> NoSource, mod |-> "none"]
    BY <2>1 DEF Change
  <2>3. act \in Acts /\ k \in Kinds
    BY DEF Acts, Kinds
  <2>4. c \in ChangeSet
    BY <1>1, <2>2, <2>3 DEF ChangeSet
  <2> QED
    BY <2>2, <2>4 DEF IsNewOrCopy
<1>3. CASE ~ \E k \in {"file", "dir"} : c = Change(act, k, NoSource, "none")
  <2>1. PICK s \in {x \in Sources(ts, p) : CanCopy(ts, x, p)} :
          \E m \in {"none", Mod(ts[s.rev][s.path].kind)} :
            c = Change(act, ts[s.rev][s.path].kind, s, m)
    BY <1>3 DEF AddsOf
  <2>2. PICK m \in {"none", Mod(ts[s.rev][s.path].kind)} :
          c = Change(act, ts[s.rev][s.path].kind, s, m)
    BY <2>1
  <2>3. s.path \in DOMAIN ts[s.rev] /\ s \in Sources(ts, p)
    BY <2>1 DEF CanCopy
  <2>4. PICK r \in DOMAIN ts, q \in Paths \ {<<>>} : s = [rev |-> r, path |-> q]
    BY <2>3 DEF Sources
  <2>5. r \in 0..(rev - 1) /\ GoodTree(r, ts[r]) /\ s.rev = r /\ s.path = q
    BY <2>4 DEF GoodTrees
  <2>6. ts[r][q] \in NodeSet(r)
    BY <2>3, <2>5, TreeType DEF GoodTree
  <2>7. ts[r][q].kind \in {"file", "dir"}
    BY <2>6 DEF NodeSet
  <2>8. c = [act |-> act, kind |-> ts[r][q].kind, from |-> s, mod |-> m]
    BY <2>2, <2>5 DEF Change
  <2>9. m \in {"none", "text", "props"} /\ s \in SourceSet /\ act \in Acts /\ ts[r][q].kind \in Kinds
    <3>1. r \in Int
      BY <2>5
    <3> QED
      BY <2>4, <2>7, <3>1 DEF Mod, SourceSet, Acts, Kinds
  <2>10. c \in ChangeSet /\ c.act = act /\ c.from = s /\ c.kind = ts[r][q].kind
    BY <2>8, <2>9 DEF ChangeSet
  <2>11. IsCopyOf(ts, s, ts[r][q].kind)
    BY <2>3, <2>4, <2>5 DEF IsCopyOf
  <2> QED
    BY <2>10, <2>11 DEF IsNewOrCopy
<1> QED
  BY <1>2, <1>3

LEMMA ChangesFit ==
  ASSUME NEW rev \in Nat, NEW ts, GoodTrees(rev, ts),
         NEW tree, GoodTree(rev, tree), NEW p \in Paths, NEW c \in ChangesOf(ts, tree, p)
  PROVE  Fits(ts, tree, p, c)
<1>1. \A q \in DOMAIN tree : tree[q].kind \in {"file", "dir"}
  BY TreeType DEF GoodTree, NodeSet
<1>2. CASE p \in DOMAIN tree
  <2>1. c \in {Change("change", tree[p].kind, NoSource, Mod(tree[p].kind))}
                 \union (IF p = <<>> THEN {}
                         ELSE AddsOf(ts, "replace", p)
                                \union {Change("delete", "unknown", NoSource, "none")})
    BY <1>2, Zenon DEF ChangesOf
  <2>2. CASE c = Change("change", tree[p].kind, NoSource, Mod(tree[p].kind))
    <3>1. c = [act |-> "change", kind |-> tree[p].kind, from |-> NoSource,
               mod |-> Mod(tree[p].kind)]
      BY <2>2 DEF Change
    <3>2. c \in ChangeSet
      BY <1>1, <1>2, <3>1, SourceType DEF ChangeSet, Acts, Kinds, Mod
    <3> QED
      BY <1>2, <3>1, <3>2 DEF Fits
  <2>3. CASE p # <<>> /\ c \in AddsOf(ts, "replace", p)
    <3>1. c \in ChangeSet /\ c.act = "replace" /\ IsNewOrCopy(ts, c)
      BY <2>3, AddsAre
    <3> QED
      BY <1>2, <2>3, <3>1 DEF Fits
  <2>4. CASE p # <<>> /\ c = Change("delete", "unknown", NoSource, "none")
    <3>1. c = [act |-> "delete", kind |-> "unknown", from |-> NoSource, mod |-> "none"]
      BY <2>4 DEF Change
    <3>2. c \in ChangeSet
      BY <3>1, SourceType DEF ChangeSet, Acts, Kinds
    <3> QED
      BY <1>2, <2>4, <3>1, <3>2 DEF Fits
  <2> QED
    BY <2>1, <2>2, <2>3, <2>4
<1>3. CASE p \notin DOMAIN tree
  <2>1. p # <<>> /\ IsDirOf(tree, Front(p)) /\ c \in AddsOf(ts, "add", p)
    BY <1>3 DEF ChangesOf, IsDirOf
  <2>2. c \in ChangeSet /\ c.act = "add" /\ IsNewOrCopy(ts, c)
    BY <2>1, AddsAre
  <2> QED
    BY <1>3, <2>1, <2>2 DEF Fits
<1> QED
  BY <1>2, <1>3

(* Paths that are not below p are as they were.                            *)
SameOutside(tree, e, p) ==
  \A q \in Paths : ~ IsPrefix(p, q) =>
    (q \in DOMAIN tree <=> q \in DOMAIN e) /\ (q \in DOMAIN tree => e[q] = tree[q])

LEMMA TouchIsGood ==
  ASSUME NEW rev \in Nat, NEW tree, GoodTree(rev, tree), NEW p \in DOMAIN tree, NEW mod,
         NEW e, e = [tree EXCEPT ![p] = Touch(@, mod, rev)]
  PROVE  GoodTree(rev, e) /\ DOMAIN e = DOMAIN tree /\ e[p].kind = tree[p].kind
         /\ SameOutside(tree, e, p)
<1>1. /\ DOMAIN tree \subseteq Paths /\ tree = [q \in DOMAIN tree |-> tree[q]]
      /\ \A q \in DOMAIN tree : tree[q] \in NodeSet(rev)
  BY TreeType DEF GoodTree
<1>2. DOMAIN e = DOMAIN tree /\ e = [q \in DOMAIN e |-> e[q]]
  BY <1>1
<1>3. e[p] = Touch(tree[p], mod, rev) /\ \A q \in DOMAIN tree : q # p => e[q] = tree[q]
  BY <1>1
<1>4. Touch(tree[p], mod, rev) \in NodeSet(rev) /\ Touch(tree[p], mod, rev).kind = tree[p].kind
  <2>1. tree[p] \in NodeSet(rev) /\ rev \in 0..rev
    BY <1>1
  <2>2. CASE mod = "text"
    BY <2>1, <2>2 DEF Touch, NodeSet
  <2>3. CASE mod = "props"
    BY <2>1, <2>3 DEF Touch, NodeSet
  <2>4. CASE mod # "text" /\ mod # "props"
    BY <2>1, <2>4 DEF Touch, NodeSet
  <2> QED
    BY <2>2, <2>3, <2>4
<1>5. \A q \in DOMAIN tree : e[q] \in NodeSet(rev) /\ e[q].kind = tree[q].kind
  BY <1>1, <1>3, <1>4
<1>6. e \in TreeSet(rev)
  BY <1>1, <1>2, <1>5, TreeType
<1>7. SameOutside(tree, e, p)
  <2>1. p \in Paths /\ IsPrefix(p, p)
    BY <1>1, PrefixReflexive
  <2> QED
    BY <1>2, <1>3, <2>1 DEF SameOutside
<1>8. \A q : IsDirOf(e, q) <=> IsDirOf(tree, q)
  BY <1>2, <1>5 DEF IsDirOf
<1> QED
  BY <1>2, <1>5, <1>6, <1>7, <1>8 DEF GoodTree

LEMMA GoodTreeLater ==
  ASSUME NEW rev \in Nat, NEW r \in 0..rev, NEW tree, GoodTree(r, tree)
  PROVE  GoodTree(rev, tree)
<1>1. NodeSet(r) \subseteq NodeSet(rev)
  <2>1. 0..r \subseteq 0..rev
    OBVIOUS
  <2> QED
    BY <2>1 DEF NodeSet
<1>2. tree \in TreeSet(rev)
  BY <1>1, TreeType DEF GoodTree
<1> QED
  BY <1>2 DEF GoodTree

(* The tree without what is deleted or replaced at p.                      *)
Cleared(tree, p, c) == IF c.act \in {"delete", "replace"} THEN Without(tree, p) ELSE tree

NewOf(rev, c) == [kind |-> c.kind, props |-> 0, text |-> IF c.kind = "file" THEN rev ELSE 0]

Grown(ts, tree, rev, p, c) ==
  CASE c.act \in {"delete", "change"} -> Cleared(tree, p, c)
    [] c.act \in {"add", "replace"} /\ c.from = NoSource ->
         Put(Cleared(tree, p, c), p, NewOf(rev, c))
    [] OTHER -> Over(Graft(ts[c.from.rev], c.from.path, p), Cleared(tree, p, c))

LEMMA ApplyIs ==
  ASSUME NEW rev, NEW ts, NEW tree, NEW p, NEW c
  PROVE  Apply(ts, tree, rev, p, c) =
           IF c.act = "delete" THEN Grown(ts, tree, rev, p, c)
           ELSE [Grown(ts, tree, rev, p, c) EXCEPT ![p] = Touch(@, c.mod, rev)]
  BY DEF Apply, Grown, Cleared, NewOf

LEMMA ClearedIsGood ==
  ASSUME NEW rev \in Nat, NEW ts, NEW tree, GoodTree(rev, tree),
         NEW p \in Paths, NEW c, Fits(ts, tree, p, c), c.act # "change",
         NEW e, e = Cleared(tree, p, c)
  PROVE  /\ GoodTree(rev, e) /\ NoneBelow(e, p) /\ SameOutside(tree, e, p)
         /\ IsDirOf(e, Front(p))
<1>1. p # <<>>
  BY DEF Fits
<1>2. /\ DOMAIN tree \subseteq Paths
      /\ \A q \in DOMAIN tree : q # <<>> => IsDirOf(tree, Front(q))
  BY TreeType DEF GoodTree
<1>3. IsDirOf(tree, Front(p))
  BY <1>1, <1>2 DEF Fits
<1>4. Front(p) \in Paths /\ ~ IsPrefix(p, Front(p))
  <2>1. Front(p) \in Paths /\ Len(Front(p)) = Len(p) - 1 /\ Len(p) \in Nat
    BY <1>1, FrontIsAbove, PathType
  <2> QED
    BY <2>1, PrefixIs
<1>5. CASE c.act \in {"delete", "replace"}
  <2>1. e = Without(tree, p)
    BY <1>5 DEF Cleared
  <2>2. GoodTree(rev, e) /\ NoneBelow(e, p) /\ SameOutside(tree, e, p)
    BY <1>1, <2>1, WithoutIsGood DEF SameOutside
  <2> QED
    BY <1>3, <1>4, <2>2 DEF SameOutside, IsDirOf
<1>6. CASE c.act \notin {"delete", "replace"}
  <2>1. e = tree
    BY <1>6 DEF Cleared
  <2>2. p \notin DOMAIN tree
    BY <1>6 DEF Fits, ChangeSet, Acts
  <2>3. NoneBelow(tree, p)
    BY <2>2, AncestorsAreDirs DEF NoneBelow
  <2> QED
    BY <1>3, <2>1, <2>3 DEF SameOutside
<1> QED
  BY <1>5, <1>6

(* What the change leaves at p.                                            *)
Holds(tree, p, c) ==
  IF c.act = "delete" THEN p \notin DOMAIN tree
  ELSE p \in DOMAIN tree /\ tree[p].kind = c.kind

LEMMA SameOutsideTransitive ==
  ASSUME NEW tree, NEW mid, NEW e, NEW p, SameOutside(tree, mid, p), SameOutside(mid, e, p)
  PROVE  SameOutside(tree, e, p)
  BY DEF SameOutside

LEMMA GrownIsGood ==
  ASSUME NEW rev \in Nat, NEW ts, GoodTrees(rev, ts), NEW tree, GoodTree(rev, tree),
         NEW p \in Paths, NEW c, Fits(ts, tree, p, c),
         NEW e, e = Grown(ts, tree, rev, p, c)
  PROVE  GoodTree(rev, e) /\ SameOutside(tree, e, p) /\ Holds(e, p, c)
<1> DEFINE d == Cleared(tree, p, c)
<1>1. c.act \in Acts /\ c.kind \in Kinds /\ c.from \in SourceSet
  BY DEF Fits, ChangeSet
<1>2. CASE c.act = "change"
  <2>1. e = tree
    BY <1>2, Zenon DEF Grown, Cleared
  <2> QED
    BY <1>2, <2>1 DEF Fits, SameOutside, Holds
<1>3. c.act # "change" => /\ GoodTree(rev, d) /\ NoneBelow(d, p)
                          /\ SameOutside(tree, d, p) /\ IsDirOf(d, Front(p))
  BY ClearedIsGood
<1>4. CASE c.act = "delete"
  <2>1. e = d
    BY <1>4, Zenon DEF Grown
  <2>2. p \notin DOMAIN d
    BY <1>3, <1>4, PrefixReflexive DEF NoneBelow
  <2> QED
    BY <1>3, <1>4, <2>1, <2>2 DEF Holds
<1>5. CASE c.act \in {"add", "replace"}
  <2>1. p # <<>> /\ IsNewOrCopy(ts, c) /\ c.act # "change" /\ c.act # "delete"
    BY <1>5 DEF Fits
  <2>2. ASSUME NEW g, GoodBranch(rev, g, p), e = Over(g, d), g[p].kind = c.kind
        PROVE  GoodTree(rev, e) /\ SameOutside(tree, e, p) /\ Holds(e, p, c)
    <3> HIDE DEF d
    <3>1. GoodTree(rev, e) /\ p \in DOMAIN e /\ e[p] = g[p] /\ SameOutside(d, e, p)
      BY <1>3, <2>1, <2>2, GrowIsGood DEF SameOutside
    <3>2. SameOutside(tree, e, p)
      BY <1>3, <2>1, <3>1, SameOutsideTransitive
    <3> QED
      BY <2>1, <2>2, <3>1, <3>2 DEF Holds
  <2>3. CASE c.from = NoSource
    <3>1. c.kind \in {"file", "dir"}
      <4>1. ~ IsCopyOf(ts, NoSource, c.kind)
        BY DEF IsCopyOf, NoSource, GoodTrees
      <4> QED
        BY <2>1, <2>3, <4>1 DEF IsNewOrCopy
    <3>2. NewOf(rev, c) \in NodeSet(rev) /\ NewOf(rev, c).kind = c.kind
      BY <3>1 DEF NewOf, NodeSet
    <3>3. e = Put(d, p, NewOf(rev, c))
      BY <1>5, <2>3, Zenon DEF Grown
    <3> DEFINE g == [q \in {p} |-> NewOf(rev, c)]
    <3>4. g[p] = NewOf(rev, c)
      OBVIOUS
    <3>5. GoodBranch(rev, g, p) /\ e = Over(g, d)
      BY <3>2, <3>3, NewIsGood
    <3> HIDE DEF g, d
    <3> QED
      BY <2>2, <3>2, <3>4, <3>5
  <2>4. CASE c.from # NoSource
    <3>1. IsCopyOf(ts, c.from, c.kind)
      BY <2>1, <2>4 DEF IsNewOrCopy
    <3> DEFINE g == Graft(ts[c.from.rev], c.from.path, p)
    <3>2. c.from.rev \in 0..(rev - 1) /\ GoodTree(c.from.rev, ts[c.from.rev])
          /\ c.from.path \in DOMAIN ts[c.from.rev]
      BY <3>1 DEF IsCopyOf, GoodTrees
    <3>3. c.from.rev \in 0..rev
      BY <3>2
    <3>4. GoodBranch(rev, g, p) /\ g[p] = ts[c.from.rev][c.from.path]
      BY <3>2, <3>3, GraftIsGood
    <3>5. e = Over(g, d)
      BY <1>5, <2>1, <2>4, Zenon DEF Grown
    <3>6. g[p].kind = c.kind
      BY <3>1, <3>4 DEF IsCopyOf
    <3> HIDE DEF g, d
    <3> QED
      BY <2>2, <3>4, <3>5, <3>6
  <2> QED
    BY <2>3, <2>4
<1> QED
  BY <1>1, <1>2, <1>4, <1>5 DEF Acts

LEMMA ApplyIsGood ==
  ASSUME NEW rev \in Nat, NEW ts, GoodTrees(rev, ts), NEW tree, GoodTree(rev, tree),
         NEW p \in Paths, NEW c, Fits(ts, tree, p, c),
         NEW e, e = Apply(ts, tree, rev, p, c)
  PROVE  GoodTree(rev, e) /\ SameOutside(tree, e, p) /\ Holds(e, p, c)
<1> DEFINE d == Grown(ts, tree, rev, p, c)
<1>1. GoodTree(rev, d) /\ SameOutside(tree, d, p) /\ Holds(d, p, c)
  BY GrownIsGood
<1>2. e = IF c.act = "delete" THEN d ELSE [d EXCEPT ![p] = Touch(@, c.mod, rev)]
  BY ApplyIs
<1> HIDE DEF d
<1>3. CASE c.act = "delete"
  BY <1>1, <1>2, <1>3
<1>4. CASE c.act # "delete"
  <2>1. p \in DOMAIN d /\ d[p].kind = c.kind /\ e = [d EXCEPT ![p] = Touch(@, c.mod, rev)]
    BY <1>1, <1>2, <1>4 DEF Holds
  <2>2. /\ GoodTree(rev, e) /\ DOMAIN e = DOMAIN d /\ e[p].kind = d[p].kind
        /\ SameOutside(d, e, p)
    BY <1>1, <2>1, TouchIsGood
  <2>3. SameOutside(tree, e, p)
    BY <1>1, <2>2, SameOutsideTransitive
  <2> QED
    BY <1>4, <2>1, <2>2, <2>3 DEF Holds
<1> QED
  BY <1>3, <1>4

(* A commit: its tree is one, and holds what each of its changes says.     *)
ChangesSet == UNION {[S -> ChangeSet] : S \in SUBSET Paths}
CommitSet(rev) == [changes : ChangesSet, tree : TreeSet(rev)]

ChangeHeld(tree, p, c) ==
  /\ Holds(tree, p, c)
  /\ p # <<>> => IsDirOf(tree, Front(p))
  /\ c.act # "change" => p # <<>>

GoodCommit(rev, c) ==
  /\ c \in CommitSet(rev)
  /\ GoodTree(rev, c.tree)
  /\ \A p \in DOMAIN c.changes : ChangeHeld(c.tree, p, c.changes[p])

LEMMA ChangesType ==
  ASSUME NEW f
  PROVE  f \in ChangesSet <=> /\ DOMAIN f \subseteq Paths
                              /\ f = [p \in DOMAIN f |-> f[p]]
                              /\ \A p \in DOMAIN f : f[p] \in ChangeSet
  BY DEF ChangesSet

(* extend, in Commits                                                      *)
LEMMA ExtendIsGood ==
  ASSUME NEW rev \in Nat, NEW ts, GoodTrees(rev, ts), NEW c, GoodCommit(rev, c),
         NEW q \in Paths, q \notin DOMAIN c.changes,
         \A p \in DOMAIN c.changes : Len(p) <= Len(q),
         NEW d \in ChangesOf(ts, c.tree, q),
         NEW e, e = [changes |-> Put(c.changes, q, d), tree |-> Apply(ts, c.tree, rev, q, d)]
  PROVE  GoodCommit(rev, e)
<1> DEFINE tree == c.tree
           then == Apply(ts, c.tree, rev, q, d)
           changes == Put(c.changes, q, d)
<1>1. c.changes \in ChangesSet /\ GoodTree(rev, tree)
  BY DEF GoodCommit, CommitSet
<1>2. Fits(ts, tree, q, d)
  BY <1>1, ChangesFit
<1>3. GoodTree(rev, then) /\ SameOutside(tree, then, q) /\ Holds(then, q, d)
  BY <1>1, <1>2, ApplyIsGood
<1>4. /\ DOMAIN changes = DOMAIN c.changes \union {q} /\ changes[q] = d
      /\ \A p \in DOMAIN c.changes : changes[p] = c.changes[p]
      /\ changes = [p \in DOMAIN changes |-> changes[p]]
  BY DEF Put
<1>5. \A p \in DOMAIN c.changes : ChangeHeld(tree, p, c.changes[p])
  BY DEF GoodCommit
<1>6. e.changes = changes /\ e.tree = then /\ e = [changes |-> changes, tree |-> then]
  OBVIOUS
<1> HIDE DEF tree, then, changes
<1>7. changes \in ChangesSet
  <2>1. d \in ChangeSet
    BY <1>2 DEF Fits
  <2>2. DOMAIN c.changes \subseteq Paths /\ \A p \in DOMAIN c.changes : c.changes[p] \in ChangeSet
    BY <1>1, ChangesType
  <2>3. DOMAIN changes \subseteq Paths /\ \A p \in DOMAIN changes : changes[p] \in ChangeSet
    BY <1>4, <2>1, <2>2
  <2> QED
    BY <1>4, <2>3, ChangesType
<1>8. e \in CommitSet(rev)
  BY <1>3, <1>6, <1>7 DEF CommitSet, GoodTree
<1>9. /\ DOMAIN tree \subseteq Paths
      /\ \A p \in DOMAIN tree : p # <<>> => IsDirOf(tree, Front(p))
  BY <1>1, TreeType DEF GoodTree
<1>10. ASSUME NEW p \in Paths, ~ IsPrefix(q, p)
       PROVE  /\ p \in DOMAIN tree <=> p \in DOMAIN then
              /\ p \in DOMAIN tree => then[p] = tree[p]
              /\ p # <<>> /\ IsDirOf(tree, Front(p)) => IsDirOf(then, Front(p))
  <2>1. CASE p = <<>>
    BY <1>3, <1>10, <2>1 DEF SameOutside
  <2>2. CASE p # <<>>
    <3>1. Front(p) \in Paths /\ IsPrefix(Front(p), p)
      BY <2>2, FrontIsAbove
    <3>2. ~ IsPrefix(q, Front(p))
      BY <1>10, <3>1, PrefixTransitive
    <3> QED
      BY <1>3, <1>10, <3>1, <3>2 DEF SameOutside, IsDirOf
  <2> QED
    BY <2>1, <2>2
<1>11. ChangeHeld(then, q, d)
  <2>1. CASE q = <<>>
    BY <1>2, <1>3, <2>1 DEF ChangeHeld, Fits
  <2>2. CASE q # <<>>
    <3>1. Front(q) \in Paths /\ Len(Front(q)) = Len(q) - 1 /\ Len(q) \in Nat
      BY <2>2, FrontIsAbove, PathType
    <3>2. ~ IsPrefix(q, Front(q))
      BY <3>1, PrefixIs
    <3>3. IsDirOf(tree, Front(q))
      BY <1>2, <1>9, <2>2 DEF Fits
    <3>4. IsDirOf(then, Front(q))
      BY <1>3, <3>1, <3>2, <3>3 DEF SameOutside, IsDirOf
    <3> QED
      BY <1>3, <2>2, <3>4 DEF ChangeHeld
  <2> QED
    BY <2>1, <2>2
<1>12. ASSUME NEW p \in DOMAIN c.changes
       PROVE  ChangeHeld(then, p, c.changes[p])
  <2>1. p \in Paths /\ p # q
    BY <1>1, ChangesType
  <2>2. ~ IsPrefix(q, p)
    <3>1. SUFFICES ASSUME IsPrefix(q, p) PROVE FALSE
      OBVIOUS
    <3>2. Len(q) < Len(p) /\ Len(p) <= Len(q) /\ Len(p) \in Nat /\ Len(q) \in Nat
      BY <2>1, <3>1, StrictIsShorter, PathType
    <3> QED
      BY <3>2
  <2>3. ChangeHeld(tree, p, c.changes[p])
    BY <1>5
  <2> QED
    BY <1>10, <2>1, <2>2, <2>3 DEF ChangeHeld, Holds
<1>13. \A p \in DOMAIN changes : ChangeHeld(then, p, changes[p])
  BY <1>4, <1>11, <1>12
<1> QED
  BY <1>3, <1>6, <1>8, <1>13 DEF GoodCommit

(* What the indexing of a commit needs to know of it.                      *)
LEMMA GoodCommitFits ==
  ASSUME NEW rev \in Nat, NEW c, GoodCommit(rev, c), NEW ts, ts[rev] = c.tree
  PROVE  ChangesOK(ts, rev, c.changes)
<1> DEFINE C == DOMAIN c.changes
           tree == c.tree
<1>1. /\ C \subseteq Paths /\ \A p \in C : c.changes[p] \in ChangeSet
      /\ GoodTree(rev, tree)
      /\ \A p \in C : ChangeHeld(tree, p, c.changes[p])
  BY ChangesType DEF GoodCommit, CommitSet
<1>2. DOMAIN tree \subseteq Paths /\ \A p \in DOMAIN tree : tree[p] \in NodeSet(rev)
  BY <1>1, TreeType DEF GoodTree
<1>3. ts[rev] = tree
  OBVIOUS
<1> HIDE DEF C, tree
<1>4. ASSUME NEW p \in C, NEW q \in C, IsPrefix(p, q), p # q PROVE IsDirOf(tree, p)
  <2>1. p \in Paths /\ q \in Paths
    BY <1>1
  <2>2. q # <<>> /\ IsPrefix(p, Front(q))
    BY <1>4, <2>1, AboveIsAtFront
  <2>3. IsDirOf(tree, Front(q))
    BY <1>1, <2>2 DEF ChangeHeld
  <2>4. Front(q) \in DOMAIN tree
    BY <2>3 DEF IsDirOf
  <2>5. p # Front(q) => IsDirOf(tree, p)
    BY <1>1, <2>1, <2>2, <2>4, AncestorsAreDirs
  <2> QED
    BY <2>3, <2>5
<1>5. ASSUME NEW p \in C, ~ IsDirOf(tree, p) PROVE NoChangeBelow(C, p)
  BY <1>4, <1>5 DEF NoChangeBelow
<1>6. ASSUME NEW p \in C PROVE ChangeOK(ts, rev, C, p, c.changes[p])
  <2> DEFINE x == c.changes[p]
  <2>1. x.act \in Acts /\ x.kind \in Kinds /\ x.from \in SourceSet
    BY <1>1 DEF ChangeSet
  <2>2. Holds(tree, p, x)
    BY <1>1 DEF ChangeHeld
  <2> HIDE DEF x
  <2>3. KindFits(C, p, x.kind)
    BY <1>5, <2>2 DEF KindFits, Holds, IsDirOf
  <2>4. x.act # "delete" => ts[rev][p].text \in 0..rev /\ ts[rev][p].props \in 0..rev
    BY <1>2, <1>3, <2>2 DEF Holds, NodeSet
  <2> QED
    BY <2>1, <2>3, <2>4 DEF ChangeOK, x
<1>7. DeletesAreLeaves(c.changes)
  <2>1. ASSUME NEW p \in C, c.changes[p].act = "delete" PROVE NoChangeBelow(C, p)
    <3>1. ~ IsDirOf(tree, p)
      BY <1>1, <2>1 DEF ChangeHeld, Holds, IsDirOf
    <3> QED
      BY <1>5, <3>1
  <2> QED
    BY <2>1 DEF DeletesAreLeaves, C
<1>8. ActsFit(c.changes)
  <2>1. ASSUME NEW p \in C
        PROVE  c.changes[p].act \in Acts /\ (c.changes[p].act # "change" => p # <<>>)
    BY <1>1 DEF ChangeSet, ChangeHeld
  <2> QED
    BY <2>1 DEF ActsFit, Acts, C
<1> QED
  BY <1>1, <1>6, <1>7, <1>8 DEF ChangesOK, C

-----------------------------------------------------------------------------
(* The repository grows by good commits.                                   *)

RepositoryOK ==
  /\ Youngest \in Nat /\ Youngest <= MaxRev
  /\ DOMAIN repository = 0..Youngest
  /\ \A r \in 0..Youngest : GoodCommit(r, repository[r])
  /\ DOMAIN repository[0].changes = {}

LEMMA RepositoryTrees ==
  ASSUME RepositoryOK
  PROVE  GoodTrees(Youngest + 1, trees)
<1>1. DOMAIN trees = 0..Youngest /\ \A r \in 0..Youngest : trees[r] = repository[r].tree
  BY DEF RepositoryOK, trees
<1>2. Youngest \in Nat /\ Youngest + 1 - 1 = Youngest
  BY DEF RepositoryOK
<1>3. \A r \in 0..Youngest : GoodTree(r, trees[r])
  BY <1>1 DEF RepositoryOK, GoodCommit
<1> QED
  BY <1>1, <1>2, <1>3 DEF GoodTrees

LEMMA CommitsAreGood ==
  ASSUME RepositoryOK
  PROVE  \A c \in Commits : GoodCommit(Youngest + 1, c)
<1> DEFINE rev == Youngest + 1
           N == MaxChanges
           GC == {c \in CommitSet(rev) : GoodCommit(rev, c)}
           Next0(c) == {s \in Paths \ DOMAIN c.changes :
                          \A p \in DOMAIN c.changes : Len(p) <= Len(s)}
           Extend(c) == UNION {{[changes |-> Put(c.changes, q, d),
                                 tree |-> Apply(trees, c.tree, rev, q, d)] :
                                  d \in ChangesOf(trees, c.tree, q)} : q \in Next0(c)}
           first == {[changes |-> <<>>, tree |-> trees[Youngest]]}
           Step(x) == x \union UNION {Extend(c) : c \in x}
           U == SUBSET GC
           T == [n \in 0..N |-> U]
           R == [w \in (1..N) \X U |-> Step(w[2])]
           Eq(f) == f = [n \in 0..N |-> IF n = 0 THEN first ELSE Step(f[n - 1])]
           f == CHOOSE f : Eq(f)
<1>1. N \in Nat /\ rev \in Nat
  BY SvnIndexAssumption DEF RepositoryOK
<1>2. Commits \subseteq f[N]
  BY DEF Commits
<1>3. GoodTrees(rev, trees)
  BY RepositoryTrees
<1>4. ASSUME NEW c \in GC PROVE Extend(c) \subseteq GC
  <2> SUFFICES ASSUME NEW q \in Next0(c), NEW d \in ChangesOf(trees, c.tree, q),
                      NEW e, e = [changes |-> Put(c.changes, q, d),
                                  tree |-> Apply(trees, c.tree, rev, q, d)]
               PROVE  e \in GC
    OBVIOUS
  <2>1. /\ q \in Paths /\ q \notin DOMAIN c.changes
        /\ \A p \in DOMAIN c.changes : Len(p) <= Len(q)
    OBVIOUS
  <2>2. GoodCommit(rev, c)
    OBVIOUS
  <2> HIDE DEF rev
  <2>3. GoodCommit(rev, e)
    BY <1>1, <1>3, <2>1, <2>2, ExtendIsGood
  <2> QED
    BY <2>3 DEF GoodCommit
<1>5. first \in U
  <2> DEFINE c == [changes |-> <<>>, tree |-> trees[Youngest]]
  <2>1. DOMAIN <<>> = {} /\ <<>> = [p \in {} |-> <<>>[p]]
    BY EmptySeq
  <2>2. <<>> \in ChangesSet
    BY <2>1, ChangesType
  <2>3. Youngest \in 0..rev /\ GoodTree(Youngest, trees[Youngest])
    BY <1>1, <1>3 DEF GoodTrees, RepositoryOK
  <2> HIDE DEF rev
  <2>4. GoodTree(rev, trees[Youngest])
    BY <1>1, <2>3, GoodTreeLater
  <2>5. c \in CommitSet(rev)
    BY <2>2, <2>4 DEF CommitSet, GoodTree
  <2>6. GoodCommit(rev, c)
    BY <2>1, <2>4, <2>5 DEF GoodCommit
  <2> QED
    BY <2>5, <2>6
<1> HIDE DEF rev, Extend, GC, first
<1>6. \A x \in U : Step(x) \in U
  BY <1>4
<1> HIDE DEF Step, U
<1>7. T \in [0..N -> SUBSET U] /\ first \in T[0] /\ \A n \in 0..N : T[n] = U
  BY <1>1, <1>5
<1>8. ASSUME NEW n \in 1..N, NEW x \in T[n - 1]
      PROVE  R[<<n, x>>] = Step(x) /\ R[<<n, x>>] \in T[n] /\ Step(x) \in T[n]
  <2>1. n - 1 \in 0..N /\ n \in 0..N
    BY <1>1
  <2>2. x \in U
    BY <1>7, <2>1
  <2>3. R[<<n, x>>] = Step(x)
    BY <2>2
  <2> HIDE DEF R, T
  <2> QED
    BY <1>6, <1>7, <2>1, <2>2, <2>3
<1>9. PICK g \in [0..N -> U] : Iterated(N, first, R, g) /\ Within(N, T, g)
  <2> HIDE DEF R, T
  <2> QED
    BY <1>1, <1>7, <1>8, Iterates
<1>10. Eq(g)
  <2>1. \A n \in 0..N : n # 0 => n \in 1..N /\ n - 1 \in 0..N
    BY <1>1
  <2>2. ASSUME NEW n \in 1..N PROVE g[n] = Step(g[n - 1])
    <3> HIDE DEF R, T
    <3>1. n - 1 \in 0..N
      BY <1>1
    <3>2. g[n - 1] \in T[n - 1] /\ g[n] = R[<<n, g[n - 1]>>]
      BY <1>9, <3>1 DEF Iterated, Within
    <3> QED
      BY <1>8, <3>2
  <2> QED
    BY <1>9, <2>1, <2>2 DEF Iterated
<1>11. Eq(f)
  <2> HIDE DEF Eq
  <2> QED
    BY <1>10
<1> HIDE DEF f
<1>12. f[0] \in T[0] /\ \A n \in 1..N : f[n - 1] \in T[n - 1] => f[n] \in T[n]
  <2>1. f[0] = first
    BY <1>1, <1>11
  <2> HIDE DEF T, R
  <2>2. ASSUME NEW n \in 1..N PROVE f[n] = Step(f[n - 1])
    <3>1. n \in 0..N /\ n # 0
      BY <1>1
    <3> QED
      BY <1>11, <3>1
  <2> QED
    BY <1>1, <1>7, <1>8, <2>1, <2>2
<1>13. f[N] \in U
  <2>1. N \in 0..N
    BY <1>1
  <2> HIDE DEF T, Eq
  <2>2. \A n \in 0..N : f[n] \in T[n]
    BY <1>1, <1>12, UpTo
  <2> QED
    BY <1>7, <2>1, <2>2
<1> QED
  BY <1>2, <1>13 DEF U, GC, rev

(* The history the programs find.                                          *)
IsPut(e, f, x, v) ==
  /\ DOMAIN e = DOMAIN f \union {x} /\ e[x] = v
  /\ \A y \in DOMAIN f : y # x => e[y] = f[y]
  /\ e = [y \in DOMAIN e |-> e[y]]

LEMMA PutIs ==
  ASSUME NEW f, NEW x, NEW v
  PROVE  IsPut(Put(f, x, v), f, x, v)
  BY DEF Put, IsPut

LEMMA PutIsGood ==
  ASSUME NEW rev, NEW tree, GoodTree(rev, tree), NEW p \in Paths, p # <<>>,
         p \notin DOMAIN tree, IsDirOf(tree, Front(p)), NEW v \in NodeSet(rev),
         NEW e, e = Put(tree, p, v)
  PROVE  GoodTree(rev, e)
<1> DEFINE g == [q \in {p} |-> v]
<1>1. GoodBranch(rev, g, p) /\ e = Over(g, tree)
  BY NewIsGood
<1>2. NoneBelow(tree, p)
  BY AncestorsAreDirs DEF NoneBelow
<1> HIDE DEF g
<1> QED
  BY <1>1, <1>2, GrowIsGood

LEMMA HistoryPaths ==
  /\ <<>> \in Paths /\ <<"a">> \in Paths /\ <<"b">> \in Paths
  /\ <<"a", "x">> \in Paths /\ <<"b", "x">> \in Paths
  /\ <<"a">> # <<>> /\ <<"b">> # <<>> /\ <<"a", "x">> # <<>> /\ <<"b", "x">> # <<>>
  /\ <<"a">> # <<"b">> /\ <<"a">> # <<"a", "x">> /\ <<"a">> # <<"b", "x">>
  /\ <<"b">> # <<"a", "x">> /\ <<"b">> # <<"b", "x">> /\ <<"a", "x">> # <<"b", "x">>
  /\ Front(<<"a">>) = <<>> /\ Front(<<"b">>) = <<>>
  /\ Front(<<"a", "x">>) = <<"a">> /\ Front(<<"b", "x">>) = <<"b">>
<1>1. /\ <<>> \in Paths /\ <<"a">> \in Paths /\ <<"b">> \in Paths
      /\ <<"a", "x">> \in Paths /\ <<"b", "x">> \in Paths
  BY PathsAssumption, SvnIndexAssumption
<1>2. /\ Len(<<"a">>) = 1 /\ Len(<<"b">>) = 1 /\ Len(<<"a", "x">>) = 2 /\ Len(<<"b", "x">>) = 2
      /\ <<"a">>[1] = "a" /\ <<"b">>[1] = "b"
      /\ <<"a", "x">>[1] = "a" /\ <<"b", "x">>[1] = "b"
  OBVIOUS
<1>3. /\ <<"a">> # <<>> /\ <<"b">> # <<>> /\ <<"a", "x">> # <<>> /\ <<"b", "x">> # <<>>
      /\ <<"a">> # <<"b">> /\ <<"a">> # <<"a", "x">> /\ <<"a">> # <<"b", "x">>
      /\ <<"b">> # <<"a", "x">> /\ <<"b">> # <<"b", "x">> /\ <<"a", "x">> # <<"b", "x">>
  OBVIOUS
<1>4. ASSUME NEW p \in Paths, Len(p) = 1 PROVE Front(p) = <<>>
  <2>1. p # <<>>
    BY <1>4, PathType
  <2>2. Front(p) \in Paths /\ Len(Front(p)) = Len(p) - 1
    BY <2>1, FrontIsAbove
  <2>3. Len(Front(p)) = 0
    BY <1>4, <2>2
  <2> QED
    BY <2>2, <2>3, PathType
<1>5. ASSUME NEW p \in Paths, Len(p) = 2, NEW q \in Paths, Len(q) = 1, p[1] = q[1]
      PROVE  Front(p) = q
  <2>1. p # <<>>
    BY <1>5, PathType
  <2>2. /\ Front(p) \in Paths /\ Len(Front(p)) = Len(p) - 1
        /\ \A i \in 1..(Len(p) - 1) : Front(p)[i] = p[i]
    BY <2>1, FrontType
  <2>3. Len(Front(p)) = 1 /\ Front(p)[1] = p[1]
    BY <1>5, <2>2
  <2> QED
    BY <1>5, <2>2, <2>3, PathEqual
<1>6. Front(<<"a">>) = <<>> /\ Front(<<"b">>) = <<>>
  BY <1>1, <1>2, <1>4
<1>7. Front(<<"a", "x">>) = <<"a">> /\ Front(<<"b", "x">>) = <<"b">>
  BY <1>1, <1>2, <1>5
<1> QED
  BY <1>1, <1>3, <1>6, <1>7

LEMMA EmptyIsGood ==
  GoodCommit(0, [changes |-> <<>>, tree |-> Empty]) /\ DOMAIN Empty = {<<>>}
<1>1. DOMAIN <<>> = {} /\ <<>> = [p \in {} |-> <<>>[p]]
  BY EmptySeq
<1>2. <<>> \in ChangesSet
  BY <1>1, ChangesType
<1>3. DOMAIN Empty = {<<>>} /\ Empty[<<>>] = Root /\ Empty = [y \in DOMAIN Empty |-> Empty[y]]
  BY <1>1 DEF Empty, Put
<1>4. Root \in NodeSet(0) /\ Root.kind = "dir"
  BY DEF Root, NodeSet
<1>5. Empty \in TreeSet(0)
  BY <1>3, <1>4, HistoryPaths, TreeType
<1>6. GoodTree(0, Empty)
  BY <1>3, <1>4, <1>5 DEF GoodTree, IsDirOf
<1> QED
  BY <1>1, <1>2, <1>3, <1>5, <1>6 DEF GoodCommit, CommitSet

LEMMA ChangesPut ==
  ASSUME NEW f \in ChangesSet, NEW p \in Paths, NEW c \in ChangeSet
  PROVE  Put(f, p, c) \in ChangesSet
<1> DEFINE e == Put(f, p, c)
<1>1. IsPut(e, f, p, c)
  BY PutIs
<1> HIDE DEF e
<1>2. e \in ChangesSet
  BY <1>1, ChangesType DEF IsPut
<1> QED
  BY <1>2 DEF e

LEMMA TrunkIsGood ==
  /\ GoodCommit(1, [changes |-> Import, tree |-> Trunk])
  /\ DOMAIN Trunk = {<<>>, <<"a">>, <<"a", "x">>}
  /\ Trunk[<<"a">>] = Root /\ Trunk[<<"a", "x">>] = [kind |-> "file", props |-> 1, text |-> 1]
<1> USE HistoryPaths
<1> DEFINE leaf == [kind |-> "file", props |-> 1, text |-> 1]
           mid == Put(Empty, <<"a">>, Root)
           first == Put(<<>>, <<"a">>, Change("add", "dir", NoSource, "none"))
<1>1. Root \in NodeSet(1) /\ leaf \in NodeSet(1) /\ Root.kind = "dir" /\ leaf.kind = "file"
  BY DEF Root, NodeSet
<1>2. GoodTree(1, Empty) /\ IsDirOf(Empty, <<>>)
  <2>1. GoodTree(0, Empty)
    BY EmptyIsGood DEF GoodCommit
  <2>2. GoodTree(1, Empty)
    BY <2>1, GoodTreeLater
  <2> QED
    BY <2>2 DEF GoodTree
<1>3. GoodTree(1, mid)
  BY <1>1, <1>2, EmptyIsGood, PutIsGood
<1>4. /\ DOMAIN mid = {<<>>, <<"a">>} /\ mid[<<"a">>] = Root
  <2>1. IsPut(mid, Empty, <<"a">>, Root)
    BY PutIs
  <2> HIDE DEF mid
  <2> QED
    BY <2>1, EmptyIsGood DEF IsPut
<1>5. Trunk = Put(mid, <<"a", "x">>, leaf)
  BY DEF Trunk
<1> HIDE DEF mid, leaf
<1>6. IsDirOf(mid, <<"a">>) /\ <<"a", "x">> \notin DOMAIN mid
  BY <1>1, <1>4 DEF IsDirOf
<1>7. GoodTree(1, Trunk)
  BY <1>1, <1>3, <1>5, <1>6, PutIsGood
<1>8. /\ DOMAIN Trunk = {<<>>, <<"a">>, <<"a", "x">>}
      /\ Trunk[<<"a">>] = Root /\ Trunk[<<"a", "x">>] = leaf
  <2>1. IsPut(Trunk, mid, <<"a", "x">>, leaf)
    BY <1>5, PutIs
  <2> QED
    BY <1>4, <2>1 DEF IsPut
<1>9. /\ Change("add", "dir", NoSource, "none") \in ChangeSet
      /\ Change("add", "dir", NoSource, "none").act = "add"
      /\ Change("add", "dir", NoSource, "none").kind = "dir"
      /\ Change("add", "file", NoSource, "props") \in ChangeSet
      /\ Change("add", "file", NoSource, "props").act = "add"
      /\ Change("add", "file", NoSource, "props").kind = "file"
  BY SourceType DEF Change, ChangeSet, Acts, Kinds
<1>10. Import = Put(first, <<"a", "x">>, Change("add", "file", NoSource, "props"))
  BY DEF Import
<1>11. DOMAIN first = {<<"a">>} /\ first[<<"a">>] = Change("add", "dir", NoSource, "none")
  <2>1. DOMAIN <<>> = {}
    BY EmptySeq
  <2>2. IsPut(first, <<>>, <<"a">>, Change("add", "dir", NoSource, "none"))
    BY PutIs
  <2> HIDE DEF first
  <2> QED
    BY <2>1, <2>2 DEF IsPut
<1>12. first \in ChangesSet
  <2>1. <<>> \in ChangesSet
    BY EmptyIsGood DEF GoodCommit, CommitSet
  <2> QED
    BY <1>9, <2>1, ChangesPut
<1> HIDE DEF first
<1>13. Import \in ChangesSet
  BY <1>9, <1>10, <1>12, ChangesPut
<1>14. /\ DOMAIN Import = {<<"a">>, <<"a", "x">>}
       /\ Import[<<"a">>] = Change("add", "dir", NoSource, "none")
       /\ Import[<<"a", "x">>] = Change("add", "file", NoSource, "props")
  <2>1. IsPut(Import, first, <<"a", "x">>, Change("add", "file", NoSource, "props"))
    BY <1>10, PutIs
  <2> QED
    BY <1>11, <2>1 DEF IsPut
<1>15. IsDirOf(Trunk, <<>>) /\ IsDirOf(Trunk, <<"a">>)
  BY <1>1, <1>7, <1>8 DEF GoodTree, IsDirOf
<1>16. ChangeHeld(Trunk, <<"a">>, Import[<<"a">>])
  BY <1>1, <1>8, <1>9, <1>14, <1>15 DEF ChangeHeld, Holds
<1>17. ChangeHeld(Trunk, <<"a", "x">>, Import[<<"a", "x">>])
  BY <1>1, <1>8, <1>9, <1>14, <1>15 DEF ChangeHeld, Holds
<1>18. [changes |-> Import, tree |-> Trunk] \in CommitSet(1)
  BY <1>7, <1>13 DEF CommitSet, GoodTree
<1>19. GoodCommit(1, [changes |-> Import, tree |-> Trunk])
  BY <1>7, <1>14, <1>16, <1>17, <1>18 DEF GoodCommit
<1> QED
  BY <1>8, <1>19 DEF leaf

LEMMA BranchedIsGood ==
  GoodCommit(2, [changes |-> Branch, tree |-> Branched])
<1> USE HistoryPaths
<1> DEFINE leaf == Trunk[<<"a", "x">>]
           mid == Put(Trunk, <<"b">>, Trunk[<<"a">>])
           copy == Change("add", "dir", [rev |-> 1, path |-> <<"a">>], "none")
<1>1. /\ DOMAIN Trunk = {<<>>, <<"a">>, <<"a", "x">>} /\ Trunk[<<"a">>] = Root
      /\ Root \in NodeSet(2) /\ Root.kind = "dir" /\ leaf \in NodeSet(2)
  BY TrunkIsGood DEF Root, NodeSet
<1>2. GoodTree(2, Trunk) /\ IsDirOf(Trunk, <<>>)
  <2>1. GoodTree(1, Trunk)
    BY TrunkIsGood DEF GoodCommit
  <2>2. GoodTree(2, Trunk)
    BY <2>1, GoodTreeLater
  <2> QED
    BY <2>2 DEF GoodTree
<1>3. GoodTree(2, mid)
  BY <1>1, <1>2, PutIsGood
<1>4. DOMAIN mid = {<<>>, <<"a">>, <<"a", "x">>, <<"b">>} /\ mid[<<"b">>] = Root
  <2>1. IsPut(mid, Trunk, <<"b">>, Trunk[<<"a">>])
    BY PutIs
  <2> HIDE DEF mid
  <2> QED
    BY <1>1, <2>1 DEF IsPut
<1>5. Branched = Put(mid, <<"b", "x">>, leaf)
  BY DEF Branched
<1> HIDE DEF mid, leaf
<1>6. IsDirOf(mid, <<"b">>) /\ <<"b", "x">> \notin DOMAIN mid
  BY <1>1, <1>4 DEF IsDirOf
<1>7. GoodTree(2, Branched)
  BY <1>1, <1>3, <1>5, <1>6, PutIsGood
<1>8. <<"b">> \in DOMAIN Branched /\ Branched[<<"b">>] = Root
  <2>1. IsPut(Branched, mid, <<"b", "x">>, leaf)
    BY <1>5, PutIs
  <2> QED
    BY <1>4, <2>1 DEF IsPut
<1>9. copy \in ChangeSet /\ copy.act = "add" /\ copy.kind = "dir"
  <2>1. [rev |-> 1, path |-> <<"a">>] \in SourceSet
    BY DEF SourceSet
  <2> QED
    BY <2>1 DEF Change, ChangeSet, Acts, Kinds
<1>10. Branch = Put(<<>>, <<"b">>, copy)
  BY DEF Branch
<1> HIDE DEF copy
<1>11. DOMAIN Branch = {<<"b">>} /\ Branch[<<"b">>] = copy
  <2>1. DOMAIN <<>> = {}
    BY EmptySeq
  <2>2. IsPut(Branch, <<>>, <<"b">>, copy)
    BY <1>10, PutIs
  <2> QED
    BY <2>1, <2>2 DEF IsPut
<1>12. Branch \in ChangesSet
  <2>1. <<>> \in ChangesSet
    BY EmptyIsGood DEF GoodCommit, CommitSet
  <2> QED
    BY <1>9, <1>10, <2>1, ChangesPut
<1>13. ChangeHeld(Branched, <<"b">>, Branch[<<"b">>])
  BY <1>1, <1>7, <1>8, <1>9, <1>11 DEF ChangeHeld, Holds, GoodTree
<1>14. [changes |-> Branch, tree |-> Branched] \in CommitSet(2)
  BY <1>7, <1>12 DEF CommitSet, GoodTree
<1> QED
  BY <1>7, <1>11, <1>13, <1>14 DEF GoodCommit

LEMMA HistoryIsOK ==
  ASSUME repository = History
  PROVE  RepositoryOK /\ Youngest = 2
<1>1. DOMAIN repository = 0..2
  BY DEF History
<1> DEFINE two == 2
<1>2. two \in Nat /\ two = 2 /\ DOMAIN repository = 0..two
  BY <1>1
<1> HIDE DEF two
<1>3. Youngest = 2
  <2>1. Cardinality(0..two) = two - 0 + 1
    <3>1. 0 \in Int /\ two \in Int /\ 0 <= two
      BY <1>2
    <3> QED
      BY <3>1, FS_Interval
  <2>2. Youngest = Cardinality(0..two) - 1
    BY <1>2 DEF Youngest
  <2> QED
    BY <1>2, <2>1, <2>2
<1>4. /\ repository[0] = [changes |-> <<>>, tree |-> Empty]
      /\ repository[1] = [changes |-> Import, tree |-> Trunk]
      /\ repository[2] = [changes |-> Branch, tree |-> Branched]
  BY DEF History
<1>5. \A r \in 0..2 : GoodCommit(r, repository[r])
  <2>1. \A r \in 0..2 : r = 0 \/ r = 1 \/ r = 2
    OBVIOUS
  <2>2. GoodCommit(0, repository[0]) /\ GoodCommit(1, repository[1]) /\ GoodCommit(2, repository[2])
    BY <1>4, EmptyIsGood, TrunkIsGood, BranchedIsGood
  <2> QED
    BY <2>1, <2>2
<1>6. DOMAIN repository[0].changes = {}
  BY <1>4, EmptySeq
<1> QED
  BY <1>1, <1>3, <1>5, <1>6, SvnIndexAssumption DEF RepositoryOK

LEMMA CommitKeeps ==
  ASSUME RepositoryOK, Commit
  PROVE  /\ RepositoryOK' /\ Youngest' = Youngest + 1
         /\ \A r \in 0..Youngest : repository'[r] = repository[r]
<1>1. PICK c \in Commits : repository' = Put(repository, Youngest + 1, c)
  BY DEF Commit
<1>2. /\ Youngest \in Nat /\ Youngest < MaxRev /\ DOMAIN repository = 0..Youngest
      /\ \A r \in 0..Youngest : GoodCommit(r, repository[r])
      /\ DOMAIN repository[0].changes = {}
  BY DEF RepositoryOK, Commit
<1>3. GoodCommit(Youngest + 1, c)
  BY CommitsAreGood
<1>4. /\ DOMAIN repository' = DOMAIN repository \union {Youngest + 1}
      /\ repository'[Youngest + 1] = c
      /\ \A r \in DOMAIN repository : r # Youngest + 1 => repository'[r] = repository[r]
  <2>1. IsPut(repository', repository, Youngest + 1, c)
    BY <1>1, PutIs
  <2> QED
    BY <2>1 DEF IsPut
<1>5. DOMAIN repository' = 0..(Youngest + 1)
  BY <1>2, <1>4
<1>6. Youngest' = Youngest + 1
  <2>1. Cardinality(0..(Youngest + 1)) = Youngest + 2
    <3>1. 0 \in Int /\ Youngest + 1 \in Int /\ 0 <= Youngest + 1
      BY <1>2
    <3>2. Cardinality(0..(Youngest + 1)) = (Youngest + 1) - 0 + 1
      BY <3>1, FS_Interval
    <3> QED
      BY <1>2, <3>2
  <2>2. Youngest' = Cardinality(DOMAIN repository') - 1
    BY DEF Youngest
  <2> QED
    BY <1>2, <1>5, <2>1, <2>2
<1>7. \A r \in 0..Youngest : repository'[r] = repository[r]
  BY <1>2, <1>4
<1>8. \A r \in 0..(Youngest + 1) : GoodCommit(r, repository'[r])
  <2>1. \A r \in 0..(Youngest + 1) : r \in 0..Youngest \/ r = Youngest + 1
    BY <1>2
  <2> QED
    BY <1>2, <1>3, <1>4, <1>7, <2>1
<1>9. DOMAIN repository'[0].changes = {}
  BY <1>2, <1>7
<1>10. Youngest + 1 \in Nat /\ Youngest + 1 <= MaxRev
  BY <1>2, SvnIndexAssumption
<1>11. RepositoryOK'
  BY <1>5, <1>6, <1>8, <1>9, <1>10 DEF RepositoryOK
<1> QED
  BY <1>6, <1>7, <1>11

-----------------------------------------------------------------------------
(* The programs and the database.                                          *)

\* Revisions 0..n-1 are in the database, and their records are well formed.
DbOK(n, d) ==
  /\ DOMAIN d = 0..(n - 1)
  /\ \A r \in 0..(n - 1) :
       /\ d[r] \in Seq(RowSet) /\ NoTwins(d[r])
       /\ \A k \in DOMAIN d[r] : RowOK(d, r, d[r][k])

ProgramSet == [pc : {"idle", "loop", "open"}, rev : Nat, end : Nat]

ProgramOK(x, youngest) == x \in ProgramSet /\ x.end <= youngest /\ x.rev <= x.end + 1

\* A program in a transaction holds the revision after those of the database,
\* and no other program is in one.
OpenOK(n, i) == idx[i].pc = "open" =>
  /\ idx[i].rev = n /\ n <= idx[i].end
  /\ \A j \in Indexers \ {i} : idx[j].pc # "open"

ProgramsOK(n) ==
  /\ idx = [i \in Indexers |-> idx[i]]
  /\ \A i \in Indexers : ProgramOK(idx[i], Youngest) /\ OpenOK(n, i)
  /\ stops \in 0..MaxStops

IInv ==
  /\ RepositoryOK
  /\ \E n \in 0..(Youngest + 1) : DbOK(n, db) /\ ProgramsOK(n)

LEMMA IdleOK ==
  ASSUME NEW y \in Nat
  PROVE  ProgramOK(Idle, y) /\ Idle.pc = "idle"
  BY DEF ProgramOK, Idle, ProgramSet

LEMMA DbYoungestIs ==
  ASSUME NEW n \in Nat, DbOK(n, db)
  PROVE  DbYoungest = n - 1
<1>1. DOMAIN db = 0..(n - 1)
  BY DEF DbOK
<1>2. CASE n = 0
  BY <1>1, <1>2 DEF DbYoungest
<1>3. CASE n # 0
  <2>1. n - 1 \in 0..(n - 1) /\ \A s \in 0..(n - 1) : s <= n - 1
    BY <1>3
  <2>2. \A r \in 0..(n - 1) : (\A s \in 0..(n - 1) : s <= r) => r = n - 1
    BY <2>1
  <2>3. DbYoungest = CHOOSE r \in 0..(n - 1) : \A s \in 0..(n - 1) : s <= r
    BY <1>1, <2>1 DEF DbYoungest
  <2> QED
    BY <2>1, <2>2, <2>3
<1> QED
  BY <1>2, <1>3

LEMMA InitOK ==
  ASSUME Init
  PROVE  IInv
<1>1. RepositoryOK /\ Youngest = 2
  BY HistoryIsOK DEF Init
<1>2. DbOK(0, db)
  <2>1. DOMAIN db = {}
    BY EmptySeq DEF Init
  <2> QED
    BY <2>1 DEF DbOK
<1>3. ProgramsOK(0)
  <2>1. \A i \in Indexers : idx[i] = Idle
    BY DEF Init
  <2>2. ProgramOK(Idle, Youngest) /\ Idle.pc = "idle"
    BY <1>1, IdleOK
  <2>3. idx = [i \in Indexers |-> idx[i]] /\ stops \in 0..MaxStops
    BY SvnIndexAssumption DEF Init
  <2> QED
    BY <2>1, <2>2, <2>3 DEF ProgramsOK, OpenOK
<1>4. 0 \in 0..(Youngest + 1)
  BY <1>1
<1> QED
  BY <1>1, <1>2, <1>3, <1>4 DEF IInv

(* The database when a transaction has created its revision.               *)
FirstOK(rows) ==
  /\ rows \in Seq(RowSet) /\ NoTwins(rows)
  /\ \A k \in DOMAIN rows :
       rows[k].children = {} /\ rows[k].props = 0 /\ rows[k].text = 0

LEMMA FirstRows ==
  FirstOK(<<>>) /\ FirstOK(<<RootRow>>)
<1>1. RootRow \in RowSet /\ RootRow.children = {} /\ RootRow.props = 0 /\ RootRow.text = 0
  BY PathsAssumption DEF RootRow, RowSet, Kinds, Actions
<1>2. FirstOK(<<>>)
  BY EmptySeq DEF FirstOK, NoTwins
<1> DEFINE rows == <<RootRow>>
<1>3. rows \in Seq(RowSet) /\ DOMAIN rows = {1} /\ rows[1] = RootRow
  BY <1>1
<1> HIDE DEF rows
<1>4. FirstOK(rows)
  BY <1>1, <1>3 DEF FirstOK, NoTwins
<1> QED
  BY <1>2, <1>4 DEF rows

LEMMA BegunIsOK ==
  ASSUME NEW n \in Nat, NEW d, DbOK(n, d), NEW rows, FirstOK(rows),
         NEW e, e = Put(d, n, rows)
  PROVE  /\ e \in Databases(n) /\ RowsOK(n, e) /\ e[n] = rows
         /\ \A r \in 0..(n - 1) : e[r] = d[r] /\ NoTwins(e[r])
<1>1. /\ DOMAIN d = 0..(n - 1)
      /\ \A r \in 0..(n - 1) : d[r] \in Seq(RowSet) /\ NoTwins(d[r])
      /\ \A r \in 0..(n - 1) : \A k \in DOMAIN d[r] : RowOK(d, r, d[r][k])
  BY DEF DbOK
<1>2. /\ DOMAIN e = DOMAIN d \union {n} /\ e[n] = rows
      /\ \A r \in DOMAIN d : r # n => e[r] = d[r]
      /\ e = [r \in DOMAIN e |-> e[r]]
  <2>1. IsPut(e, d, n, rows)
    BY PutIs
  <2> QED
    BY <2>1 DEF IsPut
<1>3. DOMAIN e = 0..n /\ \A r \in 0..(n - 1) : e[r] = d[r]
  BY <1>1, <1>2
<1>4. \A r \in 0..n : r \in 0..(n - 1) \/ r = n
  OBVIOUS
<1>5. e \in Databases(n)
  <2>1. \A r \in 0..n : e[r] \in Seq(RowSet)
    BY <1>1, <1>2, <1>3, <1>4 DEF FirstOK
  <2> QED
    BY <1>2, <1>3, <2>1 DEF Databases
<1>6. IdsOf(d) \subseteq IdsOf(e)
  BY <1>1, <1>3 DEF IdsOf
<1>7. ASSUME NEW r \in 0..n, NEW k \in DOMAIN e[r] PROVE RowOK(e, r, e[r][k])
  <2>1. CASE r \in 0..(n - 1)
    <3>1. RowOK(d, r, e[r][k])
      BY <1>1, <1>3, <1>7, <2>1
    <3> QED
      BY <1>6, <3>1 DEF RowOK
  <2>2. CASE r = n
    <3>1. e[r][k].children = {} /\ e[r][k].props = 0 /\ e[r][k].text = 0
      BY <1>2, <1>7, <2>2 DEF FirstOK
    <3> QED
      BY <2>2, <3>1 DEF RowOK
  <2> QED
    BY <1>4, <2>1, <2>2
<1>8. RowsOK(n, e)
  BY <1>7 DEF RowsOK
<1> QED
  BY <1>1, <1>2, <1>3, <1>5, <1>8

(* The database when it commits.                                           *)
LEMMA RevisionIsIndexed ==
  ASSUME NEW n \in Nat, NEW d, DbOK(n, d), RepositoryOK, n <= Youngest,
         NEW e, e = IndexNodes(trees, Put(d, n, IF n = 0 THEN <<RootRow>> ELSE <<>>),
                               n, repository[n].changes)
  PROVE  DbOK(n + 1, e) /\ \A r \in 0..(n - 1) : e[r] = d[r]
<1> DEFINE rows == IF n = 0 THEN <<RootRow>> ELSE <<>>
           begun == Put(d, n, rows)
           changes == repository[n].changes
<1>1. FirstOK(rows)
  BY FirstRows
<1>2. n \in 0..Youngest /\ GoodCommit(n, repository[n]) /\ trees[n] = repository[n].tree
  BY DEF RepositoryOK, trees
<1>3. ChangesOK(trees, n, changes)
  BY <1>2, GoodCommitFits
<1>4. n # 0 => rows = <<>>
  OBVIOUS
<1>5. n = 0 => DOMAIN changes = {}
  BY DEF RepositoryOK
<1>6. e = IndexNodes(trees, begun, n, changes)
  OBVIOUS
<1> HIDE DEF rows
<1>7. /\ begun \in Databases(n) /\ RowsOK(n, begun) /\ begun[n] = rows
      /\ \A r \in 0..(n - 1) : begun[r] = d[r] /\ NoTwins(begun[r])
  BY <1>1, BegunIsOK
<1> HIDE DEF begun, changes
<1>8. /\ e \in Databases(n) /\ RowsOK(n, e) /\ NoTwins(e[n])
      /\ \A r \in 0..(n - 1) : e[r] = begun[r]
  <2>1. CASE n = 0
    <3>1. e = begun
      BY <1>5, <1>6, <2>1, IndexNothing
    <3> QED
      BY <1>1, <1>7, <3>1 DEF FirstOK
  <2>2. CASE n # 0
    <3>1. begun[n] = <<>> /\ DOMAIN begun[n] = {}
      BY <1>4, <1>7, <2>2, EmptySeq
    <3>2. DirsAbove(DOMAIN changes, begun[n]) /\ AboveDone({}, begun[n]) /\ NoTwins(begun[n])
      BY <3>1 DEF DirsAbove, AboveDone, NoTwins
    <3>3. DOMAIN changes \in SUBSET Paths
      BY <1>3 DEF ChangesOK
    <3>4. Indexed(n, DOMAIN changes, {}, begun)
      BY <1>7, <3>2, <3>3 DEF Indexed
    <3>5. Indexed(n, DOMAIN changes, DOMAIN changes, e) /\ EarlierStay(n, begun, e)
      BY <1>3, <1>6, <3>4, IndexNodesIndexes
    <3> QED
      BY <3>5 DEF Indexed, EarlierStay
  <2> QED
    BY <2>1, <2>2
<1>9. DOMAIN e = 0..n /\ \A r \in 0..n : e[r] \in Seq(RowSet)
  BY <1>8 DEF Databases
<1>10. \A r \in 0..n : NoTwins(e[r]) /\ \A k \in DOMAIN e[r] : RowOK(e, r, e[r][k])
  <2>1. \A r \in 0..n : r \in 0..(n - 1) \/ r = n
    OBVIOUS
  <2> QED
    BY <1>7, <1>8, <2>1 DEF RowsOK
<1> DEFINE m == n + 1
<1>11. m - 1 = n
  OBVIOUS
<1> HIDE DEF m
<1>12. DbOK(m, e)
  BY <1>9, <1>10, <1>11 DEF DbOK
<1> QED
  BY <1>7, <1>8, <1>12 DEF m

-----------------------------------------------------------------------------
(* Every step keeps the invariant.                                         *)

LEMMA CommitOK ==
  ASSUME IInv, Commit
  PROVE  IInv' /\ db' = db
<1>1. PICK n \in 0..(Youngest + 1) : DbOK(n, db) /\ ProgramsOK(n)
  BY DEF IInv
<1>2. RepositoryOK /\ Youngest \in Nat
  BY DEF IInv, RepositoryOK
<1>3. RepositoryOK' /\ Youngest' = Youngest + 1
  BY <1>2, CommitKeeps
<1>4. db' = db /\ idx' = idx /\ stops' = stops
  BY DEF Commit
<1>5. \A i \in Indexers : ProgramOK(idx[i], Youngest) /\ OpenOK(n, i)
  BY <1>1 DEF ProgramsOK
<1>6. \A i \in Indexers : ProgramOK(idx'[i], Youngest')
  BY <1>2, <1>3, <1>4, <1>5 DEF ProgramOK, ProgramSet
<1>7. \A i \in Indexers : OpenOK(n, i)'
  BY <1>4, <1>5 DEF OpenOK
<1>8. ProgramsOK(n)'
  BY <1>1, <1>4, <1>6, <1>7 DEF ProgramsOK
<1>9. n \in 0..(Youngest' + 1)
  BY <1>2, <1>3
<1> QED
  BY <1>1, <1>3, <1>4, <1>8, <1>9 DEF IInv

\* What the steps of one program have in common.
Moves(i, x) ==
  /\ idx' = [idx EXCEPT ![i] = x]
  /\ stops' \in 0..MaxStops
  /\ UNCHANGED repository

LEMMA MoveOK ==
  ASSUME IInv, NEW n \in Nat, ProgramsOK(n), NEW i \in Indexers, NEW x, Moves(i, x),
         ProgramOK(x, Youngest), NEW m,
         x.pc = "open" => /\ x.rev = m /\ m <= x.end
                          /\ \A j \in Indexers \ {i} : idx[j].pc # "open",
         m = n \/ \A j \in Indexers \ {i} : idx[j].pc # "open"
  PROVE  ProgramsOK(m)' /\ RepositoryOK' /\ Youngest' = Youngest
<1>1. repository' = repository
  BY DEF Moves
<1>2. RepositoryOK' /\ Youngest' = Youngest
  BY <1>1 DEF IInv, RepositoryOK, Youngest
<1>3. /\ idx = [j \in Indexers |-> idx[j]]
      /\ \A j \in Indexers : ProgramOK(idx[j], Youngest) /\ OpenOK(n, j)
  BY DEF ProgramsOK
<1>4. /\ idx'[i] = x /\ \A j \in Indexers \ {i} : idx'[j] = idx[j]
      /\ idx' = [j \in Indexers |-> idx'[j]]
  BY <1>3 DEF Moves
<1>5. \A j \in Indexers : ProgramOK(idx'[j], Youngest')
  <2>1. \A j \in Indexers \ {i} : ProgramOK(idx'[j], Youngest)
    BY <1>3, <1>4
  <2> QED
    BY <1>2, <1>4, <2>1
<1>6. OpenOK(m, i)'
  BY <1>4 DEF OpenOK
<1>7. ASSUME NEW j \in Indexers \ {i} PROVE OpenOK(m, j)'
  <2> SUFFICES ASSUME idx'[j].pc = "open"
               PROVE  /\ idx'[j].rev = m /\ m <= idx'[j].end
                      /\ \A k \in Indexers \ {j} : idx'[k].pc # "open"
    BY DEF OpenOK
  <2>1. idx[j].pc = "open" /\ idx'[j] = idx[j] /\ j \in Indexers
    BY <1>4
  <2>2. m = n /\ x.pc # "open"
    BY <2>1
  <2>3. idx[j].rev = n /\ n <= idx[j].end /\ \A k \in Indexers \ {j} : idx[k].pc # "open"
    BY <1>3, <2>1 DEF OpenOK
  <2>4. ASSUME NEW k \in Indexers \ {j} PROVE idx'[k].pc # "open"
    BY <1>4, <2>2, <2>3
  <2> QED
    BY <2>1, <2>2, <2>3, <2>4
<1>8. \A j \in Indexers : OpenOK(m, j)'
  BY <1>6, <1>7
<1>9. ProgramsOK(m)'
  BY <1>4, <1>5, <1>8 DEF ProgramsOK, Moves
<1> QED
  BY <1>2, <1>9

\* A step of a program that leaves the database alone.
LEMMA StepOK ==
  ASSUME IInv, NEW n \in 0..(Youngest + 1), DbOK(n, db), ProgramsOK(n),
         NEW i \in Indexers, NEW x, Moves(i, x), db' = db, ProgramOK(x, Youngest),
         x.pc = "open" => /\ x.rev = n /\ n <= x.end
                          /\ \A j \in Indexers \ {i} : idx[j].pc # "open"
  PROVE  IInv'
<1>1. Youngest \in Nat /\ n \in Nat
  BY DEF IInv, RepositoryOK
<1>2. ProgramsOK(n)' /\ RepositoryOK' /\ Youngest' = Youngest
  BY <1>1, MoveOK
<1> QED
  BY <1>2 DEF IInv

LEMMA ProgramType ==
  ASSUME NEW n, ProgramsOK(n), NEW i \in Indexers
  PROVE  /\ idx[i] \in ProgramSet /\ ProgramOK(idx[i], Youngest) /\ OpenOK(n, i)
         /\ i \in DOMAIN idx /\ stops \in 0..MaxStops
  BY DEF ProgramsOK, ProgramOK

LEMMA ProgramStepOK ==
  ASSUME IInv, NEW i \in Indexers,
         Start(i) \/ StartRange(i) \/ CreateRevision(i) \/ Finish(i) \/ Stop(i)
  PROVE  IInv' /\ db' = db
<1>1. PICK n \in 0..(Youngest + 1) : DbOK(n, db) /\ ProgramsOK(n)
  BY DEF IInv
<1>2. Youngest \in Nat /\ n \in Nat /\ DOMAIN repository = 0..Youngest
  BY DEF IInv, RepositoryOK
<1>3. /\ idx[i] \in ProgramSet /\ ProgramOK(idx[i], Youngest) /\ OpenOK(n, i)
      /\ i \in DOMAIN idx /\ stops \in 0..MaxStops
  BY <1>1, ProgramType
<1>4. ProgramOK(Idle, Youngest) /\ Idle.pc # "open"
  BY <1>2, IdleOK
<1>5. DOMAIN db = 0..(n - 1)
  BY <1>1 DEF DbOK
<1>6. CASE Start(i)
  <2> DEFINE x == [pc |-> "loop", rev |-> DbYoungest + 1, end |-> Youngest]
  <2>1. DbYoungest + 1 = n /\ n <= Youngest
    BY <1>1, <1>2, <1>6, DbYoungestIs DEF Start
  <2>2. ProgramOK(x, Youngest) /\ x.pc # "open"
    BY <1>2, <2>1 DEF ProgramOK, ProgramSet
  <2>3. Moves(i, x) /\ db' = db
    BY <1>3, <1>6 DEF Start, Moves
  <2> HIDE DEF x
  <2> QED
    BY <1>1, <2>2, <2>3, StepOK
<1>7. CASE StartRange(i)
  <2>1. PICK lower \in DOMAIN repository, upper \in DOMAIN repository :
          /\ lower <= upper
          /\ idx' = [idx EXCEPT ![i] = [pc |-> "loop", rev |-> lower, end |-> upper]]
    BY <1>7 DEF StartRange
  <2> DEFINE x == [pc |-> "loop", rev |-> lower, end |-> upper]
  <2>2. ProgramOK(x, Youngest) /\ x.pc # "open"
    BY <1>2, <2>1 DEF ProgramOK, ProgramSet
  <2>3. Moves(i, x) /\ db' = db
    BY <1>3, <1>7, <2>1 DEF StartRange, Moves
  <2> HIDE DEF x
  <2> QED
    BY <1>1, <2>2, <2>3, StepOK
<1>8. CASE CreateRevision(i)
  <2> DEFINE x == IF Accepted(idx[i].rev) THEN [idx[i] EXCEPT !.pc = "open"] ELSE Idle
  <2>1. Moves(i, x) /\ db' = db
    BY <1>3, <1>8 DEF CreateRevision, Moves
  <2>2. CASE Accepted(idx[i].rev)
    <3>1. x = [idx[i] EXCEPT !.pc = "open"]
      BY <2>2
    <3>2. x \in ProgramSet /\ x.pc = "open" /\ x.rev = idx[i].rev /\ x.end = idx[i].end
      BY <1>3, <3>1 DEF ProgramSet
    <3>3. ProgramOK(x, Youngest)
      BY <1>3, <3>2 DEF ProgramOK
    <3>4. idx[i].rev \in Nat
      BY <1>3 DEF ProgramSet
    <3>5. idx[i].rev = n
      BY <1>2, <1>5, <2>2, <3>4 DEF Accepted
    <3>6. n <= x.end
      BY <1>8, <3>2, <3>5 DEF CreateRevision
    <3>7. ASSUME NEW j \in Indexers \ {i} PROVE idx[j].pc # "open"
      <4>1. idx[j].pc = "open" => idx[j].rev = n
        BY <1>1, ProgramType DEF OpenOK
      <4>2. ~ (idx[j].pc = "open" /\ idx[j].rev = n)
        BY <1>8, <3>5 DEF CreateRevision, Free
      <4> QED
        BY <4>1, <4>2
    <3> HIDE DEF x
    <3> QED
      BY <1>1, <2>1, <3>2, <3>3, <3>5, <3>6, <3>7, StepOK
  <2>3. CASE ~ Accepted(idx[i].rev)
    <3>1. x = Idle
      BY <2>3
    <3> HIDE DEF x
    <3> QED
      BY <1>1, <1>4, <2>1, <3>1, StepOK
  <2> QED
    BY <2>2, <2>3
<1>9. CASE Finish(i)
  <2>1. Moves(i, Idle) /\ db' = db
    BY <1>3, <1>9 DEF Finish, Moves
  <2> QED
    BY <1>1, <1>4, <2>1, StepOK
<1>10. CASE Stop(i)
  <2>1. stops + 1 \in 0..MaxStops
    BY <1>3, <1>10, SvnIndexAssumption DEF Stop
  <2>2. Moves(i, Idle) /\ db' = db
    BY <1>10, <2>1 DEF Stop, Moves
  <2> QED
    BY <1>1, <1>4, <2>2, StepOK
<1> QED
  BY <1>6, <1>7, <1>8, <1>9, <1>10

LEMMA IndexRevisionOK ==
  ASSUME IInv, NEW i \in Indexers, IndexRevision(i)
  PROVE  IInv' /\ \A r \in DOMAIN db : r \in DOMAIN db' /\ db'[r] = db[r]
<1>1. PICK n \in 0..(Youngest + 1) : DbOK(n, db) /\ ProgramsOK(n)
  BY DEF IInv
<1>2. Youngest \in Nat /\ n \in Nat /\ RepositoryOK
  BY DEF IInv, RepositoryOK
<1>3. /\ idx[i] \in ProgramSet /\ ProgramOK(idx[i], Youngest) /\ OpenOK(n, i)
      /\ i \in DOMAIN idx /\ stops \in 0..MaxStops
  BY <1>1, ProgramType
<1>4. idx[i].pc = "open"
  BY DEF IndexRevision, CommitRevision
<1>5. /\ idx[i].rev = n /\ n <= idx[i].end
      /\ \A j \in Indexers \ {i} : idx[j].pc # "open"
  BY <1>3, <1>4 DEF OpenOK
<1>6. n <= Youngest
  BY <1>2, <1>3, <1>5 DEF ProgramOK, ProgramSet
<1>7. db' = IndexNodes(trees, Put(db, n, IF n = 0 THEN <<RootRow>> ELSE <<>>),
                       n, repository[n].changes)
  BY <1>5 DEF IndexRevision
<1>8. DbOK(n + 1, db') /\ \A r \in 0..(n - 1) : db'[r] = db[r]
  BY <1>1, <1>2, <1>6, <1>7, RevisionIsIndexed
<1> DEFINE x == [idx[i] EXCEPT !.pc = "loop", !.rev = @ + 1]
<1>9. Moves(i, x)
  <2>1. idx' = [idx EXCEPT ![i] = x]
    BY <1>1, <1>3 DEF IndexRevision, CommitRevision, ProgramsOK, ProgramSet
  <2>2. stops' \in 0..MaxStops /\ UNCHANGED repository
    BY <1>3 DEF IndexRevision, CommitRevision
  <2> HIDE DEF x
  <2> QED
    BY <2>1, <2>2 DEF Moves
<1>10. x \in ProgramSet /\ x.pc = "loop" /\ x.rev = n + 1 /\ x.end = idx[i].end
  <2> DEFINE y == idx[i]
  <2>1. /\ y = [pc |-> y.pc, rev |-> y.rev, end |-> y.end]
        /\ y.rev = n /\ y.end \in Nat /\ DOMAIN y = {"pc", "rev", "end"}
    BY <1>3, <1>5 DEF ProgramSet
  <2>2. x = [[y EXCEPT !.pc = "loop"] EXCEPT !.rev = n + 1]
    BY <1>5
  <2> HIDE DEF y, x
  <2>3. x = [pc |-> "loop", rev |-> n + 1, end |-> y.end]
    BY <2>1, <2>2
  <2> QED
    BY <1>2, <2>1, <2>3 DEF ProgramSet, y
<1> HIDE DEF x
<1>11. ProgramOK(x, Youngest)
  BY <1>2, <1>3, <1>5, <1>10 DEF ProgramOK, ProgramSet
<1>12. ProgramsOK(n + 1)' /\ RepositoryOK' /\ Youngest' = Youngest
  BY <1>1, <1>2, <1>5, <1>9, <1>10, <1>11, MoveOK
<1>13. n + 1 \in 0..(Youngest' + 1)
  BY <1>2, <1>6, <1>12
<1>14. IInv'
  BY <1>8, <1>12, <1>13 DEF IInv
<1>15. DOMAIN db = 0..(n - 1) /\ DOMAIN db' = 0..n
  <2>1. DOMAIN db' = 0..(n + 1 - 1)
    BY <1>8 DEF DbOK
  <2>2. n + 1 - 1 = n
    BY <1>2
  <2> QED
    BY <1>1, <2>1, <2>2 DEF DbOK
<1> QED
  BY <1>2, <1>8, <1>14, <1>15

LEMMA NextOK ==
  ASSUME IInv, [Next]_vars
  PROVE  IInv' /\ \A r \in DOMAIN db : r \in DOMAIN db' /\ db'[r] = db[r]
<1>1. CASE Commit
  BY <1>1, CommitOK
<1>2. ASSUME NEW i \in Indexers,
             Start(i) \/ StartRange(i) \/ CreateRevision(i) \/ Finish(i) \/ Stop(i)
      PROVE  IInv' /\ db' = db
  BY <1>2, ProgramStepOK
<1>3. ASSUME NEW i \in Indexers, IndexRevision(i)
      PROVE  IInv' /\ \A r \in DOMAIN db : r \in DOMAIN db' /\ db'[r] = db[r]
  BY <1>3, IndexRevisionOK
<1>4. CASE UNCHANGED vars
  <2>1. /\ repository' = repository /\ db' = db /\ idx' = idx /\ stops' = stops
    BY <1>4 DEF vars
  <2>2. RepositoryOK' /\ Youngest' = Youngest
    BY <2>1 DEF IInv, RepositoryOK, Youngest
  <2>3. \A n : ProgramsOK(n) => ProgramsOK(n)'
    BY <2>1, <2>2 DEF ProgramsOK, OpenOK
  <2> QED
    BY <2>1, <2>2, <2>3 DEF IInv
<1> QED
  BY <1>1, <1>2, <1>3, <1>4 DEF Next

(* The invariant: the repository holds commits that are each what their    *)
(* changes say, the database the records of the first revisions, none with *)
(* a twin, and only one program is in a transaction, for the next one.     *)
THEOREM IndexInvariant == Spec => []IInv
<1>1. Init => IInv
  BY InitOK
<1>2. IInv /\ [Next]_vars => IInv'
  BY NextOK
<1> QED
  BY <1>1, <1>2, PTL DEF Spec

LEMMA WellFormed == IInv => TypeOK
<1> SUFFICES ASSUME IInv PROVE TypeOK
  OBVIOUS
<1>1. PICK n \in 0..(Youngest + 1) : DbOK(n, db) /\ ProgramsOK(n)
  BY DEF IInv
<1>2. Youngest \in Nat /\ Youngest <= MaxRev /\ DOMAIN repository = 0..Youngest
  BY DEF IInv, RepositoryOK
<1>3. ASSUME NEW i \in Indexers
      PROVE  /\ idx[i].pc \in {"idle", "loop", "open"} /\ idx[i].end \in DOMAIN repository
             /\ idx[i].rev \in 0..(idx[i].end + 1)
  BY <1>1, <1>2, ProgramType DEF ProgramOK, ProgramSet
<1>4. ASSUME NEW r \in DOMAIN db, NEW k \in DOMAIN db[r]
      PROVE  LET row == db[r][k]
             IN  /\ row.path \in Paths /\ row.props \in 0..r /\ row.text \in 0..r
                 /\ row.kind \in {"file", "dir", "unknown"}
                 /\ row.action \in {"add", "change", "delete"}
                 /\ \A c \in row.children :
                      c[1] <= r /\ c[1] \in DOMAIN db /\ c[2] \in DOMAIN db[c[1]]
                 /\ row.kind # "dir" => row.children = {}
  <2> DEFINE row == db[r][k]
  <2>1. db[r] \in Seq(RowSet) /\ RowOK(db, r, row)
    BY <1>1 DEF DbOK
  <2>2. row \in RowSet
    BY <2>1, LenProperties, ElementOfSeq
  <2> HIDE DEF row
  <2>3. row.path \in Paths /\ row.kind \in Kinds /\ row.action \in Actions
    BY <2>2 DEF RowSet
  <2>4. \A c \in row.children : c[1] <= r /\ c[1] \in DOMAIN db /\ c[2] \in DOMAIN db[c[1]]
    BY <2>1 DEF RowOK, IdsOf
  <2>5. row.props \in 0..r /\ row.text \in 0..r /\ (row.kind # "dir" => row.children = {})
    BY <2>1 DEF RowOK
  <2> QED
    BY <2>3, <2>4, <2>5 DEF Kinds, Actions, row
<1>5. stops \in 0..MaxStops
  BY <1>1 DEF ProgramsOK
<1> QED
  BY <1>2, <1>3, <1>4, <1>5 DEF TypeOK

(* Every record is well formed: its path is one of the tree, its text and  *)
(* properties were written by then, its children are records that are      *)
(* there, of this revision or an earlier one, and only a directory has any.*)
THEOREM RecordsWellFormed == Spec => []TypeOK
  BY IndexInvariant, WellFormed, PTL

(* The unique constraint of svn.node holds: the editor never creates two   *)
(* records with one path and action in a revision, whatever the commit.    *)
THEOREM NodesAreUnique == Spec => []NoDuplicateNode
<1>1. IInv => NoDuplicateNode
  BY DEF IInv, DbOK, NoTwins, NoDuplicateNode
<1> QED
  BY <1>1, IndexInvariant, PTL

(* The revisions of the database are the first ones of the repository, and *)
(* at most one program is in a transaction, for the revision after them,   *)
(* however many run, with what ranges, and whichever are stopped.          *)
THEOREM RevisionsInOrder == Spec => []InOrder
<1>1. IInv => InOrder
  <2> SUFFICES ASSUME IInv PROVE InOrder
    OBVIOUS
  <2>1. PICK n \in 0..(Youngest + 1) : DbOK(n, db) /\ ProgramsOK(n)
    BY DEF IInv
  <2>2. Youngest \in Nat /\ n \in Nat /\ DOMAIN repository = 0..Youngest
    BY DEF IInv, RepositoryOK
  <2>3. DOMAIN db = 0..(n - 1)
    BY <2>1 DEF DbOK
  <2>4. ASSUME NEW i \in Indexers, idx[i].pc = "open"
        PROVE  /\ idx[i].rev \in DOMAIN repository \ DOMAIN db
               /\ \A r \in 0..(idx[i].rev - 1) : r \in DOMAIN db
               /\ \A j \in Indexers \ {i} : idx[j].pc # "open"
    <3>1. idx[i] \in ProgramSet /\ ProgramOK(idx[i], Youngest) /\ OpenOK(n, i)
      BY <2>1, ProgramType
    <3>2. /\ idx[i].rev = n /\ n <= idx[i].end
          /\ \A j \in Indexers \ {i} : idx[j].pc # "open"
      BY <2>4, <3>1 DEF OpenOK
    <3>3. n <= Youngest
      BY <2>2, <3>1, <3>2 DEF ProgramOK, ProgramSet
    <3> QED
      BY <2>2, <2>3, <3>2, <3>3
  <2> QED
    BY <2>3, <2>4 DEF InOrder
<1> QED
  BY <1>1, IndexInvariant, PTL

(* The records of a revision are complete when its transaction commits: no *)
(* later step writes or removes one.                                       *)
THEOREM RecordsAreFinal == Spec => RecordsStay
<1>1. IInv /\ [Next]_vars => [\A r \in DOMAIN db : r \in DOMAIN db' /\ db'[r] = db[r]]_vars
  BY NextOK
<1> QED
  BY <1>1, IndexInvariant, PTL DEF Spec, RecordsStay
=============================================================================
