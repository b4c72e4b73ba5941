----------------------------- MODULE ExtentsProofs -----------------------------
(***************************************************************************)
(* What a search does to the tree, from the leaf its callback changed up   *)
(* to the root, and what holds of the tree and of the extents in it after  *)
(* any number of searches.                                                 *)
(***************************************************************************)
EXTENDS TreeProofs

(* The keys of the leaves.                                                 *)
Has(N, k) ==
  \E l \in Blocks(N) : N[l].height = 0 /\ \E i \in 1 .. Len(N[l].keys) : N[l].keys[i] = k
Same(N, M) == \A k : Has(N, k) <=> Has(M, k)

LEMMA SameTwice == ASSUME NEW L, NEW M, NEW N, Same(L, M), Same(M, N) PROVE Same(L, N)
BY DEF Same

LEMMA HasIs ==
  ASSUME NEW N, NEW l \in Blocks(N), N[l].height = 0, NEW i \in 1 .. Len(N[l].keys)
  PROVE  Has(N, N[l].keys[i])
BY DEF Has

-----------------------------------------------------------------------------
(* Changes of the root.                                                    *)

(* The only key of a new root before the old root is split.                *)
Sole(c) == <<[name |-> 0, data |-> c]>>

LEMMA SoleIs ==
  ASSUME NEW c \in DataSet
  PROVE  /\ Sole(c) \in Seq(KeySet) /\ Len(Sole(c)) = 1 /\ Sorted(Sole(c))
         /\ Sole(c)[1].name = 0 /\ Sole(c)[1].data = c /\ 0 \in AllNames
         /\ \A n \in Nat : FindKey(Sole(c), n) = 1
<1>1. 0 \in AllNames
  BY NamesAssumption
<1>2. Sole(c) \in Seq(KeySet) /\ Len(Sole(c)) = 1 /\ Sole(c)[1].name = 0 /\ Sole(c)[1].data = c
  BY <1>1 DEF Sole, KeySet
<1>3. Sorted(Sole(c))
  BY <1>2 DEF Sorted
<1>4. ASSUME NEW n \in Nat PROVE FindKey(Sole(c), n) = 1
  <2>1. \A i \in 1 .. Len(Sole(c)) : Sole(c)[i].name <= n <=> i <= 1
    BY <1>2
  <2>2. 1 \in 0 .. Len(Sole(c))
    BY <1>2
  <2> HIDE DEF Sole
  <2> QED
    BY <1>2, <2>1, <2>2, FindKeyOf
<1> QED
  BY <1>1, <1>2, <1>3, <1>4

(* A block above the root.                                                 *)
LEMMA ZonedGrow ==
  ASSUME NEW N, NEW root, NEW z, Zoned(N, root, z), NEW new \in TreeBlocks, new \notin Blocks(N),
         NEW M, M = With(N, new, Node(N[root].height + 1, Sole(root))),
         NEW y, y = [z EXCEPT ![new] = Nat]
  PROVE  /\ Zoned(M, new, y) /\ Blocks(M) = Blocks(N) \cup {new} /\ Same(N, M)
         /\ M \in NodeMap /\ M[new] = Node(N[root].height + 1, Sole(root))
         /\ \A x \in TreeBlocks : x # new => M[x] = N[x] /\ y[x] = z[x]
<1> DEFINE h == N[root].height + 1
<1>1. N \in NodeMap /\ root \in Blocks(N) /\ z \in [TreeBlocks -> SUBSET Nat] /\ z[root] = Nat
  BY DEF Zoned
<1>2. root \in TreeBlocks /\ N[root].height \in Nat /\ h \in Nat /\ h > 0 /\ root \in DataSet /\ root # new
  BY <1>1, ZonedTypes DEF DataSet
<1>3. /\ Sole(root) \in Seq(KeySet) /\ Len(Sole(root)) = 1 /\ Sorted(Sole(root))
      /\ Sole(root)[1].name = 0 /\ Sole(root)[1].data = root
      /\ \A n \in Nat : FindKey(Sole(root), n) = 1
  BY <1>2, SoleIs
<1>4. /\ M \in NodeMap /\ M[new] = Node(h, Sole(root))
      /\ \A x \in TreeBlocks : x # new => M[x] = N[x] /\ y[x] = z[x]
      /\ y \in [TreeBlocks -> SUBSET Nat] /\ y[new] = Nat
  BY <1>1, <1>2, <1>3, NodeIn, WithIs
<1>5. M[new].height = h /\ M[new].keys = Sole(root)
  BY <1>4, NodeFields
<1> HIDE DEF h
<1>6. Blocks(M) = Blocks(N) \cup {new}
  <2>1. M[new] # FreeBlock
    BY <1>2, <1>5 DEF FreeBlock
  <2> QED
    BY <1>1, <1>4, <2>1 DEF Blocks
<1>7. ASSUME NEW x \in Blocks(N)
      PROVE  /\ x \in TreeBlocks /\ x # new /\ M[x] = N[x] /\ y[x] = z[x]
             /\ N[x].height \in Nat /\ N[x].height <= N[root].height
             /\ x \in Blocks(M)
  BY <1>1, <1>4, <1>6, ZonedTypes
<1>8. BlockOK(M, new, y, new)
  <2>1. Nat # {} /\ Convex(Nat)
    BY DEF Convex
  <2>2. Child(M, y, new, 1)
    <3>1. M[root].height = h - 1 /\ y[root] = Nat /\ root \in Blocks(M)
      BY <1>1, <1>2, <1>7 DEF h
    <3>2. Part(Sole(root), Nat, 1) = Nat
      BY <1>3 DEF Part
    <3> QED
      BY <1>3, <1>4, <1>5, <3>1, <3>2 DEF Child
  <2>3. InnerOK(M, y, new)
    <3>1. ASSUME NEW i \in 1 .. Len(Sole(root)) PROVE Child(M, y, new, i)
      <4>1. i = 1
        BY <1>3
      <4> QED
        BY <2>2, <4>1
    <3>2. Sorted(M[new].keys) /\ Len(M[new].keys) > 0 /\ M[new].keys[1].name = 0
      BY <1>3, <1>5
    <3> QED
      BY <1>5, <3>1, <3>2 DEF InnerOK
  <2>4. h # 0 /\ h \in 0 .. h
    BY <1>2
  <2> QED
    BY <1>4, <1>5, <2>1, <2>3, <2>4 DEF BlockOK
<1>9. ASSUME NEW x \in Blocks(N) PROVE BlockOK(M, new, y, x)
  <2>1. BlockOK(N, root, z, x)
    BY DEF Zoned
  <2>2. M[x].height \in 0 .. M[new].height
    BY <1>2, <1>5, <1>7 DEF h
  <2>3. ASSUME N[x].height > 0 PROVE InnerOK(M, y, x)
    <3> DEFINE G == {}
    <3>1. \A k \in Blocks(N) \ G : k \in Blocks(M) /\ M[k].height = N[k].height /\ y[k] = z[k]
      BY <1>7
    <3>2. \A i \in 1 .. Len(N[x].keys) : N[x].keys[i].data \notin G
      OBVIOUS
    <3>3. x \in Blocks(N) \ G /\ M[x] = N[x]
      BY <1>7
    <3>4. Zoned(N, root, z)
      OBVIOUS
    <3> HIDE DEF G
    <3> QED
      BY ONLY <2>3, <3>1, <3>2, <3>3, <3>4, InnerKept
  <2> QED
    BY <1>7, <2>1, <2>2, <2>3 DEF BlockOK
<1>10. ASSUME NEW x \in Blocks(M), NEW w \in Blocks(M) PROVE Apart(M, y, x, w)
  <2>1. CASE x = new /\ w = new
    BY <2>1 DEF Apart
  <2>2. CASE x \in Blocks(N) /\ w \in Blocks(N)
    <3>1. Apart(N, z, x, w)
      BY <2>2 DEF Zoned
    <3> QED
      BY <1>7, <2>2, <3>1 DEF Apart
  <2>3. ASSUME NEW v \in Blocks(N) PROVE M[v].height # M[new].height
    BY <1>2, <1>5, <1>7 DEF h
  <2> QED
    BY <1>6, <2>1, <2>2, <2>3 DEF Apart
<1>11. Zoned(M, new, y)
  BY <1>4, <1>6, <1>8, <1>9, <1>10 DEF Zoned
<1>12. Same(N, M)
  <2>1. M[new].height # 0
    BY <1>2, <1>5
  <2> QED
    BY <1>6, <1>7, <2>1 DEF Same, Has
<1> QED
  BY <1>4, <1>6, <1>11, <1>12 DEF h

(* The only child of the root in its place.                                *)
LEMMA ZonedShrink ==
  ASSUME NEW N, NEW root, NEW z, Zoned(N, root, z), N[root].height > 0, Len(N[root].keys) = 1,
         NEW c, c = N[root].keys[1].data,
         NEW M, M = With(N, root, FreeBlock)
  PROVE  /\ Zoned(M, c, z) /\ Blocks(M) = Blocks(N) \ {root} /\ Same(N, M)
         /\ M \in NodeMap /\ c \in TreeBlocks
         /\ \A x \in TreeBlocks : x # root => M[x] = N[x]
<1> DEFINE h == N[root].height
<1>1. N \in NodeMap /\ root \in Blocks(N) /\ z \in [TreeBlocks -> SUBSET Nat] /\ z[root] = Nat
  BY DEF Zoned
<1>2. root \in TreeBlocks /\ h \in Nat /\ N[root].keys \in Seq(KeySet)
  BY <1>1, ZonedTypes
<1>3. /\ M \in NodeMap /\ M[root] = FreeBlock
      /\ \A x \in TreeBlocks : x # root => M[x] = N[x]
  BY <1>1, <1>2, FreeIn, WithIs
<1>4. Blocks(M) = Blocks(N) \ {root}
  BY <1>1, <1>3 DEF Blocks
<1>5. InnerOK(N, z, root)
  BY <1>1 DEF Zoned, BlockOK
<1>6. c \in Blocks(N) /\ N[c].height = h - 1 /\ z[c] = Nat
  <2>1. 1 \in 1 .. Len(N[root].keys)
    OBVIOUS
  <2>2. Child(N, z, root, 1)
    BY <1>5, <2>1 DEF InnerOK
  <2>3. \A n \in Nat : FindKey(N[root].keys, n) = 1
    <3>1. ASSUME NEW n \in Nat PROVE FindKey(N[root].keys, n) = 1
      <4>1. \A i \in 1 .. Len(N[root].keys) : N[root].keys[i].name <= n <=> i <= 1
        BY <1>5 DEF InnerOK
      <4>2. 1 \in 0 .. Len(N[root].keys)
        OBVIOUS
      <4> QED
        BY <1>2, <4>1, <4>2, FindKeyOf
    <3> QED
      BY <3>1
  <2>4. Part(N[root].keys, Nat, 1) = Nat
    BY <2>3 DEF Part
  <2> QED
    BY <1>1, <2>2, <2>4 DEF Child
<1>7. c # root /\ c \in TreeBlocks /\ c \in Blocks(M)
  <2>1. h - 1 # h
    BY <1>2
  <2>2. c # root
    BY <1>6, <2>1
  <2> QED
    BY <1>4, <1>6, <2>2, ZonedTypes
<1>8. ASSUME NEW x \in Blocks(M)
      PROVE  /\ x \in Blocks(N) /\ x # root /\ x \in TreeBlocks /\ M[x] = N[x]
             /\ N[x].height \in Nat /\ N[x].height <= h
  BY <1>3, <1>4, ZonedTypes
<1>9. ASSUME NEW x \in Blocks(M) PROVE N[x].height \in 0 .. (h - 1)
  <2>1. Apart(N, z, x, root)
    BY <1>1, <1>8 DEF Zoned
  <2>2. z[x] \subseteq Nat /\ z[x] # {}
    BY <1>8, ZonedTypes
  <2>3. N[x].height # h
    BY <1>1, <1>8, <2>1, <2>2 DEF Apart
  <2> QED
    BY <1>2, <1>8, <2>3
<1>10. ASSUME NEW x \in Blocks(M) PROVE BlockOK(M, c, z, x)
  <2>1. BlockOK(N, root, z, x)
    BY <1>8 DEF Zoned
  <2>2. M[x].height \in 0 .. M[c].height
    BY <1>6, <1>7, <1>8, <1>9
  <2>3. ASSUME N[x].height > 0 PROVE InnerOK(M, z, x)
    <3> DEFINE G == {root}
    <3>1. \A k \in Blocks(N) \ G : k \in Blocks(M) /\ M[k].height = N[k].height /\ z[k] = z[k]
      BY <1>4, <1>8
    <3>2. ASSUME NEW i \in 1 .. Len(N[x].keys) PROVE N[x].keys[i].data \notin G
      <4>1. Child(N, z, x, i)
        BY <2>1, <2>3 DEF BlockOK, InnerOK
      <4>2. N[x].height - 1 # h
        BY <1>2, <1>9
      <4> QED
        BY <4>1, <4>2 DEF Child
    <3>3. x \in Blocks(N) \ G
      BY <1>8
    <3> HIDE DEF G
    <3> QED
      BY <1>8, <2>3, <3>1, <3>2, <3>3, InnerKept
  <2> QED
    BY <1>8, <2>1, <2>2, <2>3 DEF BlockOK
<1>11. \A x, w \in Blocks(M) : Apart(M, z, x, w)
  BY <1>8 DEF Zoned, Apart
<1>12. Zoned(M, c, z)
  BY <1>1, <1>3, <1>6, <1>7, <1>10, <1>11 DEF Zoned
<1>13. Same(N, M)
  <2>1. \A x \in Blocks(N) : N[x].height = 0 => x \in Blocks(M)
    BY <1>4
  <2> QED
    BY <1>8, <2>1 DEF Same, Has
<1> QED
  BY <1>3, <1>4, <1>7, <1>12, <1>13

-----------------------------------------------------------------------------
(* Splits and merges of the children of a block.                           *)

LEMMA SplitSame ==
  ASSUME NEW N, NEW root, NEW z, NEW m, NEW i, NEW c, NEW q, SplitCase(N, root, z, m, i, c, q),
         NEW M, NEW new0, NEW new1, ChildSplit(N, M, m, i, c, q, new0, new1)
  PROVE  Same(N, M)
<1> DEFINE K == N[c].keys
           h == N[c].height
<1>1. c \in Blocks(N) /\ c # m
  BY SplitZoned
<1>2. K \in Seq(KeySet) /\ h \in Nat /\ c \in TreeBlocks /\ m \in TreeBlocks
  BY <1>1, ZonedTypes DEF SplitCase
<1>3. /\ new0 \in TreeBlocks \ Blocks(N) /\ new1 \in TreeBlocks \ Blocks(N) /\ new0 # new1
      /\ M[new0] = Node(h, SubSeq(K, 1, q)) /\ M[new1] = Node(h, Second(h, K, q))
      /\ M[c] = FreeBlock /\ M[m].height = N[m].height
      /\ \A x \in TreeBlocks : x \notin {new0, new1, c, m} => M[x] = N[x]
  BY NodeFields DEF ChildSplit
<1>12. q \in 1 .. Len(K) /\ q < Len(K) /\ N[m].height > 0
  BY DEF SplitCase
<1> HIDE DEF K, h
<1>4. q \in 0 .. Len(K) /\ q < Len(K) /\ Len(K) \in Nat /\ q \in Nat /\ h \in Int
  BY <1>2, <1>12
<1>5. /\ M[new0].height = h /\ M[new0].keys = SubSeq(K, 1, q)
      /\ M[new1].height = h /\ M[new1].keys = Second(h, K, q)
  <2> DEFINE A == SubSeq(K, 1, q)
             B == Second(h, K, q)
  <2>1. M[new0] = Node(h, A) /\ M[new1] = Node(h, B)
    BY <1>3
  <2> HIDE DEF A, B
  <2>2. M[new0].height = h /\ M[new0].keys = A /\ M[new1].height = h /\ M[new1].keys = B
    BY <2>1, NodeFields
  <2> QED
    BY <2>2 DEF A, B
<1>6. /\ Len(SubSeq(K, 1, q)) = q /\ \A j \in 1 .. q : SubSeq(K, 1, q)[j] = K[j]
      /\ Len(Second(h, K, q)) = Len(K) - q
  <2>1. Len(SubSeq(K, 1, q)) = q /\ \A j \in 1 .. q : SubSeq(K, 1, q)[j] = K[j]
    BY <1>2, <1>4, HalvesAre
  <2>2. Len(Second(h, K, q)) = Len(K) - q
    BY <1>2, <1>4, SecondIs
  <2> QED
    BY <2>1, <2>2
<1>7. ASSUME h = 0, NEW j \in 1 .. (Len(K) - q) PROVE Second(h, K, q)[j] = K[q + j]
  <2>1. Second(h, K, q)[1] = K[q + 1]
    BY <1>2, <1>4, <1>7, SecondIs
  <2>2. \A w \in 2 .. (Len(K) - q) : Second(h, K, q)[w] = K[q + w]
    BY <1>2, <1>4, SecondIs
  <2>3. j = 1 \/ j \in 2 .. (Len(K) - q)
    BY <1>4
  <2> QED
    BY <2>1, <2>2, <2>3
<1>8. Blocks(M) = (Blocks(N) \ {c}) \cup {new0, new1}
  BY SplitZoned
<1>9. \A x \in Blocks(N) : x # c /\ x # m => x \in TreeBlocks /\ M[x] = N[x] /\ x \in Blocks(M)
  BY <1>3, <1>8, ZonedTypes DEF SplitCase
<1>10. ASSUME NEW k, Has(N, k) PROVE Has(M, k)
  <2>1. PICK l \in Blocks(N) : N[l].height = 0 /\ \E j \in 1 .. Len(N[l].keys) : N[l].keys[j] = k
    BY <1>10 DEF Has
  <2>2. PICK j \in 1 .. Len(N[l].keys) : N[l].keys[j] = k
    BY <2>1
  <2>3. CASE l # c
    <3>1. l # m
      BY <1>12, <2>1
    <3>2. M[l] = N[l] /\ l \in Blocks(M)
      BY <1>9, <2>3, <3>1
    <3> QED
      BY <2>1, <2>2, <3>2 DEF Has
  <2>4. CASE l = c
    <3>1. h = 0 /\ j \in 1 .. Len(K) /\ K[j] = k
      BY <2>1, <2>2, <2>4 DEF h, K
    <3>2. CASE j <= q
      <4>1. j \in 1 .. q
        BY <1>4, <3>1, <3>2
      <4>2. new0 \in Blocks(M) /\ M[new0].height = 0 /\ Len(M[new0].keys) = q /\ M[new0].keys[j] = k
        BY <1>5, <1>6, <1>8, <3>1, <4>1
      <4> QED
        BY <4>1, <4>2 DEF Has
    <3>3. CASE ~ j <= q
      <4>1. j - q \in 1 .. (Len(K) - q) /\ q + (j - q) = j
        BY <1>4, <3>1, <3>3
      <4>2. Second(h, K, q)[j - q] = K[q + (j - q)]
        BY <1>7, <3>1, <4>1
      <4>3. /\ new1 \in Blocks(M) /\ M[new1].height = 0 /\ Len(M[new1].keys) = Len(K) - q
            /\ M[new1].keys[j - q] = k
        BY <1>5, <1>6, <1>8, <3>1, <4>1, <4>2
      <4> QED
        BY <4>1, <4>3 DEF Has
    <3> QED
      BY <3>2, <3>3
  <2> QED
    BY <2>3, <2>4
<1>11. ASSUME NEW k, Has(M, k) PROVE Has(N, k)
  <2>1. PICK l \in Blocks(M) : M[l].height = 0 /\ \E j \in 1 .. Len(M[l].keys) : M[l].keys[j] = k
    BY <1>11 DEF Has
  <2>2. PICK j \in 1 .. Len(M[l].keys) : M[l].keys[j] = k
    BY <2>1
  <2>3. CASE l \in Blocks(N) /\ l # c
    <3>1. l # m
      BY <1>3, <1>12, <2>1
    <3>2. M[l] = N[l]
      BY <1>9, <2>3, <3>1
    <3> QED
      BY <2>1, <2>2, <2>3, <3>2 DEF Has
  <2>4. CASE l = new0
    <3>1. h = 0 /\ j \in 1 .. q /\ K[j] = k
      BY <1>5, <1>6, <2>1, <2>2, <2>4
    <3>2. j \in 1 .. Len(K)
      BY <1>4, <3>1
    <3> QED
      BY <1>1, <3>1, <3>2, HasIs DEF h, K
  <2>5. CASE l = new1
    <3>1. h = 0 /\ j \in 1 .. (Len(K) - q) /\ Second(h, K, q)[j] = k
      BY <1>5, <1>6, <2>1, <2>2, <2>5
    <3>2. q + j \in 1 .. Len(K) /\ K[q + j] = k
      BY <1>4, <1>7, <3>1
    <3> QED
      BY <1>1, <3>1, <3>2, HasIs DEF h, K
  <2> QED
    BY <1>8, <2>3, <2>4, <2>5
<1> QED
  BY <1>10, <1>11 DEF Same

(* Keys searched for under different names are in order.                   *)
LEMMA StoredApart ==
  ASSUME NEW n, Stored(n), NEW m, Stored(m), High(n) < Low(m)
  PROVE  High(n) < m
<1>1. n \in Nat /\ m \in Nat /\ High(n) \in Nat /\ Low(m) \in Nat
  BY StoredIs
<1>2. CASE m \in Names
  <2>1. ~ IsExtent(m)
    BY <1>2, ExtentsAssumption
  <2> QED
    BY <2>1 DEF Low
<1>3. ASSUME NEW a \in Nums, NEW b \in Nums, a <= b, m = Extent(a, b)
      PROVE  High(n) < m
  <2>1. MaxNum \in Nat /\ XBase \in Nat /\ b \in 0 .. (MaxNum + 1) /\ MaxNum + 1 \in 0 .. (MaxNum + 1)
        /\ a \in Nat /\ b \in Nat /\ MaxNum \in Nums
    BY ExtentsAssumption DEF Nums
  <2>2. IsExtent(m) /\ StartOf(m) = a
    BY <1>3, <2>1, ExtentIs
  <2>3. Low(m) = Extent(a, MaxNum + 1)
    BY <2>2 DEF Low, SearchName
  <2>4. CASE n \in Names
    <3>1. ~ IsExtent(n)
      BY <2>4, ExtentsAssumption
    <3>2. High(n) = n
      BY <3>1 DEF High
    <3>3. IsExtent(Low(m))
      BY <2>1, <2>3, ExtentIs
    <3>4. SearchName(MaxNum) \in Nat
      BY <2>1, ExtentIs DEF SearchName
    <3>5. XBase <= m /\ Low(m) <= SearchName(MaxNum)
      BY <1>1, <2>1, <2>2, <3>3, <3>4 DEF IsExtent
    <3>6. n < XBase \/ n > SearchName(MaxNum)
      BY <1>1, <2>1, <3>1, <3>4 DEF IsExtent
    <3>7. n < Low(m)
      BY <3>2
    <3> QED
      BY <1>1, <2>1, <3>2, <3>4, <3>5, <3>6, <3>7
  <2>5. ASSUME NEW e \in Nums, NEW f \in Nums, e <= f, n = Extent(e, f) PROVE High(n) < m
    <3>1. f \in 0 .. (MaxNum + 1)
      BY <2>1 DEF Nums
    <3>2. IsExtent(n) /\ StopOf(n) = f
      BY <2>1, <2>5, <3>1, ExtentIs
    <3>3. High(n) = Extent(f, MaxNum + 1)
      BY <3>2 DEF High, SearchName
    <3>4. Extent(f, MaxNum + 1) < Extent(a, MaxNum + 1)
      BY <2>3, <3>3
    <3>5. f < a
      <4>1. f < a \/ (f = a /\ MaxNum + 1 < MaxNum + 1)
        BY ONLY <2>1, <3>4, ExtentOrder, a \in Nums, f \in Nums
      <4> QED
        BY <2>1, <4>1
    <3>6. Extent(f, MaxNum + 1) < Extent(a, b)
      BY <2>1, <3>5, ExtentOrder
    <3> QED
      BY <1>3, <3>3, <3>6
  <2> QED
    BY <2>4, <2>5 DEF Stored
<1> QED
  BY <1>2, <1>3 DEF Stored

(* Each key of a block of children is on the way to some name.             *)
LEMMA KeyUsed ==
  ASSUME NEW N, NEW root, NEW z, Zoned(N, root, z), NEW l \in Blocks(N), N[l].height > 0,
         NEW i \in 1 .. Len(N[l].keys)
  PROVE  /\ \E n \in z[l] : FindKey(N[l].keys, n) = i /\ N[l].keys[i].name <= n
                            /\ \A j \in 1 .. Len(N[l].keys) : j > i => n < N[l].keys[j].name
         /\ Child(N, z, l, i)
<1>1. Child(N, z, l, i)
  BY DEF Zoned, BlockOK, InnerOK
<1>2. z[N[l].keys[i].data] # {}
  BY <1>1, ZonedTypes DEF Child
<1>3. PICK n \in z[l] : FindKey(N[l].keys, n) = i
  BY <1>1, <1>2 DEF Child, Part
<1> DEFINE K == N[l].keys
<1>4. K \in Seq(KeySet) /\ Sorted(K) /\ n \in Nat /\ i \in 1 .. Len(K)
  BY ZonedTypes, ZonedSorted
<1>5. \A j \in 1 .. Len(K) : K[j].name <= n <=> j <= i
  BY <1>3, <1>4, FindKeyIs
<1> HIDE DEF K
<1>6. K[i].name <= n
  BY <1>4, <1>5
<1>7. ASSUME NEW j \in 1 .. Len(K), j > i PROVE n < K[j].name
  <2>1. K[j].name \in Nat
    BY <1>4, KeyNames
  <2>2. ~ j <= i
    BY <1>4, <1>7
  <2>3. ~ K[j].name <= n
    BY <1>5, <2>2
  <2> DEFINE w == K[j].name
  <2>4. w \in Nat /\ ~ w <= n
    BY <2>1, <2>3
  <2> HIDE DEF w
  <2>5. n < w
    BY <1>4, <2>4
  <2> QED
    BY <2>5 DEF w
<1> QED
  BY <1>1, <1>3, <1>6, <1>7 DEF K

(* Two children side by side.                                              *)
MergeCase(N, root, z, m, p, a, b) ==
  /\ Zoned(N, root, z) /\ m \in Blocks(N) /\ N[m].height > 0
  /\ p \in 2 .. Len(N[m].keys) /\ a = N[m].keys[p - 1].data /\ b = N[m].keys[p].data

Beside(N, z, m, p, a, b, s) ==
  /\ a \in Blocks(N) /\ b \in Blocks(N) /\ a # b /\ a # m /\ b # m
  /\ N[a].height = N[m].height - 1 /\ N[b].height = N[m].height - 1
  /\ s \in AllNames /\ s \in Nat
  /\ z[a] = Part(N[m].keys, z[m], p - 1) /\ z[b] = Part(N[m].keys, z[m], p)
  /\ \A n \in z[a] : n < s
  /\ \A n \in z[b] : n >= s

LEMMA Neighbours ==
  ASSUME NEW N, NEW root, NEW z, NEW m, NEW p, NEW a, NEW b, MergeCase(N, root, z, m, p, a, b),
         NEW s, s = N[m].keys[p].name
  PROVE  Beside(N, z, m, p, a, b, s)
<1> DEFINE K == N[m].keys
<1>1. /\ Zoned(N, root, z) /\ m \in Blocks(N) /\ N[m].height > 0
      /\ p \in 2 .. Len(K) /\ a = K[p - 1].data /\ b = K[p].data
  BY DEF MergeCase
<1>2. K \in Seq(KeySet) /\ Sorted(K) /\ N[m].height \in Nat /\ z[m] \in SUBSET Nat /\ s = K[p].name
  BY <1>1, ZonedTypes, ZonedSorted
<1>3. p \in 1 .. Len(K) /\ p - 1 \in 1 .. Len(K) /\ p - 1 # p /\ p \in Nat
  BY <1>1, <1>2
<1>4. Child(N, z, m, p - 1) /\ Child(N, z, m, p)
  BY <1>1, <1>3, KeyUsed
<1>5. /\ a \in Blocks(N) /\ N[a].height = N[m].height - 1 /\ z[a] = Part(K, z[m], p - 1)
      /\ b \in Blocks(N) /\ N[b].height = N[m].height - 1 /\ z[b] = Part(K, z[m], p)
  BY <1>1, <1>4 DEF Child
<1>6. a # b
  <2> SUFFICES ASSUME a = b PROVE FALSE
    OBVIOUS
  <2>1. K[p - 1].data = K[p].data
    BY <1>1
  <2>2. p - 1 = p
    BY <1>1, <1>3, <2>1, OneParent
  <2> QED
    BY <1>3, <2>2
<1>7. a # m /\ b # m
  <2>1. N[m].height - 1 # N[m].height
    BY <1>2
  <2> QED
    BY <1>5, <2>1
<1>8. s \in AllNames /\ s \in Nat
  BY <1>2, <1>3, KeyNames
<1> HIDE DEF K
<1>9. ASSUME NEW n \in z[m] PROVE n \in Nat /\ (FindKey(K, n) = p - 1 => n < s) /\ (FindKey(K, n) = p => n >= s)
  <2>1. n \in Nat
    BY <1>2
  <2>2. s <= n <=> p <= FindKey(K, n)
    BY <1>2, <1>3, <2>1, FindKeyIs
  <2> DEFINE w == s
             f == FindKey(K, n)
  <2>3. w \in Nat /\ (w <= n <=> p <= f)
    BY <1>8, <2>2
  <2> HIDE DEF w, f
  <2>4. f = p - 1 => n < w
    BY <1>3, <2>1, <2>3
  <2>5. f = p => n >= w
    BY <1>3, <2>1, <2>3
  <2> QED
    BY <2>1, <2>4, <2>5 DEF w, f
<1>10. (\A n \in z[a] : n < s) /\ (\A n \in z[b] : n >= s)
  BY <1>5, <1>9 DEF Part
<1> QED
  BY <1>5, <1>6, <1>7, <1>8, <1>10 DEF K, Beside

(* Their zones make one zone.                                              *)
LEMMA ZonesJoin ==
  ASSUME NEW N, NEW root, NEW z, NEW m, NEW p, NEW a, NEW b, MergeCase(N, root, z, m, p, a, b)
  PROVE  /\ z[a] \cup z[b] \in SUBSET Nat /\ z[a] \cup z[b] # {} /\ Convex(z[a] \cup z[b])
<1> DEFINE K == N[m].keys
           f(n) == FindKey(K, n)
<1>1. /\ Zoned(N, root, z) /\ m \in Blocks(N) /\ N[m].height > 0
      /\ p \in 2 .. Len(K)
  BY DEF MergeCase
<1>2. /\ K \in Seq(KeySet) /\ Sorted(K) /\ z[m] \in SUBSET Nat /\ Convex(z[m])
  BY <1>1, ZonedTypes, ZonedSorted
<1>3. /\ a \in Blocks(N) /\ b \in Blocks(N)
      /\ z[a] = Part(K, z[m], p - 1) /\ z[b] = Part(K, z[m], p)
  BY Neighbours DEF Beside
<1>4. z[a] \in SUBSET Nat /\ z[a] # {} /\ z[b] \in SUBSET Nat
  BY <1>1, <1>3, ZonedTypes
<1>5. p \in Nat /\ p >= 2 /\ Len(K) \in Nat /\ p <= Len(K)
  BY <1>1, <1>2
<1> HIDE DEF K
<1>6. ASSUME NEW x \in Nat, NEW y \in Nat, x <= y PROVE f(x) \in Nat /\ f(y) \in Nat /\ f(x) <= f(y)
  <2>1. f(x) \in 0 .. Len(K) /\ f(y) \in 0 .. Len(K)
    BY <1>2, FindKeyIs
  <2>2. CASE f(x) = 0
    BY <1>5, <2>1, <2>2
  <2>3. CASE f(x) # 0
    <3> DEFINE i == f(x)
    <3>1. i \in 1 .. Len(K) /\ i <= i
      BY <1>5, <2>1, <2>3
    <3> HIDE DEF i
    <3>2. K[i].name <= x
      BY <1>2, <3>1, FindKeyIs DEF i
    <3>3. K[i].name \in Nat
      BY <1>2, <3>1, KeyNames
    <3>4. K[i].name <= y
      <4> DEFINE w == K[i].name
      <4>1. w \in Nat /\ w <= x
        BY <3>2, <3>3
      <4> HIDE DEF w
      <4>2. w <= y
        BY <1>6, <4>1
      <4> QED
        BY <4>2 DEF w
    <3>5. i <= f(y)
      BY <1>2, <3>1, <3>4, FindKeyIs
    <3> QED
      BY <1>5, <2>1, <3>5 DEF i
  <2> QED
    BY <2>2, <2>3
<1>7. \A n \in z[m] : n \in z[a] \cup z[b] <=> f(n) \in {p - 1, p}
  BY <1>3 DEF Part
<1>8. z[a] \cup z[b] \subseteq z[m]
  BY <1>3 DEF Part
<1>9. ASSUME NEW x \in z[a] \cup z[b], NEW y \in z[a] \cup z[b], NEW w \in Nat, x <= w, w <= y
      PROVE  w \in z[a] \cup z[b]
  <2>1. x \in z[m] /\ y \in z[m] /\ x \in Nat /\ y \in Nat
    BY <1>2, <1>8
  <2>2. w \in z[m]
    BY <1>2, <1>9, <2>1 DEF Convex
  <2>3. f(x) <= f(w) /\ f(w) <= f(y) /\ f(w) \in Nat /\ f(x) \in Nat /\ f(y) \in Nat
    BY <1>6, <1>9, <2>1
  <2>4. f(x) \in {p - 1, p} /\ f(y) \in {p - 1, p}
    BY <1>7, <2>1
  <2> HIDE DEF f
  <2>5. f(w) \in {p - 1, p}
    BY <1>5, <2>3, <2>4
  <2> QED
    BY <1>7, <2>2, <2>5
<1>10. Convex(z[a] \cup z[b])
  BY <1>9 DEF Convex
<1> QED
  BY <1>4, <1>10

LEMMA JoinIs ==
  ASSUME NEW A \in Seq(KeySet), NEW R \in Seq(KeySet)
  PROVE  /\ A \o R \in Seq(KeySet) /\ Len(A \o R) = Len(A) + Len(R)
         /\ \A i \in 1 .. Len(A) : (A \o R)[i] = A[i]
         /\ \A j \in 1 .. Len(R) : (A \o R)[Len(A) + j] = R[j]
OBVIOUS

LEMMA JoinIndex ==
  ASSUME NEW a \in Nat, NEW b \in Nat, NEW i \in 1 .. (a + b)
  PROVE  i \in 1 .. a \/ (i - a \in 1 .. b /\ i = a + (i - a))
OBVIOUS

LEMMA JoinIndices ==
  ASSUME NEW a \in Nat, NEW b \in Nat, NEW i \in 1 .. (a + b), NEW j \in 1 .. (a + b), i < j
  PROVE  \/ i \in 1 .. a /\ j \in 1 .. a
         \/ i \in 1 .. a /\ j - a \in 1 .. b /\ j = a + (j - a)
         \/ /\ i - a \in 1 .. b /\ j - a \in 1 .. b /\ i - a < j - a
            /\ i = a + (i - a) /\ j = a + (j - a)
OBVIOUS

(* The keys of two leaves in one.                                          *)
LeafMerged(A, B, s, J, Z) ==
  /\ J \in Seq(KeySet) /\ Len(J) = Len(A) + Len(B)
  /\ \A i \in 1 .. Len(A) : J[i] = A[i]
  /\ \A j \in 1 .. Len(B) : J[Len(A) + j] = B[j]
  /\ LeafOK(J, Z)
  /\ MergeIndexes(Node(0, A), s, Node(0, B)) = J

LEMMA MergedLeaf ==
  ASSUME NEW N, NEW root, NEW z, NEW m, NEW p, NEW a, NEW b, MergeCase(N, root, z, m, p, a, b),
         N[a].height = 0,
         NEW s, s = N[m].keys[p].name, NEW A, A = N[a].keys, NEW B, B = N[b].keys,
         NEW J, J = A \o Renamed(0, s, B)
  PROVE  LeafMerged(A, B, s, J, z[a] \cup z[b])
<1>1. /\ a \in Blocks(N) /\ b \in Blocks(N) /\ N[b].height = 0
      /\ s \in AllNames /\ s \in Nat /\ (\A n \in z[a] : n < s) /\ (\A n \in z[b] : n >= s)
  <2>1. MergeCase(N, root, z, m, p, a, b) /\ s = N[m].keys[p].name
    OBVIOUS
  <2>2. Beside(N, z, m, p, a, b, s)
    BY ONLY <2>1, Neighbours
  <2> QED
    BY ONLY <2>2, N[a].height = 0 DEF Beside
<1>2. Zoned(N, root, z)
  BY Zenon DEF MergeCase
<1>3. /\ A \in Seq(KeySet) /\ B \in Seq(KeySet) /\ z[a] \in SUBSET Nat /\ z[b] \in SUBSET Nat
      /\ Sorted(A) /\ Sorted(B)
  BY <1>1, <1>2, ZonedTypes, ZonedSorted
<1>4. LeafOK(A, z[a]) /\ LeafOK(B, z[b])
  <2>1. BlockOK(N, root, z, a) /\ BlockOK(N, root, z, b)
    BY <1>1, <1>2 DEF Zoned
  <2> QED
    BY <1>1, <2>1 DEF BlockOK
<1>5. Renamed(0, s, B) = B
  <2>1. /\ Renamed(0, s, B) \in Seq(KeySet) /\ Len(Renamed(0, s, B)) = Len(B)
        /\ \A i \in 1 .. Len(B) : Renamed(0, s, B)[i] = [name |-> B[i].name, data |-> B[i].data]
    BY <1>1, <1>3, RenamedIs
  <2>2. \A i \in 1 .. Len(B) : B[i] = [name |-> B[i].name, data |-> B[i].data]
    BY <1>3, KeyNames DEF KeySet
  <2>3. \A i \in 1 .. Len(Renamed(0, s, B)) : Renamed(0, s, B)[i] = B[i]
    BY <2>1, <2>2
  <2> QED
    BY <1>3, <2>1, <2>3, SameKeys
<1>6. /\ J \in Seq(KeySet) /\ Len(J) = Len(A) + Len(B)
      /\ \A i \in 1 .. Len(A) : J[i] = A[i]
      /\ \A j \in 1 .. Len(B) : J[Len(A) + j] = B[j]
  <2>1. J = A \o B
    BY <1>5
  <2> QED
    BY ONLY <1>3, <2>1, JoinIs
<1>7. ASSUME NEW i \in 1 .. Len(A), NEW j \in 1 .. Len(B)
      PROVE  High(A[i].name) < B[j].name /\ A[i].name < B[j].name
  <2>1. Stored(A[i].name) /\ High(A[i].name) \in z[a] /\ Stored(B[j].name) /\ Low(B[j].name) \in z[b]
    BY <1>4 DEF LeafOK
  <2> DEFINE x == High(A[i].name)
             y == Low(B[j].name)
             w == s
  <2>2. x < w /\ y >= w /\ x \in Nat /\ y \in Nat /\ w \in Nat
    BY <1>1, <1>3, <2>1
  <2>3. x < y
    <3> HIDE DEF x, y, w
    <3> QED
      BY <2>2
  <2>4. High(A[i].name) < B[j].name
    BY <2>1, <2>3, StoredApart
  <2>5. A[i].name \in Nat /\ Low(A[i].name) \in Nat /\ A[i].name <= Low(A[i].name)
        /\ Low(A[i].name) <= High(A[i].name) /\ B[j].name \in Nat
    BY <2>1, StoredIs
  <2> DEFINE u == A[i].name
             v == Low(A[i].name)
             t == B[j].name
  <2>6. u \in Nat /\ v \in Nat /\ u <= v /\ v <= x /\ x < t /\ t \in Nat /\ x \in Nat
    BY <2>2, <2>4, <2>5
  <2> HIDE DEF u, v, t, x
  <2>7. u < t
    BY <2>6
  <2> QED
    BY <2>4, <2>7 DEF u, t
<1>8. Len(A) \in Nat /\ Len(B) \in Nat
  BY <1>3
<1>9. \A i \in 1 .. Len(J) : i \in 1 .. Len(A) \/ (i - Len(A) \in 1 .. Len(B) /\ i = Len(A) + (i - Len(A)))
  BY ONLY <1>6, <1>8, JoinIndex
<1>10. ASSUME NEW i \in 1 .. Len(J)
       PROVE  Stored(J[i].name) /\ Low(J[i].name) \in z[a] \cup z[b] /\ High(J[i].name) \in z[a] \cup z[b]
  <2>1. CASE i \in 1 .. Len(A)
    <3>1. J[i] = A[i]
      BY <1>6, <2>1
    <3> QED
      BY <1>4, <2>1, <3>1 DEF LeafOK
  <2>2. CASE i - Len(A) \in 1 .. Len(B) /\ i = Len(A) + (i - Len(A))
    <3> DEFINE j == i - Len(A)
    <3>1. J[i] = B[j] /\ j \in 1 .. Len(B)
      BY <1>6, <2>2
    <3> HIDE DEF j
    <3> QED
      BY <1>4, <3>1 DEF LeafOK
  <2> QED
    BY <1>9, <2>1, <2>2
<1>11. ASSUME NEW i \in 1 .. Len(J), NEW j \in 1 .. Len(J), i < j PROVE High(J[i].name) < J[j].name
  <2> DEFINE d == i - Len(A)
             e == j - Len(A)
  <2>1. /\ (i \in 1 .. Len(A) /\ j \in 1 .. Len(A))
           \/ (i \in 1 .. Len(A) /\ e \in 1 .. Len(B))
           \/ (d \in 1 .. Len(B) /\ e \in 1 .. Len(B) /\ d < e)
        /\ (d \in 1 .. Len(B) => i = Len(A) + d) /\ (e \in 1 .. Len(B) => j = Len(A) + e)
    <3>1. i \in 1 .. (Len(A) + Len(B)) /\ j \in 1 .. (Len(A) + Len(B))
      BY <1>6
    <3>2. /\ \/ i \in 1 .. Len(A) /\ j \in 1 .. Len(A)
             \/ i \in 1 .. Len(A) /\ e \in 1 .. Len(B)
             \/ d \in 1 .. Len(B) /\ e \in 1 .. Len(B) /\ d < e
      BY ONLY <1>8, <1>11, <3>1, JoinIndices
    <3>3. i = Len(A) + d /\ j = Len(A) + e
      BY ONLY <1>8, <3>1
    <3> QED
      BY <3>2, <3>3
  <2> HIDE DEF d, e
  <2>2. CASE i \in 1 .. Len(A) /\ j \in 1 .. Len(A)
    <3>1. J[i] = A[i] /\ J[j] = A[j]
      BY <1>6, <2>2
    <3> QED
      BY <1>4, <1>11, <2>2, <3>1 DEF LeafOK
  <2>3. CASE i \in 1 .. Len(A) /\ e \in 1 .. Len(B)
    <3>1. J[i] = A[i] /\ J[j] = B[e]
      BY <1>6, <2>1, <2>3
    <3> QED
      BY <1>7, <2>3, <3>1
  <2>4. CASE d \in 1 .. Len(B) /\ e \in 1 .. Len(B) /\ d < e
    <3>1. J[i] = B[d] /\ J[j] = B[e]
      BY <1>6, <2>1, <2>4
    <3> QED
      BY <1>4, <2>4, <3>1 DEF LeafOK
  <2> QED
    BY <2>1, <2>2, <2>3, <2>4
<1>12. LeafOK(J, z[a] \cup z[b])
  BY <1>10, <1>11 DEF LeafOK
<1>13. MergeIndexes(Node(0, A), s, Node(0, B)) = A \o Renamed(0, s, B)
  <2> DEFINE o == 0
  <2>1. o \in Nat /\ ~ o > 0
    OBVIOUS
  <2>2. Sorted(Renamed(o, s, B)) /\ \A i \in 1 .. Len(A) : \A j \in 1 .. Len(B) : A[i].name < Renamed(o, s, B)[j].name
    BY <1>3, <1>5, <1>7
  <2> HIDE DEF o
  <2>3. MergeIndexes(Node(o, A), s, Node(o, B)) = A \o Renamed(o, s, B)
    BY <1>1, <1>3, <2>1, <2>2, MergeIs
  <2> QED
    BY <2>3 DEF o
<1> QED
  BY <1>6, <1>12, <1>13 DEF LeafMerged

(* The keys J of two blocks of children in one, R those of the second under *)
(* their names in it.                                                      *)
Joined(A, B, s, R, J) ==
  /\ R \in Seq(KeySet) /\ Len(R) = Len(B)
  /\ \A i \in 1 .. Len(B) : i = 1 => R[i].name = s
  /\ \A i \in 1 .. Len(B) : i # 1 => R[i].name = B[i].name
  /\ \A i \in 1 .. Len(B) : R[i].data = B[i].data
  /\ J \in Seq(KeySet) /\ Len(J) = Len(A) + Len(B)
  /\ \A i \in 1 .. Len(A) : J[i] = A[i]
  /\ \A j \in 1 .. Len(B) : J[Len(A) + j] = R[j]

JoinedWell(A, B, R, J, Za, Zb, Z) ==
  /\ Sorted(R) /\ \A i \in 1 .. Len(A) : \A j \in 1 .. Len(B) : A[i].name < R[j].name
  /\ Sorted(J) /\ J[1].name = 0
  /\ \A i \in 1 .. Len(A) : J[i].data = A[i].data /\ Part(J, Z, i) = Part(A, Za, i)
  /\ \A j \in 1 .. Len(B) :
       J[Len(A) + j].data = B[j].data /\ Part(J, Z, Len(A) + j) = Part(B, Zb, j)
  /\ \A i \in 1 .. Len(B) : B[i].name = 0 <=> i = 1

LEMMA JoinInner ==
  ASSUME NEW h \in Nat, h > 0, NEW s \in AllNames, s \in Nat, NEW A \in Seq(KeySet), NEW B \in Seq(KeySet),
         Sorted(A), Sorted(B), Len(A) > 0, A[1].name = 0, Len(B) > 0, B[1].name = 0,
         \A i \in 1 .. Len(A) : A[i].name < s,
         \A j \in 1 .. Len(B) : j > 1 => s < B[j].name,
         NEW Za \in SUBSET Nat, NEW Zb \in SUBSET Nat, \A n \in Za : n < s, \A n \in Zb : n >= s,
         NEW R, NEW J, Joined(A, B, s, R, J), NEW Z, Z = Za \cup Zb
  PROVE  JoinedWell(A, B, R, J, Za, Zb, Z)
<1> DEFINE q == Len(A)
<1>1. s \in AllNames /\ s \in Nat /\ (\A n \in Za : n < s) /\ (\A n \in Zb : n >= s)
  OBVIOUS
<1>3. /\ A \in Seq(KeySet) /\ B \in Seq(KeySet) /\ Za \in SUBSET Nat /\ Zb \in SUBSET Nat
      /\ Sorted(A) /\ Sorted(B) /\ h \in Nat /\ h \in Int /\ Z \in SUBSET Nat /\ h > 0
  OBVIOUS
<1>4. /\ Len(A) > 0 /\ A[1].name = 0 /\ Len(B) > 0 /\ B[1].name = 0
  OBVIOUS
<1>5. /\ R \in Seq(KeySet) /\ Len(R) = Len(B)
      /\ \A i \in 1 .. Len(B) : i = 1 => R[i].name = s
      /\ \A i \in 1 .. Len(B) : i # 1 => R[i].name = B[i].name
      /\ \A i \in 1 .. Len(B) : R[i].data = B[i].data
  BY DEF Joined
<1>6. \A i \in 1 .. Len(A) : A[i].name < s
  OBVIOUS
<1>7. \A j \in 1 .. Len(B) : j > 1 => s < B[j].name
  OBVIOUS
<1>10. /\ J \in Seq(KeySet) /\ Len(J) = Len(A) + Len(B)
       /\ \A i \in 1 .. Len(A) : J[i] = A[i]
       /\ \A j \in 1 .. Len(B) : J[Len(A) + j] = R[j]
  BY DEF Joined
<1>8. Sorted(R)
  <2> SUFFICES ASSUME NEW i \in 1 .. Len(B), NEW j \in 1 .. Len(B), i < j PROVE R[i].name < R[j].name
    BY <1>5 DEF Sorted
  <2>1. j > 1 /\ j # 1
    OBVIOUS
  <2>2. R[j].name = B[j].name
    BY <1>5, <2>1
  <2>3. CASE i = 1
    BY <1>5, <1>7, <2>1, <2>2, <2>3
  <2>4. CASE i # 1
    <3>1. R[i].name = B[i].name
      BY <1>5, <2>4
    <3> QED
      BY <1>3, <2>2, <3>1 DEF Sorted
  <2> QED
    BY <2>3, <2>4
<1>9. ASSUME NEW i \in 1 .. Len(A), NEW j \in 1 .. Len(B) PROVE A[i].name < R[j].name
  <2>1. CASE j = 1
    BY <1>5, <1>6, <2>1
  <2>2. CASE j # 1
    <3>1. j > 1
      BY <2>2
    <3> DEFINE x == A[i].name
               w == s
               y == B[j].name
    <3>2. x \in Nat /\ w \in Nat /\ y \in Nat /\ x < w /\ w < y
      BY <1>1, <1>3, <1>6, <1>7, <3>1, KeyNames
    <3>3. x < y
      <4> HIDE DEF x, w, y
      <4> QED
        BY <3>2
    <3>4. R[j].name = B[j].name
      BY <1>5, <2>2
    <3> QED
      BY <3>3, <3>4
  <2> QED
    BY <2>1, <2>2
<1>11. q \in Nat /\ Len(B) \in Nat /\ q > 0 /\ Len(B) > 0
  BY <1>3, <1>4
<1>12. Sorted(J)
  <2> SUFFICES ASSUME NEW i \in 1 .. Len(J), NEW j \in 1 .. Len(J), i < j PROVE J[i].name < J[j].name
    BY DEF Sorted
  <2> DEFINE d == i - Len(A)
             e == j - Len(A)
  <2>1. i \in 1 .. (Len(A) + Len(B)) /\ j \in 1 .. (Len(A) + Len(B)) /\ i < j
    BY <1>10
  <2>2. \/ i \in 1 .. Len(A) /\ j \in 1 .. Len(A)
        \/ i \in 1 .. Len(A) /\ e \in 1 .. Len(B) /\ j = Len(A) + e
        \/ d \in 1 .. Len(B) /\ e \in 1 .. Len(B) /\ d < e /\ i = Len(A) + d /\ j = Len(A) + e
    BY ONLY <1>11, <2>1, JoinIndices
  <2> HIDE DEF d, e
  <2>3. CASE i \in 1 .. Len(A) /\ j \in 1 .. Len(A)
    BY <1>3, <1>10, <2>3 DEF Sorted
  <2>4. CASE i \in 1 .. Len(A) /\ e \in 1 .. Len(B) /\ j = Len(A) + e
    <3>1. J[i] = A[i] /\ J[j] = R[e]
      BY <1>10, <2>4
    <3> QED
      BY <1>9, <2>4, <3>1
  <2>5. CASE d \in 1 .. Len(B) /\ e \in 1 .. Len(B) /\ d < e /\ i = Len(A) + d /\ j = Len(A) + e
    <3>1. J[i] = R[d] /\ J[j] = R[e]
      BY <1>10, <2>5
    <3> QED
      BY <1>5, <1>8, <2>5, <3>1 DEF Sorted
  <2> QED
    BY <2>2, <2>3, <2>4, <2>5
<1>13. q \in 1 .. Len(J) /\ q < Len(J) /\ q \in 0 .. Len(J) /\ q + 1 = Len(A) + 1 /\ 1 \in 1 .. Len(B)
       /\ 1 \in 1 .. Len(A) /\ Len(J) - q = Len(B) /\ Len(J) > 0
  BY ONLY <1>10, <1>11
<1>14. J[q + 1].name = s
  BY <1>5, <1>10, <1>13
<1>15. SubSeq(J, 1, q) = A
  <2>1. /\ SubSeq(J, 1, q) \in Seq(KeySet) /\ Len(SubSeq(J, 1, q)) = Len(A)
        /\ \A i \in 1 .. q : SubSeq(J, 1, q)[i] = J[i]
    BY <1>10, <1>13, HalvesAre
  <2>2. \A i \in 1 .. Len(A) : SubSeq(J, 1, q)[i] = A[i]
    BY <1>10, <2>1
  <2> QED
    BY <1>3, <2>1, <2>2, SameKeys
<1>16. Second(h, J, q) = B
  <2> DEFINE S == Second(h, J, q)
  <2>1. /\ S \in Seq(KeySet) /\ Len(S) = Len(J) - q
        /\ S[1] = IF h = 0 THEN J[q + 1] ELSE [name |-> 0, data |-> J[q + 1].data]
    BY ONLY <1>3, <1>10, <1>13, SecondIs
  <2>2. \A i \in 2 .. (Len(J) - q) : S[i] = J[q + i]
    BY <1>3, <1>10, <1>13, SecondIs
  <2> HIDE DEF S
  <2>3. ASSUME NEW i \in 1 .. Len(B) PROVE S[i] = B[i]
    <3>1. /\ B[i] = [name |-> B[i].name, data |-> B[i].data]
          /\ R[i] = [name |-> R[i].name, data |-> R[i].data]
      <4>1. B[i] \in KeySet /\ R[i] \in KeySet
        BY <1>3, <1>5, KeyNames
      <4> QED
        BY <4>1 DEF KeySet
    <3>2. J[q + i] = R[i]
      BY <1>10
    <3>3. CASE i = 1
      <4>1. h # 0
        BY <1>3
      <4>2. S[1] = [name |-> 0, data |-> J[q + 1].data]
        BY <2>1, <4>1
      <4>3. J[q + 1].data = B[1].data
        BY <1>5, <3>2, <3>3
      <4> QED
        BY <1>4, <3>1, <3>3, <4>2, <4>3
    <3>4. CASE i # 1
      <4>1. i \in 2 .. (Len(J) - q)
        BY <1>13, <3>4
      <4>2. R[i] = B[i]
        BY <1>5, <3>1, <3>4
      <4> QED
        BY <2>2, <3>2, <4>1, <4>2
    <3> QED
      BY <3>3, <3>4
  <2>4. Len(S) = Len(B)
    BY <1>13, <2>1
  <2>5. S = B
    BY <1>3, <2>1, <2>3, <2>4, SameKeys
  <2> QED
    BY <2>5 DEF S
<1>17. Below(Z, s) = Za /\ From(Z, s) = Zb
  <2> DEFINE w == s
  <2>1. ASSUME NEW n \in Za PROVE n < w /\ ~ n >= w
    <3>1. n < w /\ n \in Nat /\ w \in Nat
      BY <1>1, <1>3
    <3> HIDE DEF w
    <3> QED
      BY <3>1
  <2>2. ASSUME NEW n \in Zb PROVE n >= w /\ ~ n < w
    <3>1. n >= w /\ n \in Nat /\ w \in Nat
      BY <1>1, <1>3
    <3> HIDE DEF w
    <3> QED
      BY <3>1
  <2> QED
    BY <2>1, <2>2 DEF Below, From
<1>18. PartsKept(h, J, q, s, Z)
  BY <1>3, <1>10, <1>12, <1>13, <1>14, InnerHalves
<1>19. ASSUME NEW i \in 1 .. Len(A) PROVE J[i].data = A[i].data /\ Part(J, Z, i) = Part(A, Za, i)
  BY <1>10, <1>15, <1>17, <1>18 DEF PartsKept
<1>20. ASSUME NEW j \in 1 .. Len(B)
       PROVE  J[Len(A) + j].data = B[j].data /\ Part(J, Z, Len(A) + j) = Part(B, Zb, j)
  <2>1. J[Len(A) + j].data = B[j].data
    BY <1>5, <1>10
  <2>2. j \in 1 .. (Len(J) - q)
    BY <1>13
  <2> QED
    BY <1>16, <1>17, <1>18, <2>1, <2>2 DEF PartsKept
<1>21. ASSUME NEW i \in 1 .. Len(B) PROVE B[i].name = 0 <=> i = 1
  <2>1. CASE i = 1
    BY <1>4, <2>1
  <2>2. CASE i # 1
    <3>1. B[1].name < B[i].name
      BY <1>3, <1>13, <2>2 DEF Sorted
    <3>2. B[i].name # 0
      BY <1>4, <3>1
    <3> QED
      BY <2>2, <3>2
  <2> QED
    BY <2>1, <2>2
<1>22. J[1].name = 0
  BY <1>4, <1>10, <1>13
<1> QED
  BY <1>8, <1>9, <1>12, <1>19, <1>20, <1>21, <1>22 DEF JoinedWell

(* The keys of two blocks of children in one.                              *)
InnerMerged(h, A, B, s, J, Za, Zb) ==
  /\ J \in Seq(KeySet) /\ Len(J) = Len(A) + Len(B) /\ Len(A) > 0 /\ Len(J) > 0
  /\ Sorted(J) /\ J[1].name = 0
  /\ \A i \in 1 .. Len(A) : J[i].data = A[i].data /\ Part(J, Za \cup Zb, i) = Part(A, Za, i)
  /\ \A j \in 1 .. Len(B) :
       J[Len(A) + j].data = B[j].data /\ Part(J, Za \cup Zb, Len(A) + j) = Part(B, Zb, j)
  /\ MergeIndexes(Node(h, A), s, Node(h, B)) = J

LEMMA MergedInner ==
  ASSUME NEW N, NEW root, NEW z, NEW m, NEW p, NEW a, NEW b, MergeCase(N, root, z, m, p, a, b),
         NEW h, h = N[a].height, h > 0,
         NEW s, s = N[m].keys[p].name, NEW A, A = N[a].keys, NEW B, B = N[b].keys,
         NEW J, J = A \o Renamed(h, s, B)
  PROVE  InnerMerged(h, A, B, s, J, z[a], z[b])
<1> DEFINE R == Renamed(h, s, B)
           Z == z[a] \cup z[b]
<1>1. /\ a \in Blocks(N) /\ b \in Blocks(N) /\ N[b].height = h /\ N[a].height = h
      /\ s \in AllNames /\ s \in Nat /\ (\A n \in z[a] : n < s) /\ (\A n \in z[b] : n >= s)
  <2>1. MergeCase(N, root, z, m, p, a, b) /\ s = N[m].keys[p].name
    OBVIOUS
  <2>2. Beside(N, z, m, p, a, b, s)
    BY ONLY <2>1, Neighbours
  <2> QED
    BY ONLY <2>2, h = N[a].height DEF Beside
<1>2. Zoned(N, root, z)
  BY Zenon DEF MergeCase
<1>3. /\ A \in Seq(KeySet) /\ B \in Seq(KeySet) /\ z[a] \in SUBSET Nat /\ z[b] \in SUBSET Nat
      /\ Sorted(A) /\ Sorted(B) /\ h \in Nat /\ h \in Int /\ Z \in SUBSET Nat
  BY <1>1, <1>2, ZonedTypes, ZonedSorted
<1>4. /\ Len(A) > 0 /\ A[1].name = 0 /\ Len(B) > 0 /\ B[1].name = 0
  <2>1. BlockOK(N, root, z, a) /\ BlockOK(N, root, z, b)
    BY <1>1, <1>2 DEF Zoned
  <2> QED
    BY <1>1, <2>1 DEF BlockOK, InnerOK
<1>5. /\ R \in Seq(KeySet) /\ Len(R) = Len(B)
      /\ \A i \in 1 .. Len(B) : R[i] = [name |-> IF h > 0 /\ i = 1 THEN s ELSE B[i].name, data |-> B[i].data]
  <2>1. h \in Nat /\ s \in AllNames /\ B \in Seq(KeySet)
    BY <1>1, <1>3
  <2>2. /\ Renamed(h, s, B) \in Seq(KeySet) /\ Len(Renamed(h, s, B)) = Len(B)
        /\ \A i \in 1 .. Len(B) :
             Renamed(h, s, B)[i] = [name |-> IF h > 0 /\ i = 1 THEN s ELSE B[i].name, data |-> B[i].data]
    BY ONLY <2>1, RenamedIs
  <2> QED
    BY ONLY <2>2
<1>6. ASSUME NEW i \in 1 .. Len(A) PROVE A[i].name < s
  <2>1. PICK n \in z[a] : A[i].name <= n
    BY <1>1, <1>2, KeyUsed
  <2> DEFINE x == A[i].name
             w == s
  <2>2. n \in Nat /\ x \in Nat /\ w \in Nat /\ x <= n /\ n < w
    BY <1>1, <1>3, <2>1, KeyNames
  <2> HIDE DEF x, w
  <2>3. x < w
    BY <2>2
  <2> QED
    BY <2>3 DEF x, w
<1>7. ASSUME NEW j \in 1 .. Len(B), j > 1 PROVE s < B[j].name
  <2>1. 1 \in 1 .. Len(N[b].keys) /\ j \in 1 .. Len(N[b].keys) /\ N[b].height > 0
    BY <1>1, <1>4
  <2>2. PICK n \in z[b] : \A i \in 1 .. Len(N[b].keys) : i > 1 => n < N[b].keys[i].name
    BY <1>1, <1>2, <2>1, KeyUsed
  <2> DEFINE x == B[j].name
             w == s
  <2>3. n \in Nat /\ x \in Nat /\ w \in Nat /\ n < x /\ n >= w
    BY <1>1, <1>3, <1>7, <2>1, <2>2, KeyNames
  <2> HIDE DEF x, w
  <2>4. w < x
    BY <2>3
  <2> QED
    BY <2>4 DEF x, w
<1>8. J = A \o R
  OBVIOUS
<1> HIDE DEF R, Z
<1>9. /\ \A i \in 1 .. Len(B) : i = 1 => R[i].name = s
      /\ \A i \in 1 .. Len(B) : i # 1 => R[i].name = B[i].name
      /\ \A i \in 1 .. Len(B) : R[i].data = B[i].data
  <2> SUFFICES ASSUME NEW i \in 1 .. Len(B)
               PROVE  R[i].data = B[i].data /\ R[i].name = IF i = 1 THEN s ELSE B[i].name
    OBVIOUS
  <2>1. R[i] = [name |-> IF h > 0 /\ i = 1 THEN s ELSE B[i].name, data |-> B[i].data]
    BY <1>5
  <2>2. h > 0
    OBVIOUS
  <2> QED
    BY ONLY <2>1, <2>2
<1>10. /\ J \in Seq(KeySet) /\ Len(J) = Len(A) + Len(B)
       /\ \A i \in 1 .. Len(A) : J[i] = A[i]
       /\ \A j \in 1 .. Len(B) : J[Len(A) + j] = R[j]
  <2>1. A \in Seq(KeySet) /\ R \in Seq(KeySet) /\ Len(R) = Len(B)
    BY <1>3, <1>5
  <2>2. /\ A \o R \in Seq(KeySet) /\ Len(A \o R) = Len(A) + Len(R)
        /\ \A i \in 1 .. Len(A) : (A \o R)[i] = A[i]
        /\ \A j \in 1 .. Len(R) : (A \o R)[Len(A) + j] = R[j]
    BY ONLY <2>1, JoinIs
  <2> QED
    BY ONLY <1>8, <2>1, <2>2
<1>11. Joined(A, B, s, R, J)
  BY ONLY <1>5, <1>9, <1>10 DEF Joined
<1>12. /\ Sorted(R) /\ \A i \in 1 .. Len(A) : \A j \in 1 .. Len(B) : A[i].name < R[j].name
       /\ Sorted(J) /\ J[1].name = 0
       /\ \A i \in 1 .. Len(A) : J[i].data = A[i].data /\ Part(J, Z, i) = Part(A, z[a], i)
       /\ \A j \in 1 .. Len(B) :
            J[Len(A) + j].data = B[j].data /\ Part(J, Z, Len(A) + j) = Part(B, z[b], j)
       /\ \A i \in 1 .. Len(B) : B[i].name = 0 <=> i = 1
  <2> DEFINE Za == z[a]
             Zb == z[b]
  <2>1. /\ Z = Za \cup Zb /\ h > 0 /\ Za \in SUBSET Nat /\ Zb \in SUBSET Nat
        /\ (\A n \in Za : n < s) /\ (\A n \in Zb : n >= s)
    BY <1>1, <1>3 DEF Z
  <2> HIDE DEF Za, Zb
  <2>2. \A i \in 1 .. Len(A) : A[i].name < s
    BY <1>6
  <2>3. \A j \in 1 .. Len(B) : j > 1 => s < B[j].name
    BY <1>7
  <2>4. JoinedWell(A, B, R, J, Za, Zb, Z)
    BY ONLY <1>1, <1>3, <1>4, <1>11, <2>1, <2>2, <2>3, JoinInner
  <2> QED
    BY <2>4 DEF JoinedWell, Za, Zb
<1>13. MergeIndexes(Node(h, A), s, Node(h, B)) = A \o R
  <2>1. \A i \in 1 .. Len(B) : h > 0 /\ B[i].name = 0 <=> h > 0 /\ i = 1
    BY <1>12
  <2>2. Sorted(Renamed(h, s, B)) /\ \A i \in 1 .. Len(A) : \A j \in 1 .. Len(B) : A[i].name < Renamed(h, s, B)[j].name
    BY <1>12 DEF R
  <2> QED
    BY ONLY <1>1, <1>3, <2>1, <2>2, MergeIs DEF R
<1>14. Len(J) > 0
  BY ONLY <1>3, <1>4, <1>10
<1> QED
  BY <1>4, <1>8, <1>10, <1>12, <1>13, <1>14 DEF Z, InnerMerged

(* The keys of a parent whose children p - 1 and p became one.             *)
Unpaired(K, p, d, J) ==
  /\ J \in Seq(KeySet) /\ Len(J) = Len(K) - 1 /\ Sorted(J)
  /\ J[p - 1] = [name |-> K[p - 1].name, data |-> d]
  /\ \A j \in 1 .. (Len(K) - 1) : j < p - 1 => J[j] = K[j]
  /\ \A j \in 1 .. (Len(K) - 1) : j >= p => J[j] = K[j + 1]
  /\ \A n \in Nat : FindKey(J, n) = IF FindKey(K, n) < p THEN FindKey(K, n) ELSE FindKey(K, n) - 1

LEMMA UnpairedKeys ==
  ASSUME NEW K \in Seq(KeySet), Sorted(K), NEW p \in 2 .. Len(K), NEW d \in DataSet,
         NEW J, J = RemoveAt(Put(K, p - 1, d), p)
  PROVE  Unpaired(K, p, d, J)
<1> DEFINE Q == Put(K, p - 1, d)
           o == p - 1
<1>1. o \in 1 .. Len(K) /\ p \in 1 .. Len(K) /\ Len(K) \in Nat /\ o # p /\ o < p /\ p \in Nat
  OBVIOUS
<1>2. /\ Q \in Seq(KeySet) /\ Len(Q) = Len(K) /\ Sorted(Q)
      /\ Q[o] = [name |-> K[o].name, data |-> d]
      /\ \A j \in 1 .. Len(K) : Q[j].name = K[j].name
      /\ \A j \in 1 .. Len(K) : j # o => Q[j] = K[j]
  <2> HIDE DEF o
  <2>1. Q = Put(K, o, d)
    BY DEF o
  <2> HIDE DEF Q
  <2>2. /\ Put(K, o, d) \in Seq(KeySet) /\ Len(Put(K, o, d)) = Len(K) /\ Sorted(Put(K, o, d))
        /\ Put(K, o, d)[o] = [name |-> K[o].name, data |-> d]
        /\ \A j \in 1 .. Len(K) : Put(K, o, d)[j].name = K[j].name
        /\ \A j \in 1 .. Len(K) : j # o => Put(K, o, d)[j] = K[j]
    <3>1. o \in 1 .. Len(K)
      BY <1>1
    <3> QED
      BY ONLY <3>1, PutIs, Sorted(K), K \in Seq(KeySet), d \in DataSet
  <2> QED
    BY ONLY <2>1, <2>2
<1> HIDE DEF Q
<1>3. J = RemoveAt(Q, p)
  BY DEF Q
<1>4. /\ J \in Seq(KeySet) /\ Len(J) = Len(K) - 1
      /\ \A i \in 1 .. (Len(K) - 1) : J[i] = IF i < p THEN Q[i] ELSE Q[i + 1]
  <2>1. p \in 1 .. Len(Q)
    BY <1>1, <1>2
  <2>2. /\ RemoveAt(Q, p) \in Seq(KeySet)
        /\ Len(RemoveAt(Q, p)) = Len(Q) - 1
        /\ \A i \in 1 .. (Len(Q) - 1) : RemoveAt(Q, p)[i] = IF i < p THEN Q[i] ELSE Q[i + 1]
    BY ONLY <1>2, <2>1, RemoveAtIs
  <2> QED
    BY ONLY <1>2, <1>3, <2>2
<1>5. J[p - 1] = [name |-> K[p - 1].name, data |-> d]
  <2>1. o \in 1 .. (Len(K) - 1)
    BY <1>1
  <2> QED
    BY <1>1, <1>2, <1>4, <2>1
<1>6. ASSUME NEW j \in 1 .. (Len(K) - 1), j < p - 1 PROVE J[j] = K[j]
  <2>1. j < p /\ j # o /\ j \in 1 .. Len(K)
    BY <1>1, <1>6
  <2> QED
    BY <1>2, <1>4, <2>1
<1>7. ASSUME NEW j \in 1 .. (Len(K) - 1), j >= p PROVE J[j] = K[j + 1]
  <2>1. ~ j < p /\ j + 1 # o /\ j + 1 \in 1 .. Len(K)
    BY <1>1, <1>7
  <2> QED
    BY <1>2, <1>4, <2>1
<1>8. ASSUME NEW i \in 1 .. (Len(K) - 1)
      PROVE  /\ J[i].name = IF i < p THEN K[i].name ELSE K[i + 1].name
             /\ i \in 1 .. Len(K) /\ i + 1 \in 1 .. Len(K)
  <2>1. i \in 1 .. Len(K) /\ i + 1 \in 1 .. Len(K)
    BY <1>1
  <2> QED
    BY <1>2, <1>4, <2>1
<1>9. Sorted(J)
  <2> SUFFICES ASSUME NEW i \in 1 .. (Len(K) - 1), NEW j \in 1 .. (Len(K) - 1), i < j
               PROVE  J[i].name < J[j].name
    BY <1>4 DEF Sorted
  <2> DEFINE a == IF i < p THEN i ELSE i + 1
             b == IF j < p THEN j ELSE j + 1
  <2>1. a \in 1 .. Len(K) /\ b \in 1 .. Len(K) /\ a < b
    BY <1>1
  <2>2. J[i].name = K[a].name /\ J[j].name = K[b].name
    BY <1>8
  <2> HIDE DEF a, b
  <2> QED
    BY <2>1, <2>2 DEF Sorted
<1>10. ASSUME NEW n \in Nat
       PROVE  FindKey(J, n) = IF FindKey(K, n) < p THEN FindKey(K, n) ELSE FindKey(K, n) - 1
  <2>1. Len(J) = Len(K) - 1 /\ J \in Seq(KeySet)
        /\ \A i \in 1 .. Len(J) : J[i].name = IF i < p THEN K[i].name ELSE K[i + 1].name
    BY <1>4, <1>8
  <2> QED
    BY ONLY <1>1, <2>1, FindKeyWithout, K \in Seq(KeySet), Sorted(K), n \in Nat
<1> QED
  BY <1>4, <1>5, <1>6, <1>7, <1>9, <1>10 DEF Unpaired

(* What merge_blocks does to the blocks.                                   *)
ChildMerge(N, M, m, p, a, b, new) ==
  /\ M \in NodeMap /\ new \in TreeBlocks \ Blocks(N)
  /\ M[new] = Node(N[a].height, N[a].keys \o Renamed(N[a].height, N[m].keys[p].name, N[b].keys))
  /\ M[a] = FreeBlock /\ M[b] = FreeBlock
  /\ M[m] = Node(N[m].height, RemoveAt(Put(N[m].keys, p - 1, new), p))
  /\ \A x \in TreeBlocks : x \notin {new, a, b, m} => M[x] = N[x]

MergeZone(z, a, b, new) == [x \in TreeBlocks |-> IF x = new THEN z[a] \cup z[b] ELSE z[x]]

LEMMA MergedBlock ==
  ASSUME NEW N, NEW root, NEW z, NEW m, NEW p, NEW a, NEW b, MergeCase(N, root, z, m, p, a, b),
         NEW M, NEW new, ChildMerge(N, M, m, p, a, b, new),
         NEW y, y = MergeZone(z, a, b, new),
         M[root].height = N[root].height,
         \A x \in Blocks(N) \ {a, b} : x \in Blocks(M) /\ M[x].height = N[x].height /\ y[x] = z[x]
  PROVE  BlockOK(M, root, y, new)
<1> DEFINE h == N[a].height
           A == N[a].keys
           B == N[b].keys
           s == N[m].keys[p].name
           J == A \o Renamed(h, s, B)
           Z == z[a] \cup z[b]
<1>1. Zoned(N, root, z) /\ a \in Blocks(N) /\ b \in Blocks(N) /\ h = N[b].height
  <2> HIDE DEF s
  <2>1. Beside(N, z, m, p, a, b, s)
    BY Neighbours DEF s
  <2> QED
    BY <2>1 DEF MergeCase, Beside
<1>2. h \in Nat /\ h \in 0 .. N[root].height /\ A \in Seq(KeySet) /\ B \in Seq(KeySet)
  BY <1>1, ZonedTypes
<1>3. M[new].height = h /\ M[new].keys = J /\ new \in TreeBlocks
  <2> HIDE DEF J, h
  <2>1. M[new] = Node(h, J)
    BY DEF ChildMerge, J, h
  <2>2. new \in TreeBlocks
    BY DEF ChildMerge
  <2> QED
    BY ONLY <2>1, <2>2, NodeFields
<1>4. y[new] = Z /\ Z # {} /\ Convex(Z)
  <2>1. y[new] = Z
    BY <1>3 DEF MergeZone
  <2>2. Z # {} /\ Convex(Z)
    BY ZonesJoin
  <2> QED
    BY <2>1, <2>2
<1>5. ASSUME h = 0 PROVE LeafOK(J, Z)
  <2>1. A \o Renamed(0, s, B) = J
    BY <1>5
  <2> HIDE DEF s, A, B, J, h
  <2>2. N[a].height = 0 /\ s = N[m].keys[p].name /\ A = N[a].keys /\ B = N[b].keys
    BY <1>5 DEF s, A, B, h
  <2>3. LeafMerged(A, B, s, J, Z)
    BY <2>1, <2>2, MergedLeaf
  <2> QED
    BY <2>3 DEF LeafMerged
<1>6. ASSUME h > 0 PROVE InnerOK(M, y, new)
  <2>1. /\ Sorted(J) /\ Len(J) > 0 /\ J[1].name = 0 /\ Len(J) = Len(A) + Len(B)
        /\ \A i \in 1 .. Len(A) : J[i].data = A[i].data /\ Part(J, Z, i) = Part(A, z[a], i)
        /\ \A j \in 1 .. Len(B) :
             J[Len(A) + j].data = B[j].data /\ Part(J, Z, Len(A) + j) = Part(B, z[b], j)
    <3>1. J = A \o Renamed(h, s, B)
      OBVIOUS
    <3> HIDE DEF s, A, B, J, h
    <3>2. h = N[a].height /\ s = N[m].keys[p].name /\ A = N[a].keys /\ B = N[b].keys
      BY DEF s, A, B, h
    <3>3. InnerMerged(h, A, B, s, J, z[a], z[b])
      BY <1>6, <3>1, <3>2, MergedInner
    <3> QED
      BY <3>3 DEF InnerMerged
  <2> HIDE DEF J, Z
  <2>2. ASSUME NEW x \in Blocks(N), N[x].height = h - 1 PROVE x \in Blocks(N) \ {a, b}
    BY <1>1, <1>2, <2>2
  <2>3. ASSUME NEW i \in 1 .. Len(A) PROVE Child(M, y, new, i)
    <3>1. Child(N, z, a, i)
      BY <1>1, <1>6, KeyUsed
    <3>2. A[i].data \in Blocks(N) /\ N[A[i].data].height = h - 1 /\ z[A[i].data] = Part(A, z[a], i)
      BY <3>1 DEF Child
    <3>3. A[i].data \in Blocks(M) /\ M[A[i].data].height = h - 1 /\ y[A[i].data] = Part(A, z[a], i)
      BY <2>2, <3>2
    <3> QED
      BY <1>3, <1>4, <2>1, <3>3 DEF Child
  <2>4. ASSUME NEW j \in 1 .. Len(B) PROVE Child(M, y, new, Len(A) + j)
    <3>1. Child(N, z, b, j)
      BY <1>1, <1>6, KeyUsed
    <3>2. B[j].data \in Blocks(N) /\ N[B[j].data].height = h - 1 /\ z[B[j].data] = Part(B, z[b], j)
      BY <1>1, <3>1 DEF Child
    <3>3. B[j].data \in Blocks(M) /\ M[B[j].data].height = h - 1 /\ y[B[j].data] = Part(B, z[b], j)
      BY <2>2, <3>2
    <3> QED
      BY <1>3, <1>4, <2>1, <3>3 DEF Child
  <2>5. ASSUME NEW i \in 1 .. Len(J) PROVE Child(M, y, new, i)
    <3>1. i \in 1 .. (Len(A) + Len(B)) /\ Len(A) \in Nat /\ Len(B) \in Nat
      <4>1. Len(A) \in Nat /\ Len(B) \in Nat
        BY <1>2
      <4>2. Len(J) = Len(A) + Len(B)
        BY <2>1
      <4> QED
        BY ONLY <4>1, <4>2, i \in 1 .. Len(J)
    <3>2. i \in 1 .. Len(A) \/ (i - Len(A) \in 1 .. Len(B) /\ i = Len(A) + (i - Len(A)))
      BY ONLY <3>1, JoinIndex
    <3>3. CASE i - Len(A) \in 1 .. Len(B) /\ i = Len(A) + (i - Len(A))
      BY <2>4, <3>3
    <3> QED
      BY <2>3, <3>2, <3>3
  <2> QED
    BY <1>3, <2>1, <2>5 DEF InnerOK
<1> QED
  BY <1>2, <1>3, <1>4, <1>5, <1>6 DEF BlockOK

MergeDone(N, M, root, z, a, b, new) ==
  /\ Zoned(M, root, MergeZone(z, a, b, new))
  /\ Blocks(M) = (Blocks(N) \ {a, b}) \cup {new}
  /\ a \in Blocks(N) /\ b \in Blocks(N) /\ a # root /\ b # root /\ a # b

LEMMA ZonedMerge ==
  ASSUME NEW N, NEW root, NEW z, NEW m, NEW p, NEW a, NEW b, MergeCase(N, root, z, m, p, a, b),
         NEW M, NEW new, ChildMerge(N, M, m, p, a, b, new)
  PROVE  MergeDone(N, M, root, z, a, b, new)
<1> DEFINE y == MergeZone(z, a, b, new)
           K == N[m].keys
           hm == N[m].height
           J == RemoveAt(Put(K, p - 1, new), p)
           Z == z[a] \cup z[b]
<1>1. Zoned(N, root, z) /\ m \in Blocks(N) /\ hm > 0 /\ p \in 2 .. Len(K) /\ a = K[p - 1].data /\ b = K[p].data
  BY DEF MergeCase
<1>2. /\ a \in Blocks(N) /\ b \in Blocks(N) /\ a # b /\ a # m /\ b # m
      /\ N[a].height = hm - 1 /\ N[b].height = hm - 1
      /\ z[a] = Part(K, z[m], p - 1) /\ z[b] = Part(K, z[m], p)
  <2> DEFINE s == N[m].keys[p].name
  <2>1. s = N[m].keys[p].name
    OBVIOUS
  <2> HIDE DEF s
  <2>2. Beside(N, z, m, p, a, b, s)
    BY <2>1, Neighbours
  <2> QED
    BY <2>2 DEF Beside
<1>3. /\ K \in Seq(KeySet) /\ Sorted(K) /\ hm \in Nat /\ hm <= N[root].height /\ N[root].height \in Nat
      /\ root \in Blocks(N) /\ root \in TreeBlocks /\ m \in TreeBlocks /\ z[m] \in SUBSET Nat
      /\ a \in TreeBlocks /\ b \in TreeBlocks /\ z \in [TreeBlocks -> SUBSET Nat] /\ z[root] = Nat
  <2>1. root \in Blocks(N) /\ z \in [TreeBlocks -> SUBSET Nat] /\ z[root] = Nat
    BY <1>1 DEF Zoned
  <2> QED
    BY <1>1, <1>2, <2>1, ZonedTypes, ZonedSorted
<1>4. /\ M \in NodeMap /\ new \in TreeBlocks \ Blocks(N) /\ M[a] = FreeBlock /\ M[b] = FreeBlock
      /\ M[m] = Node(hm, J)
      /\ \A x \in TreeBlocks : x \notin {new, a, b, m} => M[x] = N[x]
  BY DEF ChildMerge
<1>5. M[new].height = N[a].height
  <2> DEFINE o == N[a].keys \o Renamed(N[a].height, N[m].keys[p].name, N[b].keys)
  <2>1. M[new] = Node(N[a].height, o)
    BY DEF ChildMerge
  <2> HIDE DEF o
  <2> QED
    BY <2>1, NodeFields
<1>6. Unpaired(K, p, new, J)
  <2>1. new \in DataSet
    BY <1>4 DEF DataSet
  <2> HIDE DEF K, J
  <2>2. J = RemoveAt(Put(K, p - 1, new), p)
    BY DEF J
  <2> QED
    BY <1>1, <1>3, <2>1, <2>2, UnpairedKeys
<1> HIDE DEF J
<1>7. M[m].height = hm /\ M[m].keys = J
  BY <1>4, NodeFields
<1> HIDE DEF K, hm
<1>8. a # root /\ b # root
  <2>1. hm - 1 # N[root].height
    BY <1>3
  <2> QED
    BY <1>2, <2>1
<1>9. Blocks(M) = (Blocks(N) \ {a, b}) \cup {new}
  <2>1. M[new] # FreeBlock /\ M[m] # FreeBlock
    <3>1. M[new].height # -1 /\ M[m].height # -1
      BY <1>1, <1>2, <1>3, <1>5, <1>7
    <3> QED
      BY <3>1 DEF FreeBlock
  <2> QED
    BY <1>1, <1>2, <1>3, <1>4, <2>1 DEF Blocks
<1>10. /\ y \in [TreeBlocks -> SUBSET Nat] /\ y[new] = Z
       /\ \A x \in TreeBlocks : x # new => y[x] = z[x]
  <2>1. Z \in SUBSET Nat
    BY <1>3
  <2> HIDE DEF Z
  <2>2. y = [x \in TreeBlocks |-> IF x = new THEN Z ELSE z[x]]
    BY DEF MergeZone, Z
  <2> HIDE DEF y
  <2> QED
    BY <1>3, <1>4, <2>1, <2>2
<1> HIDE DEF y, Z
<1>11. ASSUME NEW x \in Blocks(N) \ {a, b}
       PROVE  x \in Blocks(M) /\ M[x].height = N[x].height /\ y[x] = z[x] /\ x \in TreeBlocks /\ x # new
  <2>1. x \in TreeBlocks /\ x # new
    BY <1>4 DEF Blocks
  <2>2. M[x].height = N[x].height
    BY <1>4, <1>7, <2>1 DEF hm
  <2> QED
    BY <1>9, <1>10, <2>1, <2>2
<1>12. M[root].height = N[root].height /\ y[root] = Nat /\ root \in Blocks(M)
  BY <1>3, <1>8, <1>11
<1>13. BlockOK(M, root, y, new)
  <2>1. y = MergeZone(z, a, b, new)
    BY DEF y
  <2> QED
    BY <1>11, <1>12, <2>1, MergedBlock
<1>14. ASSUME NEW x \in Blocks(N), N[x].height > 0, NEW j \in 1 .. Len(N[x].keys), N[x].keys[j].data \in {a, b}
       PROVE  x = m /\ j \in {p - 1, p}
  <2>1. p \in 1 .. Len(N[m].keys) /\ p - 1 \in 1 .. Len(N[m].keys) /\ N[m].height > 0
    BY <1>1, <1>3 DEF K, hm
  <2>2. N[m].keys[p - 1].data = a /\ N[m].keys[p].data = b
    BY <1>1 DEF K
  <2>3. CASE N[x].keys[j].data = a
    <3>1. N[x].keys[j].data = N[m].keys[p - 1].data
      BY <2>2, <2>3
    <3> QED
      BY <1>1, <1>14, <2>1, <3>1, OneParent
  <2>4. CASE N[x].keys[j].data = b
    <3>1. N[x].keys[j].data = N[m].keys[p].data
      BY <2>2, <2>4
    <3> QED
      BY <1>1, <1>14, <2>1, <3>1, OneParent
  <2> QED
    BY <1>14, <2>3, <2>4
<1>15. ASSUME NEW x \in Blocks(N) \ {a, b}, x # m PROVE BlockOK(M, root, y, x)
  <2>1. BlockOK(N, root, z, x)
    BY <1>1 DEF Zoned
  <2>2. M[x] = N[x] /\ x \in TreeBlocks
    BY <1>4, <1>11, <1>15
  <2>3. ASSUME N[x].height > 0 PROVE InnerOK(M, y, x)
    <3> DEFINE G == {a, b}
    <3>1. \A k \in Blocks(N) \ G : k \in Blocks(M) /\ M[k].height = N[k].height /\ y[k] = z[k]
      BY <1>11
    <3>2. \A j \in 1 .. Len(N[x].keys) : N[x].keys[j].data \notin G
      BY <1>14, <1>15, <2>3
    <3>3. x \in Blocks(N) \ G /\ M[x] = N[x]
      BY <2>2
    <3> HIDE DEF G
    <3> QED
      BY ONLY <1>1, <2>3, <3>1, <3>2, <3>3, InnerKept
  <2> QED
    BY <1>11, <1>12, <2>1, <2>2, <2>3 DEF BlockOK
<1>16. m \in Blocks(N) \ {a, b} /\ m # new /\ y[m] = z[m] /\ M[m].height = hm
  BY <1>1, <1>2, <1>7, <1>11
<1>17. /\ J \in Seq(KeySet) /\ Len(J) = Len(K) - 1 /\ Sorted(J)
       /\ J[p - 1].name = K[p - 1].name /\ J[p - 1].data = new
       /\ \A j \in 1 .. (Len(K) - 1) : j < p - 1 => J[j] = K[j]
       /\ \A j \in 1 .. (Len(K) - 1) : j >= p => J[j] = K[j + 1]
       /\ \A n \in Nat : FindKey(J, n) = IF FindKey(K, n) < p THEN FindKey(K, n) ELSE FindKey(K, n) - 1
  BY <1>6 DEF Unpaired
<1>18. p \in Nat /\ p >= 2 /\ Len(K) \in Nat /\ p <= Len(K)
  BY <1>1, <1>3
<1>19. ASSUME NEW n \in z[m], NEW j \in Nat
       PROVE  /\ j < p - 1 => (FindKey(J, n) = j <=> FindKey(K, n) = j)
              /\ FindKey(J, n) = p - 1 <=> FindKey(K, n) \in {p - 1, p}
              /\ j >= p => (FindKey(J, n) = j <=> FindKey(K, n) = j + 1)
  <2> DEFINE f == FindKey(K, n)
             g == FindKey(J, n)
  <2>1. n \in Nat
    BY <1>3
  <2>2. f \in 0 .. Len(K) /\ g = IF f < p THEN f ELSE f - 1
    BY <1>3, <1>17, <2>1, FindKeyIs
  <2> HIDE DEF f, g
  <2>3. /\ j < p - 1 => (g = j <=> f = j)
        /\ g = p - 1 <=> f \in {p - 1, p}
        /\ j >= p => (g = j <=> f = j + 1)
    BY ONLY <1>18, <2>2, j \in Nat
  <2> QED
    BY <2>3 DEF f, g
<1>20. BlockOK(M, root, y, m)
  <2>1. InnerOK(N, z, m) /\ BlockOK(N, root, z, m)
    BY <1>1 DEF Zoned, BlockOK, hm
  <2>2. K[1].name = 0 /\ \A j \in 1 .. Len(K) : Child(N, z, m, j)
    BY <2>1 DEF InnerOK, K
  <2>3. J[1].name = 0
    <3>1. p - 1 = 1 \/ (1 < p - 1 /\ 1 \in 1 .. (Len(K) - 1))
      BY <1>18
    <3> QED
      BY <1>17, <2>2, <3>1
  <2>4. ASSUME NEW j \in 1 .. Len(K), j # p - 1, j # p
        PROVE  K[j].data \in Blocks(M) /\ M[K[j].data].height = hm - 1 /\ y[K[j].data] = Part(K, z[m], j)
    <3>1. Child(N, z, m, j)
      BY <2>2
    <3>2. K[j].data \in Blocks(N) /\ N[K[j].data].height = hm - 1 /\ z[K[j].data] = Part(K, z[m], j)
      BY <3>1 DEF Child, K, hm
    <3>3. K[j].data \notin {a, b}
      BY <1>1, <1>14, <2>4 DEF K, hm
    <3> QED
      BY <1>11, <3>2, <3>3
  <2>5. ASSUME NEW j \in 1 .. (Len(K) - 1) PROVE Child(M, y, m, j)
    <3>1. j < p - 1 \/ j = p - 1 \/ j >= p
      BY <1>18
    <3>2. CASE j < p - 1
      <4>1. j \in 1 .. Len(K) /\ j # p - 1 /\ j # p /\ j \in Nat
        BY <1>18, <3>2
      <4>2. J[j] = K[j]
        BY <1>17, <3>2
      <4>3. Part(J, z[m], j) = Part(K, z[m], j)
        BY <1>19, <3>2, <4>1 DEF Part
      <4> QED
        BY <1>7, <1>16, <2>4, <4>1, <4>2, <4>3 DEF Child
    <3>3. CASE j = p - 1
      <4>1. j \in Nat
        OBVIOUS
      <4>2. Part(J, z[m], j) = Z
        BY <1>2, <1>19, <3>3, <4>1 DEF Part, Z
      <4>3. new \in Blocks(M) /\ M[new].height = hm - 1
        BY <1>2, <1>5, <1>9
      <4> QED
        BY <1>7, <1>10, <1>16, <1>17, <3>3, <4>2, <4>3 DEF Child
    <3>4. CASE j >= p
      <4>1. j + 1 \in 1 .. Len(K) /\ j + 1 # p - 1 /\ j + 1 # p /\ j \in Nat
        BY <1>18, <3>4
      <4>2. J[j] = K[j + 1]
        BY <1>17, <3>4
      <4>3. Part(J, z[m], j) = Part(K, z[m], j + 1)
        BY <1>19, <3>4, <4>1 DEF Part
      <4> QED
        BY <1>7, <1>16, <2>4, <4>1, <4>2, <4>3 DEF Child
    <3> QED
      BY <3>1, <3>2, <3>3, <3>4
  <2>6. InnerOK(M, y, m)
    <3>1. Len(J) > 0
      BY <1>17, <1>18
    <3> QED
      BY <1>7, <1>17, <2>3, <2>5, <3>1 DEF InnerOK
  <2>7. M[m].height \in 0 .. M[root].height /\ M[m].height # 0
    BY <1>1, <1>3, <1>7, <1>12
  <2> QED
    BY <1>16, <2>1, <2>6, <2>7 DEF BlockOK
<1>21. \A x \in Blocks(M) : BlockOK(M, root, y, x)
  BY <1>9, <1>13, <1>15, <1>20
<1>22. ASSUME NEW x \in Blocks(N) \ {a, b} PROVE Apart(M, y, x, new) /\ Apart(M, y, new, x)
  <2> SUFFICES ASSUME M[x].height = M[new].height, y[x] \cap y[new] # {} PROVE FALSE
    BY DEF Apart
  <2>1. N[x].height = N[a].height /\ N[x].height = N[b].height
    BY <1>2, <1>5, <1>11
  <2>2. z[x] \cap z[a] # {} \/ z[x] \cap z[b] # {}
    BY <1>10, <1>11 DEF Z
  <2>3. Apart(N, z, x, a) /\ Apart(N, z, x, b)
    BY <1>1, <1>2 DEF Zoned
  <2> QED
    BY <2>1, <2>2, <2>3 DEF Apart
<1>23. ASSUME NEW x \in Blocks(M), NEW w \in Blocks(M) PROVE Apart(M, y, x, w)
  <2>1. CASE x = new /\ w = new
    BY <2>1 DEF Apart
  <2>2. CASE x \in Blocks(N) \ {a, b} /\ w \in Blocks(N) \ {a, b}
    <3>1. Apart(N, z, x, w)
      BY <1>1, <2>2 DEF Zoned
    <3> QED
      BY <1>11, <2>2, <3>1 DEF Apart
  <2> QED
    BY <1>9, <1>22, <2>1, <2>2
<1>24. Zoned(M, root, y)
  BY <1>4, <1>10, <1>12, <1>21, <1>23 DEF Zoned
<1> QED
  BY <1>2, <1>8, <1>9, <1>24 DEF MergeDone, y

LEMMA MergeSame ==
  ASSUME NEW N, NEW root, NEW z, NEW m, NEW p, NEW a, NEW b, MergeCase(N, root, z, m, p, a, b),
         NEW M, NEW new, ChildMerge(N, M, m, p, a, b, new)
  PROVE  Same(N, M)
<1> DEFINE A == N[a].keys
           B == N[b].keys
           h == N[a].height
           s == N[m].keys[p].name
           J == A \o Renamed(h, s, B)
<1>1. /\ Zoned(N, root, z) /\ m \in Blocks(N) /\ N[m].height > 0
  BY DEF MergeCase
<1>2. a \in Blocks(N) /\ b \in Blocks(N) /\ N[b].height = h
  <2> HIDE DEF s
  <2>1. Beside(N, z, m, p, a, b, s)
    BY Neighbours DEF s
  <2> QED
    BY <2>1 DEF Beside
<1>3. A \in Seq(KeySet) /\ B \in Seq(KeySet) /\ h \in Nat /\ Len(A) \in Nat /\ Len(B) \in Nat
  BY <1>1, <1>2, ZonedTypes
<1>4. Blocks(M) = (Blocks(N) \ {a, b}) \cup {new}
  BY ZonedMerge DEF MergeDone
<1>5. /\ new \in TreeBlocks \ Blocks(N) /\ M[new] = Node(h, J) /\ M[m].height = N[m].height
      /\ \A x \in TreeBlocks : x \notin {new, a, b, m} => M[x] = N[x]
  BY NodeFields DEF ChildMerge
<1>6. ASSUME h = 0
      PROVE  /\ Len(J) = Len(A) + Len(B)
             /\ \A i \in 1 .. Len(A) : J[i] = A[i]
             /\ \A j \in 1 .. Len(B) : J[Len(A) + j] = B[j]
  <2>1. A \o Renamed(0, s, B) = J
    BY <1>6
  <2> HIDE DEF s, A, B, J, h
  <2>2. N[a].height = 0 /\ s = N[m].keys[p].name /\ A = N[a].keys /\ B = N[b].keys
    BY <1>6 DEF s, A, B, h
  <2>3. LeafMerged(A, B, s, J, z[a] \cup z[b])
    BY <2>1, <2>2, MergedLeaf
  <2> QED
    BY <2>3 DEF LeafMerged
<1> HIDE DEF J
<1>7. M[new].height = h /\ M[new].keys = J
  BY <1>5, NodeFields
<1> HIDE DEF A, B, h
<1>8. \A x \in Blocks(N) : x \notin {a, b} /\ x # m => x \in Blocks(M) /\ M[x] = N[x] /\ x # new
  BY <1>4, <1>5 DEF Blocks
<1>9. N[a].keys = A /\ N[b].keys = B /\ N[a].height = h
  BY DEF A, B, h
<1>10. ASSUME NEW k, Has(N, k) PROVE Has(M, k)
  <2>1. PICK l \in Blocks(N) : N[l].height = 0 /\ \E j \in 1 .. Len(N[l].keys) : N[l].keys[j] = k
    BY <1>10 DEF Has
  <2>2. PICK j \in 1 .. Len(N[l].keys) : N[l].keys[j] = k
    BY <2>1
  <2>3. CASE l \notin {a, b}
    <3>1. M[l] = N[l] /\ l \in Blocks(M)
      BY <1>1, <1>8, <2>1, <2>3
    <3> QED
      BY <2>1, <2>2, <3>1 DEF Has
  <2>4. CASE l = a
    <3>1. h = 0 /\ j \in 1 .. Len(A) /\ A[j] = k
      BY <1>9, <2>1, <2>2, <2>4
    <3>2. j \in 1 .. Len(J) /\ J[j] = k
      <4>1. Len(J) = Len(A) + Len(B) /\ J[j] = A[j]
        BY <1>6, <3>1
      <4> QED
        BY <1>3, <3>1, <4>1
    <3> QED
      BY <1>4, <1>7, <3>1, <3>2 DEF Has
  <2>5. CASE l = b
    <3>1. h = 0 /\ j \in 1 .. Len(B) /\ B[j] = k
      BY <1>2, <1>9, <2>1, <2>2, <2>5
    <3>2. Len(A) + j \in 1 .. Len(J) /\ J[Len(A) + j] = k
      <4>1. Len(J) = Len(A) + Len(B) /\ J[Len(A) + j] = B[j]
        BY <1>6, <3>1
      <4> QED
        BY <1>3, <3>1, <4>1
    <3> QED
      BY <1>4, <1>7, <3>1, <3>2 DEF Has
  <2> QED
    BY <2>3, <2>4, <2>5
<1>11. ASSUME NEW k, Has(M, k) PROVE Has(N, k)
  <2>1. PICK l \in Blocks(M) : M[l].height = 0 /\ \E j \in 1 .. Len(M[l].keys) : M[l].keys[j] = k
    BY <1>11 DEF Has
  <2>2. PICK j \in 1 .. Len(M[l].keys) : M[l].keys[j] = k
    BY <2>1
  <2>3. CASE l # new
    <3>1. l \in Blocks(N) /\ l \notin {a, b} /\ l # m
      BY <1>1, <1>4, <1>5, <2>1, <2>3
    <3>2. M[l] = N[l]
      BY <1>8, <3>1
    <3> QED
      BY <2>1, <2>2, <3>1, <3>2 DEF Has
  <2>4. CASE l = new
    <3>1. h = 0 /\ j \in 1 .. Len(J) /\ J[j] = k
      BY <1>7, <2>1, <2>2, <2>4
    <3>2. j \in 1 .. (Len(A) + Len(B))
      BY <1>6, <3>1
    <3>3. j \in 1 .. Len(A) \/ (j - Len(A) \in 1 .. Len(B) /\ j = Len(A) + (j - Len(A)))
      BY ONLY <1>3, <3>2, JoinIndex
    <3>4. CASE j \in 1 .. Len(A)
      <4>1. A[j] = k
        BY <1>6, <3>1, <3>4
      <4> QED
        BY <1>2, <1>9, <3>1, <3>4, <4>1 DEF Has
    <3>5. CASE j - Len(A) \in 1 .. Len(B) /\ j = Len(A) + (j - Len(A))
      <4> DEFINE i == j - Len(A)
      <4>1. i \in 1 .. Len(B) /\ B[i] = k
        BY <1>6, <3>1, <3>5
      <4> HIDE DEF i
      <4> QED
        BY <1>2, <1>9, <3>1, <4>1 DEF Has
    <3> QED
      BY <3>3, <3>4, <3>5
  <2> QED
    BY <2>3, <2>4
<1> QED
  BY <1>10, <1>11 DEF Same

-----------------------------------------------------------------------------
(* What an insertion returns, whether it stops the program or not.         *)

Result(r) == r = [tree |-> r.tree, effect |-> r.effect]

LEMMA AddKeyTree ==
  ASSUME NEW t \in TreeSet, NEW l \in TreeBlocks, NEW key \in KeySet
  PROVE  AddKey(t, l, key) \in TreeSet
<1>1. t.nodes[l].keys \in Seq(KeySet)
  BY TreeFields, BlockIsNode
<1>2. SetKeys(t, l, AddKeyToIndex(t.nodes[l].keys, key)) \in TreeSet
  BY <1>1, AddedIs, SetKeysIs
<1>3. Fail(t, "space") \in TreeSet /\ Fail(t, "exists") \in TreeSet
  BY FailIs DEF Faults
<1> QED
  BY <1>2, <1>3 DEF AddKey

LEMMA SplitBlockTree ==
  ASSUME NEW t \in TreeSet, NEW l \in TreeBlocks, t.nodes[l].height \in Nat
  PROVE  /\ Result(SplitBlock(t, l)) /\ SplitBlock(t, l).tree \in TreeSet
         /\ SplitBlock(t, l).effect.type = "E_SPLIT" =>
              SplitBlock(t, l).effect.new0 \in TreeBlocks /\ SplitBlock(t, l).effect.new1 \in TreeBlocks
<1> DEFINE K == t.nodes[l].keys
           p == Pivot(K)
           n0 == [t.nodes[l] EXCEPT !.keys = SubSeq(K, 1, p)]
           l0 == Fresh(t)
           t0 == Store(t, l0, n0)
           l1 == Fresh(t0)
           n1 == [t.nodes[l] EXCEPT !.keys = SecondHalf(t.nodes[l], p)]
           t1 == Store(t0, l1, n1)
           e == [type |-> "E_SPLIT", new0 |-> l0, new1 |-> l1, name |-> K[p + 1].name]
           r == SplitBlock(t, l)
<1>1. r = IF p >= Len(K) THEN [tree |-> Fail(t, "pivot"), effect |-> NoEffect]
          ELSE [tree |-> t1, effect |-> e]
  BY DEF SplitBlock
<1>2. e.type = "E_SPLIT" /\ e.new0 = l0 /\ e.new1 = l1
  OBVIOUS
<1>3. l0 \in TreeBlocks /\ l1 \in TreeBlocks
  BY FreshIn
<1> HIDE DEF r, e, l0, l1
<1>4. CASE p >= Len(K)
  <2>1. r = [tree |-> Fail(t, "pivot"), effect |-> NoEffect]
    BY <1>1, <1>4
  <2>2. Fail(t, "pivot") \in TreeSet /\ NoEffect.type # "E_SPLIT"
    BY FailIs DEF Faults, NoEffect
  <2> QED
    BY <2>1, <2>2 DEF Result, r
<1>5. CASE ~ p >= Len(K)
  <2>1. r = [tree |-> t1, effect |-> e]
    BY <1>1, <1>5
  <2>2. r.tree = t1 /\ r.effect = e
    BY <2>1
  <2>3. K \in Seq(KeySet) /\ p \in 0 .. Len(K) /\ t.nodes[l] \in BlockSet
        /\ t.nodes[l] = Node(t.nodes[l].height, K) /\ t.nodes[l].height \in Int
    BY TreeFields, BlockIsNode, StringRuns, PivotIs
  <2>4. p < Len(K)
    BY <1>5, <2>3
  <2>5. SubSeq(K, 1, p) \in Seq(KeySet) /\ SecondHalf(t.nodes[l], p) \in Seq(KeySet)
    <3>1. SubSeq(K, 1, p) \in Seq(KeySet)
      BY <2>3, HalvesAre
    <3>2. Second(t.nodes[l].height, K, p) \in Seq(KeySet)
      BY <2>3, <2>4, SecondIs
    <3> QED
      BY <2>3, <3>1, <3>2 DEF Second
  <2>6. n0 \in BlockSet /\ n1 \in BlockSet
    <3> HIDE DEF K, p
    <3> QED
      BY <2>3, <2>5 DEF BlockSet
  <2> HIDE DEF n0, n1
  <2>7. t0 \in TreeSet
    BY <1>3, <2>6, StoreIs
  <2> HIDE DEF t0
  <2>8. t1 \in TreeSet
    BY <1>3, <2>6, <2>7, StoreIs
  <2> HIDE DEF t1
  <2> QED
    BY <1>2, <1>3, <2>1, <2>2, <2>8 DEF Result, r
<1> QED
  BY <1>4, <1>5

LEMMA InsertKeyTree ==
  ASSUME NEW t \in TreeSet, NEW l \in TreeBlocks, t.nodes[l].height \in Nat, NEW key \in KeySet
  PROVE  Result(InsertKey(t, l, key)) /\ InsertKey(t, l, key).tree \in TreeSet
<1> DEFINE s == SplitBlock(t, l)
           r == InsertKey(t, l, key)
           u == AddKey(s.tree, HalfFor(s.effect, key.name), key)
<1>1. r = IF RequiredSpace(key.name, t.nodes[l].height) > FreeSpace(t.nodes[l])
          THEN IF s.effect.type # "E_SPLIT" THEN s ELSE [s EXCEPT !.tree = u]
          ELSE [tree |-> AddKey(t, l, key), effect |-> NoEffect]
  BY DEF InsertKey
<1>2. /\ Result(s) /\ s.tree \in TreeSet
      /\ s.effect.type = "E_SPLIT" => s.effect.new0 \in TreeBlocks /\ s.effect.new1 \in TreeBlocks
  BY SplitBlockTree
<1>3. s.effect.type = "E_SPLIT" => u \in TreeSet
  BY <1>2, AddKeyTree DEF HalfFor
<1>4. AddKey(t, l, key) \in TreeSet
  BY AddKeyTree
<1> HIDE DEF r, s, u
<1>5. [s EXCEPT !.tree = u] = [tree |-> u, effect |-> s.effect]
  BY <1>2 DEF Result
<1>6. CASE RequiredSpace(key.name, t.nodes[l].height) > FreeSpace(t.nodes[l])
  <2>1. CASE s.effect.type # "E_SPLIT"
    BY <1>1, <1>2, <1>6, <2>1 DEF r
  <2>2. CASE s.effect.type = "E_SPLIT"
    <3>1. r = [tree |-> u, effect |-> s.effect]
      BY <1>1, <1>5, <1>6, <2>2
    <3>2. r.tree = u /\ r.effect = s.effect
      BY <3>1
    <3> QED
      BY <1>3, <2>2, <3>1, <3>2 DEF Result, r
  <2> QED
    BY <2>1, <2>2
<1>7. CASE ~ RequiredSpace(key.name, t.nodes[l].height) > FreeSpace(t.nodes[l])
  <2>1. r = [tree |-> AddKey(t, l, key), effect |-> NoEffect]
    BY <1>1, <1>7
  <2>2. r.tree = AddKey(t, l, key) /\ r.effect = NoEffect
    BY <2>1
  <2> QED
    BY <1>4, <2>1, <2>2 DEF Result, r
<1> QED
  BY <1>6, <1>7

-----------------------------------------------------------------------------
(* On the way up.  t is the tree the search began with and z0 its zones; G *)
(* is the map of blocks with the leaf as the callback meant it; V is that  *)
(* of a tree with the same keys where block c at height h is settled.      *)

Fits(N) == \A l \in Blocks(N) : FreeSpace(N[l]) >= 0

Reached(t, z0, V, z, h, c, n, G) ==
  /\ Zoned(V, t.root, z) /\ c \in Blocks(V) /\ V[c].height = h /\ n \in z[c]
  /\ \A x \in TreeBlocks : t.nodes[x].height > h => V[x] = t.nodes[x] /\ z[x] = z0[x]
  /\ V[t.root].height = t.nodes[t.root].height
  /\ Same(G, V)

Settled(t, z0, r, h, c, n, G) ==
  /\ r.effect \in {NoEffect, Shrink} /\ Fits(r.tree.nodes)
  /\ \E z : Reached(t, z0, r.tree.nodes, z, h, c, n, G)

(* Block c of V is still there in N, and so are its two halves.            *)
Halved(V, N, c, q, new0, new1) ==
  /\ N \in NodeMap /\ new0 # new1
  /\ new0 \in TreeBlocks \ Blocks(V) /\ new1 \in TreeBlocks \ Blocks(V)
  /\ N[new0] = Node(V[c].height, SubSeq(V[c].keys, 1, q))
  /\ N[new1] = Node(V[c].height, Second(V[c].height, V[c].keys, q))
  /\ N[c] # FreeBlock /\ N[c].height = V[c].height
  /\ \A x \in TreeBlocks : x \notin {new0, new1, c} => N[x] = V[x]

HalvedAt(t, z0, r, h, c, n, G, V, z, q) ==
  /\ Reached(t, z0, V, z, h, c, n, G)
  /\ q \in 1 .. Len(V[c].keys) /\ q < Len(V[c].keys)
  /\ r.effect.type = "E_SPLIT" /\ r.effect.name = V[c].keys[q + 1].name
  /\ Halved(V, r.tree.nodes, c, q, r.effect.new0, r.effect.new1)
  /\ \A x \in Blocks(r.tree.nodes) \ {c} : FreeSpace(r.tree.nodes[x]) >= 0

Pending(t, z0, r, h, c, n, G) == \E V, z, q : HalvedAt(t, z0, r, h, c, n, G, V, z, q)

Stage(t, z0, r, h, c, n, G) ==
  /\ Result(r)
  /\ r.tree.fault = "none" =>
       /\ r.tree \in TreeSet /\ r.tree = Changed(t, r.tree.nodes)
       /\ Settled(t, z0, r, h, c, n, G) \/ Pending(t, z0, r, h, c, n, G)

(* Block l is the parent of c on the way to n, by its key i.               *)
Above(t, z0, V, z, h, c, n, l, i) ==
  /\ h \in Nat /\ l \in Blocks(V) /\ V[l].height = h + 1 /\ V[l] = t.nodes[l] /\ l # c
  /\ V[l].keys \in Seq(KeySet) /\ Sorted(V[l].keys) /\ Divisible(h + 1, V[l].keys)
  /\ n \in z[l] /\ n \in Nat /\ i = FindKey(V[l].keys, n) /\ i \in 1 .. Len(V[l].keys)
  /\ V[l].keys[i].data = c

LEMMA AboveIs ==
  ASSUME NEW t \in TreeSet, NEW z0, NEW V, NEW z, NEW h \in Nat, NEW c, NEW n \in Nat, NEW G,
         Reached(t, z0, V, z, h, c, n, G),
         NEW l \in TreeBlocks, t.nodes[l].height = h + 1, n \in z0[l]
  PROVE  Above(t, z0, V, z, h, c, n, l, FindKey(V[l].keys, n))
<1> DEFINE K == V[l].keys
           i == FindKey(K, n)
           d == K[i].data
<1>1. Zoned(V, t.root, z) /\ c \in Blocks(V) /\ V[c].height = h /\ n \in z[c]
  BY DEF Reached
<1>2. V[l] = t.nodes[l] /\ z[l] = z0[l]
  BY DEF Reached
<1>3. V[l].height = h + 1 /\ V[l].height > 0 /\ l \in Blocks(V) /\ n \in z[l]
  BY <1>2 DEF Blocks, FreeBlock
<1>4. K \in Seq(KeySet) /\ Sorted(K) /\ Divisible(h + 1, K)
  BY <1>1, <1>3, ZonedTypes, ZonedSorted
<1>5. i \in 1 .. Len(K) /\ d \in Blocks(V) /\ V[d].height = h + 1 - 1 /\ n \in z[d]
  <2> HIDE DEF K
  <2>1. FindKey(K, n) \in 1 .. Len(K)
        /\ K[FindKey(K, n)].data \in Blocks(V) /\ V[K[FindKey(K, n)].data].height = V[l].height - 1
        /\ n \in z[K[FindKey(K, n)].data]
    <3>1. K = V[l].keys
      BY DEF K
    <3> DEFINE root == t.root
    <3>2. Zoned(V, root, z)
      BY <1>1
    <3> HIDE DEF root
    <3> QED
      BY ONLY <1>3, <3>1, <3>2, ChildFor
  <2> QED
    BY <1>3, <2>1
<1> HIDE DEF d
<1>6. d = c
  <2>1. Apart(V, z, d, c)
    BY <1>1, <1>5 DEF Zoned
  <2>2. V[d].height = V[c].height
    BY <1>1, <1>5
  <2> QED
    BY <1>1, <1>5, <2>1, <2>2 DEF Apart
<1>7. l # c
  BY <1>1, <1>3
<1> QED
  BY <1>2, <1>3, <1>4, <1>5, <1>6, <1>7 DEF Above, d

(* The blocks after the parent l of a halved c points to the halves and c  *)
(* is given back.                                                          *)
Linked(V, N, l, i, c, q, new0, new1) ==
  With(With(N, l, Node(V[l].height, Grown(Put(V[l].keys, i, new0),
                                          [name |-> V[c].keys[q + 1].name, data |-> new1]))),
       c, FreeBlock)

LEMMA LinkedSplit ==
  ASSUME NEW t \in TreeSet, NEW z0, NEW V, NEW z, NEW h \in Nat, NEW c, NEW n \in Nat, NEW G,
         Reached(t, z0, V, z, h, c, n, G), NEW l, NEW i, Above(t, z0, V, z, h, c, n, l, i),
         NEW q \in 1 .. Len(V[c].keys), q < Len(V[c].keys),
         NEW N, NEW new0, NEW new1, Halved(V, N, c, q, new0, new1)
  PROVE  /\ SplitCase(V, t.root, z, l, i, c, q)
         /\ ChildSplit(V, Linked(V, N, l, i, c, q, new0, new1), l, i, c, q, new0, new1)
         /\ N[l] = V[l] /\ l \notin {new0, new1, c}
<1> DEFINE s == V[c].keys[q + 1].name
           J == Grown(Put(V[l].keys, i, new0), [name |-> s, data |-> new1])
           A == With(N, l, Node(V[l].height, J))
           M == With(A, c, FreeBlock)
<1>1. SplitCase(V, t.root, z, l, i, c, q)
  <2>1. Zoned(V, t.root, z)
    BY DEF Reached
  <2>2. l \in Blocks(V) /\ V[l].height > 0 /\ i \in 1 .. Len(V[l].keys) /\ c = V[l].keys[i].data
    BY DEF Above
  <2> QED
    BY <2>1, <2>2 DEF SplitCase
<1>2. c \in Blocks(V) /\ c \in TreeBlocks /\ l \in TreeBlocks /\ l # c /\ l \in Blocks(V)
      /\ V[l].height \in Int
  BY DEF Reached, Above, Blocks
<1>3. new0 \in TreeBlocks /\ new1 \in TreeBlocks /\ new0 \notin Blocks(V) /\ new1 \notin Blocks(V)
      /\ N \in NodeMap /\ new0 # new1
  BY DEF Halved
<1>4. l \notin {new0, new1, c} /\ c \notin {new0, new1}
  BY <1>2, <1>3
<1>5. N[l] = V[l]
  BY <1>2, <1>4 DEF Halved
<1>6. s \in AllNames
  <2>1. V[c].keys \in Seq(KeySet)
    BY <1>2, ZonedTypes DEF Reached
  <2>2. q + 1 \in 1 .. Len(V[c].keys)
    BY <2>1
  <2> QED
    BY <2>1, <2>2, KeyNames
<1>7. J \in Seq(KeySet)
  <2>1. V[l].keys \in Seq(KeySet) /\ i \in 1 .. Len(V[l].keys)
    BY DEF Above
  <2>2. Put(V[l].keys, i, new0) \in Seq(KeySet)
    BY <1>3, <2>1, PutIs DEF DataSet
  <2>3. [name |-> s, data |-> new1] \in KeySet
    BY <1>3, <1>6 DEF KeySet, DataSet
  <2> QED
    BY <2>2, <2>3, AddedIs DEF Grown, AddKeyToIndex
<1>8. Node(V[l].height, J) \in BlockSet
  BY <1>2, <1>7, NodeIn
<1> HIDE DEF J
<1>9. A \in NodeMap /\ A[l] = Node(V[l].height, J) /\ \A x \in TreeBlocks : x # l => A[x] = N[x]
  BY <1>2, <1>3, <1>8, WithIs
<1> HIDE DEF A
<1>10. M \in NodeMap /\ M[c] = FreeBlock /\ \A x \in TreeBlocks : x # c => M[x] = A[x]
  BY <1>2, <1>9, FreeIn, WithIs
<1> HIDE DEF M
<1>11. M[l] = Node(V[l].height, J) /\ M[new0] = N[new0] /\ M[new1] = N[new1]
  BY <1>2, <1>3, <1>4, <1>9, <1>10
<1>12. \A x \in TreeBlocks : x \notin {new0, new1, c, l} => M[x] = V[x]
  BY <1>9, <1>10 DEF Halved
<1>13. ChildSplit(V, M, l, i, c, q, new0, new1)
  BY <1>3, <1>10, <1>11, <1>12 DEF ChildSplit, Halved, J
<1>14. M = Linked(V, N, l, i, c, q, new0, new1)
  BY DEF M, A, J, Linked
<1> QED
  BY <1>1, <1>4, <1>5, <1>13, <1>14

LEMMA LinkedReached ==
  ASSUME NEW t \in TreeSet, NEW z0, NEW V, NEW z, NEW h \in Nat, NEW c, NEW n \in Nat, NEW G,
         Reached(t, z0, V, z, h, c, n, G), NEW l, NEW i, Above(t, z0, V, z, h, c, n, l, i),
         NEW q \in 1 .. Len(V[c].keys), q < Len(V[c].keys),
         NEW N, NEW new0, NEW new1, Halved(V, N, c, q, new0, new1),
         NEW M, M = Linked(V, N, l, i, c, q, new0, new1)
  PROVE  Reached(t, z0, M, SplitZone(z, c, V[c].keys[q + 1].name, new0, new1), h + 1, l, n, G)
<1> DEFINE y == SplitZone(z, c, V[c].keys[q + 1].name, new0, new1)
<1>1. /\ SplitCase(V, t.root, z, l, i, c, q) /\ ChildSplit(V, M, l, i, c, q, new0, new1)
      /\ l \notin {new0, new1, c}
  BY LinkedSplit
<1>2. /\ Zoned(M, t.root, y) /\ Blocks(M) = (Blocks(V) \ {c}) \cup {new0, new1}
      /\ c \in Blocks(V) /\ c # t.root
  BY <1>1, SplitZoned
<1>3. Same(V, M)
  BY <1>1, SplitSame
<1>4. l \in Blocks(V) /\ V[l].height = h + 1 /\ n \in z[l] /\ l \in TreeBlocks /\ l \in Blocks(M)
  BY <1>1, <1>2 DEF Above, Blocks
<1>5. M[l].height = h + 1
  BY <1>1, <1>4, NodeFields DEF ChildSplit
<1>6. \A x \in TreeBlocks : x \notin {new0, new1} => y[x] = z[x]
  BY DEF SplitZone
<1>7. new0 \notin Blocks(V) /\ new1 \notin Blocks(V)
  BY <1>1 DEF ChildSplit
<1>8. ASSUME NEW x \in TreeBlocks, t.nodes[x].height > h + 1
      PROVE  M[x] = t.nodes[x] /\ y[x] = z0[x]
  <2>1. t.nodes[x].height \in Int
    BY TreeFields DEF BlockSet
  <2>2. V[x] = t.nodes[x] /\ z[x] = z0[x]
    BY <1>8, <2>1 DEF Reached
  <2>3. x \in Blocks(V) /\ V[c].height = h
    BY <1>8, <2>1, <2>2 DEF Blocks, FreeBlock, Reached
  <2>4. x # c /\ x # l /\ x # new0 /\ x # new1
    BY <1>4, <1>7, <1>8, <2>1, <2>2, <2>3
  <2> QED
    BY <1>1, <1>6, <2>2, <2>4 DEF ChildSplit
<1>9. M[t.root].height = t.nodes[t.root].height
  <2>1. V[t.root].height = t.nodes[t.root].height /\ t.root \in Blocks(V) /\ t.root \in TreeBlocks
    BY DEF Reached, Zoned, Blocks
  <2>2. CASE t.root = l
    BY <1>4, <1>5, <2>1, <2>2
  <2>3. CASE t.root # l
    BY <1>1, <1>2, <1>7, <2>1, <2>3 DEF ChildSplit
  <2> QED
    BY <2>2, <2>3
<1>10. Same(G, M)
  BY <1>3, SameTwice DEF Reached
<1> HIDE DEF y
<1>11. n \in y[l]
  BY <1>1, <1>4, <1>6
<1> QED
  BY <1>2, <1>4, <1>5, <1>8, <1>9, <1>10, <1>11 DEF Reached, y

(* A free block takes nothing away.                                        *)
LEMMA FitsWith ==
  ASSUME NEW N \in NodeMap, NEW l \in TreeBlocks, NEW node \in BlockSet, NEW c \in TreeBlocks,
         FreeSpace(node) >= 0, \A x \in Blocks(N) \ {c, l} : FreeSpace(N[x]) >= 0,
         NEW M, M = With(With(N, l, node), c, FreeBlock)
  PROVE  Fits(M)
<1> DEFINE A == With(N, l, node)
<1>1. A \in NodeMap /\ A[l] = node /\ \A x \in TreeBlocks : x # l => A[x] = N[x]
  BY WithIs
<1> HIDE DEF A
<1>2. M[c] = FreeBlock /\ \A x \in TreeBlocks : x # c => M[x] = A[x]
  BY <1>1, FreeIn, WithIs DEF A
<1>3. ASSUME NEW x \in Blocks(M) PROVE FreeSpace(M[x]) >= 0
  <2>1. x \in TreeBlocks /\ x # c /\ M[x] = A[x]
    BY <1>2 DEF Blocks
  <2>2. CASE x = l
    BY <1>1, <2>1, <2>2
  <2>3. CASE x # l
    <3>1. M[x] = N[x] /\ x \in Blocks(N) \ {c, l}
      BY <1>1, <2>1, <2>3 DEF Blocks
    <3> QED
      BY <3>1
  <2> QED
    BY <2>2, <2>3
<1> QED
  BY <1>3 DEF Fits

(* The parent takes the two halves and gives the old block back.           *)
SplitSettled(r, l, i, c) ==
  LET x == InsertKey(UpdateKey(r.tree, l, r.tree.nodes[l].keys[i].name, r.effect.new0), l,
                     [name |-> r.effect.name, data |-> r.effect.new1])
  IN [x EXCEPT !.tree = Deallocate(x.tree, {c})]

LEMMA SettleSplit ==
  ASSUME NEW t \in TreeSet, NEW z0, NEW r, NEW h \in Nat, NEW c, NEW n \in Nat, NEW G,
         NEW V, NEW z, NEW q, HalvedAt(t, z0, r, h, c, n, G, V, z, q),
         r.tree \in TreeSet, r.tree = Changed(t, r.tree.nodes),
         NEW l, NEW i, Above(t, z0, V, z, h, c, n, l, i),
         NEW R, R = SplitSettled(r, l, i, c)
  PROVE  Stage(t, z0, R, h + 1, l, n, G)
<1> DEFINE N == r.tree.nodes
           new0 == r.effect.new0
           new1 == r.effect.new1
           s == r.effect.name
           K == V[l].keys
           P == Put(K, i, new0)
           key == [name |-> s, data |-> new1]
           A == With(N, l, Node(h + 1, P))
           u == UpdateKey(r.tree, l, N[l].keys[i].name, new0)
           x == InsertKey(u, l, key)
           J == Grown(P, key)
           M == Linked(V, N, l, i, c, q, new0, new1)
           y == SplitZone(z, c, s, new0, new1)
<1>1. /\ Reached(t, z0, V, z, h, c, n, G) /\ Halved(V, N, c, q, new0, new1)
      /\ q \in 1 .. Len(V[c].keys) /\ q < Len(V[c].keys) /\ s = V[c].keys[q + 1].name
      /\ \A b \in Blocks(N) \ {c} : FreeSpace(N[b]) >= 0
  BY DEF HalvedAt
<1>2. N[l] = V[l] /\ l \notin {new0, new1, c}
  <2>1. l \in Blocks(V) /\ l # c /\ l \in TreeBlocks
    BY DEF Above, Blocks
  <2> QED
    BY <1>1, <2>1 DEF Halved
<1>3. Reached(t, z0, M, y, h + 1, l, n, G)
  BY <1>1, LinkedReached
<1>4. /\ K \in Seq(KeySet) /\ Sorted(K) /\ Divisible(h + 1, K) /\ i \in 1 .. Len(K)
      /\ l \in Blocks(V) /\ l \in TreeBlocks /\ V[l].height = h + 1
  BY DEF Above, Blocks
<1>5. c \in TreeBlocks /\ new0 \in TreeBlocks /\ new1 \in TreeBlocks /\ N \in NodeMap
  BY <1>1 DEF Reached, Halved, Blocks
<1>6. key \in KeySet
  <2>1. V[c].keys \in Seq(KeySet)
    BY <1>1, ZonedTypes DEF Reached
  <2>2. q + 1 \in 1 .. Len(V[c].keys)
    BY <1>1, <2>1
  <2>3. s \in AllNames
    BY <1>1, <2>1, <2>2, KeyNames
  <2> QED
    BY <1>5, <2>3 DEF KeySet, DataSet
<1>7. new0 \in DataSet
  BY <1>5 DEF DataSet
<1>8. P \in Seq(KeySet) /\ Len(P) = Len(K) /\ Sorted(P) /\ \A j \in 1 .. Len(K) : P[j].name = K[j].name
  <2> HIDE DEF K, new0
  <2> QED
    BY ONLY <1>4, <1>7, PutIs
<1>9. u = Changed(r.tree, A) /\ u \in TreeSet
  BY <1>2, <1>4, <1>7, UpdateKeyIs
<1>10. Node(h + 1, P) \in BlockSet /\ Node(h + 1, P).height = h + 1 /\ Node(h + 1, P).keys = P
       /\ h + 1 \in Nat
  BY <1>8, NodeIn, NodeFields
<1>11. A \in NodeMap /\ A[l] = Node(h + 1, P) /\ \A b \in TreeBlocks : b # l => A[b] = N[b]
  BY <1>4, <1>5, <1>10, WithIs
<1>12. u.nodes = A
  BY <1>9, <1>11, ChangedIs
<1>13. Divisible(h + 1, P)
  <2>1. Len(P) > 0 => P[1].name = K[1].name
    BY <1>8
  <2> QED
    BY <1>4, <1>8, <2>1 DEF Divisible
<1>14. FreeSpace(u.nodes[l]) >= 0
  <2>1. N[l] = Node(h + 1, K)
    BY <1>1, <1>2, <1>4, ZonedTypes DEF Reached
  <2>2. FreeSpace(Node(h + 1, P)) = FreeSpace(Node(h + 1, K))
    BY <1>4, <1>8, FreeSameNames
  <2>3. l \in Blocks(N) \ {c}
    BY <1>2, <1>4 DEF Blocks
  <2> QED
    BY <1>1, <1>11, <1>12, <2>1, <2>2, <2>3
<1>15. R = [x EXCEPT !.tree = Deallocate(x.tree, {c})]
  BY DEF SplitSettled
<1> HIDE DEF u
<1>16. Result(x) /\ x.tree \in TreeSet
  BY <1>4, <1>6, <1>9, <1>10, <1>11, <1>12, InsertKeyTree
<1> HIDE DEF x
<1>17. R = [tree |-> Deallocate(x.tree, {c}), effect |-> x.effect]
  BY <1>15, <1>16 DEF Result
<1>18. R.tree = Deallocate(x.tree, {c}) /\ R.effect = x.effect /\ Result(R)
  BY <1>17 DEF Result
<1>19. R.tree = Changed(x.tree, With(x.tree.nodes, c, FreeBlock)) /\ R.tree \in TreeSet
  BY <1>5, <1>16, <1>18, DeallocateOne
<1>20. With(x.tree.nodes, c, FreeBlock) \in NodeMap
  BY <1>5, <1>16, FreeIn, WithIs, TreeFields
<1>21. R.tree.nodes = With(x.tree.nodes, c, FreeBlock) /\ R.tree.fault = x.tree.fault
  BY <1>16, <1>19, <1>20, ChangedIs
<1>22. u.nodes[l].height = h + 1 /\ u.nodes[l].keys = P
  BY <1>10, <1>11, <1>12
<1>23. J \in Seq(KeySet) /\ Node(h + 1, J) \in BlockSet
  <2>1. J \in Seq(KeySet)
    BY <1>6, <1>8, AddedIs DEF Grown, AddKeyToIndex
  <2> QED
    BY <1>10, <2>1, NodeIn
<1>24. M = With(With(N, l, Node(h + 1, J)), c, FreeBlock)
  BY <1>1, <1>4 DEF Linked
<1>25. With(A, l, Node(h + 1, J)) = With(N, l, Node(h + 1, J))
  BY <1>4, <1>5, <1>10 DEF With, NodeMap
<1> HIDE DEF M
<1>26. ASSUME R.tree.fault = "none"
       PROVE  /\ R.tree = Changed(t, R.tree.nodes)
              /\ Settled(t, z0, R, h + 1, l, n, G) \/ Pending(t, z0, R, h + 1, l, n, G)
  <2>1. x.tree.fault = "none"
    BY <1>21, <1>26
  <2>2. InsertedIn(u, l, key, x) \/ \E e : SplitAt(u, h + 1, J, e, x)
    <3> HIDE DEF P, key
    <3> QED
      BY <1>4, <1>6, <1>8, <1>9, <1>10, <1>13, <1>14, <1>22, <2>1, InsertKeyIs DEF x
  <2>3. CASE InsertedIn(u, l, key, x)
    <3>1. /\ x.effect = NoEffect
          /\ x.tree = Changed(u, With(A, l, Node(h + 1, J)))
          /\ FreeSpace(Node(h + 1, J)) >= 0
      BY <1>12, <1>22, <2>3 DEF InsertedIn
    <3> DEFINE B == With(N, l, Node(h + 1, J))
    <3>2. B \in NodeMap
      BY <1>4, <1>5, <1>23, WithIs
    <3>3. x.tree = Changed(u, B) /\ x.tree.nodes = B
      BY <1>9, <1>25, <3>1, <3>2, ChangedIs
    <3>4. M = With(B, c, FreeBlock)
      BY <1>24
    <3> HIDE DEF B
    <3>5. R.tree.nodes = M
      BY <1>21, <3>3, <3>4
    <3>6. R.tree = Changed(t, R.tree.nodes)
      <4>1. x.tree = Changed(Changed(r.tree, A), B)
        BY <1>9, <3>3
      <4>2. x.tree = Changed(r.tree, B)
        BY <1>11, <4>1, ChangedIs
      <4>3. x.tree = Changed(t, B)
        <5>1. r.tree.nodes \in NodeMap
          BY <1>5
        <5> QED
          BY <4>2, <5>1, ChangedIs
      <4>4. R.tree = Changed(Changed(t, B), R.tree.nodes)
        BY <1>19, <1>21, <4>3
      <4> QED
        BY <3>2, <4>4, ChangedIs
    <3>7. Fits(M)
      <4>1. \A b \in Blocks(N) \ {c, l} : FreeSpace(N[b]) >= 0
        BY <1>1
      <4> QED
        BY <1>4, <1>5, <1>23, <1>24, <3>1, <4>1, FitsWith
    <3>8. Settled(t, z0, R, h + 1, l, n, G)
      BY <1>3, <1>18, <3>1, <3>5, <3>7 DEF Settled
    <3> QED
      BY <3>6, <3>8
  <2>4. ASSUME NEW e, SplitAt(u, h + 1, J, e, x)
        PROVE  /\ R.tree = Changed(t, R.tree.nodes)
               /\ Pending(t, z0, R, h + 1, l, n, G)
    <3> DEFINE B == x.tree.nodes
               D == With(B, c, FreeBlock)
               d0 == x.effect.new0
               d1 == x.effect.new1
    <3>1. /\ x.effect.type = "E_SPLIT" /\ x.effect.name = J[e + 1].name
          /\ e \in 1 .. Len(J) /\ e < Len(J) /\ x.tree = Changed(u, B)
          /\ SplitInto(A, B, h + 1, J, e, d0, d1)
          /\ FreeSpace(Node(h + 1, SubSeq(J, 1, e))) >= 0
          /\ FreeSpace(Node(h + 1, Second(h + 1, J, e))) >= 0
      BY <1>12, <2>4 DEF SplitAt
    <3>2. R.tree.nodes = D
      BY <1>21
    <3>3. D \in NodeMap /\ D[c] = FreeBlock /\ \A b \in TreeBlocks : b # c => D[b] = B[b]
      BY <1>5, <1>16, FreeIn, WithIs, TreeFields
    <3>4. R.tree = Changed(t, R.tree.nodes)
      <4>1. x.tree = Changed(Changed(Changed(t, N), A), B)
        BY <1>9, <3>1
      <4>2. x.tree = Changed(t, B)
        BY <1>5, <1>9, <1>11, <4>1, ChangedIs
      <4>3. R.tree = Changed(Changed(t, B), D)
        BY <1>19, <4>2
      <4>4. B \in NodeMap
        BY <1>16, TreeFields
      <4> QED
        BY <3>2, <4>3, <4>4, ChangedIs
    <3> HIDE DEF J, P, key
    <3>5. M[l] = Node(h + 1, J) /\ M[c] = FreeBlock
          /\ \A b \in TreeBlocks : b # l /\ b # c => M[b] = N[b]
      <4> DEFINE E == With(N, l, Node(h + 1, J))
      <4>1. E \in NodeMap /\ E[l] = Node(h + 1, J) /\ \A b \in TreeBlocks : b # l => E[b] = N[b]
        BY <1>4, <1>5, <1>23, WithIs
      <4>2. M = With(E, c, FreeBlock)
        BY <1>24
      <4> HIDE DEF E
      <4>3. M[c] = FreeBlock /\ \A b \in TreeBlocks : b # c => M[b] = E[b]
        BY <1>5, <4>1, <4>2, FreeIn, WithIs
      <4> QED
        BY <1>2, <1>4, <4>1, <4>3
    <3>6. M[l].height = h + 1 /\ M[l].keys = J
      BY <3>5, NodeFields
    <3>7. d0 \in TreeBlocks /\ d1 \in TreeBlocks /\ d0 # d1 /\ A[d0] = FreeBlock /\ A[d1] = FreeBlock
          /\ B[d0] = Node(h + 1, SubSeq(J, 1, e)) /\ B[d1] = Node(h + 1, Second(h + 1, J, e))
          /\ \A b \in TreeBlocks : b # d0 /\ b # d1 => B[b] = A[b]
      BY <3>1 DEF SplitInto, Blocks
    <3>8. N[c] # FreeBlock /\ A[l] # FreeBlock /\ A[c] # FreeBlock
      <4>1. N[c] # FreeBlock
        BY <1>1 DEF Halved
      <4>2. A[l].height = h + 1
        BY <1>10, <1>11
      <4>3. A[l] # FreeBlock
        BY <4>2 DEF FreeBlock
      <4> QED
        BY <1>2, <1>5, <1>11, <4>1, <4>3
    <3>9. d0 # l /\ d1 # l /\ d0 # c /\ d1 # c
      BY <3>7, <3>8
    <3>10. M[d0] = FreeBlock /\ M[d1] = FreeBlock
      BY <1>11, <3>5, <3>7, <3>9
    <3>11. Halved(M, D, l, e, d0, d1)
      <4>1. d0 \notin Blocks(M) /\ d1 \notin Blocks(M)
        BY <3>10 DEF Blocks
      <4>2. D[d0] = Node(h + 1, SubSeq(J, 1, e)) /\ D[d1] = Node(h + 1, Second(h + 1, J, e))
        BY <3>3, <3>7, <3>9
      <4>3. D[l] # FreeBlock /\ D[l].height = h + 1
        BY <1>2, <1>4, <1>10, <1>11, <3>3, <3>7, <3>8, <3>9
      <4>4. ASSUME NEW b \in TreeBlocks, b \notin {d0, d1, l} PROVE D[b] = M[b]
        <5>1. CASE b = c
          BY <3>3, <3>5, <5>1
        <5>2. CASE b # c
          BY <1>11, <3>3, <3>5, <3>7, <4>4, <5>2
        <5> QED
          BY <5>1, <5>2
      <4> HIDE DEF D, d0, d1
      <4> QED
        BY <3>3, <3>6, <3>7, <4>1, <4>2, <4>3, <4>4 DEF Halved
    <3>12. ASSUME NEW b \in Blocks(D) \ {l} PROVE FreeSpace(D[b]) >= 0
      <4>1. b \in TreeBlocks /\ b # c /\ D[b] = B[b] /\ D[b] # FreeBlock
        BY <3>3 DEF Blocks
      <4>2. CASE b = d0 \/ b = d1
        BY <3>1, <3>7, <4>1, <4>2
      <4>3. CASE b # d0 /\ b # d1
        <5>1. D[b] = N[b]
          BY <1>11, <3>7, <3>12, <4>1, <4>3
        <5>2. b \in Blocks(N) \ {c}
          BY <4>1, <5>1 DEF Blocks
        <5> QED
          BY <1>1, <5>1, <5>2
      <4> QED
        BY <4>2, <4>3
    <3>13. R.effect.new0 = d0 /\ R.effect.new1 = d1 /\ R.effect.type = "E_SPLIT" /\ R.effect.name = J[e + 1].name
      BY <1>18, <3>1
    <3> HIDE DEF D, d0, d1, y
    <3>14. HalvedAt(t, z0, R, h + 1, l, n, G, M, y, e)
      BY <1>3, <3>1, <3>2, <3>6, <3>11, <3>12, <3>13 DEF HalvedAt
    <3> QED
      BY <3>4, <3>14 DEF Pending
  <2> QED
    BY <2>2, <2>3, <2>4
<1> QED
  BY <1>18, <1>19, <1>26 DEF Stage

(* The parent gets one block for the block and its left neighbour.         *)
MergedNode(N, l, i) ==
  LET a == N[l].keys[i - 1].data
      c == N[l].keys[i].data
  IN Node(N[a].height, N[a].keys \o Renamed(N[a].height, N[l].keys[i].name, N[c].keys))

LEMMA MergedNodeIs ==
  ASSUME NEW N, NEW root, NEW z, NEW m, NEW p, NEW a, NEW b, MergeCase(N, root, z, m, p, a, b),
         NEW s, s = N[m].keys[p].name
  PROVE  /\ [N[a] EXCEPT !.keys = MergeIndexes(N[a], s, N[b])] = MergedNode(N, m, p)
         /\ MergedNode(N, m, p) \in BlockSet /\ MergedNode(N, m, p).height = N[a].height
<1> DEFINE h == N[a].height
           A == N[a].keys
           B == N[b].keys
           J == A \o Renamed(h, s, B)
<1>1. Zoned(N, root, z) /\ Beside(N, z, m, p, a, b, s)
  BY Neighbours DEF MergeCase
<1>2. a \in Blocks(N) /\ b \in Blocks(N) /\ N[a].height = N[b].height
  BY <1>1 DEF Beside
<1>3. N[a] = Node(h, A) /\ N[b] = Node(h, B) /\ h \in Nat /\ N[a] \in BlockSet
  BY <1>1, <1>2, ZonedTypes
<1>4. J \in Seq(KeySet) /\ MergeIndexes(Node(h, A), s, Node(h, B)) = J
  <2>1. CASE h = 0
    <3>1. LeafMerged(A, B, s, A \o Renamed(0, s, B), z[a] \cup z[b])
      BY <2>1, MergedLeaf
    <3> QED
      BY <2>1, <3>1 DEF LeafMerged
  <2>2. CASE h # 0
    <3>1. h > 0
      BY <1>3, <2>2
    <3>2. InnerMerged(h, A, B, s, J, z[a], z[b])
      BY <3>1, MergedInner
    <3> QED
      BY <3>2 DEF InnerMerged
  <2> QED
    BY <2>1, <2>2
<1>5. MergeIndexes(N[a], s, N[b]) = J
  BY <1>3, <1>4
<1>6. [N[a] EXCEPT !.keys = J] = Node(h, J)
  <2> HIDE DEF J
  <2>1. N[a] \in [height : Int, keys : Seq(KeySet)]
    BY <1>3 DEF BlockSet
  <2>2. [N[a] EXCEPT !.keys = J] = [height |-> N[a].height, keys |-> J]
    BY ONLY <2>1
  <2> QED
    BY <2>2 DEF Node
<1>7. MergedNode(N, m, p) = Node(h, J)
  BY DEF MergedNode, MergeCase
<1>8. [N[a] EXCEPT !.keys = MergeIndexes(N[a], s, N[b])] = Node(h, J)
  BY <1>5, <1>6
<1> HIDE DEF J, h
<1>9. Node(h, J) \in BlockSet /\ Node(h, J).height = h
  BY <1>3, <1>4, NodeIn, NodeFields
<1> QED
  BY <1>7, <1>8, <1>9 DEF h

LEMMA SetDataIs ==
  ASSUME NEW u \in TreeSet, NEW l \in TreeBlocks, NEW K \in Seq(KeySet), u.nodes[l].keys = K,
         NEW j \in 1 .. Len(K), NEW d \in DataSet
  PROVE  SetData(u, l, j, d) = SetKeys(u, l, Put(K, j, d))
  BY DEF SetData, SetKeys, Put

(* What merge_blocks does, unless it stops the program.                    *)
MergeMade(T, R, l, i, a, c, new, M) ==
  /\ ChildMerge(T.nodes, M, l, i, a, c, new)
  /\ R.effect = Shrink /\ R.tree \in TreeSet /\ R.tree = Changed(T, M) /\ R.tree.nodes = M
  /\ FreeSpace(M[new]) >= 0

LEMMA MergeBlocksIs ==
  ASSUME NEW T \in TreeSet, NEW root, NEW z, NEW l, NEW i, NEW a, NEW c,
         MergeCase(T.nodes, root, z, l, i, a, c), NEW R, R = MergeBlocks(T, l, i, c)
  PROVE  /\ Result(R)
         /\ R.tree.fault = "none" => \E M, new : MergeMade(T, R, l, i, a, c, new, M)
<1> DEFINE N == T.nodes
           K == N[l].keys
           H == N[l].height
           s == K[i].name
           new == Fresh(T)
           g == MergedNode(N, l, i)
           w == Store(T, new, g)
           v == IF FreeSpace(g) < 0 THEN Fail(w, "space") ELSE w
           u == Deallocate(v, {a, c})
           P == Put(K, i - 1, new)
           J == RemoveAt(P, i)
           D == SetKeys(u, l, P)
           N1 == With(v.nodes, a, FreeBlock)
           N2 == With(N1, c, FreeBlock)
           N3 == With(N2, l, Node(H, P))
           M == With(N3, l, Node(H, J))
<1>1. [N[a] EXCEPT !.keys = MergeIndexes(N[a], s, N[c])] = g /\ g \in BlockSet
  BY MergedNodeIs
<1>2. a = K[i - 1].data /\ c = K[i].data
  BY DEF MergeCase
<1>3. R = DeleteKey(SetData(u, l, i - 1, new), l, s)
  <2> DEFINE b == N[l].keys[i - 1].data
             e == [N[b] EXCEPT !.keys = MergeIndexes(N[b], s, N[c])]
             w0 == Store(T, new, e)
             v0 == IF FreeSpace(e) < 0 THEN Fail(w0, "space") ELSE w0
  <2>1. R = DeleteKey(SetData(Deallocate(v0, {b, c}), l, i - 1, new), l, s)
    BY DEF MergeBlocks
  <2>2. e = g /\ b = a
    BY <1>1, <1>2
  <2> HIDE DEF e, b, g
  <2> QED
    BY <2>1, <2>2
<1> HIDE DEF N, K, H, s, new, g, w, v, u, P, J, D, N1, N2, N3, M
<1>4. /\ K \in Seq(KeySet) /\ Sorted(K) /\ i \in 2 .. Len(K) /\ i - 1 \in 1 .. Len(K) /\ i \in 1 .. Len(K)
      /\ l \in TreeBlocks /\ H \in Int /\ N[l] = Node(H, K)
  <2>1. Zoned(N, root, z) /\ l \in Blocks(N) /\ i \in 2 .. Len(K)
    BY DEF MergeCase, N, K
  <2>2. l \in TreeBlocks /\ K \in Seq(KeySet) /\ Sorted(K) /\ H \in Int /\ N[l] = Node(H, K)
    BY <2>1, ZonedTypes, ZonedSorted DEF K, H
  <2>3. i - 1 \in 1 .. Len(K) /\ i \in 1 .. Len(K)
    BY <2>1, <2>2
  <2> QED
    BY <2>1, <2>2, <2>3
<1>5. /\ a \in Blocks(N) /\ c \in Blocks(N) /\ a # c /\ a # l /\ c # l /\ s \in AllNames /\ s \in Nat
      /\ a \in TreeBlocks /\ c \in TreeBlocks
  <2>1. Beside(N, z, l, i, a, c, s)
    BY Neighbours DEF N, K, s
  <2> QED
    BY <2>1 DEF Beside, Blocks
<1>6. N \in NodeMap /\ new \in TreeBlocks /\ new \in DataSet
  BY <1>4, FreshIn, TreeFields DEF DataSet, N, new
<1>7. w \in TreeSet /\ (w.fault = "none" => new \notin Blocks(N) /\ w = Changed(T, With(N, new, g)))
  BY <1>1, <1>6, StoreIs DEF w, N
<1>8. w.nodes[l] = N[l]
  <2>1. CASE new \in Locs(T)
    <3>1. w = Fail(T, "full")
      BY <2>1 DEF Store, w
    <3> QED
      BY <3>1, FailIs DEF Faults, N
  <2>2. CASE new \notin Locs(T)
    <3>1. w = Changed(T, With(N, new, g))
      BY <2>2 DEF Store, Changed, With, w, N
    <3>2. new # l
      <4>1. new \notin Blocks(N)
        BY <2>2, LocsAre DEF N
      <4>2. l \in Blocks(N)
        BY DEF MergeCase, N
      <4> QED
        BY <4>1, <4>2
    <3>3. With(N, new, g) \in NodeMap /\ With(N, new, g)[l] = N[l]
      BY <1>1, <1>4, <1>6, <3>2, WithIs
    <3> QED
      BY <3>1, <3>3, ChangedIs
  <2> QED
    BY <2>1, <2>2
<1>9. v \in TreeSet /\ v.nodes = w.nodes
      /\ (v.fault = "none" => v = w /\ w.fault = "none" /\ ~ FreeSpace(g) < 0)
  <2>1. Fail(w, "space") \in TreeSet /\ Fail(w, "space").nodes = w.nodes /\ Fail(w, "space").fault # "none"
    BY <1>7, FailIs DEF Faults
  <2> QED
    BY <1>7, <2>1 DEF v
<1>10. u = Changed(v, N2) /\ u \in TreeSet
  BY <1>5, <1>9, DeallocateTwo DEF u, N1, N2
<1>11. N1 \in NodeMap /\ N1[a] = FreeBlock /\ \A x \in TreeBlocks : x # a => N1[x] = v.nodes[x]
  <2>1. v.nodes \in NodeMap
    BY <1>9, TreeFields
  <2> QED
    BY <1>5, <2>1, FreeIn, WithIs DEF N1
<1>12. N2 \in NodeMap /\ N2[c] = FreeBlock /\ \A x \in TreeBlocks : x # c => N2[x] = N1[x]
  BY <1>5, <1>11, FreeIn, WithIs DEF N2
<1>13. u.nodes = N2 /\ u.fault = v.fault
  BY <1>9, <1>10, <1>12, ChangedIs
<1>14. u.nodes[l] = Node(H, K) /\ u.nodes[l].keys = K /\ u.nodes[l].height = H
  <2>1. N2[l] = v.nodes[l]
    BY <1>4, <1>5, <1>11, <1>12
  <2>2. u.nodes[l] = Node(H, K)
    BY <1>4, <1>8, <1>9, <1>13, <2>1
  <2> QED
    BY <2>2, NodeFields
<1>15. P \in Seq(KeySet) /\ Len(P) = Len(K) /\ Sorted(P) /\ \A j \in 1 .. Len(K) : P[j].name = K[j].name
  BY <1>4, <1>6, PutIs DEF P
<1>16. SetData(u, l, i - 1, new) = D
  BY <1>4, <1>6, <1>10, <1>14, SetDataIs DEF D, P
<1>17. D = Changed(u, N3) /\ D \in TreeSet
  BY <1>4, <1>10, <1>13, <1>14, <1>15, SetKeysIs DEF D, N3
<1>18. Node(H, P) \in BlockSet /\ Node(H, P).height = H /\ Node(H, P).keys = P
       /\ Node(H, J).height = H /\ Node(H, J).keys = J
  BY <1>4, <1>15, NodeIn, NodeFields
<1>19. N3 \in NodeMap /\ N3[l] = Node(H, P) /\ \A x \in TreeBlocks : x # l => N3[x] = N2[x]
  BY <1>4, <1>12, <1>18, WithIs DEF N3
<1>20. D.nodes = N3 /\ D.fault = v.fault /\ D.nodes[l].keys = P /\ D.nodes[l].height = H
  BY <1>10, <1>13, <1>17, <1>18, <1>19, ChangedIs
<1>21. Found(P, s) /\ FindKey(P, s) = i
  <2>1. P[i].name = s /\ i \in 1 .. Len(P)
    BY <1>4, <1>15 DEF s
  <2> QED
    BY <1>5, <1>15, <2>1, FoundIs
<1>22. R = DeleteKey(D, l, s)
  BY <1>3, <1>16
<1>23. R.effect = Shrink /\ R.tree = Changed(D, M) /\ J \in Seq(KeySet) /\ R.tree \in TreeSet
  BY <1>4, <1>5, <1>15, <1>17, <1>20, <1>21, <1>22, DeleteKeyIs DEF M, J
<1>24. Result(R)
  BY <1>22 DEF Result, DeleteKey
<1>25. Node(H, J) \in BlockSet
  BY <1>4, <1>23, NodeIn
<1>26. M \in NodeMap /\ M[l] = Node(H, J) /\ \A x \in TreeBlocks : x # l => M[x] = N2[x]
  BY <1>4, <1>19, <1>25, WithIs DEF M
<1>27. R.tree.nodes = M /\ R.tree.fault = v.fault
  BY <1>17, <1>20, <1>23, <1>26, ChangedIs
<1>28. ASSUME R.tree.fault = "none"
       PROVE  MergeMade(T, R, l, i, a, c, new, M)
  <2>1. v = w /\ w.fault = "none" /\ ~ FreeSpace(g) < 0
    BY <1>9, <1>27, <1>28
  <2> DEFINE N0 == With(N, new, g)
  <2>2. new \notin Blocks(N) /\ w = Changed(T, N0)
    BY <1>7, <2>1
  <2>3. N0 \in NodeMap /\ N0[new] = g /\ \A x \in TreeBlocks : x # new => N0[x] = N[x]
    BY <1>1, <1>6, WithIs
  <2> HIDE DEF N0
  <2>4. v.nodes = N0
    BY <2>1, <2>2, <2>3, ChangedIs
  <2>5. R.tree = Changed(T, M)
    <3>1. R.tree = Changed(Changed(Changed(Changed(T, N0), N2), N3), M)
      BY <1>10, <1>17, <1>23, <2>1, <2>2
    <3> QED
      BY <1>12, <1>19, <2>3, <3>1, ChangedIs
  <2>6. l \in Blocks(N)
    BY DEF MergeCase, N
  <2>7. new \notin {a, c, l}
    BY <1>5, <2>2, <2>6
  <2>8. M[new] = g /\ M[a] = FreeBlock /\ M[c] = FreeBlock
        /\ \A x \in TreeBlocks : x \notin {new, a, c, l} => M[x] = N[x]
    BY <1>5, <1>6, <1>11, <1>12, <1>26, <2>3, <2>4, <2>7
  <2>9. ChildMerge(N, M, l, i, a, c, new)
    <3>1. g = Node(N[a].height, N[a].keys \o Renamed(N[a].height, N[l].keys[i].name, N[c].keys))
      BY <1>2 DEF g, MergedNode, K
    <3>2. M[l] = Node(N[l].height, RemoveAt(Put(N[l].keys, i - 1, new), i))
      BY <1>26 DEF J, P, K, H
    <3> QED
      BY <1>6, <1>26, <2>2, <2>8, <3>1, <3>2 DEF ChildMerge
  <2>10. FreeSpace(M[new]) >= 0
    <3>1. g.keys \in Seq(KeySet) /\ g = Node(g.height, g.keys)
      BY <1>1, BlockIsNode
    <3>2. FreeSpace(g) \in Int
      BY <3>1, FreeAtMost
    <3> QED
      BY <2>1, <2>8, <3>2
  <2> QED
    BY <1>23, <1>27, <2>5, <2>9, <2>10 DEF MergeMade, N
<1> QED
  BY <1>24, <1>28

LEMMA MergeReached ==
  ASSUME NEW t \in TreeSet, NEW z0, NEW h \in Nat, NEW c, NEW n \in Nat, NEW G, NEW z, NEW N,
         Reached(t, z0, N, z, h, c, n, G), NEW l, NEW i, Above(t, z0, N, z, h, c, n, l, i),
         NEW a, MergeCase(N, t.root, z, l, i, a, c),
         NEW M, NEW new, ChildMerge(N, M, l, i, a, c, new)
  PROVE  Reached(t, z0, M, MergeZone(z, a, c, new), h + 1, l, n, G)
<1> DEFINE y == MergeZone(z, a, c, new)
<1>1. l \in Blocks(N) /\ l \in TreeBlocks /\ N[l].height = h + 1 /\ n \in z[l]
  BY DEF Above, Blocks
<1>2. a # l /\ c # l /\ N[a].height = h /\ N[c].height = h
  <2>1. Beside(N, z, l, i, a, c, N[l].keys[i].name)
    BY Neighbours
  <2> QED
    BY <1>1, <2>1 DEF Beside
<1>3. /\ Zoned(M, t.root, y) /\ Blocks(M) = (Blocks(N) \ {a, c}) \cup {new}
      /\ a # t.root /\ c # t.root
  <2>1. MergeDone(N, M, t.root, z, a, c, new)
    BY ZonedMerge
  <2> QED
    BY <2>1 DEF MergeDone
<1>4. Same(N, M)
  BY MergeSame
<1>5. \A x \in TreeBlocks : x # new => y[x] = z[x]
  BY DEF MergeZone
<1> HIDE DEF y
<1>6. /\ new \notin Blocks(N)
      /\ M[l] = Node(N[l].height, RemoveAt(Put(N[l].keys, i - 1, new), i))
      /\ \A x \in TreeBlocks : x \notin {new, a, c, l} => M[x] = N[x]
  BY DEF ChildMerge
<1>7. M[l].height = h + 1 /\ l # new
  BY <1>1, <1>6, NodeFields
<1>8. ASSUME NEW x \in TreeBlocks, t.nodes[x].height > h + 1
      PROVE  M[x] = t.nodes[x] /\ y[x] = z0[x]
  <2>1. t.nodes[x].height \in Int
    BY TreeFields DEF BlockSet
  <2>2. N[x] = t.nodes[x] /\ z[x] = z0[x]
    BY <1>8, <2>1 DEF Reached
  <2>3. x \in Blocks(N)
    BY <1>8, <2>1, <2>2 DEF Blocks, FreeBlock
  <2>4. x # c /\ x # l /\ x # new /\ x # a
    BY <1>1, <1>2, <1>6, <1>8, <2>1, <2>2, <2>3
  <2> QED
    BY <1>5, <1>6, <2>2, <2>4
<1>9. M[t.root].height = t.nodes[t.root].height
  <2>1. N[t.root].height = t.nodes[t.root].height /\ t.root \in Blocks(N) /\ t.root \in TreeBlocks
    BY DEF Reached, Zoned, Blocks
  <2>2. CASE t.root = l
    BY <1>1, <1>7, <2>1, <2>2
  <2>3. CASE t.root # l
    BY <1>3, <1>6, <2>1, <2>3
  <2> QED
    BY <2>2, <2>3
<1>10. Same(G, M)
  BY <1>4, SameTwice DEF Reached
<1>11. n \in y[l] /\ l \in Blocks(M)
  BY <1>1, <1>2, <1>3, <1>5, <1>7
<1> QED
  BY <1>3, <1>7, <1>8, <1>9, <1>10, <1>11 DEF Reached, y

LEMMA MergeFits ==
  ASSUME NEW N, NEW root, NEW z, NEW l, NEW i, NEW a, NEW c, MergeCase(N, root, z, l, i, a, c),
         NEW M, NEW new, ChildMerge(N, M, l, i, a, c, new), Fits(N), FreeSpace(M[new]) >= 0
  PROVE  Fits(M)
<1> DEFINE K == N[l].keys
           H == N[l].height
           P == Put(K, i - 1, new)
           J == RemoveAt(P, i)
<1>1. Zoned(N, root, z) /\ l \in Blocks(N) /\ i \in 2 .. Len(K)
  BY DEF MergeCase
<1>2. K \in Seq(KeySet) /\ N[l] = Node(H, K)
  BY <1>1, ZonedTypes
<1>3. /\ new \in TreeBlocks /\ new \notin Blocks(N) /\ M[l] = Node(H, J)
      /\ M[a] = FreeBlock /\ M[c] = FreeBlock
      /\ \A x \in TreeBlocks : x \notin {new, a, c, l} => M[x] = N[x]
  BY DEF ChildMerge
<1>4. FreeSpace(Node(H, J)) >= 0
  <2>1. FreeSpace(Node(H, K)) >= 0
    BY <1>1, <1>2 DEF Fits
  <2> HIDE DEF K, H
  <2>2. i - 1 \in 1 .. Len(K) /\ i \in 1 .. Len(K) /\ new \in DataSet
    BY <1>1, <1>2, <1>3 DEF DataSet
  <2>3. P \in Seq(KeySet) /\ Len(P) = Len(K) /\ \A j \in 1 .. Len(K) : P[j].name = K[j].name
    BY <1>2, <2>2, PutIs
  <2> HIDE DEF P
  <2>4. FreeSpace(Node(H, P)) = FreeSpace(Node(H, K)) /\ FreeSpace(Node(H, K)) \in Int
    BY <1>2, <2>3, FreeSameNames, FreeAtMost
  <2>5. FreeSpace(Node(H, J)) = FreeSpace(Node(H, P)) + RequiredSpace(P[i].name, H)
    BY <2>2, <2>3, FreeRemove
  <2>6. RequiredSpace(P[i].name, H) \in Nat
    BY <2>2, <2>3, KeyNames, RequiredIs
  <2> HIDE DEF J
  <2> QED
    BY <2>1, <2>4, <2>5, <2>6
<1> HIDE DEF J, K, H, P
<1>5. ASSUME NEW x \in Blocks(M) PROVE FreeSpace(M[x]) >= 0
  <2>1. x \in TreeBlocks /\ x # a /\ x # c
    BY <1>3 DEF Blocks
  <2>2. CASE x = new
    BY <2>2
  <2>3. CASE x = l
    BY <1>3, <1>4, <2>3
  <2>4. CASE x # new /\ x # l
    <3>1. M[x] = N[x] /\ x \in Blocks(N)
      BY <1>3, <2>1, <2>4 DEF Blocks
    <3> QED
      BY <3>1 DEF Fits
  <2> QED
    BY <2>2, <2>3, <2>4
<1> QED
  BY <1>5 DEF Fits

LEMMA MergeSettled ==
  ASSUME NEW t \in TreeSet, NEW z0, NEW r, NEW h \in Nat, NEW c, NEW n \in Nat, NEW G, NEW z,
         Reached(t, z0, r.tree.nodes, z, h, c, n, G), Fits(r.tree.nodes),
         r.tree \in TreeSet, r.tree = Changed(t, r.tree.nodes),
         NEW l, NEW i, Above(t, z0, r.tree.nodes, z, h, c, n, l, i), i > 1,
         NEW R, R = MergeBlocks(r.tree, l, i, c)
  PROVE  Stage(t, z0, R, h + 1, l, n, G)
<1> DEFINE N == r.tree.nodes
           a == N[l].keys[i - 1].data
<1>1. MergeCase(N, t.root, z, l, i, a, c)
  <2>1. Zoned(N, t.root, z)
    BY DEF Reached
  <2>2. l \in Blocks(N) /\ N[l].height > 0 /\ i \in 2 .. Len(N[l].keys) /\ c = N[l].keys[i].data
    BY DEF Above
  <2> QED
    BY <2>1, <2>2 DEF MergeCase
<1>2. Result(R) /\ (R.tree.fault = "none" => \E M, new : MergeMade(r.tree, R, l, i, a, c, new, M))
  BY <1>1, MergeBlocksIs
<1>3. ASSUME R.tree.fault = "none"
      PROVE  R.tree \in TreeSet /\ R.tree = Changed(t, R.tree.nodes) /\ Settled(t, z0, R, h + 1, l, n, G)
  <2>1. PICK M, new : MergeMade(r.tree, R, l, i, a, c, new, M)
    BY <1>2, <1>3
  <2>2. /\ ChildMerge(N, M, l, i, a, c, new)
        /\ R.effect = Shrink /\ R.tree \in TreeSet /\ R.tree = Changed(r.tree, M) /\ R.tree.nodes = M
        /\ FreeSpace(M[new]) >= 0
    BY <2>1 DEF MergeMade
  <2> HIDE DEF a
  <2>3. Reached(t, z0, M, MergeZone(z, a, c, new), h + 1, l, n, G)
    BY <1>1, <2>2, MergeReached
  <2>4. Fits(M)
    BY <1>1, <2>2, MergeFits
  <2>5. R.tree = Changed(t, M)
    <3>1. R.tree = Changed(Changed(t, N), M) /\ N \in NodeMap
      BY <2>2, TreeFields
    <3> QED
      BY <3>1, ChangedIs
  <2>6. Settled(t, z0, R, h + 1, l, n, G)
    BY <2>2, <2>3, <2>4 DEF Settled
  <2> QED
    BY <2>2, <2>5, <2>6
<1> QED
  BY <1>2, <1>3 DEF Stage

LEMMA HigherReached ==
  ASSUME NEW t \in TreeSet, NEW z0, NEW V, NEW z, NEW h \in Nat, NEW c, NEW n \in Nat, NEW G,
         Reached(t, z0, V, z, h, c, n, G), NEW l, NEW i, Above(t, z0, V, z, h, c, n, l, i)
  PROVE  Reached(t, z0, V, z, h + 1, l, n, G)
<1>1. l \in Blocks(V) /\ V[l].height = h + 1 /\ n \in z[l]
  BY DEF Above
<1>2. ASSUME NEW x \in TreeBlocks, t.nodes[x].height > h + 1
      PROVE  V[x] = t.nodes[x] /\ z[x] = z0[x]
  <2>1. t.nodes[x].height \in Int
    BY TreeFields DEF BlockSet
  <2>2. t.nodes[x].height > h
    BY <1>2, <2>1
  <2> QED
    BY <2>2 DEF Reached
<1> QED
  BY <1>1, <1>2 DEF Reached

(* search_tree at block l, one above what the search has settled.          *)
LEMMA SettleStage ==
  ASSUME NEW t \in TreeSet, NEW z0, NEW h \in Nat, NEW c, NEW n \in Nat, NEW G,
         NEW r, Stage(t, z0, r, h, c, n, G),
         NEW l \in TreeBlocks, t.nodes[l].height = h + 1, n \in z0[l]
  PROVE  Stage(t, z0, Settle(r, l, n), h + 1, l, n, G)
<1> DEFINE N == r.tree.nodes
           K == N[l].keys
           pos == FindKey(K, n)
           splits == r.tree.fault = "none" /\ r.effect.type = "E_SPLIT"
           merges == /\ r.tree.fault = "none" /\ r.effect.type = "E_SHRINK" /\ pos > 1
                     /\ Roomy(r.tree, K[pos - 1].data, K[pos].data)
           R == Settle(r, l, n)
<1>1. Result(r) /\ (r.tree.fault = "none" =>
                      /\ r.tree \in TreeSet /\ r.tree = Changed(t, N)
                      /\ Settled(t, z0, r, h, c, n, G) \/ Pending(t, z0, r, h, c, n, G))
  BY DEF Stage
<1>2. Settled(t, z0, r, h, c, n, G) => r.effect.type # "E_SPLIT"
  BY DEF Settled, NoEffect, Shrink
<1>3. Pending(t, z0, r, h, c, n, G) => r.effect.type = "E_SPLIT"
  BY DEF Pending, HalvedAt
<1>4. CASE splits
  <2>1. R = SplitSettled(r, l, pos, K[pos].data)
    BY <1>4 DEF Settle, SplitSettled
  <2>2. Pending(t, z0, r, h, c, n, G) /\ r.tree \in TreeSet /\ r.tree = Changed(t, N)
    BY <1>1, <1>2, <1>4
  <2>3. PICK V, z, q : HalvedAt(t, z0, r, h, c, n, G, V, z, q)
    BY <2>2 DEF Pending
  <2> HIDE DEF K, R
  <2>4. Reached(t, z0, V, z, h, c, n, G) /\ Halved(V, N, c, q, r.effect.new0, r.effect.new1)
    BY <2>3 DEF HalvedAt
  <2> DEFINE i == FindKey(V[l].keys, n)
  <2>5. Above(t, z0, V, z, h, c, n, l, i)
    BY <2>4, AboveIs
  <2> HIDE DEF i
  <2>6. N[l] = V[l]
    <3>1. l \in Blocks(V) /\ l # c
      BY <2>5 DEF Above
    <3> QED
      BY <2>4, <3>1 DEF Halved
  <2>7. pos = i /\ K[pos].data = c
    BY <2>5, <2>6 DEF i, K, Above
  <2>8. R = SplitSettled(r, l, i, c)
    BY <2>1, <2>7
  <2>9. Stage(t, z0, R, h + 1, l, n, G)
    BY <2>2, <2>3, <2>5, <2>8, SettleSplit
  <2> QED
    BY <2>9 DEF R
<1>5. CASE ~ splits /\ merges
  <2>1. R = MergeBlocks(r.tree, l, pos, K[pos].data)
    BY <1>5 DEF Settle
  <2>2. Settled(t, z0, r, h, c, n, G) /\ r.tree \in TreeSet /\ r.tree = Changed(t, N) /\ pos > 1
    BY <1>1, <1>3, <1>5
  <2>3. PICK z : Reached(t, z0, N, z, h, c, n, G)
    BY <2>2 DEF Settled
  <2>4. Fits(N)
    BY <2>2 DEF Settled
  <2>5. Above(t, z0, N, z, h, c, n, l, pos)
    BY <2>3, AboveIs
  <2>6. K[pos].data = c
    BY <2>5 DEF Above
  <2> HIDE DEF K, R, pos
  <2>7. R = MergeBlocks(r.tree, l, pos, c)
    BY <2>1, <2>6
  <2>8. Stage(t, z0, R, h + 1, l, n, G)
    BY <2>2, <2>3, <2>4, <2>5, <2>7, MergeSettled
  <2> QED
    BY <2>8 DEF R
<1>6. CASE ~ splits /\ ~ merges
  <2>1. R = [r EXCEPT !.effect = NoEffect]
    BY <1>6 DEF Settle
  <2> HIDE DEF R
  <2>2. R = [tree |-> r.tree, effect |-> NoEffect]
    BY <1>1, <2>1 DEF Result
  <2>3. R.tree = r.tree /\ R.effect = NoEffect /\ Result(R)
    BY <2>2 DEF Result
  <2>4. ASSUME r.tree.fault = "none" PROVE Settled(t, z0, R, h + 1, l, n, G)
    <3>1. Settled(t, z0, r, h, c, n, G)
      BY <1>1, <1>3, <1>6, <2>4
    <3>2. PICK z : Reached(t, z0, N, z, h, c, n, G)
      BY <3>1 DEF Settled
    <3>3. Above(t, z0, N, z, h, c, n, l, pos)
      BY <3>2, AboveIs
    <3> HIDE DEF pos
    <3>4. Reached(t, z0, N, z, h + 1, l, n, G)
      BY <3>2, <3>3, HigherReached
    <3>5. Fits(N)
      BY <3>1 DEF Settled
    <3> QED
      BY <2>3, <3>4, <3>5 DEF Settled
  <2>5. Stage(t, z0, R, h + 1, l, n, G)
    BY <1>1, <2>3, <2>4 DEF Stage
  <2> QED
    BY <2>5 DEF R
<1> QED
  BY <1>4, <1>5, <1>6

-----------------------------------------------------------------------------
(* At the root: what a search leaves behind.                               *)

Sound(T) == T \in TreeSet /\ Fits(T.nodes) /\ \E z : Zoned(T.nodes, T.root, z)

(* The result R of a search that did not stop the program has the keys of G. *)
Left(R, G) == Sound(R) /\ Same(G, R.nodes)

LEMMA RootSet ==
  ASSUME NEW t \in TreeSet, NEW l \in TreeBlocks
  PROVE  /\ [t EXCEPT !.root = l] \in TreeSet /\ [t EXCEPT !.root = l].root = l
         /\ [t EXCEPT !.root = l].nodes = t.nodes /\ [t EXCEPT !.root = l].fault = t.fault
  BY DEF TreeSet

LEMMA FirstKey ==
  ASSUME NEW key \in KeySet
  PROVE  Grown(<<>>, key) = <<key>>
<1>1. <<>> \in Seq(KeySet) /\ Len(<<>>) = 0
  OBVIOUS
<1>2. FindKey(<<>>, key.name) = 0
  <2>1. FindKey(<<>>, key.name) \in 0 .. Len(<<>>)
    BY <1>1, FindKeyRange
  <2> QED
    BY <1>1, <2>1
<1>3. 0 \in 0 .. Len(<<>>)
  BY <1>1
<1>4. /\ InsertAt(<<>>, 0 + 1, key) \in Seq(KeySet) /\ Len(InsertAt(<<>>, 0 + 1, key)) = Len(<<>>) + 1
      /\ \A i \in 1 .. Len(<<>>) + 1 : i = 0 + 1 => InsertAt(<<>>, 0 + 1, key)[i] = key
  <2> DEFINE K == <<>>
             I == InsertAt(K, 0 + 1, key)
  <2>1. K \in Seq(KeySet) /\ Len(K) = 0 /\ 0 \in 0 .. Len(K)
    BY <1>1
  <2>2. I \in Seq(KeySet) /\ Len(I) = Len(K) + 1
    <3> HIDE DEF K
    <3> QED
      BY <2>1, KeyInserted
  <2>3. \A i \in 1 .. Len(K) + 1 : I[i] = IF i <= 0 THEN K[i] ELSE IF i = 0 + 1 THEN key ELSE K[i - 1]
    <3> HIDE DEF K
    <3> QED
      BY <2>1, KeyInserted
  <2> HIDE DEF I
  <2>4. \A i \in 1 .. Len(K) + 1 : i = 0 + 1 => I[i] = key
    BY <2>1, <2>3
  <2> QED
    BY <2>2, <2>4 DEF I
<1> DEFINE J == InsertAt(<<>>, 0 + 1, key)
<1> HIDE DEF J
<1>5. J \in Seq(KeySet) /\ Len(J) = 1 /\ J[1] = key
  BY <1>1, <1>4 DEF J
<1>6. J = <<key>>
  BY <1>5
<1> QED
  BY <1>2, <1>6 DEF Grown, J

(* The blocks under a new root with two keys.                              *)
LEMMA GrownRoot ==
  ASSUME NEW t \in TreeSet, NEW z0, NEW r, NEW h \in Nat, NEW n, NEW G, NEW V, NEW z, NEW q,
         HalvedAt(t, z0, r, h, t.root, n, G, V, z, q),
         NEW N, N = r.tree.nodes,
         NEW new \in TreeBlocks, new \notin Blocks(N),
         NEW J, J = Grown(Sole(r.effect.new0), [name |-> r.effect.name, data |-> r.effect.new1]),
         J \in Seq(KeySet), FreeSpace(Node(h + 1, J)) >= 0,
         NEW M, M = With(With(N, new, Node(h + 1, J)), t.root, FreeBlock)
  PROVE  M \in NodeMap /\ (\E y : Zoned(M, new, y)) /\ Fits(M) /\ Same(G, M)
<1> DEFINE root == t.root
           new0 == r.effect.new0
           new1 == r.effect.new1
           s == r.effect.name
           W == With(V, new, Node(V[root].height + 1, Sole(root)))
           y == [z EXCEPT ![new] = Nat]
           x0 == SplitZone(y, root, s, new0, new1)
           E == With(N, new, Node(h + 1, J))
<1>1. /\ Reached(t, z0, V, z, h, root, n, G) /\ Halved(V, N, root, q, new0, new1)
      /\ q \in 1 .. Len(V[root].keys) /\ q < Len(V[root].keys) /\ s = V[root].keys[q + 1].name
      /\ \A x \in Blocks(N) \ {root} : FreeSpace(N[x]) >= 0
  BY DEF HalvedAt
<1>2. Zoned(V, root, z) /\ root \in Blocks(V) /\ V[root].height = h /\ Same(G, V) /\ root \in TreeBlocks
  BY <1>1 DEF Reached, Blocks
<1> HIDE DEF new0, new1, s, root
<1>3. /\ N \in NodeMap /\ new0 # new1
      /\ new0 \in TreeBlocks /\ new0 \notin Blocks(V) /\ new1 \in TreeBlocks /\ new1 \notin Blocks(V)
      /\ N[new0] = Node(h, SubSeq(V[root].keys, 1, q))
      /\ N[new1] = Node(h, Second(h, V[root].keys, q))
      /\ N[root] # FreeBlock
      /\ \A x \in TreeBlocks : x \notin {new0, new1, root} => N[x] = V[x]
  BY <1>1, <1>2 DEF Halved
<1>4. new \notin {new0, new1, root} /\ new \notin Blocks(V)
  <2>1. N[new0].height = h /\ N[new1].height = h
    BY <1>3, NodeFields
  <2>2. N[new0] # FreeBlock /\ N[new1] # FreeBlock
    BY <2>1 DEF FreeBlock
  <2>3. N[new] = FreeBlock
    BY DEF Blocks
  <2>4. new \notin {new0, new1, root}
    BY <1>3, <2>2, <2>3
  <2> QED
    BY <1>3, <2>3, <2>4 DEF Blocks
<1>5. /\ Zoned(W, new, y) /\ Blocks(W) = Blocks(V) \cup {new} /\ Same(V, W)
      /\ W \in NodeMap /\ W[new] = Node(h + 1, Sole(root))
      /\ \A x \in TreeBlocks : x # new => W[x] = V[x]
  BY <1>2, <1>4, ZonedGrow
<1> HIDE DEF W, y
<1>6. W[new].height = h + 1 /\ W[new].keys = Sole(root) /\ W[root] = V[root] /\ new # root
  BY <1>2, <1>4, <1>5, NodeFields
<1>7. root \in DataSet /\ new0 \in DataSet
  BY <1>2, <1>3 DEF DataSet
<1>8. Len(Sole(root)) = 1 /\ Sole(root)[1].data = root /\ Put(Sole(root), 1, new0) = Sole(new0)
  <2>1. Len(Sole(root)) = 1 /\ Sole(root)[1].data = root
    BY <1>7, SoleIs
  <2>2. Put(Sole(root), 1, new0) = Sole(new0)
    BY DEF Put, Sole
  <2> QED
    BY <2>1, <2>2
<1>9. SplitCase(W, new, y, new, 1, root, q)
  <2>1. 1 \in 1 .. Len(W[new].keys) /\ root = W[new].keys[1].data /\ new \in Blocks(W) /\ W[new].height > 0
    BY <1>5, <1>6, <1>8
  <2> QED
    BY <1>1, <1>5, <1>6, <2>1 DEF SplitCase
<1>10. Node(h + 1, J) \in BlockSet
  BY NodeIn
<1>11. E \in NodeMap /\ E[new] = Node(h + 1, J) /\ \A x \in TreeBlocks : x # new => E[x] = N[x]
  BY <1>3, <1>10, WithIs
<1>12. M = With(E, root, FreeBlock)
  BY DEF root
<1> HIDE DEF E
<1>13. M \in NodeMap /\ M[root] = FreeBlock /\ \A x \in TreeBlocks : x # root => M[x] = E[x]
  BY <1>2, <1>11, <1>12, FreeIn, WithIs
<1>14. ChildSplit(W, M, new, 1, root, q, new0, new1)
  <2>1. new0 \notin Blocks(W) /\ new1 \notin Blocks(W) /\ root \notin {new0, new1}
    BY <1>2, <1>3, <1>4, <1>5
  <2>2. M[new0] = N[new0] /\ M[new1] = N[new1] /\ M[new] = Node(h + 1, J)
    BY <1>3, <1>4, <1>6, <1>11, <1>13, <2>1
  <2>3. \A x \in TreeBlocks : x \notin {new0, new1, root, new} => M[x] = W[x]
    BY <1>3, <1>5, <1>11, <1>13
  <2>4. J = Grown(Put(W[new].keys, 1, new0), [name |-> W[root].keys[q + 1].name, data |-> new1])
    BY <1>1, <1>6, <1>8 DEF new0, new1, s, root
  <2>5. M[new] = Node(W[new].height, Grown(Put(W[new].keys, 1, new0),
                                           [name |-> W[root].keys[q + 1].name, data |-> new1]))
    BY <1>6, <2>2, <2>4
  <2>6. M[new0] = Node(W[root].height, SubSeq(W[root].keys, 1, q))
        /\ M[new1] = Node(W[root].height, Second(W[root].height, W[root].keys, q))
    BY <1>2, <1>3, <1>6, <2>2
  <2> QED
    BY <1>3, <1>13, <2>1, <2>3, <2>5, <2>6 DEF ChildSplit
<1>15. Zoned(M, new, SplitZone(y, root, W[root].keys[q + 1].name, new0, new1))
  BY <1>9, <1>14, SplitZoned
<1>16. Same(W, M)
  BY <1>9, <1>14, SplitSame
<1>17. Same(G, M)
  BY <1>2, <1>5, <1>16, SameTwice
<1>18. ASSUME NEW x \in Blocks(M) PROVE FreeSpace(M[x]) >= 0
  <2>1. x \in TreeBlocks /\ x # root /\ M[x] = E[x] /\ M[x] # FreeBlock
    BY <1>13 DEF Blocks
  <2>2. CASE x = new
    BY <1>11, <2>1, <2>2
  <2>3. CASE x # new
    <3>1. M[x] = N[x] /\ x \in Blocks(N) \ {root}
      BY <1>11, <2>1, <2>3 DEF Blocks
    <3> QED
      BY <1>1, <3>1
  <2> QED
    BY <2>2, <2>3
<1> QED
  BY <1>13, <1>15, <1>17, <1>18 DEF Fits

(* Two keys added to a new root, unless that stops the program.            *)
LEMMA TwoKeys ==
  ASSUME NEW T \in TreeSet, NEW H \in Nat, NEW new \in TreeBlocks,
         NEW d \in DataSet, NEW key \in KeySet,
         NEW w, w = Store(T, new, Node(H, <<>>)),
         NEW u, u = AddKey(w, new, [name |-> 0, data |-> d]),
         NEW v, v = AddKey(u, new, key)
  PROVE  /\ v \in TreeSet
         /\ v.fault = "none" =>
              /\ T.fault = "none" /\ new \notin Blocks(T.nodes) /\ Grown(Sole(d), key) \in Seq(KeySet)
              /\ v = Changed(T, With(T.nodes, new, Node(H, Grown(Sole(d), key))))
              /\ FreeSpace(Node(H, Grown(Sole(d), key))) >= 0
<1> DEFINE k0 == [name |-> 0, data |-> d]
           N == T.nodes
           A == With(N, new, Node(H, <<>>))
           B == With(A, new, Node(H, Sole(d)))
           J == Grown(Sole(d), key)
           C == With(B, new, Node(H, J))
<1>1. k0 \in KeySet /\ <<k0>> = Sole(d)
  BY NamesAssumption DEF KeySet, Sole
<1> HIDE DEF k0
<1>2. <<>> \in Seq(KeySet) /\ H \in Int
  OBVIOUS
<1>3. Node(H, <<>>) \in BlockSet /\ Node(H, <<>>).height = H /\ Node(H, <<>>).keys = <<>>
  BY <1>2, NodeIn, NodeFields
<1>4. w \in TreeSet
  BY <1>3, StoreIs
<1>5. u \in TreeSet
  BY <1>1, <1>4, AddKeyTree DEF k0
<1>6. v \in TreeSet
  BY <1>5, AddKeyTree
<1>7. ASSUME v.fault = "none"
      PROVE  /\ T.fault = "none" /\ new \notin Blocks(T.nodes) /\ J \in Seq(KeySet)
             /\ v = Changed(T, With(N, new, Node(H, J))) /\ FreeSpace(Node(H, J)) >= 0
  <2>1. u.fault = "none"
    BY <1>5, <1>7, FaultStays
  <2>2. w.fault = "none"
    BY <1>4, <2>1, FaultStays
  <2>3. T.fault = "none" /\ new \notin Blocks(N) /\ w = Changed(T, A)
    BY <1>3, <2>2, StoreIs
  <2>4. N \in NodeMap
    BY TreeFields
  <2>5. A \in NodeMap /\ A[new] = Node(H, <<>>)
    BY <1>3, <2>4, WithIs
  <2> HIDE DEF A
  <2>6. w.nodes = A /\ w.nodes[new].keys = <<>> /\ w.nodes[new].height = H
    BY <1>3, <2>3, <2>5, ChangedIs
  <2>7. Sorted(w.nodes[new].keys)
    BY <2>6 DEF Sorted
  <2>8. u = Changed(w, With(w.nodes, new, Node(w.nodes[new].height, Grown(w.nodes[new].keys, k0))))
    <3>1. AddKey(w, new, k0).fault = "none" /\ u = AddKey(w, new, k0)
      BY <2>1 DEF k0
    <3> QED
      BY <1>1, <1>4, <2>7, <3>1, AddKeyIs
  <2>9. Grown(<<>>, k0) = Sole(d)
    BY <1>1, FirstKey
  <2>10. u = Changed(w, B)
    BY <2>6, <2>8, <2>9
  <2>11. Sole(d) \in Seq(KeySet) /\ Sorted(Sole(d))
    BY SoleIs
  <2>12. Node(H, Sole(d)) \in BlockSet /\ Node(H, Sole(d)).height = H /\ Node(H, Sole(d)).keys = Sole(d)
    BY <1>2, <2>11, NodeIn, NodeFields
  <2>13. B \in NodeMap /\ B[new] = Node(H, Sole(d))
    BY <2>5, <2>12, WithIs
  <2> HIDE DEF B
  <2>14. u.nodes = B /\ u.nodes[new].keys = Sole(d) /\ u.nodes[new].height = H
    BY <1>4, <2>10, <2>12, <2>13, ChangedIs
  <2>15. /\ v = Changed(u, C) /\ J \in Seq(KeySet) /\ FreeSpace(Node(H, J)) >= 0
    <3>1. AddKey(u, new, key).fault = "none" /\ Sorted(u.nodes[new].keys)
      BY <1>7, <2>11, <2>14
    <3> QED
      BY <1>5, <2>14, <3>1, AddKeyIs
  <2>16. Node(H, J) \in BlockSet
    BY <1>2, <2>15, NodeIn
  <2>17. C = With(N, new, Node(H, J))
    BY <1>3, <2>4, <2>12, <2>16 DEF A, B, With, NodeMap
  <2>18. v = Changed(T, C)
    <3>1. v = Changed(Changed(Changed(T, A), B), C)
      BY <2>3, <2>10, <2>15
    <3> HIDE DEF C
    <3> QED
      BY <2>5, <2>13, <3>1, ChangedIs
  <2> QED
    BY <2>3, <2>15, <2>17, <2>18
<1> QED
  BY <1>6, <1>7

(* search, after the search of the tree below the root.                    *)
LEMMA RootDone ==
  ASSUME NEW t \in TreeSet, NEW z0, NEW h \in Nat, NEW n \in Nat, NEW G,
         NEW r, Stage(t, z0, r, h, t.root, n, G), NewRoot(r).fault = "none"
  PROVE  Left(NewRoot(r), G)
<1> DEFINE R == NewRoot(r)
           N == r.tree.nodes
           root == t.root
           old == N[r.tree.root]
           new == Fresh(r.tree)
           e == r.effect
           k0 == [name |-> 0, data |-> e.new0]
           key == [name |-> e.name, data |-> e.new1]
           w == Store(r.tree, new, [height |-> old.height + 1, keys |-> <<>>])
           u == AddKey(w, new, k0)
           v == AddKey(u, new, key)
           splits == r.tree.fault = "none" /\ e.type = "E_SPLIT"
           shrinks == r.tree.fault = "none" /\ e.type = "E_SHRINK" /\ old.height > 0 /\ Len(old.keys) = 1
<1>1. R = IF splits THEN [Deallocate(v, {r.tree.root}) EXCEPT !.root = new]
          ELSE IF shrinks THEN [Deallocate(r.tree, {r.tree.root}) EXCEPT !.root = old.keys[1].data]
          ELSE r.tree
  BY DEF NewRoot
<1> HIDE DEF v, R
<1>2. (r.tree.fault = "none" =>
         /\ r.tree \in TreeSet /\ r.tree = Changed(t, N)
         /\ Settled(t, z0, r, h, root, n, G) \/ Pending(t, z0, r, h, root, n, G))
  BY DEF Stage
<1>3. Settled(t, z0, r, h, root, n, G) => r.effect.type # "E_SPLIT"
  BY DEF Settled, NoEffect, Shrink
<1>4. Pending(t, z0, r, h, root, n, G) => r.effect.type = "E_SPLIT"
  BY DEF Pending, HalvedAt
<1>5. r.tree.fault = "none" => r.tree.root = root /\ N \in NodeMap /\ root \in TreeBlocks
  <2>1. r.tree.fault = "none" => N \in NodeMap
    BY <1>2, TreeFields
  <2> QED
    BY <1>2, <2>1, ChangedIs, TreeFields
<1>6. CASE splits
  <2>1. r.tree \in TreeSet /\ r.tree = Changed(t, N) /\ Pending(t, z0, r, h, root, n, G) /\ r.tree.root = root
        /\ N \in NodeMap /\ root \in TreeBlocks
    BY <1>2, <1>3, <1>5, <1>6
  <2>2. PICK V, z, q : HalvedAt(t, z0, r, h, root, n, G, V, z, q)
    BY <2>1 DEF Pending
  <2>3. /\ Reached(t, z0, V, z, h, root, n, G) /\ Halved(V, N, root, q, e.new0, e.new1)
        /\ q \in 1 .. Len(V[root].keys) /\ q < Len(V[root].keys) /\ e.name = V[root].keys[q + 1].name
    BY <2>2 DEF HalvedAt
  <2>4. old.height = h /\ e.new0 \in DataSet /\ e.new1 \in DataSet
    <3>1. V[root].height = h
      BY <2>3 DEF Reached
    <3> QED
      BY <2>1, <2>3, <3>1 DEF Halved, DataSet
  <2>5. e.name \in AllNames
    <3>1. V[root].keys \in Seq(KeySet)
      BY <2>3, ZonedTypes DEF Reached
    <3>2. q + 1 \in 1 .. Len(V[root].keys)
      BY <2>3, <3>1
    <3> QED
      BY <2>3, <3>1, <3>2, KeyNames
  <2>6. key \in KeySet
    BY <2>4, <2>5 DEF KeySet
  <2>7. new \in TreeBlocks
    BY <2>1, FreshIn
  <2>8. w = Store(r.tree, new, Node(h + 1, <<>>)) /\ h + 1 \in Nat
    BY <2>4 DEF Node
  <2> DEFINE J == Grown(Sole(e.new0), key)
             M == With(With(N, new, Node(h + 1, J)), root, FreeBlock)
             D == Deallocate(v, {root})
  <2>9. /\ v \in TreeSet
        /\ v.fault = "none" =>
             /\ new \notin Blocks(N) /\ J \in Seq(KeySet)
             /\ v = Changed(r.tree, With(N, new, Node(h + 1, J)))
             /\ FreeSpace(Node(h + 1, J)) >= 0
    <3> HIDE DEF new, key, J, w, u
    <3>1. u = AddKey(w, new, [name |-> 0, data |-> e.new0]) /\ v = AddKey(u, new, key)
      BY DEF u, v
    <3> QED
      BY <2>1, <2>4, <2>6, <2>7, <2>8, <3>1, TwoKeys DEF J
  <2>10. D = Changed(v, With(v.nodes, root, FreeBlock)) /\ D \in TreeSet
    BY <2>1, <2>9, DeallocateOne
  <2>11. R = [D EXCEPT !.root = new]
    BY <1>1, <1>6, <2>1
  <2> HIDE DEF D, J, key, new, w, u
  <2>12. R \in TreeSet /\ R.root = new /\ R.nodes = D.nodes /\ R.fault = D.fault
    BY <2>7, <2>10, <2>11, RootSet
  <2>13. With(v.nodes, root, FreeBlock) \in NodeMap
    BY <2>1, <2>9, TreeFields, FreeIn, WithIs
  <2>14. D.nodes = With(v.nodes, root, FreeBlock) /\ v.fault = "none"
    <3>1. D.fault = v.fault /\ D.nodes = With(v.nodes, root, FreeBlock)
      BY <2>9, <2>10, <2>13, ChangedIs
    <3> QED
      BY <2>12, <3>1 DEF R
  <2>15. With(N, new, Node(h + 1, J)) \in NodeMap
    BY <2>1, <2>7, <2>8, <2>9, <2>14, NodeIn, WithIs
  <2>16. R.nodes = M
    BY <2>1, <2>9, <2>12, <2>14, <2>15, ChangedIs
  <2>17. M \in NodeMap /\ (\E y : Zoned(M, new, y)) /\ Fits(M) /\ Same(G, M)
    BY <2>2, <2>7, <2>9, <2>14, GrownRoot DEF J, key
  <2> HIDE DEF M
  <2> QED
    BY <2>12, <2>16, <2>17 DEF Left, Sound, R
<1>7. CASE ~ splits /\ shrinks
  <2>1. r.tree \in TreeSet /\ r.tree = Changed(t, N) /\ Settled(t, z0, r, h, root, n, G) /\ r.tree.root = root
        /\ N \in NodeMap /\ root \in TreeBlocks
    BY <1>2, <1>4, <1>5, <1>7
  <2>2. PICK z : Reached(t, z0, N, z, h, root, n, G)
    BY <2>1 DEF Settled
  <2>3. Fits(N) /\ Zoned(N, root, z) /\ Same(G, N)
    BY <2>1, <2>2 DEF Settled, Reached
  <2> DEFINE c == N[root].keys[1].data
             M == With(N, root, FreeBlock)
             D == Deallocate(r.tree, {root})
  <2>4. old = N[root] /\ N[root].height > 0 /\ Len(N[root].keys) = 1
    BY <1>7, <2>1
  <2> HIDE DEF old, splits, shrinks
  <2>5. /\ Zoned(M, c, z) /\ Blocks(M) = Blocks(N) \ {root} /\ Same(N, M)
        /\ M \in NodeMap /\ c \in TreeBlocks
        /\ \A x \in TreeBlocks : x # root => M[x] = N[x]
    BY <2>3, <2>4, ZonedShrink
  <2>6. D = Changed(r.tree, M) /\ D \in TreeSet
    BY <2>1, DeallocateOne
  <2>7. D.nodes = M
    BY <2>1, <2>5, <2>6, ChangedIs
  <2>8. R = [D EXCEPT !.root = c]
    BY <1>1, <1>7, <2>1, <2>4
  <2> HIDE DEF D, M, c
  <2>9. R \in TreeSet /\ R.root = c /\ R.nodes = M
    BY <2>5, <2>6, <2>7, <2>8, RootSet
  <2>10. Fits(M)
    BY <2>3, <2>5 DEF Fits, Blocks
  <2>11. Same(G, M)
    BY <2>3, <2>5, SameTwice
  <2> QED
    BY <2>5, <2>9, <2>10, <2>11 DEF Left, Sound, R
<1>8. CASE ~ splits /\ ~ shrinks
  <2>1. R = r.tree /\ r.tree.fault = "none"
    BY <1>1, <1>8 DEF R
  <2>2. r.tree \in TreeSet /\ Settled(t, z0, r, h, root, n, G) /\ r.tree.root = root
    BY <1>2, <1>4, <1>5, <1>8, <2>1
  <2>3. PICK z : Reached(t, z0, N, z, h, root, n, G)
    BY <2>2 DEF Settled
  <2>4. Fits(N) /\ Zoned(N, root, z) /\ Same(G, N)
    BY <2>2, <2>3 DEF Settled, Reached
  <2> QED
    BY <2>1, <2>2, <2>4 DEF Left, Sound, R
<1> QED
  BY <1>6, <1>7, <1>8

-----------------------------------------------------------------------------
(* The way down and the way up.                                            *)

Height(t) == t.nodes[t.root].height
ChildOf(t, l, n) == t.nodes[l].keys[FindKey(t.nodes[l].keys, n)].data
IsPath(t, n, f) ==
  f = [h \in 0 .. Height(t) |-> IF h = Height(t) THEN t.root ELSE ChildOf(t, f[h + 1], n)]

LEMMA PathUnfold ==
  ASSUME NEW t, NEW n
  PROVE  Path(t, n) = CHOOSE f : IsPath(t, n, f)
  BY DEF Path, IsPath, Height, ChildOf

(* Block l of height h is on the way to n.                                 *)
OnWay(t, z, n, h, l) == l \in Blocks(t.nodes) /\ t.nodes[l].height = h /\ n \in z[l]

LEMMA WayDown ==
  ASSUME NEW t \in TreeSet, NEW z, Zoned(t.nodes, t.root, z), NEW n \in Nat,
         NEW h \in Nat, NEW l, OnWay(t, z, n, h + 1, l)
  PROVE  OnWay(t, z, n, h, ChildOf(t, l, n))
<1> DEFINE K == t.nodes[l].keys
<1>1. l \in Blocks(t.nodes) /\ t.nodes[l].height = h + 1 /\ n \in z[l] /\ t.nodes[l].height > 0
  BY DEF OnWay
<1>2. K = t.nodes[l].keys
  OBVIOUS
<1> HIDE DEF K
<1> DEFINE N == t.nodes
           root == t.root
<1>3. Zoned(N, root, z) /\ l \in Blocks(N) /\ N[l].height > 0 /\ K = N[l].keys /\ n \in z[l] /\ N[l].height = h + 1
  BY <1>1, <1>2
<1> HIDE DEF N, root
<1>4. K[FindKey(K, n)].data \in Blocks(N) /\ N[K[FindKey(K, n)].data].height = N[l].height - 1
      /\ n \in z[K[FindKey(K, n)].data]
  BY ONLY <1>3, ChildFor
<1>5. N[K[FindKey(K, n)].data].height = h
  BY <1>3, <1>4
<1> QED
  BY <1>4, <1>5 DEF OnWay, ChildOf, N, K

LEMMA OneWay ==
  ASSUME NEW t \in TreeSet, NEW z, Zoned(t.nodes, t.root, z), NEW n \in Nat,
         NEW h, NEW l, NEW m, OnWay(t, z, n, h, l), OnWay(t, z, n, h, m)
  PROVE  l = m
<1>1. Apart(t.nodes, z, l, m)
  BY DEF Zoned, OnWay
<1> QED
  BY <1>1 DEF Apart, OnWay

LEMMA HeightIs ==
  ASSUME NEW t \in TreeSet, NEW z, Zoned(t.nodes, t.root, z)
  PROVE  Height(t) \in Nat /\ \A n \in Nat : OnWay(t, z, n, Height(t), t.root)
<1>1. t.root \in Blocks(t.nodes) /\ z[t.root] = Nat
  BY DEF Zoned
<1> QED
  BY <1>1, ZonedTypes DEF OnWay, Height

LEMMA Ways ==
  ASSUME NEW t \in TreeSet, NEW z, Zoned(t.nodes, t.root, z), NEW n \in Nat, NEW h \in 0 .. Height(t)
  PROVE  \E l : OnWay(t, z, n, h, l)
<1> DEFINE top == Height(t)
           S == {k \in Nat : k <= top => \E l : OnWay(t, z, n, top - k, l)}
<1>1. top \in Nat /\ OnWay(t, z, n, top, t.root)
  BY HeightIs
<1> HIDE DEF top
<1>2. 0 \in S
  BY <1>1
<1>3. ASSUME NEW k \in Nat, k \in S PROVE k + 1 \in S
  <2>1. ASSUME k + 1 <= top PROVE \E l : OnWay(t, z, n, top - (k + 1), l)
    <3>1. PICK l : OnWay(t, z, n, top - k, l)
      BY <1>1, <1>3, <2>1
    <3>2. top - (k + 1) \in Nat /\ (top - (k + 1)) + 1 = top - k
      BY <1>1, <2>1
    <3> DEFINE j == top - (k + 1)
    <3>3. j \in Nat /\ OnWay(t, z, n, j + 1, l)
      BY <3>1, <3>2
    <3> HIDE DEF j
    <3>4. OnWay(t, z, n, j, ChildOf(t, l, n))
      BY <3>3, WayDown
    <3> QED
      BY <3>4 DEF j
  <2> QED
    BY <2>1
<1>4. \A k \in Nat : k \in S
  <2> HIDE DEF S
  <2> QED
    BY <1>2, <1>3, NatSet
<1>5. top - h \in Nat /\ top - h <= top /\ top - (top - h) = h
  BY <1>1 DEF top
<1>6. top - h \in S
  BY <1>4, <1>5
<1>7. \E l : OnWay(t, z, n, top - (top - h), l)
  BY <1>5, <1>6
<1> QED
  BY <1>5, <1>7

LEMMA PathIs ==
  ASSUME NEW t \in TreeSet, NEW z, Zoned(t.nodes, t.root, z), NEW n \in Nat, NEW p, p = Path(t, n)
  PROVE  /\ DOMAIN p = 0 .. Height(t) /\ p[Height(t)] = t.root
         /\ \A h \in 0 .. Height(t) : OnWay(t, z, n, h, p[h])
<1> DEFINE top == Height(t)
           g == [h \in 0 .. top |-> CHOOSE l : OnWay(t, z, n, h, l)]
<1>1. top \in Nat /\ OnWay(t, z, n, top, t.root)
  BY HeightIs
<1>2. \A h \in 0 .. top : OnWay(t, z, n, h, g[h])
  BY Ways
<1>3. IsPath(t, n, g)
  <2>1. ASSUME NEW h \in 0 .. top
        PROVE  g[h] = IF h = top THEN t.root ELSE ChildOf(t, g[h + 1], n)
    <3>1. OnWay(t, z, n, h, g[h])
      BY <1>2
    <3>2. CASE h = top
      <4>1. g[h] = t.root
        BY <1>1, <3>1, <3>2, OneWay
      <4> QED
        BY <3>2, <4>1
    <3>3. CASE h # top
      <4>1. h + 1 \in 0 .. top /\ h \in Nat
        BY <1>1, <3>3
      <4>2. OnWay(t, z, n, h + 1, g[h + 1])
        BY <1>2, <4>1
      <4>3. OnWay(t, z, n, h, ChildOf(t, g[h + 1], n))
        BY <4>1, <4>2, WayDown
      <4>4. g[h] = ChildOf(t, g[h + 1], n)
        BY <3>1, <4>3, OneWay
      <4> QED
        BY <3>3, <4>4
    <3> QED
      BY <3>2, <3>3
  <2>2. g = [h \in 0 .. top |-> g[h]]
    OBVIOUS
  <2> HIDE DEF g
  <2> QED
    BY <2>1, <2>2 DEF IsPath
<1>4. IsPath(t, n, p)
  <2> HIDE DEF g
  <2> QED
    BY <1>3, PathUnfold
<1> HIDE DEF g
<1>5. DOMAIN p = 0 .. top /\ \A h \in 0 .. top : p[h] = IF h = top THEN t.root ELSE ChildOf(t, p[h + 1], n)
  BY <1>4 DEF IsPath
<1> HIDE DEF top
<1>6. p[top] = t.root
  BY <1>1, <1>5
<1> DEFINE S == {k \in Nat : k <= top => OnWay(t, z, n, top - k, p[top - k])}
<1>7. 0 \in S
  BY <1>1, <1>6
<1>8. ASSUME NEW k \in Nat, k \in S PROVE k + 1 \in S
  <2>1. ASSUME k + 1 <= top PROVE OnWay(t, z, n, top - (k + 1), p[top - (k + 1)])
    <3> DEFINE j == top - (k + 1)
    <3>1. j \in Nat /\ j + 1 = top - k /\ j \in 0 .. top /\ j # top
      BY <1>1, <2>1
    <3>2. OnWay(t, z, n, top - k, p[top - k])
      BY <1>1, <1>8, <2>1
    <3>3. OnWay(t, z, n, j + 1, p[j + 1])
      BY <3>1, <3>2
    <3> HIDE DEF j
    <3>4. OnWay(t, z, n, j, ChildOf(t, p[j + 1], n))
      BY <3>1, <3>3, WayDown
    <3>5. p[j] = ChildOf(t, p[j + 1], n)
      BY <1>5, <3>1
    <3> QED
      BY <3>4, <3>5 DEF j
  <2> QED
    BY <2>1
<1>9. \A k \in Nat : k \in S
  <2> HIDE DEF S
  <2> QED
    BY <1>7, <1>8, NatSet
<1>10. ASSUME NEW h \in 0 .. top PROVE OnWay(t, z, n, h, p[h])
  <2>1. top - h \in Nat /\ top - h <= top /\ top - (top - h) = h
    BY <1>1
  <2>2. top - h \in S
    BY <1>9, <2>1
  <2>3. OnWay(t, z, n, top - (top - h), p[top - (top - h)])
    BY <2>1, <2>2
  <2> QED
    BY <2>1, <2>3
<1> QED
  BY <1>5, <1>6, <1>10 DEF top

LEMMA LeafIs ==
  ASSUME NEW t \in TreeSet, NEW z, Zoned(t.nodes, t.root, z), NEW n \in Nat
  PROVE  OnWay(t, z, n, 0, Leaf(t, n))
<1>1. 0 \in 0 .. Height(t)
  BY HeightIs
<1> QED
  BY <1>1, PathIs DEF Leaf

(* What the search of each block returns, from the leaf's result b.        *)
UpStep(p, n, b, f, h) == IF h = 0 THEN b ELSE Settle(f[h - 1], p[h], n)
IsUp(p, n, b, top, f) == f = [h \in 0 .. top |-> UpStep(p, n, b, f, h)]

LEMMA UpExists ==
  ASSUME NEW p, NEW n, NEW b, NEW top \in Nat
  PROVE  \E f : IsUp(p, n, b, top, f)
<1> DEFINE S == {k \in Nat : \E f : IsUp(p, n, b, k, f)}
<1>1. 0 \in S
  <2> DEFINE f == [h \in 0 .. 0 |-> b]
  <2>1. \A h \in 0 .. 0 : h = 0 /\ f[h] = b
    OBVIOUS
  <2>2. f = [h \in 0 .. 0 |-> f[h]]
    OBVIOUS
  <2> HIDE DEF f
  <2>3. \A h \in 0 .. 0 : f[h] = UpStep(p, n, b, f, h)
    BY <2>1 DEF UpStep
  <2>4. IsUp(p, n, b, 0, f)
    BY <2>2, <2>3 DEF IsUp
  <2> QED
    BY <2>4
<1>2. ASSUME NEW k \in Nat, k \in S PROVE k + 1 \in S
  <2>1. PICK f : IsUp(p, n, b, k, f)
    BY <1>2
  <2>2. \A h \in 0 .. k : f[h] = UpStep(p, n, b, f, h)
    BY <2>1 DEF IsUp
  <2> DEFINE w == Settle(f[k], p[k + 1], n)
             g == [h \in 0 .. (k + 1) |-> IF h = k + 1 THEN w ELSE f[h]]
  <2>3. g = [h \in 0 .. (k + 1) |-> g[h]] /\ g[k + 1] = w /\ \A h \in 0 .. k : g[h] = f[h]
    <3> HIDE DEF w
    <3> QED
      OBVIOUS
  <2> HIDE DEF g
  <2>4. ASSUME NEW h \in 0 .. (k + 1) PROVE g[h] = UpStep(p, n, b, g, h)
    <3>1. CASE h = k + 1
      <4>1. h # 0 /\ h - 1 = k /\ k \in 0 .. k
        BY <3>1
      <4>2. UpStep(p, n, b, g, h) = Settle(g[k], p[k + 1], n)
        BY <3>1, <4>1 DEF UpStep
      <4>3. g[k] = f[k]
        BY <2>3, <4>1
      <4> QED
        BY <2>3, <3>1, <4>2, <4>3
    <3>2. CASE h = 0
      <4>1. h \in 0 .. k
        BY <3>2
      <4> QED
        BY <2>2, <2>3, <3>2, <4>1 DEF UpStep
    <3>3. CASE h # k + 1 /\ h # 0
      <4>1. h \in 0 .. k /\ h - 1 \in 0 .. k
        BY <3>3
      <4>2. g[h] = UpStep(p, n, b, f, h) /\ g[h - 1] = f[h - 1]
        BY <2>2, <2>3, <4>1
      <4> QED
        BY <3>3, <4>2 DEF UpStep
    <3> QED
      BY <3>1, <3>2, <3>3
  <2>5. IsUp(p, n, b, k + 1, g)
    BY <2>3, <2>4 DEF IsUp
  <2> QED
    BY <2>5
<1> HIDE DEF S
<1>3. \A k \in Nat : k \in S
  BY <1>1, <1>2, NatSet
<1>4. top \in S
  BY <1>3
<1> QED
  BY <1>4 DEF S

LEMMA SearchUnfold ==
  ASSUME NEW t, NEW n, NEW b, NEW p, p = Path(t, n), DOMAIN p = 0 .. Height(t)
  PROVE  Search(t, n, b) = NewRoot((CHOOSE f : IsUp(p, n, b, Height(t), f))[Height(t)])
<1>1. Search(t, n, b)
        = NewRoot((CHOOSE f : f = [h \in DOMAIN p |-> IF h = 0 THEN b ELSE Settle(f[h - 1], p[h], n)])[Height(t)])
  BY DEF Search, Height
<1> QED
  BY <1>1 DEF IsUp, UpStep

(* A search leaves the keys the callback meant, in a sound tree, whatever  *)
(* blocks it splits, merges, takes and gives back.                         *)
LEMMA SearchLeaves ==
  ASSUME NEW t \in TreeSet, NEW z0, Zoned(t.nodes, t.root, z0), NEW n \in Nat, NEW G,
         NEW b, Stage(t, z0, b, 0, Leaf(t, n), n, G), Search(t, n, b).fault = "none"
  PROVE  Left(Search(t, n, b), G)
<1> DEFINE p == Path(t, n)
           top == Height(t)
           f == CHOOSE f : IsUp(p, n, b, top, f)
<1>1. top \in Nat
  BY HeightIs
<1>2. DOMAIN p = 0 .. top /\ p[top] = t.root /\ \A h \in 0 .. top : OnWay(t, z0, n, h, p[h])
  BY PathIs
<1>3. p[0] = Leaf(t, n)
  BY DEF Leaf
<1>4. IsUp(p, n, b, top, f)
  <2> HIDE DEF p, top
  <2> QED
    BY <1>1, UpExists
<1>5. Search(t, n, b) = NewRoot(f[top])
  BY <1>2, SearchUnfold
<1> HIDE DEF p, f, top
<1>6. \A h \in 0 .. top : f[h] = UpStep(p, n, b, f, h)
  BY <1>4 DEF IsUp
<1> DEFINE S == {k \in Nat : k <= top => Stage(t, z0, f[k], k, p[k], n, G)}
<1>7. 0 \in S
  BY <1>1, <1>3, <1>6 DEF UpStep
<1>8. ASSUME NEW k \in Nat, k \in S PROVE k + 1 \in S
  <2>1. ASSUME k + 1 <= top PROVE Stage(t, z0, f[k + 1], k + 1, p[k + 1], n, G)
    <3>1. k + 1 \in 0 .. top /\ k <= top /\ k + 1 # 0 /\ (k + 1) - 1 = k
      BY <1>1, <2>1
    <3>2. Stage(t, z0, f[k], k, p[k], n, G)
      BY <1>8, <3>1
    <3>3. f[k + 1] = Settle(f[k], p[k + 1], n)
      BY <1>6, <3>1 DEF UpStep
    <3>4. OnWay(t, z0, n, k + 1, p[k + 1])
      BY <1>2, <3>1
    <3>5. p[k + 1] \in TreeBlocks /\ t.nodes[p[k + 1]].height = k + 1 /\ n \in z0[p[k + 1]]
      BY <3>4 DEF OnWay, Blocks
    <3> QED
      BY <3>2, <3>3, <3>5, SettleStage
  <2> QED
    BY <2>1
<1>9. \A k \in Nat : k \in S
  <2> HIDE DEF S
  <2> QED
    BY <1>7, <1>8, NatSet
<1>10. Stage(t, z0, f[top], top, t.root, n, G)
  BY <1>1, <1>2, <1>9
<1> QED
  BY <1>1, <1>5, <1>10, RootDone

-----------------------------------------------------------------------------
(* What the callbacks do to the keys of a leaf with zone Z.                *)

Replaced(K, p, key) == [K EXCEPT ![p] = key]

LEMMA ReplacedIs ==
  ASSUME NEW K \in Seq(KeySet), NEW p \in 1 .. Len(K), NEW key \in KeySet
  PROVE  /\ Replaced(K, p, key) \in Seq(KeySet) /\ Len(Replaced(K, p, key)) = Len(K)
         /\ Replaced(K, p, key)[p] = key
         /\ \A i \in 1 .. Len(K) : i # p => Replaced(K, p, key)[i] = K[i]
  BY DEF Replaced

GrownAt(K, p, key, J) ==
  /\ J \in Seq(KeySet) /\ Len(J) = Len(K) + 1
  /\ \A i \in 1 .. Len(K) : i <= p => J[i] = K[i]
  /\ J[p + 1] = key
  /\ \A i \in 1 .. Len(K) : i > p => J[i + 1] = K[i]

LEMMA GrownKeys ==
  ASSUME NEW K \in Seq(KeySet), NEW key \in KeySet, NEW p \in 0 .. Len(K), p = FindKey(K, key.name)
  PROVE  GrownAt(K, p, key, Grown(K, key))
<1> DEFINE J == InsertAt(K, p + 1, key)
<1>1. Grown(K, key) = J
  BY DEF Grown
<1>2. /\ J \in Seq(KeySet) /\ Len(J) = Len(K) + 1
      /\ \A i \in 1 .. Len(K) + 1 :
           J[i] = IF i <= p THEN K[i] ELSE IF i = p + 1 THEN key ELSE K[i - 1]
  BY KeyInserted
<1> HIDE DEF J
<1>3. ASSUME NEW i \in 1 .. Len(K), i <= p PROVE J[i] = K[i]
  <2>1. i \in 1 .. Len(K) + 1
    OBVIOUS
  <2> QED
    BY <1>2, <1>3, <2>1
<1>4. J[p + 1] = key
  <2>1. p + 1 \in 1 .. Len(K) + 1 /\ ~ p + 1 <= p
    OBVIOUS
  <2> QED
    BY <1>2, <2>1
<1>5. ASSUME NEW i \in 1 .. Len(K), i > p PROVE J[i + 1] = K[i]
  <2>1. i + 1 \in 1 .. Len(K) + 1 /\ ~ i + 1 <= p /\ i + 1 # p + 1 /\ (i + 1) - 1 = i
    BY <1>5
  <2> QED
    BY <1>2, <2>1
<1> QED
  BY <1>1, <1>2, <1>3, <1>4, <1>5 DEF GrownAt

(* A key between two others of a leaf: apart from those before it and from *)
(* those behind it.                                                        *)
Between(K, Z, p, key, q) ==
  /\ Stored(key.name) /\ Low(key.name) \in Z /\ High(key.name) \in Z
  /\ \A i \in 1 .. Len(K) : i <= p => High(K[i].name) < key.name
  /\ \A i \in 1 .. Len(K) : i > q => High(key.name) < K[i].name

LEMMA LeafGrown ==
  ASSUME NEW K \in Seq(KeySet), NEW Z, LeafOK(K, Z), NEW key \in KeySet,
         NEW p \in 0 .. Len(K), Between(K, Z, p, key, p)
  PROVE  FindKey(K, key.name) = p /\ LeafOK(Grown(K, key), Z) /\ ~ Found(K, key.name)
<1> DEFINE J == Grown(K, key)
           n == key.name
<1>1. Stored(n) /\ n \in Nat /\ Low(n) \in Z /\ High(n) \in Z /\ n <= High(n) /\ High(n) \in Nat
  BY StoredIs DEF Between
<1>2. \A i \in 1 .. Len(K) : /\ Stored(K[i].name) /\ Low(K[i].name) \in Z /\ High(K[i].name) \in Z
                            /\ K[i].name \in Nat /\ High(K[i].name) \in Nat /\ K[i].name <= High(K[i].name)
  BY StoredIs DEF LeafOK
<1>3. \A i \in 1 .. Len(K) : (i <= p => High(K[i].name) < n) /\ (i > p => High(n) < K[i].name)
  BY DEF Between
<1> HIDE DEF n
<1>4. ASSUME NEW i \in 1 .. Len(K) PROVE K[i].name <= n <=> i <= p
  BY <1>1, <1>2, <1>3
<1>5. FindKey(K, n) = p
  BY <1>1, <1>4, FindKeyOf
<1>6. /\ J \in Seq(KeySet) /\ Len(J) = Len(K) + 1
      /\ \A i \in 1 .. Len(K) : i <= p => J[i] = K[i]
      /\ J[p + 1] = key
      /\ \A i \in 1 .. Len(K) : i > p => J[i + 1] = K[i]
  <2>1. GrownAt(K, p, key, J)
    BY <1>5, GrownKeys DEF n
  <2> QED
    BY <2>1 DEF GrownAt
<1> HIDE DEF J
<1>7. \A i \in 1 .. Len(J) : (i \in 1 .. Len(K) /\ i <= p) \/ i = p + 1
                             \/ (i - 1 \in 1 .. Len(K) /\ i - 1 > p /\ i = (i - 1) + 1)
  BY <1>6
<1>8. \A i \in 1 .. Len(J) : (i <= p => i \in 1 .. Len(K) /\ J[i] = K[i])
                             /\ (i > p + 1 => i - 1 \in 1 .. Len(K) /\ J[i] = K[i - 1])
  BY <1>6, <1>7
<1>9. ASSUME NEW i \in 1 .. Len(J)
      PROVE  Stored(J[i].name) /\ Low(J[i].name) \in Z /\ High(J[i].name) \in Z
  <2>1. J[i] = key \/ \E j \in 1 .. Len(K) : J[i] = K[j]
    BY <1>6, <1>7
  <2> QED
    BY <1>1, <1>2, <2>1 DEF n
<1>10. ASSUME NEW i \in 1 .. Len(J), NEW j \in 1 .. Len(J), i < j
       PROVE  High(J[i].name) < J[j].name
  <2>1. \A a, b \in 1 .. Len(K) : a < b => High(K[a].name) < K[b].name
    BY DEF LeafOK
  <2>2. CASE j <= p
    BY <1>8, <1>10, <2>1, <2>2
  <2>3. CASE j = p + 1
    <3>1. i \in 1 .. Len(K) /\ i <= p /\ J[i] = K[i] /\ J[j] = key
      BY <1>6, <1>8, <1>10, <2>3
    <3> QED
      BY <1>3, <3>1 DEF n
  <2>4. CASE j > p + 1 /\ i <= p
    <3>1. i \in 1 .. Len(K) /\ j - 1 \in 1 .. Len(K) /\ J[i] = K[i] /\ J[j] = K[j - 1] /\ i < j - 1
      BY <1>8, <1>10, <2>4
    <3> QED
      BY <2>1, <3>1
  <2>5. CASE j > p + 1 /\ i = p + 1
    <3>1. j - 1 \in 1 .. Len(K) /\ J[j] = K[j - 1] /\ j - 1 > p /\ J[i] = key
      BY <1>6, <1>8, <2>5
    <3> QED
      BY <1>3, <3>1 DEF n
  <2>6. CASE j > p + 1 /\ i > p + 1
    <3>1. i - 1 \in 1 .. Len(K) /\ j - 1 \in 1 .. Len(K) /\ J[i] = K[i - 1] /\ J[j] = K[j - 1] /\ i - 1 < j - 1
      BY <1>8, <1>10, <2>6
    <3> QED
      BY <2>1, <3>1
  <2>7. i \in Nat /\ j \in Nat /\ p \in Nat
    BY <1>6
  <2> QED
    BY <2>2, <2>3, <2>4, <2>5, <2>6, <2>7
<1>11. ~ Found(K, n)
  <2>1. p > 0 => p \in 1 .. Len(K)
    OBVIOUS
  <2>2. p > 0 => K[p].name # n
    BY <1>1, <1>2, <1>3, <2>1
  <2> QED
    BY <1>5, <2>2 DEF Found
<1> QED
  BY <1>5, <1>9, <1>10, <1>11 DEF LeafOK, J, n

LEMMA LeafRemoved ==
  ASSUME NEW K \in Seq(KeySet), NEW Z, LeafOK(K, Z), NEW p \in 1 .. Len(K)
  PROVE  LeafOK(RemoveAt(K, p), Z)
<1> DEFINE J == RemoveAt(K, p)
<1>1. /\ J \in Seq(KeySet) /\ Len(J) = Len(K) - 1
      /\ \A i \in 1 .. (Len(K) - 1) : J[i] = IF i < p THEN K[i] ELSE K[i + 1]
  BY RemoveAtIs
<1> HIDE DEF J
<1> DEFINE at(i) == IF i < p THEN i ELSE i + 1
<1>2. \A i \in 1 .. Len(J) : at(i) \in 1 .. Len(K) /\ J[i] = K[at(i)]
  BY <1>1
<1>3. \A i, j \in 1 .. Len(J) : i < j => at(i) < at(j)
  BY <1>1
<1> HIDE DEF at
<1> QED
  BY <1>2, <1>3 DEF LeafOK, J

(* A key taken away and another put in its place.                          *)
LEMMA RemovedGrown ==
  ASSUME NEW K \in Seq(KeySet), NEW Z, LeafOK(K, Z), NEW key \in KeySet,
         NEW p \in 1 .. Len(K), Between(K, Z, p - 1, key, p)
  PROVE  Grown(RemoveAt(K, p), key) = Replaced(K, p, key) /\ LeafOK(RemoveAt(K, p), Z)
<1> DEFINE A == RemoveAt(K, p)
           J == Grown(A, key)
           R == Replaced(K, p, key)
           n == key.name
<1>1. /\ A \in Seq(KeySet) /\ Len(A) = Len(K) - 1
      /\ \A i \in 1 .. (Len(K) - 1) : A[i] = IF i < p THEN K[i] ELSE K[i + 1]
  BY RemoveAtIs
<1>2. LeafOK(A, Z)
  BY LeafRemoved
<1> HIDE DEF A
<1>3. Stored(n) /\ Low(n) \in Z /\ High(n) \in Z
      /\ \A i \in 1 .. Len(K) : (i <= p - 1 => High(K[i].name) < n) /\ (i > p => High(n) < K[i].name)
  BY DEF Between
<1>4. p - 1 \in 0 .. Len(A)
  BY <1>1
<1>5. Between(A, Z, p - 1, key, p - 1)
  <2>1. ASSUME NEW i \in 1 .. Len(A), i <= p - 1 PROVE High(A[i].name) < n
    <3>1. A[i] = K[i] /\ i \in 1 .. Len(K)
      BY <1>1, <2>1
    <3> QED
      BY <1>3, <2>1, <3>1
  <2>2. ASSUME NEW i \in 1 .. Len(A), i > p - 1 PROVE High(n) < A[i].name
    <3>1. A[i] = K[i + 1] /\ i + 1 \in 1 .. Len(K) /\ i + 1 > p
      BY <1>1, <2>2
    <3> QED
      BY <1>3, <3>1
  <2> QED
    BY <1>3, <2>1, <2>2 DEF Between
<1>6. FindKey(A, n) = p - 1
  BY <1>1, <1>2, <1>4, <1>5, LeafGrown
<1> HIDE DEF n
<1> DEFINE q == p - 1
<1>7. q \in 0 .. Len(A) /\ q = FindKey(A, key.name)
  BY <1>4, <1>6 DEF n
<1>8. q + 1 = p
  OBVIOUS
<1> HIDE DEF q
<1>9. /\ J \in Seq(KeySet) /\ Len(J) = Len(A) + 1
      /\ \A i \in 1 .. Len(A) : i <= q => J[i] = A[i]
      /\ J[q + 1] = key
      /\ \A i \in 1 .. Len(A) : i > q => J[i + 1] = A[i]
  <2>1. GrownAt(A, q, key, J)
    BY <1>1, <1>7, GrownKeys
  <2> QED
    BY <2>1 DEF GrownAt
<1>10. /\ R \in Seq(KeySet) /\ Len(R) = Len(K) /\ R[p] = key
       /\ \A i \in 1 .. Len(K) : i # p => R[i] = K[i]
  BY ReplacedIs
<1> HIDE DEF J, R
<1>11. ASSUME NEW i \in 1 .. Len(K) PROVE J[i] = R[i]
  <2>1. CASE i = p
    BY <1>8, <1>9, <1>10, <2>1
  <2>2. CASE i < p
    <3>1. i \in 1 .. Len(A) /\ i <= q /\ i # p /\ i \in 1 .. (Len(K) - 1)
      BY <1>1, <1>8, <2>2, <1>7
    <3>2. A[i] = K[i]
      BY <1>1, <2>2, <3>1
    <3> QED
      BY <1>9, <1>10, <3>1, <3>2
  <2>3. CASE i > p
    <3> DEFINE j == i - 1
    <3>1. j \in 1 .. Len(A) /\ j > q /\ ~ j < p /\ j + 1 = i /\ i # p /\ j \in 1 .. (Len(K) - 1)
      BY <1>1, <1>8, <2>3, <1>7
    <3> HIDE DEF j
    <3>2. J[j + 1] = A[j] /\ A[j] = K[j + 1]
      BY <1>1, <1>9, <3>1
    <3> QED
      BY <1>10, <3>1, <3>2
  <2> QED
    BY <2>1, <2>2, <2>3
<1>12. Len(J) = Len(K)
  BY <1>1, <1>9
<1>13. J = R
  BY <1>9, <1>10, <1>11, <1>12
<1> QED
  BY <1>2, <1>13 DEF A, J, R

-----------------------------------------------------------------------------
(* A search at its leaf l, whose keys the callback makes J.                *)

LeafCase(t, z0, n, l) ==
  /\ t \in TreeSet /\ Fits(t.nodes) /\ Zoned(t.nodes, t.root, z0) /\ n \in Nat
  /\ OnWay(t, z0, n, 0, l)

KeysOf(t, l) == t.nodes[l].keys
WithKeys(t, l, J) == With(t.nodes, l, Node(0, J))

LeafFacts(t, z0, n, l, K) ==
  /\ l \in TreeBlocks /\ l \in Blocks(t.nodes) /\ t.nodes[l] = Node(0, K) /\ t.nodes[l].height = 0
  /\ t.nodes[l].keys = K /\ K \in Seq(KeySet) /\ LeafOK(K, z0[l]) /\ Sorted(K)
  /\ FreeSpace(Node(0, K)) >= 0 /\ FreeSpace(t.nodes[l]) >= 0
  /\ n \in z0[l] /\ Convex(z0[l]) /\ z0[l] \in SUBSET Nat
  /\ \A i \in 1 .. Len(K) : K[i].name # 0

LEMMA LeafCaseIs ==
  ASSUME NEW t, NEW z0, NEW n, NEW l, LeafCase(t, z0, n, l)
  PROVE  LeafFacts(t, z0, n, l, KeysOf(t, l))
<1> DEFINE K == KeysOf(t, l)
<1>1. Zoned(t.nodes, t.root, z0) /\ l \in Blocks(t.nodes) /\ t.nodes[l].height = 0 /\ n \in z0[l]
      /\ Fits(t.nodes)
  BY DEF LeafCase, OnWay
<1>2. /\ l \in TreeBlocks /\ t.nodes[l] = Node(0, K) /\ K \in Seq(KeySet)
      /\ Convex(z0[l]) /\ z0[l] \in SUBSET Nat /\ Sorted(K)
  BY <1>1, ZonedTypes, ZonedSorted DEF KeysOf
<1>3. LeafOK(K, z0[l])
  BY <1>1 DEF Zoned, BlockOK, KeysOf
<1>4. FreeSpace(t.nodes[l]) >= 0
  BY <1>1 DEF Fits
<1>5. \A i \in 1 .. Len(K) : K[i].name # 0
  BY <1>3, StoredIs DEF LeafOK
<1> QED
  BY <1>1, <1>2, <1>3, <1>4, <1>5 DEF LeafFacts, KeysOf

LeafDone(t, l, J, b) ==
  \/ /\ b.effect \in {NoEffect, Shrink} /\ b.tree = Changed(t, WithKeys(t, l, J))
     /\ FreeSpace(Node(0, J)) >= 0
  \/ \E K1 \in Seq(KeySet) : \E q : SplitAt(Changed(t, WithKeys(t, l, K1)), 0, J, q, b)

LEMMA LeafStage ==
  ASSUME NEW t, NEW z0, NEW n, NEW l, LeafCase(t, z0, n, l),
         NEW J \in Seq(KeySet), LeafOK(J, z0[l]),
         NEW b, Result(b), b.tree.fault = "none" => LeafDone(t, l, J, b)
  PROVE  Stage(t, z0, b, 0, l, n, WithKeys(t, l, J))
<1> DEFINE G == WithKeys(t, l, J)
           K == KeysOf(t, l)
           N == t.nodes
           root == t.root
<1>1. LeafFacts(t, z0, n, l, K)
  BY LeafCaseIs
<1>2. /\ l \in TreeBlocks /\ l \in Blocks(N) /\ N[l].height = 0 /\ n \in z0[l]
      /\ t \in TreeSet /\ N \in NodeMap /\ Zoned(N, root, z0) /\ Fits(N)
  BY <1>1, TreeFields DEF LeafFacts, LeafCase
<1>3. Node(0, J) \in BlockSet /\ Node(0, J).height = 0 /\ Node(0, J).keys = J
  BY NodeIn, NodeFields
<1>4. G \in NodeMap /\ G[l] = Node(0, J) /\ \A x \in TreeBlocks : x # l => G[x] = N[x]
  BY <1>2, <1>3, WithIs DEF WithKeys
<1>5. Zoned(G, root, z0) /\ Blocks(G) = Blocks(N)
  BY <1>2, ZonedLeaf DEF WithKeys
<1> HIDE DEF G, K
<1>6. Reached(t, z0, G, z0, 0, l, n, G)
  <2>1. l \in Blocks(G) /\ G[l].height = 0
    BY <1>2, <1>3, <1>4, <1>5
  <2>2. \A x \in TreeBlocks : t.nodes[x].height > 0 => G[x] = t.nodes[x]
    BY <1>2, <1>4
  <2>3. G[t.root].height = t.nodes[t.root].height
    <3>1. t.root \in TreeBlocks
      BY <1>2, TreeFields
    <3> QED
      BY <1>2, <1>3, <1>4, <3>1
  <2> QED
    BY <1>2, <1>5, <2>1, <2>2, <2>3 DEF Reached, Same
<1>7. ASSUME NEW x \in Blocks(N) PROVE FreeSpace(N[x]) >= 0
  BY <1>2 DEF Fits
<1>8. ASSUME b.tree.fault = "none"
      PROVE  /\ b.tree \in TreeSet /\ b.tree = Changed(t, b.tree.nodes)
             /\ Settled(t, z0, b, 0, l, n, G) \/ Pending(t, z0, b, 0, l, n, G)
  <2>1. LeafDone(t, l, J, b)
    BY <1>8
  <2>2. CASE /\ b.effect \in {NoEffect, Shrink} /\ b.tree = Changed(t, WithKeys(t, l, J))
             /\ FreeSpace(Node(0, J)) >= 0
    <3>1. b.tree = Changed(t, G) /\ b.tree.nodes = G /\ b.tree \in TreeSet
      BY <1>2, <1>4, <2>2, ChangedIs DEF G
    <3>2. ASSUME NEW x \in Blocks(G) PROVE FreeSpace(G[x]) >= 0
      <4>1. x \in TreeBlocks /\ x \in Blocks(N)
        BY <1>5 DEF Blocks
      <4>2. CASE x = l
        BY <1>4, <2>2, <4>2
      <4>3. CASE x # l
        BY <1>4, <1>7, <4>1, <4>3
      <4> QED
        BY <4>2, <4>3
    <3>3. Settled(t, z0, b, 0, l, n, G)
      BY <1>6, <2>2, <3>1, <3>2 DEF Settled, Fits
    <3> QED
      BY <3>1, <3>3
  <2>3. ASSUME NEW K1 \in Seq(KeySet), NEW q, SplitAt(Changed(t, WithKeys(t, l, K1)), 0, J, q, b)
        PROVE  /\ b.tree \in TreeSet /\ b.tree = Changed(t, b.tree.nodes)
               /\ Pending(t, z0, b, 0, l, n, G)
    <3> DEFINE A == WithKeys(t, l, K1)
               u == Changed(t, A)
               B == b.tree.nodes
               d0 == b.effect.new0
               d1 == b.effect.new1
    <3>1. Node(0, K1) \in BlockSet /\ Node(0, K1).height = 0
      BY NodeIn, NodeFields
    <3>2. A \in NodeMap /\ A[l] = Node(0, K1) /\ \A x \in TreeBlocks : x # l => A[x] = N[x]
      BY <1>2, <3>1, WithIs DEF WithKeys
    <3> HIDE DEF A
    <3>3. u.nodes = A
      BY <1>2, <3>2, ChangedIs
    <3>4. /\ b.effect.type = "E_SPLIT" /\ b.effect.name = J[q + 1].name
          /\ q \in 1 .. Len(J) /\ q < Len(J) /\ b.tree = Changed(u, B)
          /\ SplitInto(A, B, 0, J, q, d0, d1)
          /\ FreeSpace(Node(0, SubSeq(J, 1, q))) >= 0 /\ FreeSpace(Node(0, Second(0, J, q))) >= 0
      BY <2>3, <3>3 DEF SplitAt, A
    <3>5. b.tree = Changed(t, B)
      BY <1>2, <3>2, <3>4, ChangedIs
    <3> HIDE DEF u, d0, d1
    <3>6. B \in NodeMap /\ d0 \in TreeBlocks /\ d1 \in TreeBlocks /\ d0 # d1
          /\ A[d0] = FreeBlock /\ A[d1] = FreeBlock
          /\ B[d0] = Node(0, SubSeq(J, 1, q)) /\ B[d1] = Node(0, Second(0, J, q))
          /\ \A x \in TreeBlocks : x # d0 /\ x # d1 => B[x] = A[x]
      BY <3>4 DEF SplitInto, Blocks
    <3>7. b.tree \in TreeSet
      BY <1>2, <3>5, <3>6, ChangedIs
    <3>8. A[l] # FreeBlock /\ A[l].height = 0
      BY <3>1, <3>2 DEF FreeBlock
    <3>9. d0 # l /\ d1 # l
      BY <3>6, <3>8
    <3>10. G[d0] = FreeBlock /\ G[d1] = FreeBlock
      BY <1>4, <3>2, <3>6, <3>9
    <3>11. Halved(G, B, l, q, d0, d1)
      <4>1. d0 \notin Blocks(G) /\ d1 \notin Blocks(G)
        BY <3>10 DEF Blocks
      <4>2. G[l].height = 0 /\ G[l].keys = J
        BY <1>3, <1>4
      <4>3. B[l] # FreeBlock /\ B[l].height = 0
        BY <1>2, <3>6, <3>8, <3>9
      <4>4. \A x \in TreeBlocks : x \notin {d0, d1, l} => B[x] = G[x]
        BY <1>4, <3>2, <3>6
      <4> QED
        BY <3>6, <4>1, <4>2, <4>3, <4>4 DEF Halved
    <3>12. ASSUME NEW x \in Blocks(B) \ {l} PROVE FreeSpace(B[x]) >= 0
      <4>1. x \in TreeBlocks /\ B[x] # FreeBlock
        BY DEF Blocks
      <4>2. CASE x = d0 \/ x = d1
        BY <3>4, <3>6, <4>2
      <4>3. CASE x # d0 /\ x # d1
        <5>1. B[x] = N[x] /\ x \in Blocks(N)
          BY <3>2, <3>6, <4>1, <4>3 DEF Blocks
        <5> QED
          BY <1>7, <5>1
      <4> QED
        BY <4>2, <4>3
    <3>13. HalvedAt(t, z0, b, 0, l, n, G, G, z0, q)
      <4>1. G[l].keys = J
        BY <1>3, <1>4
      <4> QED
        BY <1>6, <3>4, <3>11, <3>12, <4>1 DEF HalvedAt, d0, d1
    <3> QED
      BY <3>5, <3>7, <3>13 DEF Pending
  <2> QED
    BY <2>1, <2>2, <2>3 DEF LeafDone
<1> QED
  BY <1>8 DEF Stage, G

(* The keys of the tree after keys of one leaf became J.                   *)
Among(K, k) == \E i \in 1 .. Len(K) : K[i] = k
Elsewhere(N, l, k) == \E m \in Blocks(N) : m # l /\ N[m].height = 0 /\ Among(N[m].keys, k)

LEMMA LeafHas ==
  ASSUME NEW t, NEW z0, NEW n, NEW l, LeafCase(t, z0, n, l), NEW J \in Seq(KeySet), NEW k
  PROVE  /\ Has(WithKeys(t, l, J), k) <=> Among(J, k) \/ Elsewhere(t.nodes, l, k)
         /\ Has(t.nodes, k) <=> Among(KeysOf(t, l), k) \/ Elsewhere(t.nodes, l, k)
<1> DEFINE G == WithKeys(t, l, J)
           N == t.nodes
           K == KeysOf(t, l)
<1>1. LeafFacts(t, z0, n, l, K)
  BY LeafCaseIs
<1>2. /\ l \in TreeBlocks /\ l \in Blocks(N) /\ N[l].height = 0 /\ N \in NodeMap /\ N[l].keys = K
  BY <1>1, TreeFields DEF LeafFacts, LeafCase
<1>3. Node(0, J) \in BlockSet /\ Node(0, J).height = 0 /\ Node(0, J).keys = J
  BY NodeIn, NodeFields
<1>4. G[l] = Node(0, J) /\ \A x \in TreeBlocks : x # l => G[x] = N[x]
  BY <1>2, <1>3, WithIs DEF WithKeys
<1> HIDE DEF G, K
<1>5. l \in Blocks(G) /\ \A x \in TreeBlocks : x # l => (x \in Blocks(G) <=> x \in Blocks(N))
  BY <1>2, <1>3, <1>4 DEF Blocks, FreeBlock
<1>6. \A x \in Blocks(N) : x \in TreeBlocks
  BY DEF Blocks
<1>7. \A x \in Blocks(G) : x \in TreeBlocks
  BY DEF Blocks
<1> HIDE DEF N
<1>8. Has(G, k) <=> Among(J, k) \/ Elsewhere(N, l, k)
  BY <1>3, <1>4, <1>5, <1>6, <1>7 DEF Has, Among, Elsewhere
<1>9. Has(N, k) <=> Among(K, k) \/ Elsewhere(N, l, k)
  BY <1>2 DEF Has, Among, Elsewhere
<1> QED
  BY <1>8, <1>9 DEF G, N, K

(* No two leaves hold keys of one name.                                    *)
LEMMA OneKey ==
  ASSUME NEW N, NEW root, NEW z, Zoned(N, root, z), NEW j, NEW k, Has(N, j), Has(N, k), j.name = k.name
  PROVE  j = k
<1>1. PICK l \in Blocks(N) : N[l].height = 0 /\ \E i \in 1 .. Len(N[l].keys) : N[l].keys[i] = j
  BY DEF Has
<1>2. PICK m \in Blocks(N) : N[m].height = 0 /\ \E i \in 1 .. Len(N[m].keys) : N[m].keys[i] = k
  BY DEF Has
<1>3. PICK a \in 1 .. Len(N[l].keys) : N[l].keys[a] = j
  BY <1>1
<1>4. PICK c \in 1 .. Len(N[m].keys) : N[m].keys[c] = k
  BY <1>2
<1>5. LeafOK(N[l].keys, z[l]) /\ LeafOK(N[m].keys, z[m])
  BY <1>1, <1>2 DEF Zoned, BlockOK
<1>6. Low(j.name) \in z[l] /\ Low(k.name) \in z[m]
  BY <1>3, <1>4, <1>5 DEF LeafOK
<1>7. l = m
  <2>1. Apart(N, z, l, m)
    BY DEF Zoned
  <2> QED
    BY <1>1, <1>2, <1>6, <2>1 DEF Apart
<1>8. Sorted(N[l].keys) /\ N[l].keys \in Seq(KeySet)
  BY ZonedSorted, ZonedTypes
<1>9. a = c
  <2>1. a \in 1 .. Len(N[l].keys) /\ c \in 1 .. Len(N[l].keys)
    BY <1>4, <1>7
  <2>2. N[l].keys[a].name \in Nat /\ N[l].keys[c].name \in Nat
    BY <1>8, <2>1, KeyNames
  <2>3. N[l].keys[a].name = N[l].keys[c].name
    BY <1>3, <1>4, <1>7
  <2>4. ~ a < c
    BY <1>8, <2>1, <2>2, <2>3 DEF Sorted
  <2>5. ~ c < a
    BY <1>8, <2>1, <2>2, <2>3 DEF Sorted
  <2> QED
    BY <2>1, <2>4, <2>5
<1> QED
  BY <1>3, <1>4, <1>7, <1>9

(* What the callbacks do to their leaf: an insertion, also after a removal. *)
LEMMA WithTwice ==
  ASSUME NEW N \in NodeMap, NEW l \in TreeBlocks, NEW a \in BlockSet, NEW b \in BlockSet
  PROVE  With(With(N, l, a), l, b) = With(N, l, b)
BY DEF With, NodeMap

LEMMA LeafKept ==
  ASSUME NEW t, NEW z0, NEW n, NEW l, LeafCase(t, z0, n, l)
  PROVE  Changed(t, WithKeys(t, l, KeysOf(t, l))) = t
<1> DEFINE K == KeysOf(t, l)
           N == t.nodes
<1>1. l \in TreeBlocks /\ N[l] = Node(0, K)
  BY LeafCaseIs DEF LeafFacts
<1>2. N \in NodeMap /\ t \in TreeSet
  BY TreeFields DEF LeafCase
<1>3. With(N, l, Node(0, K)) = N
  <2> HIDE DEF K
  <2> QED
    BY <1>1, <1>2 DEF With, NodeMap
<1>4. Changed(t, t.nodes) = t
  BY <1>2 DEF Changed, TreeSet
<1> QED
  BY <1>3, <1>4 DEF WithKeys

LEMMA LeafMade ==
  ASSUME NEW t, NEW z0, NEW n, NEW l, LeafCase(t, z0, n, l),
         NEW K1 \in Seq(KeySet), LeafOK(K1, z0[l]), NEW u, u = Changed(t, WithKeys(t, l, K1))
  PROVE  /\ u \in TreeSet /\ l \in TreeBlocks /\ u.nodes = WithKeys(t, l, K1)
         /\ u.nodes[l] = Node(0, K1) /\ u.nodes[l].height = 0 /\ u.nodes[l].keys = K1
         /\ Sorted(K1) /\ Divisible(0, K1)
<1>1. t \in TreeSet /\ t.nodes \in NodeMap /\ l \in TreeBlocks
  BY LeafCaseIs, TreeFields DEF LeafCase, LeafFacts
<1>2. Node(0, K1) \in BlockSet /\ Node(0, K1).height = 0 /\ Node(0, K1).keys = K1
  BY NodeIn, NodeFields
<1>3. WithKeys(t, l, K1) \in NodeMap /\ WithKeys(t, l, K1)[l] = Node(0, K1)
  BY <1>1, <1>2, WithIs DEF WithKeys
<1>4. u \in TreeSet /\ u.nodes = WithKeys(t, l, K1)
  BY <1>1, <1>3, ChangedIs
<1>5. Sorted(K1)
  BY LeafSorted
<1>6. \A i \in 1 .. Len(K1) : K1[i].name # 0
  BY StoredIs DEF LeafOK
<1> QED
  BY <1>1, <1>2, <1>3, <1>4, <1>5, <1>6 DEF Divisible

LEMMA InsertStage ==
  ASSUME NEW t, NEW z0, NEW n, NEW l, LeafCase(t, z0, n, l),
         NEW K1 \in Seq(KeySet), LeafOK(K1, z0[l]), FreeSpace(Node(0, K1)) >= 0,
         NEW u, u = Changed(t, WithKeys(t, l, K1)),
         NEW key \in KeySet, NEW p \in 0 .. Len(K1), Between(K1, z0[l], p, key, p),
         NEW b, b = InsertKey(u, l, key)
  PROVE  /\ Grown(K1, key) \in Seq(KeySet) /\ LeafOK(Grown(K1, key), z0[l])
         /\ Stage(t, z0, b, 0, l, n, WithKeys(t, l, Grown(K1, key)))
<1> DEFINE J == Grown(K1, key)
<1>1. /\ u \in TreeSet /\ l \in TreeBlocks /\ u.nodes = WithKeys(t, l, K1)
      /\ u.nodes[l] = Node(0, K1) /\ u.nodes[l].height = 0 /\ u.nodes[l].keys = K1
      /\ Sorted(K1) /\ Divisible(0, K1)
  BY LeafMade
<1>2. t \in TreeSet /\ t.nodes \in NodeMap
  BY TreeFields DEF LeafCase
<1>3. FindKey(K1, key.name) = p /\ LeafOK(J, z0[l])
  BY LeafGrown
<1>4. J \in Seq(KeySet)
  BY <1>3, KeyInserted DEF Grown
<1>5. Result(b)
  BY <1>1, InsertKeyTree
<1>6. ASSUME b.tree.fault = "none" PROVE LeafDone(t, l, J, b)
  <2>1. InsertedIn(u, l, key, b) \/ \E q : SplitAt(u, 0, J, q, b)
    <3>1. u.nodes[l].height \in Nat /\ FreeSpace(u.nodes[l]) >= 0
          /\ Sorted(u.nodes[l].keys) /\ Divisible(u.nodes[l].height, u.nodes[l].keys)
      BY <1>1
    <3>2. InsertedIn(u, l, key, b)
          \/ \E q : SplitAt(u, u.nodes[l].height, Grown(u.nodes[l].keys, key), q, b)
      BY <1>1, <1>6, <3>1, InsertKeyIs
    <3> QED
      BY <1>1, <3>2
  <2>2. CASE InsertedIn(u, l, key, b)
    <3>1. /\ b.effect = NoEffect /\ b.tree = Changed(u, With(u.nodes, l, Node(0, J)))
          /\ FreeSpace(Node(0, J)) >= 0
      BY <1>1, <2>2 DEF InsertedIn
    <3>2. Node(0, J) \in BlockSet /\ Node(0, K1) \in BlockSet
      BY <1>4, NodeIn
    <3>3. With(u.nodes, l, Node(0, J)) = WithKeys(t, l, J)
      <4> HIDE DEF J
      <4> QED
        BY <1>1, <1>2, <3>2, WithTwice DEF WithKeys
    <3>4. b.tree = Changed(t, WithKeys(t, l, J))
      <4>1. WithKeys(t, l, K1) \in NodeMap
        BY <1>1, <1>2, <3>2, WithIs DEF WithKeys
      <4> QED
        BY <1>2, <3>1, <3>3, <4>1, ChangedIs
    <3> QED
      BY <3>1, <3>4 DEF LeafDone
  <2>3. CASE \E q : SplitAt(u, 0, J, q, b)
    <3>1. PICK q : SplitAt(u, 0, J, q, b)
      BY <2>3
    <3> HIDE DEF J
    <3> QED
      BY <3>1 DEF LeafDone
  <2> QED
    BY <2>1, <2>2, <2>3
<1> HIDE DEF J
<1>7. Stage(t, z0, b, 0, l, n, WithKeys(t, l, J))
  BY <1>3, <1>4, <1>5, <1>6, LeafStage
<1> QED
  BY <1>3, <1>4, <1>7 DEF J

(* insert_key of a key that has its place.                                 *)
LEMMA InsertLeaf ==
  ASSUME NEW t, NEW z0, NEW n, NEW l, LeafCase(t, z0, n, l), NEW K, K = KeysOf(t, l),
         NEW key \in KeySet, NEW p \in 0 .. Len(K), Between(K, z0[l], p, key, p)
  PROVE  /\ Grown(K, key) \in Seq(KeySet) /\ LeafOK(Grown(K, key), z0[l])
         /\ Stage(t, z0, InsertKey(t, l, key), 0, l, n, WithKeys(t, l, Grown(K, key)))
<1>1. K \in Seq(KeySet) /\ LeafOK(K, z0[l]) /\ FreeSpace(Node(0, K)) >= 0
  BY LeafCaseIs DEF LeafFacts
<1>2. t = Changed(t, WithKeys(t, l, K))
  BY LeafKept
<1> QED
  BY <1>1, <1>2, InsertStage

(* delete_key of the key at p.                                             *)
LEMMA DeletedIs ==
  ASSUME NEW t, NEW z0, NEW n, NEW l, LeafCase(t, z0, n, l), NEW K, K = KeysOf(t, l),
         NEW p \in 1 .. Len(K)
  PROVE  /\ Found(K, K[p].name) /\ FindKey(K, K[p].name) = p
         /\ DeleteKey(t, l, K[p].name).effect = Shrink
         /\ DeleteKey(t, l, K[p].name).tree = Changed(t, WithKeys(t, l, RemoveAt(K, p)))
         /\ RemoveAt(K, p) \in Seq(KeySet) /\ LeafOK(RemoveAt(K, p), z0[l])
         /\ FreeSpace(Node(0, RemoveAt(K, p))) >= 0
<1>1. LeafFacts(t, z0, n, l, K) /\ t \in TreeSet
  BY LeafCaseIs DEF LeafCase
<1>2. /\ l \in TreeBlocks /\ t.nodes[l].height = 0 /\ t.nodes[l].keys = K /\ K \in Seq(KeySet)
      /\ Sorted(K) /\ LeafOK(K, z0[l]) /\ FreeSpace(Node(0, K)) >= 0
  BY <1>1 DEF LeafFacts
<1>3. K[p].name \in Nat /\ K[p].name \in AllNames
  BY <1>2, KeyNames
<1>4. Found(K, K[p].name) /\ FindKey(K, K[p].name) = p
  BY <1>2, <1>3, FoundIs
<1>5. /\ DeleteKey(t, l, K[p].name).effect = Shrink
      /\ DeleteKey(t, l, K[p].name).tree = Changed(t, WithKeys(t, l, RemoveAt(K, p)))
      /\ RemoveAt(K, p) \in Seq(KeySet)
  BY <1>1, <1>2, <1>3, <1>4, DeleteKeyIs DEF WithKeys
<1>6. LeafOK(RemoveAt(K, p), z0[l])
  BY <1>2, LeafRemoved
<1>7. FreeSpace(Node(0, RemoveAt(K, p))) >= 0
  <2>1. FreeSpace(Node(0, RemoveAt(K, p))) = FreeSpace(Node(0, K)) + RequiredSpace(K[p].name, 0)
    BY <1>2, FreeRemove
  <2>2. RequiredSpace(K[p].name, 0) \in Nat /\ FreeSpace(Node(0, K)) \in Int
    BY <1>2, <1>3, RequiredIs, FreeAtMost
  <2> QED
    BY <1>2, <2>1, <2>2
<1> QED
  BY <1>4, <1>5, <1>6, <1>7

LEMMA DeleteLeaf ==
  ASSUME NEW t, NEW z0, NEW n, NEW l, LeafCase(t, z0, n, l), NEW K, K = KeysOf(t, l),
         NEW p \in 1 .. Len(K), NEW b, b = DeleteKey(t, l, K[p].name)
  PROVE  /\ RemoveAt(K, p) \in Seq(KeySet) /\ LeafOK(RemoveAt(K, p), z0[l])
         /\ Stage(t, z0, b, 0, l, n, WithKeys(t, l, RemoveAt(K, p)))
<1> DEFINE J == RemoveAt(K, p)
<1>1. /\ b.effect = Shrink /\ b.tree = Changed(t, WithKeys(t, l, J)) /\ J \in Seq(KeySet)
      /\ LeafOK(J, z0[l]) /\ FreeSpace(Node(0, J)) >= 0
  BY DeletedIs
<1>2. LeafDone(t, l, J, b)
  BY <1>1 DEF LeafDone
<1>3. Result(b)
  <2>1. Found(t.nodes[l].keys, K[p].name)
    BY DeletedIs DEF KeysOf
  <2> QED
    BY <2>1 DEF DeleteKey, Result
<1> HIDE DEF J
<1>4. Stage(t, z0, b, 0, l, n, WithKeys(t, l, J))
  BY <1>1, <1>2, <1>3, LeafStage
<1> QED
  BY <1>1, <1>4 DEF J

(* replace_key of the key at p by one that fits in its place.              *)
LEMMA ReplaceLeaf ==
  ASSUME NEW t, NEW z0, NEW n, NEW l, LeafCase(t, z0, n, l), NEW K, K = KeysOf(t, l),
         NEW key \in KeySet, NEW p \in 1 .. Len(K), Between(K, z0[l], p - 1, key, p),
         NEW b, b = ReplaceKey(t, l, K[p].name, key)
  PROVE  /\ Replaced(K, p, key) \in Seq(KeySet) /\ LeafOK(Replaced(K, p, key), z0[l])
         /\ Stage(t, z0, b, 0, l, n, WithKeys(t, l, Replaced(K, p, key)))
<1> DEFINE J == RemoveAt(K, p)
           u == Changed(t, WithKeys(t, l, J))
<1>1. LeafFacts(t, z0, n, l, K)
  BY LeafCaseIs
<1>2. K \in Seq(KeySet) /\ LeafOK(K, z0[l])
  BY <1>1 DEF LeafFacts
<1>3. /\ DeleteKey(t, l, K[p].name).tree = u /\ J \in Seq(KeySet) /\ LeafOK(J, z0[l])
      /\ FreeSpace(Node(0, J)) >= 0
  BY DeletedIs
<1>4. b = InsertKey(u, l, key)
  BY <1>3 DEF ReplaceKey
<1>5. Grown(J, key) = Replaced(K, p, key)
  BY <1>2, RemovedGrown
<1>6. p - 1 \in 0 .. Len(J) /\ Between(J, z0[l], p - 1, key, p - 1)
  <2>1. Len(J) = Len(K) - 1 /\ \A i \in 1 .. (Len(K) - 1) : J[i] = IF i < p THEN K[i] ELSE K[i + 1]
    BY <1>2, RemoveAtIs
  <2>2. Len(K) \in Nat /\ p \in Nat
    BY <1>2
  <2>3. /\ \A i \in 1 .. Len(K) : i <= p - 1 => High(K[i].name) < key.name
        /\ \A i \in 1 .. Len(K) : i > p => High(key.name) < K[i].name
    BY DEF Between
  <2> HIDE DEF J
  <2>4. ASSUME NEW i \in 1 .. Len(J), i <= p - 1 PROVE High(J[i].name) < key.name
    <3>1. i \in 1 .. Len(K) /\ i \in 1 .. (Len(K) - 1) /\ i < p
      BY <2>1, <2>2, <2>4
    <3>2. J[i] = K[i]
      BY <2>1, <3>1
    <3> QED
      BY <2>3, <2>4, <3>1, <3>2
  <2>5. ASSUME NEW i \in 1 .. Len(J), i > p - 1 PROVE High(key.name) < J[i].name
    <3>1. i + 1 \in 1 .. Len(K) /\ i \in 1 .. (Len(K) - 1) /\ ~ (i < p) /\ i + 1 > p
      BY <2>1, <2>2, <2>5
    <3>2. J[i] = K[i + 1]
      BY <2>1, <3>1
    <3> QED
      BY <2>3, <3>1, <3>2
  <2>6. p - 1 \in 0 .. Len(J)
    BY <2>1, <2>2
  <2> QED
    BY <2>4, <2>5, <2>6 DEF Between
<1> HIDE DEF J, u
<1>7. /\ Grown(J, key) \in Seq(KeySet) /\ LeafOK(Grown(J, key), z0[l])
      /\ Stage(t, z0, b, 0, l, n, WithKeys(t, l, Grown(J, key)))
  <2> DEFINE P == p - 1
  <2>1. P \in 0 .. Len(J) /\ Between(J, z0[l], P, key, P)
    BY <1>6
  <2> HIDE DEF P
  <2> QED
    BY <1>3, <1>4, <2>1, InsertStage DEF u
<1> QED
  BY <1>5, <1>7

(* update_key of the key at p.                                             *)
LEMMA UpdateLeaf ==
  ASSUME NEW t, NEW z0, NEW n, NEW l, LeafCase(t, z0, n, l), NEW K, K = KeysOf(t, l),
         NEW p \in 1 .. Len(K), NEW d \in DataSet,
         NEW b, b = [tree |-> UpdateKey(t, l, K[p].name, d), effect |-> NoEffect]
  PROVE  /\ Put(K, p, d) \in Seq(KeySet) /\ LeafOK(Put(K, p, d), z0[l])
         /\ Stage(t, z0, b, 0, l, n, WithKeys(t, l, Put(K, p, d)))
<1> DEFINE J == Put(K, p, d)
<1>1. LeafFacts(t, z0, n, l, K) /\ t \in TreeSet
  BY LeafCaseIs DEF LeafCase
<1>2. /\ l \in TreeBlocks /\ t.nodes[l].height = 0 /\ t.nodes[l].keys = K /\ K \in Seq(KeySet)
      /\ Sorted(K) /\ LeafOK(K, z0[l]) /\ FreeSpace(Node(0, K)) >= 0
  BY <1>1 DEF LeafFacts
<1>3. J \in Seq(KeySet) /\ Len(J) = Len(K) /\ \A i \in 1 .. Len(K) : J[i].name = K[i].name
  <2>1. K \in Seq(KeySet) /\ p \in 1 .. Len(K) /\ d \in DataSet
    BY <1>2
  <2> QED
    BY ONLY <2>1, PutIs
<1>4. UpdateKey(t, l, K[p].name, d) = Changed(t, WithKeys(t, l, J))
  BY <1>1, <1>2, UpdateKeyIs DEF WithKeys
<1> HIDE DEF J
<1>5. LeafOK(J, z0[l])
  BY <1>2, <1>3 DEF LeafOK
<1>6. FreeSpace(Node(0, J)) >= 0
  BY <1>2, <1>3, FreeSameNames
<1>7. LeafDone(t, l, J, b) /\ Result(b)
  BY <1>4, <1>6 DEF LeafDone, Result
<1>8. Stage(t, z0, b, 0, l, n, WithKeys(t, l, J))
  BY <1>3, <1>5, <1>7, LeafStage
<1> QED
  BY <1>3, <1>5, <1>8 DEF J

-----------------------------------------------------------------------------
(* The keys of the tree before and after: those in D gone, those in A new. *)

Exchanged(N, M, D, A) == \A k : Has(M, k) <=> (Has(N, k) /\ k \notin D) \/ k \in A

LEMMA ExchangedSame ==
  ASSUME NEW N, NEW G, NEW M, NEW D, NEW A, Exchanged(N, G, D, A), Same(G, M)
  PROVE  Exchanged(N, M, D, A)
BY DEF Exchanged, Same

(* Other leaves do not hold the key at p.                                  *)
LEMMA KeptOut ==
  ASSUME NEW t, NEW z0, NEW n, NEW l, LeafCase(t, z0, n, l), NEW K, K = KeysOf(t, l),
         NEW p \in 1 .. Len(K)
  PROVE  /\ \A i \in 1 .. Len(K) : K[i] = K[p] => i = p
         /\ \A m \in Blocks(t.nodes) :
              m # l /\ t.nodes[m].height = 0 =>
                \A i \in 1 .. Len(t.nodes[m].keys) : t.nodes[m].keys[i] # K[p]
<1> DEFINE N == t.nodes
<1>1. LeafFacts(t, z0, n, l, K) /\ Zoned(N, t.root, z0)
  BY LeafCaseIs DEF LeafCase
<1>2. /\ l \in Blocks(N) /\ N[l].height = 0 /\ N[l].keys = K /\ K \in Seq(KeySet)
      /\ Sorted(K) /\ LeafOK(K, z0[l])
  BY <1>1 DEF LeafFacts
<1> HIDE DEF N
<1>3. ASSUME NEW i \in 1 .. Len(K), K[i] = K[p] PROVE i = p
  <2>1. K[i].name \in Nat /\ K[p].name \in Nat /\ K[i].name = K[p].name
    BY <1>2, <1>3, KeyNames
  <2>2. ~ i < p /\ ~ p < i
    BY <1>2, <2>1 DEF Sorted
  <2> QED
    BY <2>2
<1>4. ASSUME NEW m \in Blocks(N), m # l, N[m].height = 0, NEW i \in 1 .. Len(N[m].keys),
             N[m].keys[i] = K[p]
      PROVE  FALSE
  <2>1. LeafOK(N[m].keys, z0[m])
    BY <1>1, <1>4 DEF Zoned, BlockOK
  <2>2. Low(N[m].keys[i].name) \in z0[m] /\ Low(K[p].name) \in z0[l]
    BY <1>2, <2>1 DEF LeafOK
  <2>3. Apart(N, z0, l, m)
    BY <1>1, <1>2 DEF Zoned
  <2> QED
    BY <1>2, <1>4, <2>2, <2>3 DEF Apart
<1> QED
  BY <1>3, <1>4 DEF N

(* The keys of one leaf: those in D gone, those in A new.                  *)
Turned(K, J, D, A) ==
  \A k : (\E i \in 1 .. Len(J) : J[i] = k) <=> ((\E i \in 1 .. Len(K) : K[i] = k) /\ k \notin D) \/ k \in A

LEMMA LeafTurned ==
  ASSUME NEW t, NEW z0, NEW n, NEW l, LeafCase(t, z0, n, l), NEW K, K = KeysOf(t, l),
         NEW J \in Seq(KeySet), NEW D, NEW A, Turned(K, J, D, A),
         \A k \in D : \E p \in 1 .. Len(K) : K[p] = k
  PROVE  Exchanged(t.nodes, WithKeys(t, l, J), D, A)
<1>1. ASSUME NEW k
      PROVE  Has(WithKeys(t, l, J), k) <=> (Has(t.nodes, k) /\ k \notin D) \/ k \in A
  <2>1. /\ Has(WithKeys(t, l, J), k) <=> Among(J, k) \/ Elsewhere(t.nodes, l, k)
        /\ Has(t.nodes, k) <=> Among(K, k) \/ Elsewhere(t.nodes, l, k)
    BY LeafHas
  <2>2. ~ (Elsewhere(t.nodes, l, k) /\ k \in D)
    BY KeptOut DEF Elsewhere, Among
  <2>3. Among(J, k) <=> (Among(K, k) /\ k \notin D) \/ k \in A
    BY DEF Turned, Among
  <2> QED
    BY <2>1, <2>2, <2>3
<1> QED
  BY <1>1 DEF Exchanged

LEMMA GrownTurned ==
  ASSUME NEW K \in Seq(KeySet), NEW key \in KeySet
  PROVE  Turned(K, Grown(K, key), {}, {key})
<1> DEFINE J == Grown(K, key)
           p == FindKey(K, key.name)
<1>1. p \in 0 .. Len(K)
  BY FindKeyRange
<1>2. GrownAt(K, p, key, J)
  BY <1>1, GrownKeys
<1> HIDE DEF J, p
<1>3. /\ Len(J) = Len(K) + 1 /\ J[p + 1] = key
      /\ \A i \in 1 .. Len(K) : i <= p => J[i] = K[i]
      /\ \A i \in 1 .. Len(K) : i > p => J[i + 1] = K[i]
  BY <1>2 DEF GrownAt
<1>4. Len(K) \in Nat /\ p \in Nat
  BY <1>1
<1>5. ASSUME NEW i \in 1 .. Len(K) PROVE \E j \in 1 .. Len(J) : J[j] = K[i]
  <2>1. CASE i <= p
    <3>1. i \in 1 .. Len(J)
      BY <1>3, <1>4
    <3> QED
      BY <1>3, <2>1, <3>1
  <2>2. CASE i > p
    <3>1. i + 1 \in 1 .. Len(J)
      BY <1>3, <1>4
    <3> QED
      BY <1>3, <2>2, <3>1
  <2> QED
    BY <1>4, <2>1, <2>2
<1>6. p + 1 \in 1 .. Len(J)
  BY <1>1, <1>3, <1>4
<1>7. ASSUME NEW j \in 1 .. Len(J) PROVE J[j] = key \/ \E i \in 1 .. Len(K) : K[i] = J[j]
  <2>1. CASE j <= p
    <3>1. j \in 1 .. Len(K)
      BY <1>1, <1>4, <2>1
    <3> QED
      BY <1>3, <2>1, <3>1
  <2>2. CASE j = p + 1
    BY <1>3, <2>2
  <2>3. CASE j > p + 1
    <3>1. j - 1 \in 1 .. Len(K) /\ j - 1 > p /\ (j - 1) + 1 = j
      BY <1>3, <1>4, <2>3
    <3>2. J[(j - 1) + 1] = K[j - 1]
      BY <1>3, <3>1
    <3> QED
      BY <3>1, <3>2
  <2> QED
    BY <1>4, <2>1, <2>2, <2>3
<1>8. Turned(K, J, {}, {key})
  BY <1>3, <1>5, <1>6, <1>7 DEF Turned
<1> QED
  BY <1>8 DEF J

LEMMA ReplacedTurned ==
  ASSUME NEW K \in Seq(KeySet), NEW key \in KeySet, NEW p \in 1 .. Len(K),
         \A i \in 1 .. Len(K) : K[i] = K[p] => i = p
  PROVE  Turned(K, Replaced(K, p, key), {K[p]}, {key})
<1> DEFINE J == Replaced(K, p, key)
<1>1. Len(J) = Len(K) /\ J[p] = key /\ \A i \in 1 .. Len(K) : i # p => J[i] = K[i]
  BY ReplacedIs
<1> HIDE DEF J
<1>2. Turned(K, J, {K[p]}, {key})
  BY <1>1 DEF Turned
<1> QED
  BY <1>2 DEF J

LEMMA RemovedTurned ==
  ASSUME NEW K \in Seq(KeySet), NEW p \in 1 .. Len(K), \A i \in 1 .. Len(K) : K[i] = K[p] => i = p
  PROVE  Turned(K, RemoveAt(K, p), {K[p]}, {})
<1> DEFINE J == RemoveAt(K, p)
<1>1. Len(J) = Len(K) - 1 /\ \A i \in 1 .. (Len(K) - 1) : J[i] = IF i < p THEN K[i] ELSE K[i + 1]
  BY RemoveAtIs
<1>2. Len(K) \in Nat /\ p \in Nat
  OBVIOUS
<1> HIDE DEF J
<1>3. ASSUME NEW i \in 1 .. Len(K), i # p PROVE \E j \in 1 .. Len(J) : J[j] = K[i]
  <2>1. CASE i < p
    <3>1. i \in 1 .. (Len(K) - 1) /\ i \in 1 .. Len(J)
      BY <1>1, <1>2, <2>1
    <3> QED
      BY <1>1, <2>1, <3>1
  <2>2. CASE i > p
    <3>1. i - 1 \in 1 .. (Len(K) - 1) /\ i - 1 \in 1 .. Len(J) /\ ~ (i - 1 < p) /\ (i - 1) + 1 = i
      BY <1>1, <1>2, <2>2
    <3>2. J[i - 1] = K[(i - 1) + 1]
      BY <1>1, <3>1
    <3> QED
      BY <3>1, <3>2
  <2> QED
    BY <1>2, <1>3, <2>1, <2>2
<1>4. ASSUME NEW j \in 1 .. Len(J) PROVE \E i \in 1 .. Len(K) : K[i] = J[j] /\ i # p
  <2>0. j \in 1 .. (Len(K) - 1)
    BY <1>1
  <2>1. CASE j < p
    <3>1. j \in 1 .. Len(K) /\ j # p
      BY <1>2, <2>0, <2>1
    <3> QED
      BY <1>1, <2>0, <2>1, <3>1
  <2>2. CASE ~ (j < p)
    <3>1. j + 1 \in 1 .. Len(K) /\ j + 1 # p
      BY <1>2, <2>0, <2>2
    <3> QED
      BY <1>1, <2>0, <2>2, <3>1
  <2> QED
    BY <2>1, <2>2
<1>5. Turned(K, J, {K[p]}, {})
  BY <1>3, <1>4 DEF Turned
<1> QED
  BY <1>5 DEF J

LEMMA PutReplaces ==
  ASSUME NEW K \in Seq(KeySet), NEW p \in 1 .. Len(K), NEW d
  PROVE  Put(K, p, d) = Replaced(K, p, [name |-> K[p].name, data |-> d])
<1>1. K[p] \in KeySet /\ K = [i \in 1 .. Len(K) |-> K[i]]
  <2>1. K \in [1 .. Len(K) -> KeySet]
    OBVIOUS
  <2> QED
    BY <2>1
<1>2. [K[p] EXCEPT !.data = d] = [name |-> K[p].name, data |-> d]
  BY <1>1 DEF KeySet
<1> QED
  BY <1>1, <1>2 DEF Put, Replaced

-----------------------------------------------------------------------------
(* Whole searches: what the tree is after one, and which keys it has.      *)

Outcome(N, R, D, A) == Sound(R) /\ Exchanged(N, R.nodes, D, A)
(* In place of the key at p there are those in A.                          *)
InPlace(N, R, K, p, A) == Outcome(N, R, {K[p]}, A)

LEMMA SoundCase ==
  ASSUME NEW t, Sound(t), NEW n \in Nat
  PROVE  \E z0 : LeafCase(t, z0, n, Leaf(t, n))
<1>1. t \in TreeSet /\ Fits(t.nodes)
  BY DEF Sound
<1>2. PICK z0 : Zoned(t.nodes, t.root, z0)
  BY DEF Sound
<1>3. OnWay(t, z0, n, 0, Leaf(t, n))
  BY <1>1, <1>2, LeafIs
<1> QED
  BY <1>1, <1>2, <1>3 DEF LeafCase

LEMMA SearchOutcome ==
  ASSUME NEW t, NEW z0, NEW n, NEW l, LeafCase(t, z0, n, l), l = Leaf(t, n), NEW K, K = KeysOf(t, l),
         NEW J \in Seq(KeySet), NEW D, NEW A, Turned(K, J, D, A),
         \A k \in D : \E p \in 1 .. Len(K) : K[p] = k,
         NEW b, Stage(t, z0, b, 0, l, n, WithKeys(t, l, J)),
         NEW R, R = Search(t, n, b), R.fault = "none"
  PROVE  Outcome(t.nodes, R, D, A)
<1> DEFINE G == WithKeys(t, l, J)
<1>1. t \in TreeSet /\ Zoned(t.nodes, t.root, z0) /\ n \in Nat
  BY DEF LeafCase
<1>2. Exchanged(t.nodes, G, D, A)
  BY LeafTurned
<1> HIDE DEF G
<1>3. Stage(t, z0, b, 0, Leaf(t, n), n, G)
  BY DEF G
<1>4. Left(R, G)
  BY <1>1, <1>3, SearchLeaves
<1> QED
  BY <1>2, <1>4, ExchangedSame DEF Left, Outcome

LEMMA SearchInsert ==
  ASSUME NEW t, NEW z0, NEW n, NEW l, LeafCase(t, z0, n, l), l = Leaf(t, n), NEW K, K = KeysOf(t, l),
         NEW key \in KeySet, NEW p \in 0 .. Len(K), Between(K, z0[l], p, key, p),
         NEW R, R = Search(t, n, InsertKey(t, l, key)), R.fault = "none"
  PROVE  Outcome(t.nodes, R, {}, {key})
<1>1. /\ Grown(K, key) \in Seq(KeySet)
      /\ Stage(t, z0, InsertKey(t, l, key), 0, l, n, WithKeys(t, l, Grown(K, key)))
  BY InsertLeaf
<1>2. K \in Seq(KeySet)
  BY LeafCaseIs DEF LeafFacts
<1>3. Turned(K, Grown(K, key), {}, {key})
  BY <1>2, GrownTurned
<1> DEFINE J == Grown(K, key)
<1>4. J \in Seq(KeySet) /\ Turned(K, J, {}, {key})
      /\ Stage(t, z0, InsertKey(t, l, key), 0, l, n, WithKeys(t, l, J))
  BY <1>1, <1>3
<1> HIDE DEF J
<1> QED
  BY <1>4, SearchOutcome

LEMMA SearchReplace ==
  ASSUME NEW t, NEW z0, NEW n, NEW l, LeafCase(t, z0, n, l), l = Leaf(t, n), NEW K, K = KeysOf(t, l),
         NEW key \in KeySet, NEW p \in 1 .. Len(K), Between(K, z0[l], p - 1, key, p),
         NEW R, R = Search(t, n, ReplaceKey(t, l, K[p].name, key)), R.fault = "none"
  PROVE  InPlace(t.nodes, R, K, p, {key})
<1> DEFINE J == Replaced(K, p, key)
           b == ReplaceKey(t, l, K[p].name, key)
<1>1. J \in Seq(KeySet) /\ Stage(t, z0, b, 0, l, n, WithKeys(t, l, J))
  BY ReplaceLeaf
<1>2. K \in Seq(KeySet)
  BY LeafCaseIs DEF LeafFacts
<1>3. Turned(K, J, {K[p]}, {key})
  BY <1>2, KeptOut, ReplacedTurned
<1>4. R = Search(t, n, b)
  OBVIOUS
<1> HIDE DEF J, b
<1> QED
  BY <1>1, <1>3, <1>4, SearchOutcome DEF InPlace

LEMMA SearchDelete ==
  ASSUME NEW t, NEW z0, NEW n, NEW l, LeafCase(t, z0, n, l), l = Leaf(t, n), NEW K, K = KeysOf(t, l),
         NEW p \in 1 .. Len(K),
         NEW R, R = Search(t, n, DeleteKey(t, l, K[p].name)), R.fault = "none"
  PROVE  InPlace(t.nodes, R, K, p, {})
<1> DEFINE J == RemoveAt(K, p)
           b == DeleteKey(t, l, K[p].name)
<1>1. J \in Seq(KeySet) /\ Stage(t, z0, b, 0, l, n, WithKeys(t, l, J))
  BY DeleteLeaf
<1>2. K \in Seq(KeySet)
  BY LeafCaseIs DEF LeafFacts
<1>3. Turned(K, J, {K[p]}, {})
  BY <1>2, KeptOut, RemovedTurned
<1>4. R = Search(t, n, b)
  OBVIOUS
<1> HIDE DEF J, b
<1> QED
  BY <1>1, <1>3, <1>4, SearchOutcome DEF InPlace

UpdatedAt(t, l, K, p, d, key, b) ==
  /\ key = [name |-> K[p].name, data |-> d]
  /\ b = [tree |-> UpdateKey(t, l, K[p].name, d), effect |-> NoEffect]

LEMMA SearchUpdate ==
  ASSUME NEW t, NEW z0, NEW n, NEW l, LeafCase(t, z0, n, l), l = Leaf(t, n), NEW K, K = KeysOf(t, l),
         NEW p \in 1 .. Len(K), NEW d \in DataSet, NEW key, NEW b, UpdatedAt(t, l, K, p, d, key, b),
         NEW R, R = Search(t, n, b), R.fault = "none"
  PROVE  InPlace(t.nodes, R, K, p, {key})
<1> DEFINE J == Put(K, p, d)
<1>0. key = [name |-> K[p].name, data |-> d]
      /\ b = [tree |-> UpdateKey(t, l, K[p].name, d), effect |-> NoEffect]
  BY DEF UpdatedAt
<1>1. J \in Seq(KeySet) /\ Stage(t, z0, b, 0, l, n, WithKeys(t, l, J))
  BY <1>0, UpdateLeaf
<1>2. K \in Seq(KeySet)
  BY LeafCaseIs DEF LeafFacts
<1>3. K[p].name \in AllNames
  BY <1>2, KeyNames
<1>4. key \in KeySet /\ J = Replaced(K, p, key)
  BY <1>0, <1>2, <1>3, PutReplaces DEF KeySet
<1> HIDE DEF J
<1>5. Turned(K, J, {K[p]}, {key})
  BY <1>2, <1>4, KeptOut, ReplacedTurned
<1>6. Outcome(t.nodes, R, {K[p]}, {key})
  BY <1>1, <1>5, SearchOutcome
<1> QED
  BY <1>6 DEF InPlace

LEMMA SearchNothing ==
  ASSUME NEW t, NEW z0, NEW n, NEW l, LeafCase(t, z0, n, l), l = Leaf(t, n),
         NEW b, b = [tree |-> t, effect |-> NoEffect],
         NEW R, R = Search(t, n, b), R.fault = "none"
  PROVE  Outcome(t.nodes, R, {}, {})
<1> DEFINE K == KeysOf(t, l)
<1>1. K \in Seq(KeySet) /\ LeafOK(K, z0[l]) /\ FreeSpace(Node(0, K)) >= 0
  BY LeafCaseIs DEF LeafFacts
<1>2. t = Changed(t, WithKeys(t, l, K))
  BY LeafKept
<1>3. LeafDone(t, l, K, b) /\ Result(b)
  BY <1>1, <1>2 DEF LeafDone, Result
<1>4. Turned(K, K, {}, {})
  BY DEF Turned
<1> HIDE DEF K
<1>5. Stage(t, z0, b, 0, l, n, WithKeys(t, l, K))
  BY <1>1, <1>3, LeafStage
<1>6. K = KeysOf(t, l)
  BY DEF K
<1> QED
  BY <1>1, <1>4, <1>5, <1>6, SearchOutcome

-----------------------------------------------------------------------------
(* The order of plain names, extents and searches for blocks.              *)

LEMMA ExtentStored ==
  ASSUME NEW a \in Nums, NEW b \in Nums, a <= b
  PROVE  /\ Stored(Extent(a, b)) /\ IsExtent(Extent(a, b)) /\ Extent(a, b) \in AllNames
         /\ StartOf(Extent(a, b)) = a /\ StopOf(Extent(a, b)) = b
         /\ Low(Extent(a, b)) = SearchName(a) /\ High(Extent(a, b)) = SearchName(b)
<1>1. b \in 0 .. (MaxNum + 1)
  BY ExtentsAssumption DEF Nums
<1>2. /\ IsExtent(Extent(a, b)) /\ StartOf(Extent(a, b)) = a /\ StopOf(Extent(a, b)) = b
  BY <1>1, ExtentIs
<1>3. Low(Extent(a, b)) = SearchName(a) /\ High(Extent(a, b)) = SearchName(b)
  BY <1>2 DEF Low, High
<1> QED
  BY <1>2, <1>3, ExtentsAssumption DEF Stored

LEMMA StoredExtent ==
  ASSUME NEW n, Stored(n), IsExtent(n)
  PROVE  /\ StartOf(n) \in Nums /\ StopOf(n) \in Nums /\ StartOf(n) <= StopOf(n)
         /\ n = Extent(StartOf(n), StopOf(n))
         /\ Low(n) = SearchName(StartOf(n)) /\ High(n) = SearchName(StopOf(n))
<1>1. n \notin Names
  BY ExtentsAssumption
<1>2. PICK a \in Nums, b \in Nums : a <= b /\ n = Extent(a, b)
  BY <1>1 DEF Stored
<1>3. StartOf(n) = a /\ StopOf(n) = b
  BY <1>2, ExtentStored
<1> QED
  BY <1>2, <1>3 DEF Low, High

LEMMA SearchOrder ==
  ASSUME NEW a \in Nums, NEW b \in Nums
  PROVE  /\ SearchName(a) \in Nat /\ IsExtent(SearchName(a))
         /\ a \in Nat /\ b \in Nat
         /\ SearchName(a) < SearchName(b) <=> a < b
         /\ SearchName(a) <= SearchName(b) <=> a <= b
<1>1. MaxNum \in Nat /\ MaxNum + 1 \in 0 .. (MaxNum + 1) /\ a \in Nat /\ b \in Nat
  BY ExtentsAssumption DEF Nums
<1>2. SearchName(a) \in Nat /\ SearchName(b) \in Nat /\ IsExtent(SearchName(a))
  BY <1>1, ExtentIs DEF SearchName
<1>3. SearchName(a) < SearchName(b) <=> a < b \/ (a = b /\ MaxNum + 1 < MaxNum + 1)
  BY <1>1, ExtentOrder DEF SearchName
<1>4. SearchName(b) < SearchName(a) <=> b < a \/ (b = a /\ MaxNum + 1 < MaxNum + 1)
  BY <1>1, ExtentOrder DEF SearchName
<1> QED
  BY <1>1, <1>2, <1>3, <1>4

LEMMA ExtentBefore ==
  ASSUME NEW a \in Nums, NEW b \in Nums, NEW num \in Nums
  PROVE  Extent(a, b) \in Nat /\ (Extent(a, b) <= SearchName(num) <=> a <= num)
<1>1. MaxNum \in Nat /\ MaxNum + 1 \in 0 .. (MaxNum + 1) /\ a \in Nat /\ b \in Nat /\ num \in Nat
      /\ b \in 0 .. (MaxNum + 1) /\ b < MaxNum + 1
  BY ExtentsAssumption DEF Nums
<1>2. Extent(a, b) \in Nat /\ SearchName(num) \in Nat
  BY <1>1, ExtentIs DEF SearchName
<1>3. Extent(a, b) < SearchName(num) <=> a < num \/ (a = num /\ b < MaxNum + 1)
  BY <1>1, ExtentOrder DEF SearchName
<1>4. SearchName(num) < Extent(a, b) <=> num < a \/ (num = a /\ MaxNum + 1 < b)
  BY <1>1, ExtentOrder DEF SearchName
<1> QED
  BY <1>1, <1>2, <1>3, <1>4

LEMMA NameIs ==
  ASSUME NEW n \in Names
  PROVE  /\ Stored(n) /\ ~ IsExtent(n) /\ Low(n) = n /\ High(n) = n
         /\ n \in Nat /\ n # 0 /\ n \in AllNames
         /\ \A num \in Nums : n # SearchName(num)
<1>1. Stored(n) /\ ~ IsExtent(n)
  BY ExtentsAssumption DEF Stored
<1>2. Low(n) = n /\ High(n) = n
  BY <1>1 DEF Low, High
<1>3. \A num \in Nums : n # SearchName(num)
  BY <1>1, SearchOrder
<1> QED
  BY <1>1, <1>2, <1>3, NamesAssumption

LEMMA NameAbove ==
  ASSUME NEW m, Stored(m), NEW n \in Names, m < n
  PROVE  High(m) < n
<1>1. CASE m \in Names
  BY <1>1, NameIs
<1>2. CASE m \notin Names
  <2>1. PICK e \in Nums, f \in Nums : e <= f /\ m = Extent(e, f)
    BY <1>2 DEF Stored
  <2>2. IsExtent(m) /\ High(m) = SearchName(f)
    BY <2>1, ExtentStored
  <2>3. MaxNum \in Nums /\ MaxNum \in Nat /\ XBase \in Nat /\ f <= MaxNum
    BY ExtentsAssumption DEF Nums
  <2>4. SearchName(f) \in Nat /\ SearchName(MaxNum) \in Nat /\ SearchName(f) <= SearchName(MaxNum)
    BY <2>3, SearchOrder
  <2>5. m \in Nat /\ n \in Nat /\ ~ IsExtent(n)
    BY StoredIs, NameIs
  <2>6. XBase <= m
    BY <2>2, <2>3, <2>4 DEF IsExtent
  <2>7. XBase <= n
    BY <2>3, <2>5, <2>6
  <2>8. n > SearchName(MaxNum)
    BY <2>3, <2>4, <2>5, <2>7 DEF IsExtent
  <2> QED
    BY <2>2, <2>4, <2>5, <2>8
<1> QED
  BY <1>1, <1>2

(* An extent that begins with the same block may take the place of one.    *)
LEMMA SameStart ==
  ASSUME NEW m, Stored(m), NEW a \in Nums, NEW b \in Nums, NEW c \in Nums, a <= b, a <= c,
         High(m) < Extent(a, b)
  PROVE  High(m) < Extent(a, c)
<1>1. Stored(Extent(a, b)) /\ Stored(Extent(a, c))
      /\ Low(Extent(a, b)) = SearchName(a) /\ Low(Extent(a, c)) = SearchName(a)
  BY ExtentStored
<1>2. High(m) \in Nat /\ Extent(a, b) \in Nat /\ SearchName(a) \in Nat /\ Extent(a, b) <= SearchName(a)
  BY <1>1, StoredIs
<1>3. High(m) < Low(Extent(a, c))
  BY <1>1, <1>2
<1> QED
  BY <1>1, <1>3, StoredApart

(* The key a callback is given, and the keys around it.                    *)
Here(t, z0, n, l, K, p) ==
  /\ p \in 0 .. Len(K) /\ Len(K) \in Nat /\ p \in Nat
  /\ KeyAt(t, n) = IF p = 0 THEN [name |-> 0, data |-> 0] ELSE K[p]
  /\ \A i \in 1 .. Len(K) : K[i].name <= n <=> i <= p
  /\ \A i \in 1 .. Len(K) : K[i] \in KeySet /\ K[i].name \in Nat /\ K[i].name \in AllNames /\ K[i].name # 0
  /\ \A i \in 1 .. Len(K) : Stored(K[i].name) /\ Low(K[i].name) \in z0[l] /\ High(K[i].name) \in z0[l]
  /\ \A i, j \in 1 .. Len(K) : i < j => High(K[i].name) < K[j].name
  /\ \A i \in 1 .. Len(K) : Has(t.nodes, K[i])
  /\ n \in z0[l] /\ z0[l] \in SUBSET Nat /\ Convex(z0[l])

LEMMA HereIs ==
  ASSUME NEW t, NEW z0, NEW n, NEW l, LeafCase(t, z0, n, l), l = Leaf(t, n), NEW K, K = KeysOf(t, l),
         NEW p, p = FindKey(K, n)
  PROVE  Here(t, z0, n, l, K, p)
<1>1. LeafFacts(t, z0, n, l, K) /\ n \in Nat
  BY LeafCaseIs DEF LeafCase
<1>2. /\ l \in Blocks(t.nodes) /\ t.nodes[l].height = 0 /\ t.nodes[l].keys = K /\ K \in Seq(KeySet)
      /\ Sorted(K) /\ LeafOK(K, z0[l]) /\ n \in z0[l] /\ z0[l] \in SUBSET Nat /\ Convex(z0[l])
  BY <1>1 DEF LeafFacts
<1>3. p \in 0 .. Len(K) /\ \A i \in 1 .. Len(K) : K[i].name <= n <=> i <= p
  BY <1>1, <1>2, FindKeyIs
<1>4. KeyAt(t, n) = IF p = 0 THEN [name |-> 0, data |-> 0] ELSE K[p]
  BY <1>2 DEF KeyAt, KeysOf
<1>5. \A i \in 1 .. Len(K) : K[i] \in KeySet /\ K[i].name \in Nat /\ K[i].name \in AllNames
  BY <1>2, KeyNames
<1>6. \A i \in 1 .. Len(K) : Has(t.nodes, K[i])
  BY <1>2, HasIs
<1>7. \A i \in 1 .. Len(K) : Stored(K[i].name) /\ Low(K[i].name) \in z0[l] /\ High(K[i].name) \in z0[l]
  BY <1>2 DEF LeafOK
<1>8. \A i, j \in 1 .. Len(K) : i < j => High(K[i].name) < K[j].name
  BY <1>2 DEF LeafOK
<1>9. \A i \in 1 .. Len(K) : K[i].name # 0
  BY <1>7, StoredIs
<1>10. Len(K) \in Nat /\ p \in Nat
  BY <1>2, <1>3
<1> QED
  BY <1>2, <1>3, <1>4, <1>5, <1>6, <1>7, <1>8, <1>9, <1>10 DEF Here

(* A key is found under each name it is searched for.                      *)
LEMMA KeyHere ==
  ASSUME NEW t, NEW z0, NEW n, NEW l, LeafCase(t, z0, n, l), l = Leaf(t, n), NEW K, K = KeysOf(t, l),
         NEW p, p = FindKey(K, n), NEW k, Has(t.nodes, k), Low(k.name) <= n, n <= High(k.name)
  PROVE  p \in 1 .. Len(K) /\ K[p] = k /\ KeyAt(t, n) = k
<1>1. Here(t, z0, n, l, K, p) /\ Zoned(t.nodes, t.root, z0) /\ n \in Nat
  BY HereIs DEF LeafCase
<1>2. /\ l \in Blocks(t.nodes) /\ t.nodes[l].height = 0 /\ t.nodes[l].keys = K /\ n \in z0[l]
  BY LeafCaseIs DEF LeafFacts
<1> DEFINE N == t.nodes
<1>3. PICK m \in Blocks(N) : N[m].height = 0 /\ \E i \in 1 .. Len(N[m].keys) : N[m].keys[i] = k
  BY DEF Has
<1>4. LeafOK(N[m].keys, z0[m]) /\ Convex(z0[m])
  BY <1>1, <1>3 DEF Zoned, BlockOK
<1>5. Low(k.name) \in z0[m] /\ High(k.name) \in z0[m]
  BY <1>3, <1>4 DEF LeafOK
<1>6. n \in z0[m]
  BY <1>1, <1>4, <1>5 DEF Convex
<1>7. m = l
  <2>1. Apart(N, z0, l, m)
    BY <1>1, <1>2, <1>3 DEF Zoned
  <2> QED
    BY <1>2, <1>3, <1>6, <2>1 DEF Apart
<1>8. PICK i \in 1 .. Len(K) : K[i] = k
  BY <1>2, <1>3, <1>7
<1>9. K[i].name <= n
  <2>1. K[i].name \in Nat /\ Low(K[i].name) \in Nat /\ K[i].name <= Low(K[i].name)
    BY <1>1, StoredIs DEF Here
  <2> QED
    BY <1>1, <1>8, <2>1
<1>10. i <= p
  BY <1>1, <1>9 DEF Here
<1>11. ~ i < p
  <2>1. ASSUME i < p PROVE FALSE
    <3>1. p \in 1 .. Len(K) /\ p \in Nat /\ i \in Nat
      BY <1>1, <2>1 DEF Here
    <3>2. \A x, y \in 1 .. Len(K) : x < y => High(K[x].name) < K[y].name
      BY <1>1 DEF Here
    <3>21. High(K[i].name) < K[p].name
      BY <2>1, <3>1, <3>2
    <3>22. K[p].name <= n /\ K[p].name \in Nat
      BY <1>1, <3>1 DEF Here
    <3>3. High(K[i].name) \in Nat
      BY <1>1, StoredIs DEF Here
    <3> QED
      BY <1>1, <1>8, <3>21, <3>22, <3>3
  <2> QED
    BY <2>1
<1>12. p = i
  <2>1. p \in Nat
    BY <1>1 DEF Here
  <2> QED
    BY <1>10, <1>11, <2>1
<1>13. KeyAt(t, n) = K[p]
  <2>1. p # 0
    BY <1>12
  <2> QED
    BY <1>1, <2>1 DEF Here
<1> QED
  BY <1>8, <1>12, <1>13

(* add_labelled_key and delete_labelled_key: the key of that name is       *)
(* replaced, added or gone, and no other is.                               *)
Named(N, n) == {k \in KeySet : Has(N, k) /\ k.name = n}

NamedAt(N, n, K, p) ==
  /\ Found(K, n) => p \in 1 .. Len(K) /\ K[p].name = n /\ Named(N, n) = {K[p]}
  /\ ~ Found(K, n) => Named(N, n) = {}

LEMMA NamedIs ==
  ASSUME NEW t, NEW z0, NEW n \in Names, NEW l, LeafCase(t, z0, n, l), l = Leaf(t, n),
         NEW K, K = KeysOf(t, l), NEW p, p = FindKey(K, n)
  PROVE  NamedAt(t.nodes, n, K, p)
<1>1. Here(t, z0, n, l, K, p) /\ Low(n) = n /\ High(n) = n /\ n \in Nat
  BY HereIs, NameIs
<1>2. ASSUME NEW k \in Named(t.nodes, n) PROVE p \in 1 .. Len(K) /\ K[p] = k /\ k.name = n
  <2>1. Has(t.nodes, k) /\ k.name = n
    BY DEF Named
  <2>2. Low(k.name) <= n /\ n <= High(k.name)
    BY <1>1, <2>1
  <2> QED
    BY <2>1, <2>2, KeyHere
<1>3. CASE Found(K, n)
  <2>1. p \in 1 .. Len(K) /\ K[p].name = n
    <3>1. p > 0 /\ K[p].name = n
      BY <1>3 DEF Found
    <3> QED
      BY <1>1, <3>1 DEF Here
  <2>2. K[p] \in KeySet /\ Has(t.nodes, K[p])
    BY <1>1, <2>1 DEF Here
  <2>3. K[p] \in Named(t.nodes, n)
    BY <2>1, <2>2 DEF Named
  <2> QED
    BY <1>2, <1>3, <2>1, <2>3 DEF NamedAt
<1>4. CASE ~ Found(K, n)
  <2>1. ASSUME NEW k \in Named(t.nodes, n) PROVE FALSE
    <3>1. p \in 1 .. Len(K) /\ K[p].name = n
      BY <1>2
    <3> QED
      BY <1>4, <3>1 DEF Found
  <2> QED
    BY <1>4, <2>1 DEF NamedAt
<1> QED
  BY <1>3, <1>4

LEMMA DeleteHere ==
  ASSUME NEW t, NEW z0, NEW n \in Names, NEW l, LeafCase(t, z0, n, l), l = Leaf(t, n),
         NEW K, K = KeysOf(t, l), NEW p, p = FindKey(K, n), NEW d,
         NEW R, R = Search(t, n, KeyOperation(t, l, "O_DELETE", n, d)), R.fault = "none"
  PROVE  Outcome(t.nodes, R, Named(t.nodes, n), {})
<1>1. t.nodes[l].keys = K
  BY DEF KeysOf
<1>2. NamedAt(t.nodes, n, K, p)
  BY NamedIs
<1>3. CASE Found(K, n)
  <2>1. KeyOperation(t, l, "O_DELETE", n, d) = DeleteKey(t, l, n)
    BY <1>1, <1>3 DEF KeyOperation
  <2>2. p \in 1 .. Len(K) /\ K[p].name = n /\ Named(t.nodes, n) = {K[p]}
    BY <1>2, <1>3 DEF NamedAt
  <2>3. R = Search(t, n, DeleteKey(t, l, K[p].name))
    BY <2>1, <2>2
  <2>4. InPlace(t.nodes, R, K, p, {})
    BY <2>2, <2>3, SearchDelete
  <2> QED
    BY <2>2, <2>4 DEF InPlace
<1>4. CASE ~ Found(K, n)
  <2>1. KeyOperation(t, l, "O_DELETE", n, d) = [tree |-> t, effect |-> NoEffect]
    BY <1>1, <1>4 DEF KeyOperation
  <2>2. R = Search(t, n, [tree |-> t, effect |-> NoEffect])
    BY <2>1
  <2>3. Outcome(t.nodes, R, {}, {})
    BY <2>2, SearchNothing
  <2> QED
    BY <1>2, <1>4, <2>3 DEF NamedAt
<1> QED
  BY <1>3, <1>4

LEMMA DeleteDone ==
  ASSUME NEW t, Sound(t), NEW n \in Names, NEW d,
         NEW R, R = Search(t, n, KeyOperation(t, Leaf(t, n), "O_DELETE", n, d)), R.fault = "none"
  PROVE  Outcome(t.nodes, R, Named(t.nodes, n), {})
<1>1. n \in Nat
  BY NameIs
<1>2. PICK z0 : LeafCase(t, z0, n, Leaf(t, n))
  BY <1>1, SoundCase
<1> QED
  BY <1>2, DeleteHere

LEMMA PutHere ==
  ASSUME NEW t, NEW z0, NEW n \in Names, NEW l, LeafCase(t, z0, n, l), l = Leaf(t, n),
         NEW K, K = KeysOf(t, l), NEW p, p = FindKey(K, n), NEW d \in Data,
         NEW key, key = [name |-> n, data |-> d],
         NEW R, R = Search(t, n, KeyOperation(t, l, "O_REPLACE", n, d)), R.fault = "none"
  PROVE  Outcome(t.nodes, R, Named(t.nodes, n), {key})
<1>0. Stored(n) /\ Low(n) = n /\ High(n) = n /\ n \in Nat /\ n \in AllNames
  BY NameIs
<1>1. t.nodes[l].keys = K /\ d \in DataSet
  BY DEF KeysOf, DataSet
<1>2. NamedAt(t.nodes, n, K, p)
  BY NamedIs
<1>3. CASE Found(K, n)
  <2>1. KeyOperation(t, l, "O_REPLACE", n, d) = [tree |-> UpdateKey(t, l, n, d), effect |-> NoEffect]
    BY <1>1, <1>3 DEF KeyOperation
  <2>2. p \in 1 .. Len(K) /\ K[p].name = n /\ Named(t.nodes, n) = {K[p]}
    BY <1>2, <1>3 DEF NamedAt
  <2> DEFINE b == [tree |-> UpdateKey(t, l, K[p].name, d), effect |-> NoEffect]
  <2>3. R = Search(t, n, b)
    BY <2>1, <2>2
  <2>4. InPlace(t.nodes, R, K, p, {key})
    <3>1. p \in 1 .. Len(K) /\ d \in DataSet /\ UpdatedAt(t, l, K, p, d, key, b)
      BY <1>1, <2>2 DEF UpdatedAt
    <3> HIDE DEF b
    <3> QED
      BY <2>3, <3>1, SearchUpdate
  <2> QED
    BY <2>2, <2>4 DEF InPlace
<1>4. CASE ~ Found(K, n)
  <2>1. KeyOperation(t, l, "O_REPLACE", n, d) = InsertKey(t, l, key)
    BY <1>1, <1>4 DEF KeyOperation
  <2>2. Here(t, z0, n, l, K, p)
    BY HereIs
  <2>4. key \in KeySet /\ key.name = n
    BY <1>0, <1>1 DEF KeySet
  <2>5. R = Search(t, n, InsertKey(t, l, key))
    BY <2>1
  <2>6. K \in Seq(KeySet) /\ Sorted(K)
    BY LeafCaseIs DEF LeafFacts
  <2>7. ASSUME NEW i \in 1 .. Len(K), i <= p PROVE High(K[i].name) < n
    <3>1. K[i].name <= n /\ K[i].name \in Nat /\ Stored(K[i].name)
      BY <2>2, <2>7 DEF Here
    <3>2. K[i].name # n
      BY <1>0, <1>4, <2>6, FoundIs
    <3>3. K[i].name < n
      BY <1>0, <3>1, <3>2
    <3> QED
      BY <3>1, <3>3, NameAbove
  <2>8. ASSUME NEW i \in 1 .. Len(K), i > p PROVE n < K[i].name
    <3>1. K[i].name \in Nat /\ i \in Nat /\ p \in Nat /\ (K[i].name <= n <=> i <= p)
      BY <2>2 DEF Here
    <3> QED
      BY <1>0, <2>8, <3>1
  <2>9. Between(K, z0[l], p, key, p)
    <3>1. n \in z0[l]
      BY <2>2 DEF Here
    <3> QED
      BY <1>0, <2>4, <2>7, <2>8, <3>1 DEF Between
  <2>10. p \in 0 .. Len(K)
    BY <2>2 DEF Here
  <2>11. Outcome(t.nodes, R, {}, {key})
    BY <2>4, <2>5, <2>9, <2>10, SearchInsert
  <2> QED
    BY <1>2, <1>4, <2>11 DEF NamedAt
<1> QED
  BY <1>3, <1>4

LEMMA PutDone ==
  ASSUME NEW t, Sound(t), NEW n \in Names, NEW d \in Data,
         NEW R, R = Search(t, n, KeyOperation(t, Leaf(t, n), "O_REPLACE", n, d)), R.fault = "none"
  PROVE  Outcome(t.nodes, R, Named(t.nodes, n), {[name |-> n, data |-> d]})
<1>1. n \in Nat
  BY NameIs
<1>2. PICK z0 : LeafCase(t, z0, n, Leaf(t, n))
  BY <1>1, SoundCase
<1> QED
  BY <1>2, PutHere

-----------------------------------------------------------------------------
(* What the callbacks of file.c do to the extents of their leaf.           *)

At0(t, z0, num, n, l, K, p, key) ==
  /\ LeafCase(t, z0, n, l) /\ l = Leaf(t, n) /\ K = KeysOf(t, l) /\ p = FindKey(K, n)
  /\ num \in Nums /\ n = SearchName(num) /\ key = KeyAt(t, n)

LEMMA At0Is ==
  ASSUME NEW t, NEW z0, NEW num, NEW n, NEW l, NEW K, NEW p, NEW key, At0(t, z0, num, n, l, K, p, key)
  PROVE  /\ LeafCase(t, z0, n, l) /\ l = Leaf(t, n) /\ K = KeysOf(t, l) /\ p = FindKey(K, n)
         /\ num \in Nums /\ n = SearchName(num) /\ key = KeyAt(t, n)
         /\ Here(t, z0, n, l, K, p) /\ K \in Seq(KeySet) /\ n \in Nat /\ num \in Nat
BY HereIs, LeafCaseIs, SearchOrder DEF At0, LeafFacts

ExtentAt(t, num, K, p, key) ==
  /\ p \in 1 .. Len(K) /\ K[p] = key /\ Has(t.nodes, key) /\ key \in KeySet
  /\ Stored(key.name) /\ StartOf(key.name) \in Nums /\ StopOf(key.name) \in Nums
  /\ StartOf(key.name) <= StopOf(key.name) /\ key.name = Extent(StartOf(key.name), StopOf(key.name))
  /\ Low(key.name) = SearchName(StartOf(key.name)) /\ High(key.name) = SearchName(StopOf(key.name))
  /\ StartOf(key.name) <= num

LEMMA ExtentHere ==
  ASSUME NEW t, NEW z0, NEW num, NEW n, NEW l, NEW K, NEW p, NEW key, At0(t, z0, num, n, l, K, p, key),
         IsExtent(key.name)
  PROVE  ExtentAt(t, num, K, p, key)
<1>1. Here(t, z0, n, l, K, p) /\ key = KeyAt(t, n) /\ num \in Nums /\ n = SearchName(num)
  BY At0Is
<1>2. p # 0
  <2>1. XBase \in Nat /\ XBase # 0
    BY ExtentsAssumption
  <2>2. ~ IsExtent(0)
    BY <2>1 DEF IsExtent
  <2>3. p = 0 => key.name = 0
    BY <1>1 DEF Here
  <2> QED
    BY <2>2, <2>3
<1>3. p \in 1 .. Len(K) /\ key = K[p]
  BY <1>1, <1>2 DEF Here
<1>4. Stored(key.name) /\ Has(t.nodes, key) /\ key \in KeySet /\ key.name <= n
  BY <1>1, <1>3 DEF Here
<1>5. /\ StartOf(key.name) \in Nums /\ StopOf(key.name) \in Nums /\ StartOf(key.name) <= StopOf(key.name)
      /\ key.name = Extent(StartOf(key.name), StopOf(key.name))
      /\ Low(key.name) = SearchName(StartOf(key.name)) /\ High(key.name) = SearchName(StopOf(key.name))
  BY <1>4, StoredExtent
<1>6. StartOf(key.name) <= num
  BY <1>1, <1>4, <1>5, ExtentBefore
<1> QED
  BY <1>3, <1>4, <1>5, <1>6 DEF ExtentAt

(* The neighbours of a key that takes the place of the extent at p.        *)
LEMMA InsteadOf ==
  ASSUME NEW t, NEW z0, NEW num, NEW n, NEW l, NEW K, NEW p, NEW key, At0(t, z0, num, n, l, K, p, key),
         IsExtent(key.name),
         NEW stop \in Nums, StartOf(key.name) <= stop, stop <= num,
         NEW new, new.name = Extent(StartOf(key.name), stop)
  PROVE  Between(K, z0[l], p - 1, new, p)
<1> DEFINE a == StartOf(key.name)
           c == StopOf(key.name)
<1>1. /\ Here(t, z0, n, l, K, p) /\ n = SearchName(num) /\ num \in Nums /\ n \in Nat /\ num \in Nat
  BY At0Is
<1>2. ExtentAt(t, num, K, p, key)
  BY ExtentHere
<1>3. /\ p \in 1 .. Len(K) /\ K[p] = key /\ a \in Nums /\ c \in Nums /\ a <= c
      /\ key.name = Extent(a, c) /\ Low(key.name) = SearchName(a)
  BY <1>2 DEF ExtentAt
<1> HIDE DEF a, c
<1>4. a <= stop /\ new.name = Extent(a, stop)
  BY DEF a
<1>5. Stored(new.name) /\ Low(new.name) = SearchName(a) /\ High(new.name) = SearchName(stop)
  BY <1>3, <1>4, ExtentStored
<1>6. SearchName(a) \in z0[l] /\ n \in z0[l] /\ Convex(z0[l])
  BY <1>1, <1>3 DEF Here
<1>7. SearchName(a) <= SearchName(stop) /\ SearchName(stop) <= n /\ SearchName(stop) \in Nat
  BY <1>1, <1>3, <1>4, SearchOrder
<1>8. SearchName(stop) \in z0[l]
  BY <1>6, <1>7 DEF Convex
<1>9. ASSUME NEW i \in 1 .. Len(K), i <= p - 1 PROVE High(K[i].name) < new.name
  <2>0. p \in Nat /\ i \in Nat /\ \A x, y \in 1 .. Len(K) : x < y => High(K[x].name) < K[y].name
    BY <1>1 DEF Here
  <2>1. i < p
    BY <1>9, <2>0
  <2>2. High(K[i].name) < K[p].name
    BY <1>3, <2>0, <2>1
  <2>3. Stored(K[i].name)
    BY <1>1 DEF Here
  <2>4. High(K[i].name) < Extent(a, c)
    BY <1>3, <2>2
  <2> QED
    BY <1>3, <1>4, <2>3, <2>4, SameStart
<1>10. ASSUME NEW i \in 1 .. Len(K), i > p PROVE High(new.name) < K[i].name
  <2>1. K[i].name \in Nat /\ i \in Nat /\ p \in Nat /\ (K[i].name <= n <=> i <= p)
    BY <1>1 DEF Here
  <2> QED
    BY <1>1, <1>5, <1>7, <1>10, <2>1
<1> QED
  BY <1>5, <1>6, <1>8, <1>9, <1>10 DEF Between

(* get_file_data_block: block num continues the extent before it.          *)
LEMMA ContinuedHere ==
  ASSUME NEW t, NEW z0, NEW num, NEW n, NEW l, NEW K, NEW p, NEW key, At0(t, z0, num, n, l, K, p, key),
         IsExtent(key.name),
         NEW stop \in Nums, StartOf(key.name) <= stop, stop <= num,
         NEW new, new = [name |-> Extent(StartOf(key.name), stop), data |-> key.data],
         NEW R, R = Search(t, n, ReplaceKey(t, l, key.name, new)), R.fault = "none"
  PROVE  Outcome(t.nodes, R, {key}, {new})
<1>1. Between(K, z0[l], p - 1, new, p)
  BY InsteadOf
<1>2. ExtentAt(t, num, K, p, key)
  BY ExtentHere
<1>3. p \in 1 .. Len(K) /\ K[p] = key /\ key \in KeySet /\ StartOf(key.name) \in Nums
  BY <1>2 DEF ExtentAt
<1>4. new \in KeySet
  <2>1. Extent(StartOf(key.name), stop) \in AllNames
    BY <1>3, ExtentStored
  <2> QED
    BY <1>3, <2>1 DEF KeySet
<1>5. LeafCase(t, z0, n, l) /\ l = Leaf(t, n) /\ K = KeysOf(t, l)
  BY At0Is
<1>6. R = Search(t, n, ReplaceKey(t, l, K[p].name, new))
  BY <1>3
<1>7. InPlace(t.nodes, R, K, p, {new})
  BY ONLY <1>1, <1>3, <1>4, <1>5, <1>6, R.fault = "none", SearchReplace
<1> QED
  BY <1>3, <1>7 DEF InPlace

(* reduce_file: the whole extent goes.                                     *)
LEMMA DroppedHere ==
  ASSUME NEW t, NEW z0, NEW num, NEW n, NEW l, NEW K, NEW p, NEW key, At0(t, z0, num, n, l, K, p, key),
         IsExtent(key.name),
         NEW R, R = Search(t, n, DeleteKey(t, l, key.name)), R.fault = "none"
  PROVE  Outcome(t.nodes, R, {key}, {})
<1>2. ExtentAt(t, num, K, p, key)
  BY ExtentHere
<1>3. p \in 1 .. Len(K) /\ K[p] = key
  BY <1>2 DEF ExtentAt
<1>5. LeafCase(t, z0, n, l) /\ l = Leaf(t, n) /\ K = KeysOf(t, l)
  BY At0Is
<1>6. R = Search(t, n, DeleteKey(t, l, K[p].name))
  BY <1>3
<1>7. InPlace(t.nodes, R, K, p, {})
  BY ONLY <1>3, <1>5, <1>6, R.fault = "none", SearchDelete
<1> QED
  BY <1>3, <1>7 DEF InPlace

(* get_file_data_block: block num begins an extent.                        *)
LEMMA BegunHere ==
  ASSUME NEW t, NEW z0, NEW num, NEW n, NEW l, NEW K, NEW p, NEW key, At0(t, z0, num, n, l, K, p, key),
         ~ Holds(key, num), NEW b \in DataBlocks,
         NEW new, new = [name |-> Extent(num, num), data |-> b],
         NEW R, R = Search(t, n, InsertKey(t, l, new)), R.fault = "none"
  PROVE  Outcome(t.nodes, R, {}, {new})
<1>1. /\ LeafCase(t, z0, n, l) /\ l = Leaf(t, n) /\ K = KeysOf(t, l) /\ key = KeyAt(t, n)
      /\ Here(t, z0, n, l, K, p) /\ num \in Nums /\ n = SearchName(num) /\ n \in Nat /\ num \in Nat
  BY At0Is
<1>2. /\ Stored(new.name) /\ Low(new.name) = n /\ High(new.name) = n /\ new.name \in AllNames
  BY <1>1, ExtentStored
<1>3. new \in KeySet
  BY <1>2 DEF KeySet, DataSet
<1>4. ASSUME p # 0 PROVE High(K[p].name) < n
  <2>1. p \in 1 .. Len(K) /\ key = K[p]
    BY <1>1, <1>4 DEF Here
  <2>2. K[p].name <= n /\ K[p].name \in Nat /\ Stored(K[p].name)
    BY <1>1, <2>1 DEF Here
  <2>3. CASE IsExtent(key.name)
    <3>1. ExtentAt(t, num, K, p, key)
      BY <2>3, ExtentHere
    <3>2. /\ StartOf(key.name) \in Nums /\ StopOf(key.name) \in Nums /\ StartOf(key.name) <= num
          /\ High(key.name) = SearchName(StopOf(key.name))
      BY <3>1 DEF ExtentAt
    <3>3. num \notin StartOf(key.name) .. StopOf(key.name)
      BY <2>3 DEF Holds, NumsOf
    <3>4. StopOf(key.name) < num
      BY <1>1, <3>2, <3>3 DEF Nums
    <3>5. SearchName(StopOf(key.name)) < SearchName(num)
      BY <1>1, <3>2, <3>4, SearchOrder
    <3> QED
      BY <1>1, <2>1, <3>2, <3>5
  <2>4. CASE ~ IsExtent(key.name)
    <3>1. High(key.name) = key.name
      BY <2>4 DEF High
    <3>2. IsExtent(n)
      BY <1>1, SearchOrder
    <3> QED
      BY <1>1, <2>1, <2>2, <2>4, <3>1, <3>2
  <2> QED
    BY <2>3, <2>4
<1>5. ASSUME NEW i \in 1 .. Len(K), i <= p PROVE High(K[i].name) < new.name
  <2>1. p # 0 /\ p \in 1 .. Len(K) /\ p \in Nat /\ i \in Nat
    BY <1>1, <1>5 DEF Here
  <2>2. Stored(K[i].name) /\ High(K[i].name) \in Nat
    BY <1>1, StoredIs DEF Here
  <2>3. High(K[i].name) < n
    <3>1. CASE i = p
      BY <1>4, <2>1, <3>1
    <3>2. CASE i < p
      <4>1. \A x, y \in 1 .. Len(K) : x < y => High(K[x].name) < K[y].name
        BY <1>1 DEF Here
      <4>2. High(K[i].name) < K[p].name
        BY <2>1, <3>2, <4>1
      <4>3. K[p].name <= n /\ K[p].name \in Nat
        BY <1>1, <2>1 DEF Here
      <4> QED
        BY <1>1, <2>2, <4>2, <4>3
    <3> QED
      BY <1>5, <2>1, <3>1, <3>2
  <2> QED
    BY <1>2, <2>2, <2>3, StoredApart
<1>6. ASSUME NEW i \in 1 .. Len(K), i > p PROVE High(new.name) < K[i].name
  <2>1. K[i].name \in Nat /\ i \in Nat /\ p \in Nat /\ (K[i].name <= n <=> i <= p)
    BY <1>1 DEF Here
  <2> QED
    BY <1>1, <1>2, <1>6, <2>1
<1>7. n \in z0[l] /\ p \in 0 .. Len(K)
  BY <1>1 DEF Here
<1>8. Between(K, z0[l], p, new, p)
  BY <1>2, <1>5, <1>6, <1>7 DEF Between
<1> QED
  BY ONLY <1>1, <1>3, <1>7, <1>8, R = Search(t, n, InsertKey(t, l, new)), R.fault = "none", SearchInsert

LEMMA HasStored ==
  ASSUME NEW N, NEW root, NEW z, Zoned(N, root, z), NEW k, Has(N, k)
  PROVE  Stored(k.name) /\ k \in KeySet
<1>1. PICK m \in Blocks(N) : N[m].height = 0 /\ \E i \in 1 .. Len(N[m].keys) : N[m].keys[i] = k
  BY DEF Has
<1>2. LeafOK(N[m].keys, z[m]) /\ N[m].keys \in Seq(KeySet)
  BY <1>1, ZonedTypes DEF Zoned, BlockOK
<1> QED
  BY <1>1, <1>2, KeyNames DEF LeafOK

(* A search for a block of an extent finds the extent.                     *)
LEMMA HolderFound ==
  ASSUME NEW t, Sound(t), NEW k, Has(t.nodes, k), NEW num, Holds(k, num)
  PROVE  KeyAt(t, SearchName(num)) = k /\ num \in Nums
<1>1. PICK z : Zoned(t.nodes, t.root, z)
  BY DEF Sound
<1>2. Stored(k.name) /\ IsExtent(k.name) /\ num \in StartOf(k.name) .. StopOf(k.name)
  BY <1>1, HasStored DEF Holds, NumsOf
<1>3. /\ StartOf(k.name) \in Nums /\ StopOf(k.name) \in Nums
      /\ Low(k.name) = SearchName(StartOf(k.name)) /\ High(k.name) = SearchName(StopOf(k.name))
  BY <1>2, StoredExtent
<1>4. num \in Nums /\ StartOf(k.name) <= num /\ num <= StopOf(k.name)
  <2>1. MaxNum \in Nat
    BY ExtentsAssumption
  <2> QED
    BY <1>2, <1>3, <2>1 DEF Nums
<1>5. Low(k.name) <= SearchName(num) /\ SearchName(num) <= High(k.name) /\ SearchName(num) \in Nat
  BY <1>3, <1>4, SearchOrder
<1>6. PICK z0 : LeafCase(t, z0, SearchName(num), Leaf(t, SearchName(num)))
  BY <1>5, SoundCase
<1>7. KeyAt(t, SearchName(num)) = k
  BY <1>5, <1>6, KeyHere
<1> QED
  BY <1>4, <1>7

(* No two extents hold one block.                                          *)
LEMMA ExtentsApart ==
  ASSUME NEW t, Sound(t), NEW j, Has(t.nodes, j), NEW k, Has(t.nodes, k), NEW num, Holds(j, num), Holds(k, num)
  PROVE  j = k
BY HolderFound

(* No other extent ends between the first block of the one found and the   *)
(* block searched for.                                                     *)
LEMMA TailHere ==
  ASSUME NEW t, NEW z0, NEW num, NEW n, NEW l, NEW K, NEW p, NEW key, At0(t, z0, num, n, l, K, p, key),
         IsExtent(key.name), NEW k, Has(t.nodes, k), IsExtent(k.name),
         StartOf(key.name) <= StopOf(k.name), StopOf(k.name) <= num
  PROVE  k = key
<1> DEFINE a == StartOf(key.name)
           N == t.nodes
           e == StopOf(k.name)
<1>1. /\ Here(t, z0, n, l, K, p) /\ n = SearchName(num) /\ num \in Nums /\ n \in Nat /\ num \in Nat
      /\ LeafCase(t, z0, n, l) /\ l = Leaf(t, n) /\ K = KeysOf(t, l)
  BY At0Is
<1>2. ExtentAt(t, num, K, p, key)
  BY ExtentHere
<1>3. /\ p \in 1 .. Len(K) /\ K[p] = key /\ a \in Nums /\ Stored(key.name) /\ Low(key.name) = SearchName(a)
  BY <1>2 DEF ExtentAt
<1>4. Zoned(N, t.root, z0)
  BY <1>1 DEF LeafCase
<1>5. /\ l \in Blocks(N) /\ N[l].height = 0 /\ N[l].keys = K
  BY <1>1, LeafCaseIs DEF LeafFacts
<1>6. Stored(k.name)
  BY <1>4, HasStored
<1>7. /\ StartOf(k.name) \in Nums /\ e \in Nums /\ StartOf(k.name) <= e
      /\ k.name = Extent(StartOf(k.name), e) /\ High(k.name) = SearchName(e)
  BY <1>6, StoredExtent
<1>8. a <= e /\ e <= num
  OBVIOUS
<1> HIDE DEF a, e
<1>9. SearchName(a) <= SearchName(e) /\ SearchName(e) <= n /\ SearchName(e) \in Nat /\ SearchName(a) \in Nat
  BY <1>1, <1>3, <1>7, <1>8, SearchOrder
<1>10. SearchName(e) \in z0[l]
  <2>1. SearchName(a) \in z0[l] /\ n \in z0[l] /\ Convex(z0[l])
    BY <1>1, <1>3 DEF Here
  <2> QED
    BY <1>9, <2>1 DEF Convex
<1>11. PICK m \in Blocks(N) : N[m].height = 0 /\ \E i \in 1 .. Len(N[m].keys) : N[m].keys[i] = k
  BY DEF Has
<1>12. m = l
  <2>1. LeafOK(N[m].keys, z0[m])
    BY <1>4, <1>11 DEF Zoned, BlockOK
  <2>2. SearchName(e) \in z0[m]
    BY <1>7, <1>11, <2>1 DEF LeafOK
  <2>3. Apart(N, z0, l, m)
    BY <1>4, <1>5 DEF Zoned
  <2> QED
    BY <1>5, <1>10, <1>11, <2>2, <2>3 DEF Apart
<1>13. PICK i \in 1 .. Len(K) : K[i] = k
  BY <1>5, <1>11, <1>12
<1>14. /\ p \in Nat /\ i \in Nat
       /\ \A x, y \in 1 .. Len(K) : x < y => High(K[x].name) < K[y].name
       /\ \A x \in 1 .. Len(K) : K[x].name <= n <=> x <= p
  BY <1>1 DEF Here
<1>15. ~ i < p
  <2>1. ASSUME i < p PROVE FALSE
    <3>1. SearchName(e) < key.name
      BY <1>3, <1>7, <1>13, <1>14, <2>1
    <3>2. key.name <= SearchName(a) /\ key.name \in Nat
      BY <1>3, StoredIs
    <3> QED
      BY <1>9, <3>1, <3>2
  <2> QED
    BY <2>1
<1>16. ~ p < i
  <2>1. StartOf(k.name) <= num
    <3>1. StartOf(k.name) \in Nat /\ e \in Nat
      BY <1>7, SearchOrder
    <3> QED
      BY <1>1, <1>7, <1>8, <3>1
  <2>2. k.name <= n
    <3> DEFINE s == StartOf(k.name)
    <3>1. s \in Nums /\ e \in Nums /\ num \in Nums /\ s <= num /\ k.name = Extent(s, e)
      BY <1>1, <1>7, <2>1
    <3> HIDE DEF s
    <3>2. Extent(s, e) <= SearchName(num)
      BY ONLY <3>1, ExtentBefore
    <3> QED
      BY <1>1, <3>1, <3>2
  <2>3. i <= p
    BY <1>13, <1>14, <2>2
  <2> QED
    BY <1>14, <2>3
<1>17. i = p
  BY <1>14, <1>15, <1>16
<1> QED
  BY <1>3, <1>13, <1>17

-----------------------------------------------------------------------------
(* The invariant: as long as no error() stopped the program, the tree is   *)
(* sound, the extents point to data blocks, and none goes past the end of  *)
(* the file or, while it is cut, past the blocks that are left.            *)

SizesOK ==
  /\ size \in 0 .. MaxNum + 1 /\ reducing \in [num : 0 .. MaxNum + 1, new : Nums]
  /\ reducing = Idle \/ (reducing.num > reducing.new /\ size = reducing.new)

End == IF reducing = Idle THEN size ELSE reducing.num

ExtentsOK(N, end) ==
  \A k : Has(N, k) /\ IsExtent(k.name) => k.data \in DataBlocks /\ StopOf(k.name) < end

Inv == SizesOK /\ (tree.fault = "none" => Sound(tree) /\ ExtentsOK(tree.nodes, End))

LEMMA EndIs == ASSUME SizesOK PROVE End \in 0 .. (MaxNum + 1) /\ End \in Nat
<1>1. MaxNum \in Nat
  BY ExtentsAssumption
<1> QED
  BY <1>1 DEF SizesOK, End

LEMMA ExtentsAfter ==
  ASSUME NEW N, NEW M, NEW D, NEW A, Exchanged(N, M, D, A), NEW e \in Nat, NEW f \in Nat, e <= f,
         ExtentsOK(N, e), \A k : Has(N, k) => Stored(k.name),
         \A k \in A : IsExtent(k.name) => k.data \in DataBlocks /\ StopOf(k.name) < f
  PROVE  ExtentsOK(M, f)
<1>1. ASSUME NEW k, Has(M, k), IsExtent(k.name) PROVE k.data \in DataBlocks /\ StopOf(k.name) < f
  <2>1. Has(N, k) \/ k \in A
    BY <1>1 DEF Exchanged
  <2>2. CASE Has(N, k)
    <3>1. k.data \in DataBlocks /\ StopOf(k.name) < e /\ Stored(k.name)
      BY <1>1, <2>2 DEF ExtentsOK
    <3>2. StopOf(k.name) \in Nums
      BY <1>1, <3>1, StoredExtent
    <3>3. StopOf(k.name) \in Nat
      BY <3>2, SearchOrder
    <3> QED
      BY <3>1, <3>3
  <2>3. CASE k \in A
    BY <1>1, <2>3
  <2> QED
    BY <2>1, <2>2, <2>3
<1> QED
  BY <1>1 DEF ExtentsOK

LEMMA SoundStored ==
  ASSUME NEW t, Sound(t)
  PROVE  \A k : Has(t.nodes, k) => Stored(k.name) /\ k \in KeySet
<1>1. PICK z : Zoned(t.nodes, t.root, z)
  BY DEF Sound
<1> QED
  BY <1>1, HasStored

-----------------------------------------------------------------------------
(* The steps, as exchanges of keys.                                        *)

Wiped(t, u, n) == Outcome(t.nodes, u, Named(t.nodes, n), {})
Written(t, u, n, d) == Outcome(t.nodes, u, Named(t.nodes, n), {[name |-> n, data |-> d]})

LEMMA RemoveStep ==
  ASSUME Sound(tree), NEW n \in Names, KeyOp("O_DELETE", n, 0), tree'.fault = "none"
  PROVE  Wiped(tree, tree', n) /\ UNCHANGED <<size, reducing>>
BY DeleteDone DEF KeyOp, Wiped

LEMMA PutStep ==
  ASSUME Sound(tree), NEW n \in Names, NEW d \in Data, KeyOp("O_REPLACE", n, d), tree'.fault = "none"
  PROVE  Written(tree, tree', n, d) /\ UNCHANGED <<size, reducing>>
BY PutDone DEF KeyOp, Written

LEMMA FoundAt ==
  ASSUME NEW t, Sound(t), NEW num \in Nums, NEW n, n = SearchName(num), NEW l, l = Leaf(t, n),
         NEW key, key = KeyAt(t, n)
  PROVE  \E z0, K, p : At0(t, z0, num, n, l, K, p, key)
<1>1. n \in Nat
  BY SearchOrder
<1>2. PICK z0 : LeafCase(t, z0, n, l)
  BY <1>1, SoundCase
<1>3. At0(t, z0, num, n, l, KeysOf(t, l), FindKey(KeysOf(t, l), n), key)
  BY <1>2 DEF At0
<1> QED
  BY <1>3

Grows(t, u, num, key, b) ==
  \/ /\ Continues(key, num, b) /\ Has(t.nodes, key)
     /\ Outcome(t.nodes, u, {key}, {[name |-> Extent(StartOf(key.name), num), data |-> key.data]})
  \/ Outcome(t.nodes, u, {}, {[name |-> Extent(num, num), data |-> b]})

LEMMA AddedStep ==
  ASSUME NEW t, Sound(t), NEW num \in Nums, NEW n, n = SearchName(num), NEW l, l = Leaf(t, n),
         NEW key, key = KeyAt(t, n), ~ Holds(key, num), NEW b \in DataBlocks,
         NEW u, u.fault = "none",
         u = Search(t, n,
               IF Continues(key, num, b)
               THEN ReplaceKey(t, l, key.name,
                      [name |-> Extent(StartOf(key.name), num), data |-> key.data])
               ELSE InsertKey(t, l, [name |-> Extent(num, num), data |-> b]))
  PROVE  Grows(t, u, num, key, b)
<1>1. PICK z0, K, p : At0(t, z0, num, n, l, K, p, key)
  BY FoundAt
<1>2. CASE Continues(key, num, b)
  <2> DEFINE new == [name |-> Extent(StartOf(key.name), num), data |-> key.data]
  <2>1. IsExtent(key.name)
    BY <1>2 DEF Continues
  <2>2. ExtentAt(t, num, K, p, key)
    BY <1>1, <2>1, ExtentHere
  <2>3. Has(t.nodes, key) /\ StartOf(key.name) <= num
    BY <2>2 DEF ExtentAt
  <2>4. num <= num
    BY SearchOrder
  <2>5. u = Search(t, n, ReplaceKey(t, l, key.name, new))
    BY <1>2
  <2>6. new = [name |-> Extent(StartOf(key.name), num), data |-> key.data]
    OBVIOUS
  <2> HIDE DEF new
  <2>7. Outcome(t.nodes, u, {key}, {new})
    BY ONLY <1>1, <2>1, <2>3, <2>4, <2>5, <2>6, num \in Nums, u.fault = "none", ContinuedHere
  <2> QED
    BY <1>2, <2>3, <2>6, <2>7 DEF Grows
<1>3. CASE ~ Continues(key, num, b)
  <2> DEFINE new == [name |-> Extent(num, num), data |-> b]
  <2>1. u = Search(t, n, InsertKey(t, l, new))
    BY <1>3
  <2>2. new = [name |-> Extent(num, num), data |-> b]
    OBVIOUS
  <2> HIDE DEF new
  <2>3. Outcome(t.nodes, u, {}, {new})
    BY ONLY <1>1, <2>1, <2>2, ~ Holds(key, num), b \in DataBlocks, u.fault = "none", BegunHere
  <2> QED
    BY <2>2, <2>3 DEF Grows
<1> QED
  BY <1>2, <1>3

BlockDone(num) ==
  \/ /\ Holds(KeyAt(tree, SearchName(num)), num) /\ UNCHANGED tree
  \/ /\ ~ Holds(KeyAt(tree, SearchName(num)), num)
     /\ \E b \in DataBlocks \ UsedBlocks : Grows(tree, tree', num, KeyAt(tree, SearchName(num)), b)

LEMMA BlockStep ==
  ASSUME Sound(tree), NEW num \in Nums, GetFileDataBlock(num), tree'.fault = "none"
  PROVE  /\ BlockDone(num)
         /\ size' = (IF num < size THEN size ELSE num + 1) /\ UNCHANGED reducing /\ reducing = Idle
<1> DEFINE n == SearchName(num)
           l == Leaf(tree, n)
           key == KeyAt(tree, n)
<1>1. size' = (IF num < size THEN size ELSE num + 1) /\ UNCHANGED reducing /\ reducing = Idle
  BY DEF GetFileDataBlock, Ready
<1>2. CASE Holds(key, num) /\ UNCHANGED tree
  BY <1>1, <1>2 DEF BlockDone
<1>3. ASSUME ~ Holds(key, num), NEW b \in DataBlocks \ UsedBlocks,
             tree' = Search(tree, n,
               IF Continues(key, num, b)
               THEN ReplaceKey(tree, l, key.name,
                      [name |-> Extent(StartOf(key.name), num), data |-> key.data])
               ELSE InsertKey(tree, l, [name |-> Extent(num, num), data |-> b]))
      PROVE  BlockDone(num)
  <2>1. n = SearchName(num) /\ l = Leaf(tree, n) /\ key = KeyAt(tree, n)
    OBVIOUS
  <2> HIDE DEF n, l, key
  <2>2. Grows(tree, tree', num, key, b)
    BY <1>3, <2>1, AddedStep
  <2> QED
    BY <1>3, <2>1, <2>2 DEF BlockDone
<1>4. (Holds(key, num) /\ UNCHANGED tree) \/
      (~ Holds(key, num) /\ \E b \in DataBlocks \ UsedBlocks :
         tree' = Search(tree, n,
               IF Continues(key, num, b)
               THEN ReplaceKey(tree, l, key.name,
                      [name |-> Extent(StartOf(key.name), num), data |-> key.data])
               ELSE InsertKey(tree, l, [name |-> Extent(num, num), data |-> b])))
  BY DEF GetFileDataBlock
<1> QED
  BY <1>1, <1>2, <1>3, <1>4

(* One pass of reduce_file: the last extent goes, or ends before new.      *)
Cuts(t, u, num, new, key) ==
  /\ IsExtent(key.name) /\ new <= StopOf(key.name) /\ Has(t.nodes, key)
  /\ \A k : /\ Has(t.nodes, k) /\ IsExtent(k.name)
            /\ StartOf(key.name) <= StopOf(k.name) /\ StopOf(k.name) <= num
            => k = key
  /\ \/ StartOf(key.name) >= new /\ Outcome(t.nodes, u, {key}, {})
     \/ /\ StartOf(key.name) < new
        /\ Outcome(t.nodes, u, {key}, {[name |-> Extent(StartOf(key.name), new - 1), data |-> key.data]})

LEMMA CutStep ==
  ASSUME NEW t, Sound(t), NEW num \in Nums, NEW new \in Nums, new <= num,
         NEW n, n = SearchName(num), NEW l, l = Leaf(t, n), NEW key, key = KeyAt(t, n),
         IsExtent(key.name), new <= StopOf(key.name),
         NEW u, u.fault = "none",
         u = Search(t, n,
               IF StartOf(key.name) >= new THEN DeleteKey(t, l, key.name)
               ELSE ReplaceKey(t, l, key.name,
                      [name |-> Extent(StartOf(key.name), new - 1), data |-> key.data]))
  PROVE  Cuts(t, u, num, new, key)
<1>1. PICK z0, K, p : At0(t, z0, num, n, l, K, p, key)
  BY FoundAt
<1>2. ExtentAt(t, num, K, p, key)
  BY <1>1, ExtentHere
<1>3. Has(t.nodes, key) /\ StartOf(key.name) \in Nums
  BY <1>2 DEF ExtentAt
<1>4. ASSUME NEW k, Has(t.nodes, k), IsExtent(k.name),
             StartOf(key.name) <= StopOf(k.name), StopOf(k.name) <= num
      PROVE  k = key
  BY <1>1, <1>4, TailHere
<1>5. MaxNum \in Nat /\ StartOf(key.name) \in Nat /\ new \in Nat /\ num \in Nat
  BY <1>3, ExtentsAssumption DEF Nums
<1>6. CASE StartOf(key.name) >= new
  <2>1. u = Search(t, n, DeleteKey(t, l, key.name))
    BY <1>6
  <2>2. Outcome(t.nodes, u, {key}, {})
    BY ONLY <1>1, <2>1, IsExtent(key.name), u.fault = "none", DroppedHere
  <2> QED
    BY <1>3, <1>4, <1>6, <2>2 DEF Cuts
<1>7. CASE StartOf(key.name) < new
  <2> DEFINE stop == new - 1
             k1 == [name |-> Extent(StartOf(key.name), stop), data |-> key.data]
  <2>1. stop \in Nums /\ StartOf(key.name) <= stop /\ stop <= num
    BY <1>5, <1>7 DEF Nums
  <2>2. u = Search(t, n, ReplaceKey(t, l, key.name, k1))
    BY <1>5, <1>7
  <2>3. k1 = [name |-> Extent(StartOf(key.name), stop), data |-> key.data] /\ stop = new - 1
    OBVIOUS
  <2> HIDE DEF k1, stop
  <2>4. Outcome(t.nodes, u, {key}, {k1})
    BY ONLY <1>1, <2>1, <2>2, <2>3, IsExtent(key.name), u.fault = "none", ContinuedHere
  <2> QED
    BY <1>3, <1>4, <1>7, <2>3, <2>4 DEF Cuts
<1> QED
  BY <1>5, <1>6, <1>7

ReduceDone(num, new, key) ==
  /\ num \in Nums /\ new \in Nums /\ new <= num /\ reducing.num = num + 1 /\ reducing.new = new
  /\ Cuts(tree, tree', num, new, key)
  /\ reducing' = (IF StartOf(key.name) > new THEN [reducing EXCEPT !.num = StartOf(key.name)] ELSE Idle)
  /\ UNCHANGED size /\ reducing # Idle

LEMMA ReduceStep ==
  ASSUME Sound(tree), SizesOK, Reduce, tree'.fault = "none"
  PROVE  ReduceDone(reducing.num - 1, reducing.new, KeyAt(tree, SearchName(reducing.num - 1)))
<1> DEFINE num == reducing.num - 1
           new == reducing.new
           n == SearchName(num)
           l == Leaf(tree, n)
           key == KeyAt(tree, n)
           start == StartOf(key.name)
           first == IF start > new THEN start ELSE new
<1>1. MaxNum \in Nat
  BY ExtentsAssumption
<1>2. reducing # Idle /\ tree.fault = "none" /\ UNCHANGED size
  BY DEF Reduce
<1>3. reducing.num \in 0 .. (MaxNum + 1) /\ new \in Nums /\ reducing.num > new
  BY <1>2 DEF SizesOK
<1>4. num \in Nums /\ new <= num /\ reducing.num = num + 1 /\ new \in Nat
  BY <1>1, <1>3 DEF Nums
<1>5. IF ~ IsExtent(key.name) \/ StopOf(key.name) < new
      THEN tree' = Fail(tree, "extent") /\ UNCHANGED reducing
      ELSE /\ tree' = Search(tree, n,
                 IF first <= start THEN DeleteKey(tree, l, key.name)
                 ELSE ReplaceKey(tree, l, key.name,
                        [name |-> Extent(start, first - 1), data |-> key.data]))
           /\ reducing' = IF first > new THEN [reducing EXCEPT !.num = first] ELSE Idle
  BY DEF Reduce
<1>6. n = SearchName(num) /\ l = Leaf(tree, n) /\ key = KeyAt(tree, n) /\ start = StartOf(key.name)
      /\ new = reducing.new
      /\ first = IF start > new THEN start ELSE new
  OBVIOUS
<1> HIDE DEF num, new, n, l, key, start, first
<1>7. tree \in TreeSet
  BY DEF Sound
<1>8. IsExtent(key.name) /\ ~ StopOf(key.name) < new
  <2>1. Fail(tree, "extent").fault # "none"
    BY <1>7, FailIs DEF Faults
  <2> QED
    BY <1>5, <2>1
<1>9. /\ tree' = Search(tree, n,
                 IF first <= start THEN DeleteKey(tree, l, key.name)
                 ELSE ReplaceKey(tree, l, key.name,
                        [name |-> Extent(start, first - 1), data |-> key.data]))
      /\ reducing' = IF first > new THEN [reducing EXCEPT !.num = first] ELSE Idle
  BY <1>5, <1>8
<1>10. PICK z0, K, p : At0(tree, z0, num, n, l, K, p, key)
  BY <1>4, <1>6, FoundAt
<1>11. start \in Nums /\ start \in Nat /\ StopOf(key.name) \in Nums /\ StopOf(key.name) \in Nat
  <2>1. ExtentAt(tree, num, K, p, key)
    BY <1>8, <1>10, ExtentHere
  <2>2. StartOf(key.name) \in Nums /\ StopOf(key.name) \in Nums
    BY <2>1 DEF ExtentAt
  <2> QED
    BY <1>1, <1>6, <2>2 DEF Nums
<1>12. new <= StopOf(key.name)
  BY <1>4, <1>8, <1>11
<1>13. /\ tree' = Search(tree, n,
                 IF StartOf(key.name) >= new THEN DeleteKey(tree, l, key.name)
                 ELSE ReplaceKey(tree, l, key.name,
                        [name |-> Extent(StartOf(key.name), new - 1), data |-> key.data]))
       /\ reducing' = (IF StartOf(key.name) > new THEN [reducing EXCEPT !.num = StartOf(key.name)] ELSE Idle)
  <2>1. CASE start > new
    <3>1. first = start /\ first <= start /\ first > new
      BY <1>4, <1>6, <1>11, <2>1
    <3>2. start >= new
      BY <1>4, <1>11, <2>1
    <3> QED
      BY <1>6, <1>9, <2>1, <3>1, <3>2
  <2>2. CASE start = new
    <3>1. first = new /\ first <= start /\ ~ first > new /\ ~ start > new /\ start >= new
      BY <1>4, <1>6, <1>11, <2>2
    <3> QED
      BY <1>6, <1>9, <3>1
  <2>3. CASE start < new
    <3>1. first = new /\ ~ first <= start /\ ~ first > new /\ ~ start > new /\ ~ start >= new
      BY <1>4, <1>6, <1>11, <2>3
    <3> QED
      BY <1>6, <1>9, <3>1
  <2> QED
    BY <1>4, <1>11, <2>1, <2>2, <2>3
<1>14. Cuts(tree, tree', num, new, key)
  BY <1>3, <1>4, <1>6, <1>8, <1>12, <1>13, CutStep
<1> QED
  BY <1>2, <1>3, <1>4, <1>6, <1>13, <1>14 DEF ReduceDone, num, n

-----------------------------------------------------------------------------
(* The invariant holds.                                                    *)

LEMMA SoundAtFirst ==
  ASSUME NEW l \in TreeBlocks,
         NEW t, t = [root |-> l, fault |-> "none",
                     nodes |-> [m \in TreeBlocks |->
                       IF m = l THEN [height |-> 0, keys |-> <<>>] ELSE FreeBlock]]
  PROVE  Sound(t) /\ t.fault = "none" /\ \A k : ~ Has(t.nodes, k)
<1> DEFINE N == [m \in TreeBlocks |-> IF m = l THEN [height |-> 0, keys |-> <<>>] ELSE FreeBlock]
           z == [m \in TreeBlocks |-> Nat]
           E == <<>>
<1>1. E \in Seq(KeySet) /\ Len(E) = 0
  OBVIOUS
<1>2. Node(0, E) \in BlockSet /\ Node(0, E).height = 0 /\ Node(0, E).keys = E
  <2>1. E \in Seq(KeySet) /\ 0 \in Int
    BY <1>1
  <2> HIDE DEF E
  <2> QED
    BY ONLY <2>1, NodeIn, NodeFields
<1>3. N \in NodeMap /\ N[l] = Node(0, E) /\ \A m \in TreeBlocks : m # l => N[m] = FreeBlock
  <2>1. [height |-> 0, keys |-> <<>>] = Node(0, E)
    BY DEF Node
  <2> QED
    BY <1>2, <2>1, FreeIn DEF NodeMap
<1>4. t.root = l /\ t.fault = "none" /\ t.nodes = N /\ t \in TreeSet
  BY <1>3 DEF TreeSet, Faults
<1> HIDE DEF N
<1>5. Blocks(N) = {l}
  BY <1>2, <1>3 DEF Blocks, FreeBlock
<1>6. z \in [TreeBlocks -> SUBSET Nat] /\ z[l] = Nat
  OBVIOUS
<1> HIDE DEF z, E
<1>7. Convex(Nat) /\ 0 \in Nat
  BY DEF Convex
<1>8. LeafOK(E, Nat)
  BY <1>1 DEF LeafOK
<1>9. BlockOK(N, l, z, l)
  BY <1>2, <1>3, <1>6, <1>7, <1>8 DEF BlockOK
<1>10. \A x, y \in Blocks(N) : Apart(N, z, x, y)
  BY <1>5 DEF Apart
<1>11. Zoned(N, l, z)
  BY <1>3, <1>5, <1>6, <1>9, <1>10 DEF Zoned
<1>12. FreeSpace(N[l]) >= 0
  <2>1. FreeSpace(Node(0, E)) = BlockSize - HeaderSize
    BY FreeEmpty DEF E
  <2> QED
    BY <1>3, <2>1, SizesAssumption
<1>13. Fits(N)
  BY <1>5, <1>12 DEF Fits
<1>14. \A k : ~ Has(N, k)
  BY <1>1, <1>2, <1>3, <1>5 DEF Has
<1> QED
  BY <1>4, <1>11, <1>13, <1>14 DEF Sound

LEMMA InvInit == Init => Inv
<1> SUFFICES ASSUME Init PROVE Inv
  OBVIOUS
<1>1. PICK l \in TreeBlocks :
        tree = [root |-> l, fault |-> "none",
                nodes |-> [m \in TreeBlocks |->
                  IF m = l THEN [height |-> 0, keys |-> <<>>] ELSE FreeBlock]]
  BY DEF Init
<1>2. Sound(tree) /\ \A k : ~ Has(tree.nodes, k)
  BY <1>1, SoundAtFirst
<1>3. SizesOK
  <2>1. MaxNum \in Nat
    BY ExtentsAssumption
  <2>2. size = 0 /\ reducing = Idle
    BY DEF Init
  <2> QED
    BY <2>1, <2>2 DEF SizesOK, Idle, Nums
<1> QED
  BY <1>2, <1>3 DEF Inv, ExtentsOK

LEMMA KeyOpInv ==
  ASSUME Inv, NEW op \in {"O_DELETE", "O_REPLACE"}, NEW n \in Names, NEW d,
         op = "O_DELETE" => d = 0, op = "O_REPLACE" => d \in Data, KeyOp(op, n, d)
  PROVE  Inv'
<1>1. UNCHANGED <<size, reducing>> /\ tree.fault = "none"
  BY DEF KeyOp, Ready
<1>2. SizesOK' /\ End' = End
  BY <1>1 DEF Inv, SizesOK, End
<1>3. Sound(tree) /\ ExtentsOK(tree.nodes, End) /\ End \in Nat
  BY <1>1, EndIs DEF Inv
<1>4. ASSUME tree'.fault = "none" PROVE Sound(tree') /\ ExtentsOK(tree'.nodes, End)
  <2>1. \A k : Has(tree.nodes, k) => Stored(k.name)
    BY <1>3, SoundStored
  <2>2. CASE op = "O_DELETE"
    <3>1. Outcome(tree.nodes, tree', Named(tree.nodes, n), {})
      BY <1>3, <1>4, <2>2, RemoveStep DEF Wiped
    <3>2. Sound(tree') /\ Exchanged(tree.nodes, tree'.nodes, Named(tree.nodes, n), {})
      BY <3>1 DEF Outcome
    <3> DEFINE D == Named(tree.nodes, n)
               M == tree'.nodes
    <3> HIDE DEF D, M
    <3>3. ExtentsOK(M, End)
      BY <1>3, <2>1, <3>2, ExtentsAfter DEF D, M
    <3> QED
      BY <3>2, <3>3 DEF M
  <2>3. CASE op = "O_REPLACE"
    <3> DEFINE key == [name |-> n, data |-> d]
               D == Named(tree.nodes, n)
               M == tree'.nodes
    <3>1. Sound(tree') /\ Exchanged(tree.nodes, M, D, {key})
      BY <1>3, <1>4, <2>3, PutStep DEF Written, Outcome
    <3>2. ~ IsExtent(key.name)
      BY NameIs
    <3> HIDE DEF D, M, key
    <3>3. \A k \in {key} : IsExtent(k.name) => k.data \in DataBlocks /\ StopOf(k.name) < End
      BY <3>2
    <3>4. ExtentsOK(M, End)
      BY <1>3, <2>1, <3>1, <3>3, ExtentsAfter
    <3> QED
      BY <3>1, <3>4 DEF M
  <2> QED
    BY <2>2, <2>3
<1> QED
  BY <1>2, <1>4 DEF Inv

LEMMA GrownEnd ==
  ASSUME NEW t, Sound(t), NEW u, NEW num \in Nums, NEW key, NEW b \in DataBlocks, Grows(t, u, num, key, b),
         NEW e \in Nat, NEW f \in Nat, e <= f, num < f, ExtentsOK(t.nodes, e)
  PROVE  Sound(u) /\ ExtentsOK(u.nodes, f)
<1>1. \A k : Has(t.nodes, k) => Stored(k.name)
  BY SoundStored
<1>2. num <= num
  BY SearchOrder
<1>3. CASE Continues(key, num, b) /\ Has(t.nodes, key)
           /\ Outcome(t.nodes, u, {key}, {[name |-> Extent(StartOf(key.name), num), data |-> key.data]})
  <2> DEFINE new == [name |-> Extent(StartOf(key.name), num), data |-> key.data]
  <2>1. Sound(u) /\ Exchanged(t.nodes, u.nodes, {key}, {new})
    BY <1>3 DEF Outcome
  <2>2. IsExtent(key.name) /\ StopOf(key.name) = num - 1 /\ Stored(key.name)
    BY <1>1, <1>3 DEF Continues
  <2>3. StartOf(key.name) \in Nums /\ StartOf(key.name) <= num - 1
    BY <2>2, StoredExtent
  <2>4. StartOf(key.name) \in Nat /\ num \in Nat
    BY <2>3, SearchOrder
  <2>5. StartOf(key.name) <= num
    BY <2>3, <2>4
  <2>6. StopOf(new.name) = num
    BY <2>3, <2>5, ExtentStored
  <2>7. new.data \in DataBlocks
    BY <1>3, <2>2 DEF ExtentsOK
  <2> HIDE DEF new
  <2>8. \A k \in {new} : IsExtent(k.name) => k.data \in DataBlocks /\ StopOf(k.name) < f
    BY <2>6, <2>7
  <2>9. ExtentsOK(u.nodes, f)
    BY <1>1, <2>1, <2>8, ExtentsAfter
  <2> QED
    BY <2>1, <2>9
<1>4. CASE Outcome(t.nodes, u, {}, {[name |-> Extent(num, num), data |-> b]})
  <2> DEFINE new == [name |-> Extent(num, num), data |-> b]
  <2>1. Sound(u) /\ Exchanged(t.nodes, u.nodes, {}, {new})
    BY <1>4 DEF Outcome
  <2>2. StopOf(new.name) = num /\ new.data = b
    BY <1>2, ExtentStored
  <2> HIDE DEF new
  <2>3. \A k \in {new} : IsExtent(k.name) => k.data \in DataBlocks /\ StopOf(k.name) < f
    BY <2>2
  <2>4. ExtentsOK(u.nodes, f)
    BY <1>1, <2>1, <2>3, ExtentsAfter
  <2> QED
    BY <2>1, <2>4
<1> QED
  BY <1>3, <1>4 DEF Grows

LEMMA BlockInv ==
  ASSUME Inv, NEW num \in Nums, GetFileDataBlock(num)
  PROVE  Inv'
<1>0. MaxNum \in Nat /\ num \in Nat /\ num <= MaxNum
  BY ExtentsAssumption DEF Nums
<1>1. tree.fault = "none" /\ reducing = Idle /\ reducing' = Idle
      /\ size' = (IF num < size THEN size ELSE num + 1)
  BY DEF GetFileDataBlock, Ready
<1>2. size \in 0 .. (MaxNum + 1)
  BY DEF Inv, SizesOK
<1>3. size' \in 0 .. (MaxNum + 1) /\ size <= size' /\ num < size' /\ size \in Nat /\ size' \in Nat
  BY <1>0, <1>1, <1>2
<1>4. SizesOK' /\ End = size /\ End' = size'
  BY <1>1, <1>3 DEF Inv, SizesOK, End
<1>5. Sound(tree) /\ ExtentsOK(tree.nodes, size)
  BY <1>1, <1>4 DEF Inv
<1>6. ASSUME tree'.fault = "none" PROVE Sound(tree') /\ ExtentsOK(tree'.nodes, size')
  <2>1. BlockDone(num)
    BY <1>5, <1>6, BlockStep
  <2>2. CASE UNCHANGED tree
    <3>1. ASSUME NEW k, Has(tree.nodes, k), IsExtent(k.name) PROVE k.data \in DataBlocks /\ StopOf(k.name) < size'
      <4>1. k.data \in DataBlocks /\ StopOf(k.name) < size /\ Stored(k.name)
        BY <1>5, <3>1, SoundStored DEF ExtentsOK
      <4>2. StopOf(k.name) \in Nat
        BY <3>1, <4>1, StoredExtent, SearchOrder
      <4> QED
        BY <1>3, <4>1, <4>2
    <3> QED
      BY <1>5, <2>2, <3>1 DEF ExtentsOK
  <2>3. ASSUME NEW b \in DataBlocks, Grows(tree, tree', num, KeyAt(tree, SearchName(num)), b)
        PROVE  Sound(tree') /\ ExtentsOK(tree'.nodes, size')
    BY <1>3, <1>5, <2>3, GrownEnd
  <2> QED
    BY <2>1, <2>2, <2>3 DEF BlockDone
<1> QED
  BY <1>4, <1>6 DEF Inv

LEMMA TruncateInv ==
  ASSUME Inv, NEW new \in Nums, Truncate(new)
  PROVE  Inv'
<1>0. MaxNum \in Nat /\ new \in Nat /\ new <= MaxNum
  BY ExtentsAssumption DEF Nums
<1>1. tree.fault = "none" /\ reducing = Idle /\ UNCHANGED tree /\ size' = new
      /\ reducing' = IF new < size THEN [num |-> size, new |-> new] ELSE Idle
  BY DEF Truncate, Ready
<1>2. size \in 0 .. (MaxNum + 1) /\ size \in Nat
  BY <1>0 DEF Inv, SizesOK
<1>3. SizesOK'
  <2>1. size' \in 0 .. (MaxNum + 1)
    BY <1>0, <1>1
  <2>2. CASE new < size
    BY <1>0, <1>1, <1>2, <2>1, <2>2 DEF SizesOK
  <2>3. CASE ~ new < size
    <3>1. reducing' = reducing
      BY <1>1, <2>3
    <3> QED
      BY <1>1, <2>1, <3>1 DEF Inv, SizesOK
  <2> QED
    BY <2>2, <2>3
<1>4. End = size /\ End' \in Nat /\ size <= End'
  <2>1. CASE new < size
    <3>1. reducing' = [num |-> size, new |-> new] /\ size # 0
      BY <1>0, <1>1, <1>2, <2>1
    <3> QED
      BY <1>1, <1>2, <3>1 DEF End, Idle
  <2>2. CASE ~ new < size
    BY <1>0, <1>1, <1>2, <2>2 DEF End
  <2> QED
    BY <2>1, <2>2
<1>5. Sound(tree) /\ ExtentsOK(tree.nodes, size)
  BY <1>1, <1>4 DEF Inv
<1> DEFINE e == End'
<1>6. e \in Nat /\ size <= e
  BY <1>4
<1> HIDE DEF e
<1>7. ASSUME NEW k, Has(tree.nodes, k), IsExtent(k.name) PROVE k.data \in DataBlocks /\ StopOf(k.name) < e
  <2>1. k.data \in DataBlocks /\ StopOf(k.name) < size /\ Stored(k.name)
    BY <1>5, <1>7, SoundStored DEF ExtentsOK
  <2>2. StopOf(k.name) \in Nat
    BY <1>7, <2>1, StoredExtent, SearchOrder
  <2> QED
    BY <1>2, <1>6, <2>1, <2>2
<1>8. ExtentsOK(tree.nodes, e)
  BY <1>7 DEF ExtentsOK
<1> QED
  BY <1>1, <1>3, <1>5, <1>8 DEF Inv, e

LEMMA CutEnd ==
  ASSUME NEW t, Sound(t), NEW u, NEW num \in Nums, NEW new \in Nums, NEW key, Cuts(t, u, num, new, key),
         NEW e, e = num + 1, ExtentsOK(t.nodes, e),
         NEW f, f = IF StartOf(key.name) > new THEN StartOf(key.name) ELSE new
  PROVE  Sound(u) /\ ExtentsOK(u.nodes, f) /\ StartOf(key.name) \in Nums
<1>1. /\ IsExtent(key.name) /\ new <= StopOf(key.name) /\ Has(t.nodes, key)
  BY DEF Cuts
<1>2. Stored(key.name) /\ key.data \in DataBlocks
  BY <1>1, SoundStored DEF ExtentsOK
<1>3. StartOf(key.name) \in Nums /\ StartOf(key.name) \in Nat /\ num \in Nat /\ new \in Nat
  BY <1>1, <1>2, StoredExtent, SearchOrder
<1>4. f \in Nat /\ StartOf(key.name) <= f /\ new <= f
  BY <1>3
<1>5. ASSUME NEW k, Has(t.nodes, k), IsExtent(k.name), k # key
      PROVE  k.data \in DataBlocks /\ StopOf(k.name) < f
  <2>1. k.data \in DataBlocks /\ StopOf(k.name) < num + 1 /\ Stored(k.name)
    BY <1>5, SoundStored DEF ExtentsOK
  <2>2. StopOf(k.name) \in Nums /\ StopOf(k.name) \in Nat
    BY <1>5, <2>1, StoredExtent, SearchOrder
  <2>3. StopOf(k.name) <= num
    BY <1>3, <2>1, <2>2
  <2>4. ~ StartOf(key.name) <= StopOf(k.name)
    BY <1>5, <2>3 DEF Cuts
  <2> QED
    BY <1>3, <1>4, <2>1, <2>2, <2>4
<1>6. CASE StartOf(key.name) >= new /\ Outcome(t.nodes, u, {key}, {})
  <2>1. Sound(u) /\ Exchanged(t.nodes, u.nodes, {key}, {})
    BY <1>6 DEF Outcome
  <2>2. ASSUME NEW k, Has(u.nodes, k), IsExtent(k.name) PROVE k.data \in DataBlocks /\ StopOf(k.name) < f
    <3>1. Has(t.nodes, k) /\ k # key
      BY <2>1, <2>2 DEF Exchanged
    <3> QED
      BY <1>5, <2>2, <3>1
  <2> QED
    BY <1>3, <2>1, <2>2 DEF ExtentsOK
<1>7. CASE /\ StartOf(key.name) < new
           /\ Outcome(t.nodes, u, {key}, {[name |-> Extent(StartOf(key.name), new - 1), data |-> key.data]})
  <2> DEFINE k1 == [name |-> Extent(StartOf(key.name), new - 1), data |-> key.data]
  <2>1. Sound(u) /\ Exchanged(t.nodes, u.nodes, {key}, {k1})
    BY <1>7 DEF Outcome
  <2>2. new - 1 \in Nums /\ StartOf(key.name) <= new - 1
    <3>1. MaxNum \in Nat
      BY ExtentsAssumption
    <3> QED
      BY <1>3, <1>7, <3>1 DEF Nums
  <2>3. StopOf(k1.name) = new - 1 /\ k1.data = key.data
    BY <1>3, <2>2, ExtentStored
  <2> HIDE DEF k1
  <2>4. k1.data \in DataBlocks /\ StopOf(k1.name) < f
    BY <1>2, <1>3, <1>4, <2>3
  <2>5. ASSUME NEW k, Has(u.nodes, k), IsExtent(k.name) PROVE k.data \in DataBlocks /\ StopOf(k.name) < f
    <3>1. (Has(t.nodes, k) /\ k # key) \/ k = k1
      BY <2>1, <2>5 DEF Exchanged
    <3> QED
      BY <1>5, <2>4, <2>5, <3>1
  <2> QED
    BY <1>3, <2>1, <2>5 DEF ExtentsOK
<1> QED
  BY <1>6, <1>7 DEF Cuts

LEMMA ReduceInv ==
  ASSUME Inv, Reduce
  PROVE  Inv'
<1> DEFINE num == reducing.num - 1
           new == reducing.new
           key == KeyAt(tree, SearchName(num))
           f == IF StartOf(key.name) > new THEN StartOf(key.name) ELSE new
<1>0. MaxNum \in Nat
  BY ExtentsAssumption
<1>1. tree.fault = "none" /\ reducing # Idle /\ UNCHANGED size
  BY DEF Reduce
<1>2. SizesOK /\ Sound(tree) /\ ExtentsOK(tree.nodes, reducing.num)
  BY <1>1 DEF Inv, End
<1>3. /\ reducing \in [num : 0 .. (MaxNum + 1), new : Nums] /\ reducing.num > reducing.new
      /\ size = reducing.new /\ size \in 0 .. (MaxNum + 1)
  BY <1>1, <1>2 DEF SizesOK
<1>4. CASE tree'.fault = "none"
  <2>1. ReduceDone(num, new, key)
    BY <1>2, <1>4, ReduceStep
  <2>2. /\ num \in Nums /\ new \in Nums /\ new <= num /\ reducing.num = num + 1 /\ reducing.new = new
        /\ Cuts(tree, tree', num, new, key)
        /\ reducing' = (IF StartOf(key.name) > new THEN [reducing EXCEPT !.num = StartOf(key.name)] ELSE Idle)
    BY <2>1 DEF ReduceDone
  <2>3. f = IF StartOf(key.name) > new THEN StartOf(key.name) ELSE new
    OBVIOUS
  <2> HIDE DEF num, new, key, f
  <2>4. Sound(tree') /\ ExtentsOK(tree'.nodes, f) /\ StartOf(key.name) \in Nums
    BY <1>2, <2>2, <2>3, CutEnd
  <2>5. StartOf(key.name) \in 0 .. (MaxNum + 1) /\ StartOf(key.name) \in Nat /\ new \in Nat
    BY <1>0, <2>2, <2>4 DEF Nums
  <2>6. CASE StartOf(key.name) > new
    <3>1. reducing' = [reducing EXCEPT !.num = StartOf(key.name)]
      BY <2>2, <2>6
    <3>2. reducing'.num = StartOf(key.name) /\ reducing'.new = new
          /\ reducing' \in [num : 0 .. (MaxNum + 1), new : Nums]
      BY <1>3, <2>2, <2>5, <3>1
    <3>3. SizesOK'
      BY <1>1, <1>3, <2>2, <2>6, <3>2 DEF SizesOK
    <3>4. reducing' # Idle
      BY <2>5, <2>6, <3>2 DEF Idle
    <3>5. End' = f
      BY <2>3, <2>6, <3>2, <3>4 DEF End
    <3> QED
      BY <2>4, <3>3, <3>5 DEF Inv
  <2>7. CASE ~ StartOf(key.name) > new
    <3>1. reducing' = Idle
      BY <2>2, <2>7
    <3>2. SizesOK'
      BY <1>0, <1>1, <1>3, <3>1 DEF SizesOK, Idle, Nums
    <3>3. End' = f
      BY <1>1, <1>3, <2>2, <2>3, <2>7, <3>1 DEF End
    <3> QED
      BY <2>4, <3>2, <3>3 DEF Inv
  <2> QED
    BY <2>6, <2>7
<1>5. CASE tree'.fault # "none"
  <2>1. \/ UNCHANGED reducing
        \/ IsExtent(key.name) /\ reducing' = IF f > new THEN [reducing EXCEPT !.num = f] ELSE Idle
    BY DEF Reduce
  <2>2. CASE UNCHANGED reducing
    BY <1>1, <1>2, <1>5, <2>2 DEF Inv, SizesOK
  <2>3. CASE IsExtent(key.name) /\ reducing' = IF f > new THEN [reducing EXCEPT !.num = f] ELSE Idle
    <3>1. num \in Nums /\ new \in Nat /\ new \in Nums
      BY <1>0, <1>3 DEF Nums
    <3> DEFINE n == SearchName(num)
    <3>2. n = SearchName(num) /\ key = KeyAt(tree, n)
      OBVIOUS
    <3>3. f = (IF StartOf(key.name) > new THEN StartOf(key.name) ELSE new) /\ new = reducing.new
      OBVIOUS
    <3> HIDE DEF num, new, key, f, n
    <3>4. PICK z0, l, K, p : At0(tree, z0, num, n, l, K, p, key)
      BY <1>2, <3>1, <3>2, FoundAt
    <3>5. ExtentAt(tree, num, K, p, key)
      BY <2>3, <3>4, ExtentHere
    <3>6. StartOf(key.name) \in 0 .. (MaxNum + 1) /\ StartOf(key.name) \in Nat
      BY <1>0, <3>5 DEF ExtentAt, Nums
    <3>7. CASE f > new
      <4>1. reducing' = [reducing EXCEPT !.num = f] /\ f \in 0 .. (MaxNum + 1)
        BY <2>3, <3>1, <3>3, <3>6, <3>7
      <4>2. reducing'.num = f /\ reducing'.new = new /\ reducing' \in [num : 0 .. (MaxNum + 1), new : Nums]
        BY <1>3, <3>3, <4>1
      <4>3. SizesOK'
        BY <1>1, <1>3, <3>3, <3>7, <4>2 DEF SizesOK
      <4> QED
        BY <1>5, <4>3 DEF Inv
    <3>8. CASE ~ f > new
      <4>1. reducing' = Idle
        BY <2>3, <3>8
      <4>2. SizesOK'
        BY <1>0, <1>1, <1>3, <4>1 DEF SizesOK, Idle, Nums
      <4> QED
        BY <1>5, <4>2 DEF Inv
    <3> QED
      BY <3>7, <3>8
  <2> QED
    BY <2>1, <2>2, <2>3
<1> QED
  BY <1>4, <1>5

LEMMA InvNext == Inv /\ [Next]_vars => Inv'
<1> SUFFICES ASSUME Inv, [Next]_vars PROVE Inv'
  OBVIOUS
<1>1. CASE UNCHANGED vars
  BY <1>1 DEF vars, Inv, SizesOK, End
<1>2. ASSUME NEW n \in Names, KeyOp("O_DELETE", n, 0) PROVE Inv'
  BY <1>2, KeyOpInv
<1>3. ASSUME NEW n \in Names, NEW d \in Data, KeyOp("O_REPLACE", n, d) PROVE Inv'
  BY <1>3, KeyOpInv
<1>4. ASSUME NEW num \in Nums, GetFileDataBlock(num) PROVE Inv'
  BY <1>4, BlockInv
<1>5. ASSUME NEW num \in Nums, Truncate(num) PROVE Inv'
  BY <1>5, TruncateInv
<1>6. CASE Reduce
  BY <1>6, ReduceInv
<1> QED
  BY <1>1, <1>2, <1>3, <1>4, <1>5, <1>6 DEF Next

(* As long as no error() stops the program, the tree is sound: below its   *)
(* root each name has one way down to one leaf, every key is in the leaf   *)
(* its searches come to, and every block fits.                             *)
THEOREM TreeSound == Spec => []Inv
<1>1. Inv /\ [Next]_vars => Inv'
  BY InvNext
<1> QED
  BY <1>1, InvInit, PTL DEF Spec

-----------------------------------------------------------------------------
(* What follows for the properties.                                        *)

LEMMA LocsOf == Locs(tree) = Blocks(tree.nodes)
  BY LocsAre

LEMMA InvTypes == Inv /\ NoError => TypeOK
<1> SUFFICES ASSUME Inv, NoError PROVE TypeOK
  OBVIOUS
<1> DEFINE N == tree.nodes
<1>1. SizesOK /\ Sound(tree)
  BY DEF Inv, NoError
<1>2. PICK z : Zoned(N, tree.root, z)
  BY <1>1 DEF Sound
<1>3. Fits(N)
  BY <1>1 DEF Sound
<1> HIDE DEF N
<1>4. tree.root \in Blocks(N)
  BY <1>2 DEF Zoned
<1>5. ASSUME NEW l \in Blocks(N)
      PROVE  /\ FreeSpace(N[l]) >= 0
             /\ \A i \in 1 .. Len(N[l].keys) - 1 : N[l].keys[i].name < N[l].keys[i + 1].name
             /\ N[l].height > 0 =>
                  /\ Len(N[l].keys) > 0 /\ N[l].keys[1].name = 0
                  /\ \A i \in DOMAIN N[l].keys :
                       /\ N[l].keys[i].data \in Blocks(N)
                       /\ N[N[l].keys[i].data].height = N[l].height - 1
  <2>1. FreeSpace(N[l]) >= 0
    BY <1>3 DEF Fits
  <2>2. Sorted(N[l].keys) /\ N[l].keys \in Seq(KeySet)
    BY <1>2, ZonedSorted, ZonedTypes
  <2>3. ASSUME NEW i \in 1 .. Len(N[l].keys) - 1 PROVE N[l].keys[i].name < N[l].keys[i + 1].name
    <3>1. i \in 1 .. Len(N[l].keys) /\ i + 1 \in 1 .. Len(N[l].keys) /\ i < i + 1
      BY <2>2
    <3> QED
      BY <2>2, <3>1 DEF Sorted
  <2>4. ASSUME N[l].height > 0
        PROVE  /\ Len(N[l].keys) > 0 /\ N[l].keys[1].name = 0
               /\ \A i \in DOMAIN N[l].keys :
                    /\ N[l].keys[i].data \in Blocks(N)
                    /\ N[N[l].keys[i].data].height = N[l].height - 1
    <3>1. InnerOK(N, z, l)
      BY <1>2, <2>4 DEF Zoned, BlockOK
    <3>2. DOMAIN N[l].keys = 1 .. Len(N[l].keys)
      BY <2>2
    <3> QED
      BY <3>1, <3>2 DEF InnerOK, Child
  <2> QED
    BY <2>1, <2>3, <2>4
<1>6. size \in 0 .. MaxNum + 1 /\ reducing \in [num : 0 .. MaxNum + 1, new : Nums]
  BY <1>1 DEF SizesOK
<1> QED
  BY <1>4, <1>5, <1>6, LocsOf DEF TypeOK, N

(* Blocks are records of sorted keys that fit, heights count down to the   *)
(* leaves, every block of children starts with "": splits, merges and      *)
(* searches keep this up for trees of any size, until an error() stops the *)
(* program.                                                                *)
THEOREM ExtentsTypes == Spec => [](NoError => TypeOK)
BY TreeSound, InvTypes, PTL

LEMMA NamesFound == Inv /\ NoError => KeysFound
<1> SUFFICES ASSUME Inv, NoError, NEW k \in LeafKeys, k.name \in Names
             PROVE  KeyAt(tree, k.name) = k
  BY DEF KeysFound
<1>1. Sound(tree)
  BY DEF Inv, NoError
<1>2. Has(tree.nodes, k)
  <2>1. PICK l \in Blocks(tree.nodes) : tree.nodes[l].height = 0 /\ k \in ToSet(tree.nodes[l].keys)
    BY LocsOf DEF LeafKeys
  <2>2. PICK z : Zoned(tree.nodes, tree.root, z)
    BY <1>1 DEF Sound
  <2>3. tree.nodes[l].keys \in Seq(KeySet)
    BY <2>2, ZonedTypes
  <2> QED
    BY <2>1, <2>3 DEF Has, ToSet
<1> DEFINE n == k.name
<1>3. n \in Nat /\ Low(n) = n /\ High(n) = n
  BY NameIs
<1>4. PICK z0 : LeafCase(tree, z0, n, Leaf(tree, n))
  BY <1>1, <1>3, SoundCase
<1>5. Low(k.name) <= n /\ n <= High(k.name)
  BY <1>3
<1> HIDE DEF n
<1>6. KeyAt(tree, n) = k
  BY <1>2, <1>4, <1>5, KeyHere
<1> QED
  BY <1>6 DEF n

(* An exact search finds each plain key with its data, whatever splits,    *)
(* merges, deletions and stale separators came before: the leaf a search   *)
(* comes to is the one whose zone the name is in.                          *)
THEOREM KeysStayFound == Spec => [](NoError => KeysFound)
BY TreeSound, NamesFound, PTL

LEMMA ParentOf ==
  ASSUME NEW t \in TreeSet, NEW z, Zoned(t.nodes, t.root, z), NEW l \in Blocks(t.nodes), l # t.root
  PROVE  \E m \in Blocks(t.nodes) : /\ t.nodes[m].height > 0
           /\ \E i \in 1 .. Len(t.nodes[m].keys) : t.nodes[m].keys[i].data = l
<1> DEFINE N == t.nodes
           h == N[l].height
<1>1. h \in Nat /\ h <= N[t.root].height /\ z[l] \in SUBSET Nat /\ z[l] # {} /\ N[t.root].height \in Nat
  BY ZonedTypes
<1>2. PICK n \in z[l] : n \in Nat
  BY <1>1
<1>3. OnWay(t, z, n, h, l)
  BY DEF OnWay
<1>4. h # Height(t)
  <2>1. ASSUME h = Height(t) PROVE FALSE
    <3>1. OnWay(t, z, n, h, t.root)
      BY <1>2, <2>1, HeightIs
    <3> QED
      BY <1>2, <1>3, <3>1, OneWay
  <2> QED
    BY <2>1
<1>5. h + 1 \in 0 .. Height(t)
  <2>1. Height(t) = N[t.root].height
    BY DEF Height
  <2> QED
    BY <1>1, <1>4, <2>1
<1> HIDE DEF h
<1>6. PICK m : OnWay(t, z, n, h + 1, m)
  <2> DEFINE g == h + 1
  <2>1. g \in 0 .. Height(t)
    BY <1>5
  <2> HIDE DEF g
  <2>2. \E m : OnWay(t, z, n, g, m)
    BY <1>2, <2>1, Ways
  <2> QED
    BY <2>2 DEF g
<1>7. OnWay(t, z, n, h, ChildOf(t, m, n))
  BY <1>1, <1>2, <1>6, WayDown
<1>8. ChildOf(t, m, n) = l
  BY <1>2, <1>3, <1>7, OneWay
<1>9. m \in Blocks(N) /\ N[m].height = h + 1 /\ n \in z[m]
  BY <1>6 DEF OnWay
<1>10. N[m].height > 0
  BY <1>1, <1>9
<1>11. FindKey(N[m].keys, n) \in 1 .. Len(N[m].keys)
  <2> DEFINE K == N[m].keys
  <2>1. K = N[m].keys
    OBVIOUS
  <2> HIDE DEF K, N
  <2>2. FindKey(K, n) \in 1 .. Len(K)
    BY <1>9, <1>10, <2>1, ChildFor DEF N
  <2> QED
    BY <2>1, <2>2
<1> QED
  BY <1>8, <1>9, <1>10, <1>11 DEF ChildOf

-----------------------------------------------------------------------------
(* Every block but the root has one parent.                                *)

Repoints(N, l, p) ==
  \E m \in Blocks(N) : /\ N[m].height > 0
                       /\ \E i \in 1 .. Len(N[m].keys) : p = <<m, i>> /\ N[m].keys[i].data = l

LEMMA RootHasNone ==
  ASSUME NEW t \in TreeSet, NEW z, Zoned(t.nodes, t.root, z), NEW p
  PROVE  ~ Repoints(t.nodes, t.root, p)
<1> DEFINE N == t.nodes
<1> SUFFICES ASSUME NEW m \in Blocks(N), N[m].height > 0, NEW i \in 1 .. Len(N[m].keys),
                    N[m].keys[i].data = t.root
             PROVE  FALSE
  BY DEF Repoints
<1>1. InnerOK(N, z, m)
  BY DEF Zoned, BlockOK
<1>2. N[t.root].height = N[m].height - 1
  BY <1>1 DEF InnerOK, Child
<1>3. N[m].height <= N[t.root].height /\ N[m].height \in Nat /\ N[t.root].height \in Nat
  BY ZonedTypes
<1> HIDE DEF N
<1> QED
  BY <1>2, <1>3

LEMMA OtherHasOne ==
  ASSUME NEW t \in TreeSet, NEW z, Zoned(t.nodes, t.root, z), NEW l \in Blocks(t.nodes), l # t.root
  PROVE  \E p : Repoints(t.nodes, l, p) /\ \A q : Repoints(t.nodes, l, q) => q = p
<1> DEFINE N == t.nodes
<1>1. PICK m \in Blocks(N) : /\ N[m].height > 0
                             /\ \E i \in 1 .. Len(N[m].keys) : N[m].keys[i].data = l
  BY ParentOf
<1>2. PICK i \in 1 .. Len(N[m].keys) : N[m].keys[i].data = l
  BY <1>1
<1>3. Repoints(N, l, <<m, i>>)
  BY <1>1, <1>2 DEF Repoints
<1>4. ASSUME NEW q, Repoints(N, l, q) PROVE q = <<m, i>>
  <2>1. PICK k \in Blocks(N) : /\ N[k].height > 0
               /\ \E j \in 1 .. Len(N[k].keys) : q = <<k, j>> /\ N[k].keys[j].data = l
    BY <1>4 DEF Repoints
  <2>2. PICK j \in 1 .. Len(N[k].keys) : q = <<k, j>> /\ N[k].keys[j].data = l
    BY <2>1
  <2>3. Zoned(N, t.root, z) /\ N[m].keys[i].data = N[k].keys[j].data
    BY <1>2, <2>2
  <2> HIDE DEF N
  <2>4. m = k /\ i = j
    BY ONLY <1>1, <2>1, <2>3, OneParent
  <2> QED
    BY <2>2, <2>4
<1> QED
  BY <1>3, <1>4

LEMMA InvReached == Inv /\ NoError => ReachedOnce
<1> SUFFICES ASSUME Inv, NoError PROVE ReachedOnce
  OBVIOUS
<1> DEFINE N == tree.nodes
           Parents(l) == {p \in UNION {{m} \X DOMAIN N[m].keys :
                                 m \in {k \in Blocks(N) : N[k].height > 0}} :
                            N[p[1]].keys[p[2]].data = l}
<1>1. Sound(tree)
  BY DEF Inv, NoError
<1>2. PICK z : Zoned(N, tree.root, z)
  BY <1>1 DEF Sound
<1>3. tree \in TreeSet
  BY <1>1 DEF Sound
<1>4. \A m \in Blocks(N) : N[m].keys \in Seq(KeySet) /\ DOMAIN N[m].keys = 1 .. Len(N[m].keys)
  <2> SUFFICES ASSUME NEW m \in Blocks(N) PROVE N[m].keys \in Seq(KeySet)
    OBVIOUS
  <2> QED
    BY <1>2, ZonedTypes
<1>5. ASSUME NEW l PROVE \A p : p \in Parents(l) <=> Repoints(N, l, p)
  <2>1. ASSUME NEW p \in Parents(l) PROVE Repoints(N, l, p)
    <3>1. PICK m \in Blocks(N) : N[m].height > 0 /\ p \in {m} \X DOMAIN N[m].keys
      OBVIOUS
    <3>2. PICK i \in 1 .. Len(N[m].keys) : p = <<m, i>>
      BY <1>4, <3>1
    <3>3. N[m].keys[i].data = l
      BY <3>2
    <3> QED
      BY <3>1, <3>2, <3>3 DEF Repoints
  <2>2. ASSUME NEW p, Repoints(N, l, p) PROVE p \in Parents(l)
    <3>1. PICK m \in Blocks(N) : /\ N[m].height > 0
             /\ \E i \in 1 .. Len(N[m].keys) : p = <<m, i>> /\ N[m].keys[i].data = l
      BY <2>2 DEF Repoints
    <3>2. PICK i \in 1 .. Len(N[m].keys) : p = <<m, i>> /\ N[m].keys[i].data = l
      BY <3>1
    <3>3. p \in {m} \X DOMAIN N[m].keys
      BY <1>4, <3>2
    <3> QED
      BY <3>1, <3>2, <3>3
  <2> QED
    BY <2>1, <2>2
<1>6. ASSUME NEW l \in Blocks(N) PROVE Cardinality(Parents(l)) = (IF l = tree.root THEN 0 ELSE 1)
  <2>1. ASSUME l = tree.root PROVE Cardinality(Parents(l)) = 0
    <3>1. \A p : ~ Repoints(N, l, p)
      BY <1>2, <1>3, <2>1, RootHasNone
    <3>2. \A p : p \notin Parents(l)
      BY <1>5, <3>1
    <3> HIDE DEF Parents
    <3>3. Parents(l) = {}
      BY <3>2
    <3> QED
      BY <3>3, FS_EmptySet
  <2>2. ASSUME l # tree.root PROVE Cardinality(Parents(l)) = 1
    <3>1. PICK p : Repoints(N, l, p) /\ \A q : Repoints(N, l, q) => q = p
      BY <1>2, <1>3, <2>2, OtherHasOne
    <3> HIDE DEF Parents
    <3>4. \A q : q \in Parents(l) <=> Repoints(N, l, q)
      BY <1>5
    <3> HIDE DEF N
    <3>2. \A q : q \in Parents(l) <=> q = p
      BY <3>1, <3>4
    <3>3. Parents(l) = {p}
      BY <3>2
    <3> QED
      BY <3>3, FS_Singleton
  <2> QED
    BY <2>1, <2>2
<1>7. Locs(tree) = Blocks(N)
  BY LocsOf
<1> QED
  BY <1>6, <1>7 DEF ReachedOnce

(* Splits, merges and changes of the root neither leak a block nor give    *)
(* one back that is in use: every block but the root is the child of one   *)
(* key.                                                                    *)
THEOREM ParentsUnique == Spec => [](NoError => ReachedOnce)
BY TreeSound, InvReached, PTL

-----------------------------------------------------------------------------
(* The map the leaves hold.                                                *)

LeavesKeys(t) ==
  UNION {ToSet(t.nodes[l].keys) : l \in {m \in Locs(t) : t.nodes[m].height = 0}}

LEMMA LeavesHave ==
  ASSUME NEW t, Sound(t)
  PROVE  \A k : k \in LeavesKeys(t) <=> Has(t.nodes, k)
<1>1. PICK z : Zoned(t.nodes, t.root, z)
  BY DEF Sound
<1>2. Locs(t) = Blocks(t.nodes)
  BY LocsAre
<1>3. \A l \in Blocks(t.nodes) : \A k : k \in ToSet(t.nodes[l].keys) <=>
        \E i \in 1 .. Len(t.nodes[l].keys) : t.nodes[l].keys[i] = k
  <2> SUFFICES ASSUME NEW l \in Blocks(t.nodes)
               PROVE  \A k : k \in ToSet(t.nodes[l].keys) <=>
                        \E i \in 1 .. Len(t.nodes[l].keys) : t.nodes[l].keys[i] = k
    OBVIOUS
  <2>1. t.nodes[l].keys \in Seq(KeySet)
    BY <1>1, ZonedTypes
  <2>2. DOMAIN t.nodes[l].keys = 1 .. Len(t.nodes[l].keys)
    BY <2>1
  <2> QED
    BY <2>2 DEF ToSet
<1>4. \A k : k \in LeavesKeys(t) <=>
        \E l \in Blocks(t.nodes) : t.nodes[l].height = 0 /\ k \in ToSet(t.nodes[l].keys)
  <2> DEFINE S(l) == ToSet(t.nodes[l].keys)
             W == {m \in Blocks(t.nodes) : t.nodes[m].height = 0}
  <2>1. LeavesKeys(t) = UNION {S(l) : l \in W}
    BY <1>2 DEF LeavesKeys
  <2> HIDE DEF S, W
  <2>2. \A k : k \in LeavesKeys(t) <=> \E l \in W : k \in S(l)
    BY <2>1
  <2> QED
    BY <2>2 DEF S, W
<1>5. ASSUME NEW k, NEW l \in Blocks(t.nodes)
      PROVE  k \in ToSet(t.nodes[l].keys) <=>
               \E i \in 1 .. Len(t.nodes[l].keys) : t.nodes[l].keys[i] = k
  BY <1>3
<1> QED
  BY <1>4, <1>5, Zenon DEF Has

KeysIn(L) ==
  [n \in {k.name : k \in L} \cap Names |-> (CHOOSE k \in L : k.name = n).data]

BlocksIn(E) ==
  [num \in UNION {NumsOf(k) : k \in E} |-> At(CHOOSE k \in E : num \in NumsOf(k), num)]

ExtentsIn(L) == {k \in L : IsExtent(k.name)}

LEMMA HeldIs ==
  /\ KeysHeld = KeysIn(LeavesKeys(tree)) /\ BlocksHeld = BlocksIn(ExtentsIn(LeavesKeys(tree)))
  /\ KeysHeld' = KeysIn(LeavesKeys(tree')) /\ BlocksHeld' = BlocksIn(ExtentsIn(LeavesKeys(tree')))
<1>1. LeafKeys = LeavesKeys(tree) /\ LeafKeys' = LeavesKeys(tree')
  BY DEF LeafKeys, LeavesKeys
<1>2. Extents = ExtentsIn(LeafKeys) /\ Extents' = ExtentsIn(LeafKeys')
  BY DEF Extents, ExtentsIn
<1>3. KeysHeld = KeysIn(LeafKeys) /\ KeysHeld' = KeysIn(LeafKeys')
  BY DEF KeysHeld, KeysIn
<1>4. BlocksHeld = BlocksIn(Extents) /\ BlocksHeld' = BlocksIn(Extents')
  BY DEF BlocksHeld, BlocksIn, NumsMapped
<1> QED
  BY <1>1, <1>2, <1>3, <1>4

(* Leaf keys that make a map: no name twice, no block in two extents.      *)
Mapping(L) ==
  /\ \A k \in L : Stored(k.name) /\ (IsExtent(k.name) => k.data \in DataBlocks)
  /\ \A j, k \in L : j.name = k.name => j = k
  /\ \A j, k \in L : \A num : Holds(j, num) /\ Holds(k, num) => j = k

LEMMA SoundMapping ==
  ASSUME NEW t, Sound(t), NEW e, ExtentsOK(t.nodes, e)
  PROVE  Mapping(LeavesKeys(t))
<1> DEFINE L == LeavesKeys(t)
<1>1. \A k : k \in L <=> Has(t.nodes, k)
  BY LeavesHave
<1> HIDE DEF L
<1>2. \A k \in L : Stored(k.name) /\ (IsExtent(k.name) => k.data \in DataBlocks)
  BY <1>1, SoundStored DEF ExtentsOK
<1>3. \A j, k \in L : j.name = k.name => j = k
  <2>1. PICK z : Zoned(t.nodes, t.root, z)
    BY DEF Sound
  <2> QED
    BY <1>1, <2>1, OneKey
<1>4. \A j, k \in L : \A num : Holds(j, num) /\ Holds(k, num) => j = k
  BY <1>1, ExtentsApart
<1> QED
  BY <1>2, <1>3, <1>4 DEF Mapping, L

Gives(L, n, d) == n \in Names /\ \E k \in L : k.name = n /\ k.data = d
Maps(L, num, b) == \E k \in L : Holds(k, num) /\ At(k, num) = b

LEMMA KeysAre ==
  ASSUME NEW L, Mapping(L)
  PROVE  /\ KeysIn(L) = [n \in DOMAIN KeysIn(L) |-> KeysIn(L)[n]]
         /\ \A n : n \in DOMAIN KeysIn(L) <=> \E d : Gives(L, n, d)
         /\ \A n, d : Gives(L, n, d) => KeysIn(L)[n] = d
<1> DEFINE F == KeysIn(L)
           S == {k.name : k \in L} \cap Names
<1>1. F = [n \in S |-> (CHOOSE k \in L : k.name = n).data]
  BY DEF KeysIn
<1>2. DOMAIN F = S /\ F = [n \in DOMAIN F |-> F[n]]
  BY <1>1
<1>3. \A n : n \in S <=> \E d : Gives(L, n, d)
  BY DEF Gives
<1>4. ASSUME NEW n, NEW d, Gives(L, n, d) PROVE F[n] = d
  <2>1. PICK k \in L : k.name = n /\ k.data = d
    BY <1>4 DEF Gives
  <2> DEFINE j == CHOOSE x \in L : x.name = n
  <2>2. j \in L /\ j.name = n
    BY <2>1
  <2>3. n \in S
    BY <1>3, <1>4
  <2>4. F[n] = j.data
    BY <1>1, <2>3
  <2> HIDE DEF j, F
  <2>5. j = k
    BY <2>1, <2>2 DEF Mapping
  <2> QED
    BY <2>1, <2>4, <2>5
<1> HIDE DEF F, S
<1>5. \A n : n \in DOMAIN F <=> \E d : Gives(L, n, d)
  BY <1>2, <1>3
<1> QED
  BY <1>2, <1>4, <1>5 DEF F

LEMMA BlocksAre ==
  ASSUME NEW L, Mapping(L)
  PROVE  LET F == BlocksIn(ExtentsIn(L))
         IN /\ F = [n \in DOMAIN F |-> F[n]]
            /\ \A num : num \in DOMAIN F <=> \E b : Maps(L, num, b)
            /\ \A num, b : Maps(L, num, b) => F[num] = b
<1> DEFINE E == ExtentsIn(L)
           F == BlocksIn(E)
           S == UNION {NumsOf(k) : k \in E}
<1>0. \A k, num : k \in E /\ num \in NumsOf(k) <=> k \in L /\ Holds(k, num)
  BY DEF ExtentsIn, Holds
<1> HIDE DEF E
<1>1. F = [num \in S |-> At(CHOOSE k \in E : num \in NumsOf(k), num)]
  BY DEF BlocksIn
<1>2. DOMAIN F = S /\ F = [n \in DOMAIN F |-> F[n]]
  BY <1>1
<1>3. \A num : num \in S <=> \E b : Maps(L, num, b)
  <2>1. \A num : num \in S <=> \E k \in E : num \in NumsOf(k)
    OBVIOUS
  <2> HIDE DEF S
  <2> QED
    BY <1>0, <2>1 DEF Maps
<1>4. ASSUME NEW num, NEW b, Maps(L, num, b) PROVE F[num] = b
  <2>1. PICK k \in L : Holds(k, num) /\ At(k, num) = b
    BY <1>4 DEF Maps
  <2> DEFINE j == CHOOSE x \in E : num \in NumsOf(x)
  <2>2. j \in E /\ num \in NumsOf(j)
    BY <1>0, <2>1
  <2>3. num \in S
    BY <1>3, <1>4
  <2>4. F[num] = At(j, num)
    BY <1>1, <2>3
  <2> HIDE DEF j, F, S
  <2>5. j \in L /\ Holds(j, num)
    BY <1>0, <2>2
  <2>6. j = k
    BY <2>1, <2>5 DEF Mapping
  <2> QED
    BY <2>1, <2>4, <2>6
<1> HIDE DEF F, S
<1>5. \A n : n \in DOMAIN F <=> \E b : Maps(L, n, b)
  BY <1>2, <1>3
<1> QED
  BY <1>2, <1>4, <1>5 DEF F, E

LEMMA KeysSame ==
  ASSUME NEW L, Mapping(L), NEW M, Mapping(M), \A m, d : Gives(M, m, d) <=> Gives(L, m, d)
  PROVE  KeysIn(M) = KeysIn(L)
<1> DEFINE F == KeysIn(L)
           G == KeysIn(M)
<1>1. /\ F = [n \in DOMAIN F |-> F[n]] /\ G = [n \in DOMAIN G |-> G[n]]
      /\ \A n : n \in DOMAIN F <=> \E d : Gives(L, n, d)
      /\ \A n, d : Gives(L, n, d) => F[n] = d
      /\ \A n : n \in DOMAIN G <=> \E d : Gives(M, n, d)
      /\ \A n, d : Gives(M, n, d) => G[n] = d
  BY KeysAre
<1> HIDE DEF F, G
<1>2. DOMAIN F = DOMAIN G
  BY <1>1
<1>3. \A n \in DOMAIN F : F[n] = G[n]
  BY <1>1
<1>4. F = G
  BY <1>1, <1>2, <1>3
<1> QED
  BY <1>4 DEF F, G

LEMMA KeysWithout ==
  ASSUME NEW L, Mapping(L), NEW M, Mapping(M), NEW n,
         \A m, d : Gives(M, m, d) <=> Gives(L, m, d) /\ m # n
  PROVE  KeysIn(M) = [m \in DOMAIN KeysIn(L) \ {n} |-> KeysIn(L)[m]]
<1> DEFINE F == KeysIn(L)
           G == KeysIn(M)
<1>1. /\ G = [m \in DOMAIN G |-> G[m]]
      /\ \A m : m \in DOMAIN F <=> \E d : Gives(L, m, d)
      /\ \A m, d : Gives(L, m, d) => F[m] = d
      /\ \A m : m \in DOMAIN G <=> \E d : Gives(M, m, d)
      /\ \A m, d : Gives(M, m, d) => G[m] = d
  BY KeysAre
<1> HIDE DEF F, G
<1>2. DOMAIN G = DOMAIN F \ {n}
  BY <1>1
<1>3. \A m \in DOMAIN G : G[m] = F[m]
  BY <1>1
<1>4. G = [m \in DOMAIN F \ {n} |-> F[m]]
  BY <1>1, <1>2, <1>3
<1> QED
  BY <1>4 DEF F, G

LEMMA KeysWith ==
  ASSUME NEW L, Mapping(L), NEW M, Mapping(M), NEW n, NEW e,
         \A m, d : Gives(M, m, d) <=> (Gives(L, m, d) /\ m # n) \/ (m = n /\ d = e)
  PROVE  KeysIn(M) = [m \in DOMAIN KeysIn(L) \cup {n} |-> IF m = n THEN e ELSE KeysIn(L)[m]]
<1> DEFINE F == KeysIn(L)
           G == KeysIn(M)
<1>1. /\ G = [m \in DOMAIN G |-> G[m]]
      /\ \A m : m \in DOMAIN F <=> \E d : Gives(L, m, d)
      /\ \A m, d : Gives(L, m, d) => F[m] = d
      /\ \A m : m \in DOMAIN G <=> \E d : Gives(M, m, d)
      /\ \A m, d : Gives(M, m, d) => G[m] = d
  BY KeysAre
<1> HIDE DEF F, G
<1>2. DOMAIN G = DOMAIN F \cup {n}
  BY <1>1
<1>3. \A m \in DOMAIN G : G[m] = IF m = n THEN e ELSE F[m]
  BY <1>1
<1>4. G = [m \in DOMAIN F \cup {n} |-> IF m = n THEN e ELSE F[m]]
  BY <1>1, <1>2, <1>3
<1> QED
  BY <1>4 DEF F, G

(* A block is added, or the blocks from some number on are given up.       *)
Adds(L, M, num, b) ==
  /\ \A m, c : Maps(M, m, c) <=> Maps(L, m, c) \/ (m = num /\ c = b)
  /\ \A c : ~ Maps(L, num, c)
CutAt(F, f) == [m \in {k \in DOMAIN F : k < f} |-> F[m]]
Keeps(L, M, f) == \A m, c : Maps(M, m, c) <=> Maps(L, m, c) /\ m < f

LEMMA BlocksWith ==
  ASSUME NEW L, Mapping(L), NEW M, Mapping(M), NEW num, NEW b, Adds(L, M, num, b)
  PROVE  LET F == BlocksIn(ExtentsIn(L))
         IN /\ num \notin DOMAIN F
            /\ BlocksIn(ExtentsIn(M)) = [m \in DOMAIN F \cup {num} |-> IF m = num THEN b ELSE F[m]]
<1> DEFINE F == BlocksIn(ExtentsIn(L))
           G == BlocksIn(ExtentsIn(M))
<1>1. /\ \A m : m \in DOMAIN F <=> \E c : Maps(L, m, c)
      /\ \A m, c : Maps(L, m, c) => F[m] = c
  BY BlocksAre
<1>2. /\ G = [m \in DOMAIN G |-> G[m]]
      /\ \A m : m \in DOMAIN G <=> \E c : Maps(M, m, c)
      /\ \A m, c : Maps(M, m, c) => G[m] = c
  BY BlocksAre
<1> HIDE DEF F, G
<1>3. DOMAIN G = DOMAIN F \cup {num} /\ num \notin DOMAIN F
  BY <1>1, <1>2 DEF Adds
<1>4. \A m \in DOMAIN G : G[m] = IF m = num THEN b ELSE F[m]
  BY <1>1, <1>2 DEF Adds
<1>5. G = [m \in DOMAIN F \cup {num} |-> IF m = num THEN b ELSE F[m]]
  BY <1>2, <1>3, <1>4
<1> QED
  BY <1>3, <1>5 DEF F, G

LEMMA BlocksBelow ==
  ASSUME NEW L, Mapping(L), NEW M, Mapping(M), NEW f, Keeps(L, M, f)
  PROVE  BlocksIn(ExtentsIn(M)) = CutAt(BlocksIn(ExtentsIn(L)), f)
<1> DEFINE F == BlocksIn(ExtentsIn(L))
           G == BlocksIn(ExtentsIn(M))
<1>1. /\ \A m : m \in DOMAIN F <=> \E c : Maps(L, m, c)
      /\ \A m, c : Maps(L, m, c) => F[m] = c
  BY BlocksAre
<1>2. /\ G = [m \in DOMAIN G |-> G[m]]
      /\ \A m : m \in DOMAIN G <=> \E c : Maps(M, m, c)
      /\ \A m, c : Maps(M, m, c) => G[m] = c
  BY BlocksAre
<1> HIDE DEF F, G
<1>3. DOMAIN G = {k \in DOMAIN F : k < f}
  BY <1>1, <1>2 DEF Keeps
<1>4. \A m \in DOMAIN G : G[m] = F[m]
  BY <1>1, <1>2 DEF Keeps
<1>5. G = CutAt(F, f)
  BY <1>2, <1>3, <1>4 DEF CutAt
<1> QED
  BY <1>5 DEF F, G

(* M are the leaf keys L without D and with A.                             *)
Swapped(L, M, D, A) == \A k : k \in M <=> (k \in L /\ k \notin D) \/ k \in A

LEMMA LeavesSwapped ==
  ASSUME NEW t, Sound(t), NEW u, NEW D, NEW A, Outcome(t.nodes, u, D, A)
  PROVE  Sound(u) /\ Swapped(LeavesKeys(t), LeavesKeys(u), D, A)
<1>1. Sound(u) /\ Exchanged(t.nodes, u.nodes, D, A)
  BY DEF Outcome
<1>2. \A k : k \in LeavesKeys(t) <=> Has(t.nodes, k)
  BY LeavesHave
<1>3. \A k : k \in LeavesKeys(u) <=> Has(u.nodes, k)
  BY <1>1, LeavesHave
<1> QED
  BY <1>1, <1>2, <1>3 DEF Exchanged, Swapped

(* Plain keys come and go without a change of the file's blocks.           *)
LEMMA PlainSwap ==
  ASSUME NEW L, NEW M, NEW D, NEW A, Swapped(L, M, D, A),
         \A k \in D : ~ IsExtent(k.name), \A k \in A : ~ IsExtent(k.name)
  PROVE  ExtentsIn(M) = ExtentsIn(L)
<1>1. \A k : k \in ExtentsIn(M) <=> k \in ExtentsIn(L)
  BY DEF Swapped, ExtentsIn
<1> QED
  BY <1>1

(* Extents come and go without a change of the plain keys.                 *)
LEMMA ExtentSwap ==
  ASSUME NEW L, Mapping(L), NEW M, Mapping(M), NEW D, NEW A, Swapped(L, M, D, A),
         \A k \in D : IsExtent(k.name), \A k \in A : IsExtent(k.name)
  PROVE  KeysIn(M) = KeysIn(L)
<1>1. \A n \in Names : ~ IsExtent(n)
  BY ExtentsAssumption
<1>2. \A n \in Names : \A k : k.name = n => (k \in M <=> k \in L)
  BY <1>1 DEF Swapped
<1>3. \A n, d : Gives(M, n, d) <=> Gives(L, n, d)
  BY <1>2 DEF Gives
<1> QED
  BY <1>3, KeysSame

-----------------------------------------------------------------------------
(* Each step is one of the map's, or leaves the map as it is.              *)

MapKept == KeysHeld' = KeysHeld /\ BlocksHeld' = BlocksHeld
MapPut(n, d) ==
  /\ KeysHeld' = [m \in DOMAIN KeysHeld \cup {n} |-> IF m = n THEN d ELSE KeysHeld[m]]
  /\ BlocksHeld' = BlocksHeld
MapRemove(n) ==
  /\ n \in DOMAIN KeysHeld /\ KeysHeld' = [m \in DOMAIN KeysHeld \ {n} |-> KeysHeld[m]]
  /\ BlocksHeld' = BlocksHeld
MapExtend(num, b) ==
  /\ num \notin DOMAIN BlocksHeld /\ \A m \in DOMAIN BlocksHeld : BlocksHeld[m] # b
  /\ BlocksHeld' = [m \in DOMAIN BlocksHeld \cup {num} |-> IF m = num THEN b ELSE BlocksHeld[m]]
  /\ KeysHeld' = KeysHeld
MapCut(num) ==
  /\ BlocksHeld' = [m \in {k \in DOMAIN BlocksHeld : k < num} |-> BlocksHeld[m]]
  /\ KeysHeld' = KeysHeld

LEMMA MapSteps ==
  ASSUME \/ MapKept
         \/ \E n \in Names : MapRemove(n) \/ \E d \in Data : MapPut(n, d)
         \/ \E num \in Nums : MapCut(num) \/ \E b \in DataBlocks : MapExtend(num, b)
  PROVE  [Map!Next]_(Map!vars)
<1>1. CASE MapKept
  BY <1>1 DEF MapKept, Map!vars
<1>2. ASSUME NEW n \in Names, MapRemove(n) PROVE Map!Next
  <2>1. Map!Remove(n)
    BY <1>2 DEF MapRemove, Map!Remove
  <2> QED
    BY <2>1 DEF Map!Next
<1>3. ASSUME NEW n \in Names, NEW d \in Data, MapPut(n, d) PROVE Map!Next
  <2>1. Map!Put(n, d)
    BY <1>3 DEF MapPut, Map!Put
  <2> QED
    BY <2>1 DEF Map!Next
<1>4. ASSUME NEW num \in Nums, MapCut(num) PROVE Map!Next
  <2>1. Map!Cut(num)
    BY <1>4 DEF MapCut, Map!Cut
  <2> QED
    BY <2>1 DEF Map!Next
<1>5. ASSUME NEW num \in Nums, NEW b \in DataBlocks, MapExtend(num, b) PROVE Map!Next
  <2>1. Map!Extend(num, b)
    BY <1>5 DEF MapExtend, Map!Extend
  <2> QED
    BY <2>1 DEF Map!Next
<1> QED
  BY <1>1, <1>2, <1>3, <1>4, <1>5

(* Both ends of a step that no error() stopped.                            *)
Ends ==
  /\ Sound(tree) /\ Mapping(LeavesKeys(tree))
  /\ Sound(tree') /\ Mapping(LeavesKeys(tree'))

LEMMA SoundEnds ==
  ASSUME Inv, NoError, Inv', NoError'
  PROVE  Ends /\ ExtentsOK(tree.nodes, End) /\ SizesOK
<1>1. Sound(tree) /\ ExtentsOK(tree.nodes, End) /\ SizesOK
  BY DEF Inv, NoError
<1>2. Sound(tree') /\ ExtentsOK(tree'.nodes, End')
  BY DEF Inv, NoError
<1> QED
  BY <1>1, <1>2, SoundMapping DEF Ends

LEMMA NamedLeaves ==
  ASSUME NEW t, Sound(t), NEW n
  PROVE  \A k : k \in Named(t.nodes, n) <=> k \in LeavesKeys(t) /\ k.name = n
<1>1. \A k : k \in LeavesKeys(t) <=> Has(t.nodes, k)
  BY LeavesHave
<1> QED
  BY <1>1, SoundStored DEF Named

LEMMA RemoveMaps ==
  ASSUME Ends, NEW n \in Names, Wiped(tree, tree', n)
  PROVE  MapKept \/ MapRemove(n)
<1> DEFINE L == LeavesKeys(tree)
           M == LeavesKeys(tree')
           D == Named(tree.nodes, n)
<1>1. Mapping(L) /\ Mapping(M) /\ Sound(tree)
  BY DEF Ends
<1>2. Swapped(L, M, D, {})
  BY <1>1, LeavesSwapped DEF Wiped
<1>3. \A k : k \in D <=> k \in L /\ k.name = n
  BY <1>1, NamedLeaves
<1>4. KeysHeld = KeysIn(L) /\ KeysHeld' = KeysIn(M)
      /\ BlocksHeld = BlocksIn(ExtentsIn(L)) /\ BlocksHeld' = BlocksIn(ExtentsIn(M))
  BY HeldIs
<1> HIDE DEF L, M, D
<1>5. ~ IsExtent(n)
  BY ExtentsAssumption
<1>6. ExtentsIn(M) = ExtentsIn(L)
  BY <1>2, <1>3, <1>5, PlainSwap
<1>7. \A m, d : Gives(M, m, d) <=> Gives(L, m, d) /\ m # n
  BY <1>2, <1>3 DEF Swapped, Gives
<1>8. KeysIn(M) = [m \in DOMAIN KeysIn(L) \ {n} |-> KeysIn(L)[m]]
  BY <1>1, <1>7, KeysWithout
<1>9. CASE n \in DOMAIN KeysIn(L)
  BY <1>4, <1>6, <1>8, <1>9 DEF MapRemove
<1>10. CASE n \notin DOMAIN KeysIn(L)
  <2>1. \A d : ~ Gives(L, n, d)
    BY <1>1, <1>10, KeysAre
  <2>2. \A m, d : Gives(M, m, d) <=> Gives(L, m, d)
    BY <1>7, <2>1
  <2>3. KeysIn(M) = KeysIn(L)
    BY <1>1, <2>2, KeysSame
  <2> QED
    BY <1>4, <1>6, <2>3 DEF MapKept
<1> QED
  BY <1>9, <1>10

LEMMA PutMaps ==
  ASSUME Ends, NEW n \in Names, NEW d \in Data, Written(tree, tree', n, d)
  PROVE  MapPut(n, d)
<1> DEFINE L == LeavesKeys(tree)
           M == LeavesKeys(tree')
           D == Named(tree.nodes, n)
           key == [name |-> n, data |-> d]
<1>1. Mapping(L) /\ Mapping(M) /\ Sound(tree)
  BY DEF Ends
<1>2. Swapped(L, M, D, {key})
  BY <1>1, LeavesSwapped DEF Written
<1>3. \A k : k \in D <=> k \in L /\ k.name = n
  BY <1>1, NamedLeaves
<1>4. KeysHeld = KeysIn(L) /\ KeysHeld' = KeysIn(M)
      /\ BlocksHeld = BlocksIn(ExtentsIn(L)) /\ BlocksHeld' = BlocksIn(ExtentsIn(M))
  BY HeldIs
<1>5. ~ IsExtent(n) /\ key.name = n /\ key.data = d
  BY ExtentsAssumption
<1> HIDE DEF L, M, D, key
<1>6. ExtentsIn(M) = ExtentsIn(L)
  BY <1>2, <1>3, <1>5, PlainSwap
<1>7. \A m, e : Gives(M, m, e) <=> (Gives(L, m, e) /\ m # n) \/ (m = n /\ e = d)
  BY <1>2, <1>3, <1>5 DEF Swapped, Gives
<1>8. KeysIn(M) = [m \in DOMAIN KeysIn(L) \cup {n} |-> IF m = n THEN d ELSE KeysIn(L)[m]]
  BY <1>1, <1>7, KeysWith
<1> QED
  BY <1>4, <1>6, <1>8 DEF MapPut

(* What blocks an extent of the file maps.                                 *)
LEMMA Spans ==
  ASSUME NEW s \in Nums, NEW e \in Nums, s <= e, NEW d, NEW k, k.name = Extent(s, e), k.data = d
  PROVE  /\ IsExtent(k.name)
         /\ \A m : Holds(k, m) <=> m \in s .. e
         /\ \A m : At(k, m) = d + m - s
<1>1. IsExtent(k.name) /\ StartOf(k.name) = s /\ StopOf(k.name) = e
  BY ExtentStored
<1>2. \A m : Holds(k, m) <=> m \in s .. e
  BY <1>1 DEF Holds, NumsOf
<1>3. \A m : At(k, m) = d + m - s
  BY <1>1 DEF At
<1> QED
  BY <1>1, <1>2, <1>3

LEMMA ExtentKey ==
  ASSUME NEW L, Mapping(L), NEW k \in L, IsExtent(k.name)
  PROVE  /\ StartOf(k.name) \in Nums /\ StopOf(k.name) \in Nums /\ StartOf(k.name) <= StopOf(k.name)
         /\ StartOf(k.name) \in Nat /\ StopOf(k.name) \in Nat
         /\ \A m : Holds(k, m) <=> m \in StartOf(k.name) .. StopOf(k.name)
         /\ \A m : At(k, m) = k.data + m - StartOf(k.name)
         /\ k.data \in DataBlocks /\ k.data \in Nat
<1>1. Stored(k.name) /\ k.data \in DataBlocks
  BY DEF Mapping
<1>2. /\ StartOf(k.name) \in Nums /\ StopOf(k.name) \in Nums /\ StartOf(k.name) <= StopOf(k.name)
      /\ k.name = Extent(StartOf(k.name), StopOf(k.name))
  BY <1>1, StoredExtent
<1>3. StartOf(k.name) \in Nat /\ StopOf(k.name) \in Nat /\ k.data \in Nat
  BY <1>1, <1>2, SearchOrder, ExtentsAssumption
<1>4. \A m : Holds(k, m) <=> m \in StartOf(k.name) .. StopOf(k.name)
  BY DEF Holds, NumsOf
<1>5. \A m : At(k, m) = k.data + m - StartOf(k.name)
  BY DEF At
<1> QED
  BY <1>1, <1>2, <1>3, <1>4, <1>5

(* An extent grows by the block after it.                                  *)
LEMMA LongerMaps ==
  ASSUME NEW L, Mapping(L), NEW M, NEW key \in L, NEW num \in Nums, NEW b \in DataBlocks,
         Continues(key, num, b),
         NEW new, new = [name |-> Extent(StartOf(key.name), num), data |-> key.data],
         Swapped(L, M, {key}, {new})
  PROVE  IsExtent(new.name) /\ \A m, c : Maps(M, m, c) <=> Maps(L, m, c) \/ (m = num /\ c = b)
<1> DEFINE s == StartOf(key.name)
           d == key.data
<1>1. IsExtent(key.name) /\ StopOf(key.name) = num - 1 /\ At(key, num - 1) = b - 1
  BY DEF Continues
<1>2. /\ s \in Nums /\ s \in Nat /\ d \in Nat /\ s <= num - 1
      /\ \A m : Holds(key, m) <=> m \in s .. (num - 1)
      /\ \A m : At(key, m) = d + m - s
  BY <1>1, ExtentKey
<1>3. num \in Nat /\ b \in Nat
  BY SearchOrder, ExtentsAssumption
<1> HIDE DEF s, d
<1>4. s <= num
  BY <1>2, <1>3
<1>5. new.name = Extent(s, num) /\ new.data = d
  BY DEF s, d
<1>6. /\ IsExtent(new.name)
      /\ \A m : Holds(new, m) <=> m \in s .. num
      /\ \A m : At(new, m) = d + m - s
  BY <1>2, <1>4, <1>5, Spans
<1>7. d + num - s = b
  <2>1. At(key, num - 1) = d + (num - 1) - s
    BY <1>2
  <2>2. d + (num - 1) - s = b - 1
    BY <1>1, <2>1
  <2> QED
    BY <1>2, <1>3, <2>2
<1>8. \A m : Holds(new, m) <=> Holds(key, m) \/ m = num
  BY <1>2, <1>3, <1>4, <1>6
<1>9. \A m : At(new, m) = At(key, m)
  BY <1>2, <1>6
<1>10. At(new, num) = b
  BY <1>6, <1>7
<1>11. \A k : k \in M <=> (k \in L /\ k # key) \/ k = new
  BY DEF Swapped
<1>12. ASSUME NEW m, NEW c, Maps(M, m, c) PROVE Maps(L, m, c) \/ (m = num /\ c = b)
  <2>1. PICK k \in M : Holds(k, m) /\ At(k, m) = c
    BY <1>12 DEF Maps
  <2> QED
    BY <1>8, <1>9, <1>10, <1>11, <2>1 DEF Maps
<1>13. ASSUME NEW m, NEW c, Maps(L, m, c) PROVE Maps(M, m, c)
  <2>1. PICK k \in L : Holds(k, m) /\ At(k, m) = c
    BY <1>13 DEF Maps
  <2> QED
    BY <1>8, <1>9, <1>11, <2>1 DEF Maps
<1>14. Maps(M, num, b)
  BY <1>8, <1>10, <1>11 DEF Maps
<1> QED
  BY <1>6, <1>12, <1>13, <1>14

(* A new extent begins.                                                    *)
LEMMA BegunMaps ==
  ASSUME NEW L, NEW M, NEW num \in Nums, NEW b \in DataBlocks,
         NEW new, new = [name |-> Extent(num, num), data |-> b], Swapped(L, M, {}, {new})
  PROVE  IsExtent(new.name) /\ \A m, c : Maps(M, m, c) <=> Maps(L, m, c) \/ (m = num /\ c = b)
<1>1. num \in Nat /\ b \in Nat /\ num <= num
  BY SearchOrder, ExtentsAssumption
<1>2. new.name = Extent(num, num) /\ new.data = b
  OBVIOUS
<1>3. /\ IsExtent(new.name)
      /\ \A m : Holds(new, m) <=> m \in num .. num
      /\ \A m : At(new, m) = b + m - num
  BY <1>1, <1>2, Spans
<1>4. (\A m : Holds(new, m) <=> m = num) /\ At(new, num) = b
  BY <1>1, <1>3
<1>5. \A k : k \in M <=> k \in L \/ k = new
  BY DEF Swapped
<1>6. ASSUME NEW m, NEW c PROVE Maps(M, m, c) <=> Maps(L, m, c) \/ (m = num /\ c = b)
  BY <1>4, <1>5 DEF Maps
<1> QED
  BY <1>3, <1>6

LEMMA BlockMaps ==
  ASSUME Ends, NEW num \in Nums, BlockDone(num)
  PROVE  MapKept \/ \E b \in DataBlocks : MapExtend(num, b)
<1> DEFINE L == LeavesKeys(tree)
           M == LeavesKeys(tree')
           key == KeyAt(tree, SearchName(num))
<1>1. Mapping(L) /\ Mapping(M) /\ Sound(tree)
  BY DEF Ends
<1>2. KeysHeld = KeysIn(L) /\ KeysHeld' = KeysIn(M)
      /\ BlocksHeld = BlocksIn(ExtentsIn(L)) /\ BlocksHeld' = BlocksIn(ExtentsIn(M))
  BY HeldIs
<1>3. CASE UNCHANGED tree
  BY <1>2, <1>3 DEF MapKept
<1>4. ASSUME ~ Holds(key, num), NEW b \in DataBlocks \ UsedBlocks, Grows(tree, tree', num, key, b)
      PROVE  MapExtend(num, b)
  <2>1. \A k : k \in L <=> Has(tree.nodes, k)
    BY <1>1, LeavesHave
  <2>2. \A c : ~ Maps(L, num, c)
    <3>1. \A k : Has(tree.nodes, k) /\ Holds(k, num) => k = key
      BY <1>1, HolderFound
    <3> HIDE DEF L, key
    <3> QED
      BY <1>4, <2>1, <3>1 DEF Maps
  <2>3. \A m, c : Maps(L, m, c) => c # b
    <3>1. Extents = ExtentsIn(L)
      BY DEF Extents, ExtentsIn, LeafKeys, LeavesKeys
    <3> HIDE DEF L
    <3>2. ASSUME NEW m, NEW c, Maps(L, m, c) PROVE c \in UsedBlocks
      <4>1. PICK k \in L : Holds(k, m) /\ At(k, m) = c
        BY <3>2 DEF Maps
      <4>2. k \in Extents /\ m \in NumsOf(k)
        BY <3>1, <4>1 DEF ExtentsIn, Holds
      <4> QED
        BY <4>1, <4>2 DEF UsedBlocks
    <3> QED
      BY <3>2
  <2>4. /\ KeysIn(M) = KeysIn(L)
        /\ \A m, c : Maps(M, m, c) <=> Maps(L, m, c) \/ (m = num /\ c = b)
    <3>1. CASE /\ Continues(key, num, b) /\ Has(tree.nodes, key)
               /\ Outcome(tree.nodes, tree', {key},
                          {[name |-> Extent(StartOf(key.name), num), data |-> key.data]})
      <4> DEFINE new == [name |-> Extent(StartOf(key.name), num), data |-> key.data]
      <4>1. Swapped(L, M, {key}, {new})
        BY <1>1, <3>1, LeavesSwapped
      <4>2. key \in L /\ Continues(key, num, b) /\ IsExtent(key.name)
        BY <2>1, <3>1 DEF Continues
      <4>3. new = [name |-> Extent(StartOf(key.name), num), data |-> key.data]
        OBVIOUS
      <4> HIDE DEF new, key, L, M
      <4>4. IsExtent(new.name) /\ \A m, c : Maps(M, m, c) <=> Maps(L, m, c) \/ (m = num /\ c = b)
        BY <1>1, <4>1, <4>2, <4>3, LongerMaps
      <4>5. KeysIn(M) = KeysIn(L)
        BY <1>1, <4>1, <4>2, <4>4, ExtentSwap
      <4> QED
        BY <4>4, <4>5
    <3>2. CASE Outcome(tree.nodes, tree', {}, {[name |-> Extent(num, num), data |-> b]})
      <4> DEFINE new == [name |-> Extent(num, num), data |-> b]
      <4>1. Swapped(L, M, {}, {new})
        BY <1>1, <3>2, LeavesSwapped
      <4>2. new = [name |-> Extent(num, num), data |-> b]
        OBVIOUS
      <4> HIDE DEF new, L, M
      <4>3. IsExtent(new.name) /\ \A m, c : Maps(M, m, c) <=> Maps(L, m, c) \/ (m = num /\ c = b)
        BY <4>1, <4>2, BegunMaps
      <4>4. KeysIn(M) = KeysIn(L)
        BY <1>1, <4>1, <4>3, ExtentSwap
      <4> QED
        BY <4>3, <4>4
    <3> QED
      BY <1>4, <3>1, <3>2 DEF Grows
  <2> HIDE DEF L, M
  <2> DEFINE F == BlocksIn(ExtentsIn(L))
  <2>8. Adds(L, M, num, b)
    BY <2>2, <2>4 DEF Adds
  <2>5. /\ num \notin DOMAIN F
        /\ BlocksIn(ExtentsIn(M)) = [m \in DOMAIN F \cup {num} |-> IF m = num THEN b ELSE F[m]]
    BY <1>1, <2>8, BlocksWith
  <2>6. \A m \in DOMAIN F : F[m] # b
    <3>1. /\ \A m : m \in DOMAIN F <=> \E c : Maps(L, m, c)
          /\ \A m, c : Maps(L, m, c) => F[m] = c
      BY <1>1, BlocksAre
    <3> HIDE DEF F
    <3> QED
      BY <2>3, <3>1
  <2>7. F = BlocksHeld
    BY <1>2
  <2> HIDE DEF F
  <2> QED
    BY <1>2, <2>4, <2>5, <2>6, <2>7 DEF MapExtend
<1> QED
  BY <1>3, <1>4 DEF BlockDone

(* All other extents end before the one that is cut begins.                *)
Topmost(L, key) == \A k \in L : IsExtent(k.name) /\ k # key => StopOf(k.name) < StartOf(key.name)

LEMMA CutTop ==
  ASSUME Ends, NEW num \in Nums, ExtentsOK(tree.nodes, num + 1), NEW new, NEW key,
         Cuts(tree, tree', num, new, key)
  PROVE  Topmost(LeavesKeys(tree), key)
<1> DEFINE L == LeavesKeys(tree)
           s == StartOf(key.name)
<1>1. Mapping(L) /\ Sound(tree)
  BY DEF Ends
<1>2. \A k : k \in L <=> Has(tree.nodes, k)
  BY <1>1, LeavesHave
<1>3. IsExtent(key.name) /\ Has(tree.nodes, key)
  BY DEF Cuts
<1>4. s \in Nat /\ num \in Nat
  BY <1>1, <1>2, <1>3, ExtentKey, SearchOrder
<1>5. ASSUME NEW k \in L, IsExtent(k.name), k # key PROVE StopOf(k.name) < s
  <2> DEFINE e == StopOf(k.name)
  <2>1. Has(tree.nodes, k) /\ e \in Nat
    BY <1>1, <1>2, <1>5, ExtentKey
  <2>2. e < num + 1
    BY <1>5, <2>1 DEF ExtentsOK
  <2>3. ~ (s <= e /\ e <= num)
    BY <1>5, <2>1 DEF Cuts
  <2> HIDE DEF s, e
  <2>4. e < s
    BY <1>4, <2>1, <2>2, <2>3
  <2> QED
    BY <2>4 DEF s, e
<1> HIDE DEF L, s
<1> QED
  BY <1>5 DEF Topmost, L, s

LEMMA BelowTop ==
  ASSUME NEW L, Mapping(L), NEW key \in L, IsExtent(key.name), Topmost(L, key),
         NEW k \in L, k # key, NEW m, Holds(k, m)
  PROVE  m < StartOf(key.name)
<1>1. IsExtent(k.name)
  BY DEF Holds
<1>2. StopOf(k.name) < StartOf(key.name) /\ StopOf(k.name) \in Nat /\ StartOf(key.name) \in Nat
  BY <1>1, ExtentKey DEF Topmost
<1>3. m \in StartOf(k.name) .. StopOf(k.name) /\ StartOf(k.name) \in Nat
  BY <1>1, ExtentKey
<1> QED
  BY <1>2, <1>3

(* The last extent goes.                                                   *)
LEMMA GoneMaps ==
  ASSUME NEW L, Mapping(L), NEW M, NEW key \in L, IsExtent(key.name), Topmost(L, key),
         Swapped(L, M, {key}, {})
  PROVE  Keeps(L, M, StartOf(key.name))
<1>1. \A k : k \in M <=> k \in L /\ k # key
  BY DEF Swapped
<1>2. \A k \in L : \A m : k # key /\ Holds(k, m) => m < StartOf(key.name)
  BY BelowTop
<1>3. \A m : Holds(key, m) => ~ m < StartOf(key.name)
  <2>1. StartOf(key.name) \in Nat /\ StopOf(key.name) \in Nat
        /\ \A m : Holds(key, m) <=> m \in StartOf(key.name) .. StopOf(key.name)
    BY ExtentKey
  <2> QED
    BY <2>1
<1> QED
  BY <1>1, <1>2, <1>3 DEF Keeps, Maps

(* The last extent ends before block f.                                    *)
LEMMA ShorterMaps ==
  ASSUME NEW L, Mapping(L), NEW M, NEW key \in L, IsExtent(key.name), Topmost(L, key),
         NEW f \in Nums, StartOf(key.name) < f, f <= StopOf(key.name),
         NEW cut, cut = [name |-> Extent(StartOf(key.name), f - 1), data |-> key.data],
         Swapped(L, M, {key}, {cut})
  PROVE  IsExtent(cut.name) /\ Keeps(L, M, f)
<1> DEFINE s == StartOf(key.name)
           d == key.data
           e == StopOf(key.name)
<1>1. /\ s \in Nums /\ s \in Nat /\ e \in Nat /\ d \in Nat
      /\ \A m : Holds(key, m) <=> m \in s .. e
      /\ \A m : At(key, m) = d + m - s
  BY ExtentKey
<1>2. \A k \in L : \A m : k # key /\ Holds(k, m) => m < s
  BY BelowTop
<1>2a. \A k \in L : \A m : Holds(k, m) => m \in Nat
  <2> SUFFICES ASSUME NEW k \in L, NEW m, Holds(k, m) PROVE m \in Nat
    OBVIOUS
  <2>1. IsExtent(k.name)
    BY DEF Holds
  <2>2. m \in StartOf(k.name) .. StopOf(k.name) /\ StartOf(k.name) \in Nat /\ StopOf(k.name) \in Nat
    BY <2>1, ExtentKey
  <2> QED
    BY <2>2
<1>3. s < f /\ f <= e /\ cut.name = Extent(s, f - 1) /\ cut.data = d
  OBVIOUS
<1> HIDE DEF s, d, e
<1>4. f \in Nat /\ MaxNum \in Nat
  BY SearchOrder, ExtentsAssumption
<1>5. f - 1 \in Nums /\ s <= f - 1
  BY <1>1, <1>3, <1>4 DEF Nums
<1>6. /\ IsExtent(cut.name)
      /\ \A m : Holds(cut, m) <=> m \in s .. (f - 1)
      /\ \A m : At(cut, m) = d + m - s
  BY <1>1, <1>3, <1>5, Spans
<1>7. \A m : Holds(cut, m) <=> Holds(key, m) /\ m < f
  BY <1>1, <1>3, <1>4, <1>6
<1>8. \A m : At(cut, m) = At(key, m)
  BY <1>1, <1>6
<1>9. \A k \in L : \A m : k # key /\ Holds(k, m) => m < f
  BY <1>1, <1>2, <1>2a, <1>3, <1>4
<1>10. \A k : k \in M <=> (k \in L /\ k # key) \/ k = cut
  BY DEF Swapped
<1>11. ASSUME NEW m, NEW c, Maps(M, m, c) PROVE Maps(L, m, c) /\ m < f
  <2>1. PICK k \in M : Holds(k, m) /\ At(k, m) = c
    BY <1>11 DEF Maps
  <2> QED
    BY <1>7, <1>8, <1>9, <1>10, <2>1 DEF Maps
<1>12. ASSUME NEW m, NEW c, Maps(L, m, c), m < f PROVE Maps(M, m, c)
  <2>1. PICK k \in L : Holds(k, m) /\ At(k, m) = c
    BY <1>12 DEF Maps
  <2> QED
    BY <1>7, <1>8, <1>10, <1>12, <2>1 DEF Maps
<1> QED
  BY <1>6, <1>11, <1>12 DEF Keeps

LEMMA CutMaps ==
  ASSUME Ends, NEW num \in Nums, ExtentsOK(tree.nodes, num + 1), NEW new \in Nums, NEW key,
         Cuts(tree, tree', num, new, key)
  PROVE  \E f \in Nums : MapCut(f)
<1> DEFINE L == LeavesKeys(tree)
           M == LeavesKeys(tree')
           s == StartOf(key.name)
<1>1. Mapping(L) /\ Mapping(M) /\ Sound(tree)
  BY DEF Ends
<1>2. KeysHeld = KeysIn(L) /\ KeysHeld' = KeysIn(M)
      /\ BlocksHeld = BlocksIn(ExtentsIn(L)) /\ BlocksHeld' = BlocksIn(ExtentsIn(M))
  BY HeldIs
<1>3. \A k : k \in L <=> Has(tree.nodes, k)
  BY <1>1, LeavesHave
<1>4. IsExtent(key.name) /\ key \in L /\ new <= StopOf(key.name)
  BY <1>3 DEF Cuts
<1>5. s \in Nums /\ s \in Nat /\ new \in Nat
  BY <1>1, <1>4, ExtentKey, SearchOrder
<1>6. Topmost(L, key)
  BY CutTop
<1>7. \E f \in Nums : Keeps(L, M, f) /\ KeysIn(M) = KeysIn(L)
  <2>1. CASE Outcome(tree.nodes, tree', {key}, {})
    <3>1. Swapped(L, M, {key}, {})
      BY <1>1, <2>1, LeavesSwapped
    <3> HIDE DEF L, M
    <3>2. Keeps(L, M, s)
      BY <1>1, <1>4, <1>6, <3>1, GoneMaps
    <3>3. KeysIn(M) = KeysIn(L)
      BY <1>1, <1>4, <3>1, ExtentSwap
    <3> QED
      BY <1>5, <3>2, <3>3
  <2>2. CASE /\ s < new
             /\ Outcome(tree.nodes, tree', {key}, {[name |-> Extent(s, new - 1), data |-> key.data]})
    <3> DEFINE cut == [name |-> Extent(s, new - 1), data |-> key.data]
    <3>1. Swapped(L, M, {key}, {cut})
      BY <1>1, <2>2, LeavesSwapped
    <3>2. cut = [name |-> Extent(StartOf(key.name), new - 1), data |-> key.data] /\ StartOf(key.name) < new
      BY <2>2
    <3> HIDE DEF L, M, cut
    <3>3. IsExtent(cut.name) /\ Keeps(L, M, new)
      BY <1>1, <1>4, <1>6, <3>1, <3>2, ShorterMaps
    <3>4. KeysIn(M) = KeysIn(L)
      BY <1>1, <1>4, <3>1, <3>3, ExtentSwap
    <3> QED
      BY <3>3, <3>4
  <2> QED
    BY <2>1, <2>2 DEF Cuts
<1> HIDE DEF L, M
<1>8. PICK f \in Nums : Keeps(L, M, f) /\ KeysIn(M) = KeysIn(L)
  BY <1>7
<1>9. BlocksIn(ExtentsIn(M)) = CutAt(BlocksIn(ExtentsIn(L)), f)
  BY <1>1, <1>8, BlocksBelow
<1>10. BlocksHeld' = CutAt(BlocksHeld, f)
  BY <1>2, <1>9
<1> QED
  BY <1>2, <1>8, <1>10 DEF MapCut, CutAt

LEMMA EmptyMap ==
  ASSUME NEW f, DOMAIN f = {}, f = [x \in DOMAIN f |-> f[x]]
  PROVE  f = <<>>
<1>1. DOMAIN <<>> = {} /\ <<>> = [x \in DOMAIN <<>> |-> <<>>[x]]
  <2>1. <<>> \in Seq({})
    OBVIOUS
  <2>2. <<>> \in [1 .. 0 -> {}]
    BY <2>1
  <2> QED
    BY <2>2
<1> QED
  BY <1>1

LEMMA MapAtFirst == Init => Map!Init
<1> SUFFICES ASSUME Init PROVE Map!Init
  OBVIOUS
<1> DEFINE L == LeavesKeys(tree)
<1>1. PICK l \in TreeBlocks :
        tree = [root |-> l, fault |-> "none",
                nodes |-> [m \in TreeBlocks |->
                  IF m = l THEN [height |-> 0, keys |-> <<>>] ELSE FreeBlock]]
  BY DEF Init
<1>2. Sound(tree) /\ \A k : ~ Has(tree.nodes, k)
  BY <1>1, SoundAtFirst
<1>3. \A k : k \notin L
  BY <1>2, LeavesHave
<1>4. Mapping(L)
  BY <1>3 DEF Mapping
<1>5. KeysHeld = KeysIn(L) /\ BlocksHeld = BlocksIn(ExtentsIn(L))
  BY HeldIs
<1> HIDE DEF L
<1> DEFINE F == KeysIn(L)
           G == BlocksIn(ExtentsIn(L))
<1>6. DOMAIN F = {} /\ F = [x \in DOMAIN F |-> F[x]]
  BY <1>3, <1>4, KeysAre DEF Gives
<1>7. DOMAIN G = {} /\ G = [x \in DOMAIN G |-> G[x]]
  BY <1>3, <1>4, BlocksAre DEF Maps
<1>8. F = KeysHeld /\ G = BlocksHeld
  BY <1>5
<1> HIDE DEF F, G
<1> QED
  BY <1>6, <1>7, <1>8, EmptyMap DEF Map!Init

LEMMA MapStep ==
  ASSUME Inv, NoError, Inv', NoError', [Next]_vars
  PROVE  [Map!Next]_(Map!vars)
<1>1. Ends /\ ExtentsOK(tree.nodes, End) /\ SizesOK
  BY SoundEnds
<1>2. Sound(tree) /\ tree'.fault = "none"
  BY <1>1 DEF Ends, NoError
<1>3. ASSUME UNCHANGED tree PROVE MapKept
  <2>1. KeysHeld = KeysIn(LeavesKeys(tree)) /\ KeysHeld' = KeysIn(LeavesKeys(tree'))
        /\ BlocksHeld = BlocksIn(ExtentsIn(LeavesKeys(tree)))
        /\ BlocksHeld' = BlocksIn(ExtentsIn(LeavesKeys(tree')))
    BY HeldIs
  <2> QED
    BY <1>3, <2>1 DEF MapKept
<1>4. CASE UNCHANGED vars
  BY <1>3, <1>4, MapSteps DEF vars
<1>5. ASSUME NEW n \in Names, KeyOp("O_DELETE", n, 0) PROVE [Map!Next]_(Map!vars)
  <2>1. Wiped(tree, tree', n)
    BY <1>2, <1>5, RemoveStep
  <2>2. MapKept \/ MapRemove(n)
    BY <1>1, <2>1, RemoveMaps
  <2> QED
    BY <2>2, MapSteps
<1>6. ASSUME NEW n \in Names, NEW d \in Data, KeyOp("O_REPLACE", n, d) PROVE [Map!Next]_(Map!vars)
  <2>1. Written(tree, tree', n, d)
    BY <1>2, <1>6, PutStep
  <2>2. MapPut(n, d)
    BY <1>1, <2>1, PutMaps
  <2> QED
    BY <2>2, MapSteps
<1>7. ASSUME NEW num \in Nums, GetFileDataBlock(num) PROVE [Map!Next]_(Map!vars)
  <2>1. BlockDone(num)
    BY <1>2, <1>7, BlockStep
  <2>2. MapKept \/ \E b \in DataBlocks : MapExtend(num, b)
    BY <1>1, <2>1, BlockMaps
  <2> QED
    BY <2>2, MapSteps
<1>8. ASSUME NEW num \in Nums, Truncate(num) PROVE [Map!Next]_(Map!vars)
  BY <1>3, <1>8, MapSteps DEF Truncate
<1>9. CASE Reduce
  <2> DEFINE num == reducing.num - 1
             new == reducing.new
             key == KeyAt(tree, SearchName(num))
  <2>1. ReduceDone(num, new, key)
    BY <1>1, <1>2, <1>9, ReduceStep
  <2> HIDE DEF num, new, key
  <2>2. /\ num \in Nums /\ new \in Nums /\ reducing.num = num + 1 /\ reducing # Idle
        /\ Cuts(tree, tree', num, new, key)
    BY <2>1 DEF ReduceDone
  <2>3. ExtentsOK(tree.nodes, num + 1)
    BY <1>1, <2>2 DEF End
  <2>4. \E f \in Nums : MapCut(f)
    BY <1>1, <2>2, <2>3, CutMaps
  <2> QED
    BY <2>4, MapSteps
<1> QED
  BY <1>4, <1>5, <1>6, <1>7, <1>8, <1>9 DEF Next

(* What the tree and the searches of file.c come to is the map: a plain    *)
(* key keeps the data it was given last, a block of the file its location, *)
(* through all splits, merges, extensions and truncations, and no two      *)
(* blocks share a location, as long as no error() stops the program.       *)
THEOREM TreeIsMap == Spec /\ []NoError => MapSpec
<1>1. Inv /\ NoError /\ Inv' /\ NoError' /\ [Next]_vars => [Map!Next]_(Map!vars)
  BY MapStep
<1> QED
  BY <1>1, MapAtFirst, TreeSound, PTL DEF Spec, MapSpec, Map!Spec

-----------------------------------------------------------------------------
(* Listings: the names a block lists are glued together from those of its  *)
(* keys, or of its children, in order.                                     *)

LEMMA KeysFromIs ==
  ASSUME NEW K \in Seq(KeySet), Sorted(K), NEW lo \in Nat, NEW F, F = KeysFrom(K, lo)
  PROVE  \E q \in Nat : /\ F \in Seq(KeySet) /\ Len(K) = q + Len(F)
                        /\ \A i \in 1 .. Len(F) : F[i] = K[q + i]
                        /\ \A i \in 1 .. q : i < FindKey(K, lo)
<1> DEFINE p == FindKey(K, lo)
           q == IF p = 0 THEN 0 ELSE p - 1
<1>1. p \in 0 .. Len(K) /\ Len(K) \in Nat
  BY FindKeyIs
<1>2. F = SubSeq(K, IF p = 0 THEN 1 ELSE p, Len(K))
  BY DEF KeysFrom
<1> HIDE DEF p
<1>3. q \in 0 .. Len(K) /\ q \in Nat /\ (IF p = 0 THEN 1 ELSE p) = q + 1
  BY <1>1
<1>4. \A i \in 1 .. q : i < p
  BY <1>1
<1> HIDE DEF q
<1>5. F = SubSeq(K, q + 1, Len(K))
  BY <1>2, <1>3
<1>6. /\ SubSeq(K, q + 1, Len(K)) \in Seq(KeySet) /\ Len(SubSeq(K, q + 1, Len(K))) = Len(K) - q
      /\ \A i \in 1 .. (Len(K) - q) : SubSeq(K, q + 1, Len(K))[i] = K[q + i]
  BY <1>3, HalvesAre
<1>7. F \in Seq(KeySet) /\ Len(F) = Len(K) - q /\ \A i \in 1 .. Len(F) : F[i] = K[q + i]
  BY <1>5, <1>6
<1>8. Len(K) = q + Len(F)
  BY <1>1, <1>3, <1>7
<1> QED
  BY <1>3, <1>4, <1>7, <1>8 DEF p

ListStep(list, h, F, lo, hi, f, S) ==
  IF S = {} THEN <<>> ELSE f[S \ {Max(S)}] \o Listed(list, h, F[Max(S)], lo, hi)
IsListFold(list, h, F, lo, hi, f) ==
  f = [S \in SUBSET DOMAIN F |-> ListStep(list, h, F, lo, hi, f, S)]

ListOf(list, h, F, lo, hi) ==
  FoldLeft(LAMBDA names, k : names \o Listed(list, h, k, lo, hi), <<>>, F)

LEMMA ListUnfold ==
  ASSUME NEW list, NEW h, NEW F, NEW lo, NEW hi
  PROVE  ListOf(list, h, F, lo, hi) = (CHOOSE f : IsListFold(list, h, F, lo, hi, f))[DOMAIN F]
  BY DEF ListOf, FoldLeft, MapThenFoldSet, IsListFold, ListStep

Glued(n, p, r) ==
  /\ r \in [0 .. n -> Seq(Nat)] /\ r[0] = <<>>
  /\ \A i \in 1 .. n : r[i] = r[i - 1] \o p[i]

LEMMA ListRuns ==
  ASSUME NEW list, NEW h, NEW F \in Seq(KeySet), NEW lo, NEW hi,
         NEW p, \A i \in 1 .. Len(F) : p[i] = Listed(list, h, F[i], lo, hi) /\ p[i] \in Seq(Nat)
  PROVE  \E r : Glued(Len(F), p, r) /\ ListOf(list, h, F, lo, hi) = r[Len(F)]
<1> DEFINE n == Len(F)
           U == Seq(Nat)
           R == [x \in U \X (1 .. n) |-> x[1] \o p[x[2]]]
<1>1. n \in Nat /\ DOMAIN F = 1 .. n /\ <<>> \in U
  OBVIOUS
<1>2. ASSUME NEW u \in U, NEW i \in 1 .. n
      PROVE  R[<<u, i>>] \in U /\ R[<<u, i>>] = u \o p[i]
  <2>1. u \o p[i] \in U
    OBVIOUS
  <2> QED
    BY <2>1
<1>3. \A i \in 1 .. n : p[i] = Listed(list, h, F[i], lo, hi)
  OBVIOUS
<1> HIDE DEF R, n, U
<1>4. StepsIn(U, n, R)
  <2>1. ASSUME NEW u \in U, NEW i \in 1 .. n PROVE R[<<u, i>>] \in U
    BY ONLY <1>2, <2>1
  <2> QED
    BY ONLY <1>1, <2>1, Zenon DEF StepsIn
<1>5. PICK g \in [SUBSET (1 .. n) -> U] : FoldSolves(n, <<>>, R, g)
  BY <1>1, <1>4, FoldExists
<1>6. IsListFold(list, h, F, lo, hi, g)
  <2>1. ASSUME NEW S \in SUBSET (1 .. n) PROVE g[S] = ListStep(list, h, F, lo, hi, g, S)
    <3>1. CASE S = {}
      BY <1>5, <3>1 DEF ListStep, FoldSolves
    <3>2. CASE S # {}
      <4>1. Max(S) \in 1 .. n /\ S \ {Max(S)} \in SUBSET (1 .. n)
        BY <1>1, <3>2, MaxIs
      <4>2. g[S] = R[<<g[S \ {Max(S)}], Max(S)>>] /\ g[S \ {Max(S)}] \in U
        BY <1>5, <3>2, <4>1 DEF FoldSolves
      <4>3. g[S] = g[S \ {Max(S)}] \o Listed(list, h, F[Max(S)], lo, hi)
        BY <1>2, <1>3, <4>1, <4>2
      <4> QED
        BY <3>2, <4>3 DEF ListStep
    <3> QED
      BY <3>1, <3>2
  <2>2. g = [S \in SUBSET (1 .. n) |-> g[S]]
    OBVIOUS
  <2> QED
    BY <1>1, <2>1, <2>2 DEF IsListFold
<1> DEFINE e == CHOOSE f : IsListFold(list, h, F, lo, hi, f)
<1>7. IsListFold(list, h, F, lo, hi, e)
  BY <1>6
<1> HIDE DEF e
<1>8. \A S \in SUBSET (1 .. n) : e[S] = ListStep(list, h, F, lo, hi, e, S)
  BY <1>1, <1>7 DEF IsListFold
<1>9. ASSUME NEW S \in SUBSET (1 .. n)
      PROVE  /\ S = {} => e[S] = <<>>
             /\ S # {} /\ e[S \ {Max(S)}] \in U => e[S] = R[<<e[S \ {Max(S)}], Max(S)>>]
  <2>1. CASE S = {}
    BY <1>8, <2>1 DEF ListStep
  <2>2. CASE S # {}
    <3>1. Max(S) \in 1 .. n
      BY <1>1, <2>2, MaxIs
    <3>2. e[S] = e[S \ {Max(S)}] \o Listed(list, h, F[Max(S)], lo, hi)
      BY <1>8, <2>2 DEF ListStep
    <3> QED
      BY <1>2, <1>3, <2>2, <3>1, <3>2
  <2> QED
    BY <2>1, <2>2
<1>10. FoldGives(U, n, <<>>, R, e)
  BY <1>9 DEF FoldGives
<1>11. PICK f : Steps(U, n, <<>>, R, f) /\ f[n] = e[1 .. n]
  BY <1>1, <1>4, <1>10, FoldSteps
<1>12. ASSUME NEW i \in 1 .. n PROVE f[i] = f[i - 1] \o p[i]
  <2>1. i - 1 \in 0 .. n
    BY <1>1
  <2>2. f[i - 1] \in U /\ f[i] = R[<<f[i - 1], i>>]
    BY <1>11, <2>1 DEF Steps
  <2> QED
    BY <1>2, <2>2
<1>13. ListOf(list, h, F, lo, hi) = e[1 .. n]
  BY <1>1, ListUnfold DEF e
<1>14. Glued(n, p, f)
  BY <1>11, <1>12 DEF Glued, Steps, U
<1> QED
  BY <1>11, <1>13, <1>14 DEF n

LEMMA GluedOnce ==
  ASSUME NEW n \in Nat, NEW p, NEW r, NEW s, Glued(n, p, r), Glued(n, p, s)
  PROVE  r[n] = s[n]
<1> DEFINE D == {i \in Nat : i <= n => r[i] = s[i]}
<1>1. 0 \in D
  BY DEF Glued
<1>2. ASSUME NEW i \in Nat, i \in D PROVE i + 1 \in D
  <2> SUFFICES ASSUME i + 1 <= n PROVE r[i + 1] = s[i + 1]
    OBVIOUS
  <2>1. i + 1 \in 1 .. n /\ (i + 1) - 1 = i /\ r[i] = s[i]
    BY <1>2
  <2> QED
    BY <2>1 DEF Glued
<1>3. \A i \in Nat : i \in D
  <2> HIDE DEF D
  <2> QED
    BY <1>1, <1>2, NatSet
<1> QED
  BY <1>3

Occurs(s, x) == \E a \in 1 .. Len(s) : s[a] = x
Rising(s) == \A a, b \in 1 .. Len(s) : a < b => s[a] < s[b]

LEMMA JoinRising ==
  ASSUME NEW A \in Seq(Nat), NEW B \in Seq(Nat), Rising(A), Rising(B),
         \A x, y : Occurs(A, x) /\ Occurs(B, y) => x < y
  PROVE  Rising(A \o B) /\ \A x : Occurs(A \o B, x) <=> Occurs(A, x) \/ Occurs(B, x)
<1> DEFINE a == Len(A)
           b == Len(B)
           J == A \o B
<1>1. a \in Nat /\ b \in Nat /\ Len(J) = a + b
  OBVIOUS
<1>2. \A i \in 1 .. a : J[i] = A[i]
  OBVIOUS
<1>3. \A i \in 1 .. b : J[a + i] = B[i]
  OBVIOUS
<1> HIDE DEF J, a, b
<1>4. ASSUME NEW i \in 1 .. (a + b), NEW j \in 1 .. (a + b), i < j PROVE J[i] < J[j]
  <2>1. CASE i \in 1 .. a /\ j \in 1 .. a
    BY <1>2, <1>4, <2>1 DEF Rising, a
  <2>2. CASE i \in 1 .. a /\ j - a \in 1 .. b /\ j = a + (j - a)
    <3>1. J[i] = A[i] /\ J[j] = B[j - a]
      BY <1>2, <1>3, <2>2
    <3>2. Occurs(A, A[i]) /\ Occurs(B, B[j - a])
      BY <2>2 DEF Occurs, a, b
    <3> QED
      BY <3>1, <3>2
  <2>3. CASE /\ i - a \in 1 .. b /\ j - a \in 1 .. b /\ i - a < j - a
             /\ i = a + (i - a) /\ j = a + (j - a)
    <3>1. J[i] = B[i - a] /\ J[j] = B[j - a]
      BY <1>3, <2>3
    <3>2. B[i - a] < B[j - a]
      BY <2>3 DEF Rising, b
    <3> QED
      BY <3>1, <3>2
  <2> QED
    BY <1>1, <1>4, <2>1, <2>2, <2>3, JoinIndices
<1>5. ASSUME NEW x, Occurs(J, x) PROVE Occurs(A, x) \/ Occurs(B, x)
  <2>1. PICK i \in 1 .. (a + b) : J[i] = x
    BY <1>1, <1>5 DEF Occurs
  <2>2. CASE i \in 1 .. a
    BY <1>2, <2>1, <2>2 DEF Occurs, a
  <2>3. CASE i - a \in 1 .. b /\ i = a + (i - a)
    BY <1>3, <2>1, <2>3 DEF Occurs, b
  <2> QED
    BY <1>1, <2>2, <2>3, JoinIndex
<1>6. ASSUME NEW x, Occurs(A, x) PROVE Occurs(J, x)
  <2>1. PICK i \in 1 .. a : A[i] = x
    BY <1>6 DEF Occurs, a
  <2>2. i \in 1 .. Len(J) /\ J[i] = x
    BY <1>1, <1>2, <2>1
  <2> QED
    BY <2>2 DEF Occurs
<1>7. ASSUME NEW x, Occurs(B, x) PROVE Occurs(J, x)
  <2>1. PICK i \in 1 .. b : B[i] = x
    BY <1>7 DEF Occurs, b
  <2>2. a + i \in 1 .. Len(J) /\ J[a + i] = x
    BY <1>1, <1>3, <2>1
  <2> QED
    BY <2>2 DEF Occurs
<1>8. Rising(J)
  BY <1>1, <1>4 DEF Rising
<1> QED
  BY <1>5, <1>6, <1>7, <1>8 DEF J

(* Rising pieces, each behind the last, are glued to a rising list of all  *)
(* their names.                                                            *)
LEMMA GluedRising ==
  ASSUME NEW n \in Nat, NEW p, NEW r, Glued(n, p, r),
         \A i \in 1 .. n : p[i] \in Seq(Nat) /\ Rising(p[i]),
         \A i, j \in 1 .. n : \A x, y : i < j /\ Occurs(p[i], x) /\ Occurs(p[j], y) => x < y
  PROVE  /\ r[n] \in Seq(Nat) /\ Rising(r[n])
         /\ \A x : Occurs(r[n], x) <=> \E i \in 1 .. n : Occurs(p[i], x)
<1> DEFINE Good(m) == Rising(r[m]) /\ \A x : Occurs(r[m], x) <=> \E i \in 1 .. m : Occurs(p[i], x)
           D == {m \in Nat : m <= n => Good(m)}
<1>1. \A m \in 0 .. n : r[m] \in Seq(Nat)
  BY DEF Glued
<1>2. Good(0)
  <2>1. r[0] = <<>> /\ Len(<<>>) = 0
    BY DEF Glued
  <2>2. Rising(r[0]) /\ \A x : ~ Occurs(r[0], x)
    BY <2>1 DEF Rising, Occurs
  <2> QED
    BY <2>2
<1>3. ASSUME NEW m \in Nat, m + 1 <= n, Good(m) PROVE Good(m + 1)
  <2> DEFINE A == r[m]
             B == p[m + 1]
  <2>1. m + 1 \in 1 .. n /\ (m + 1) - 1 = m /\ m \in 0 .. n
    BY <1>3
  <2>2. r[m + 1] = A \o B
    BY <2>1 DEF Glued
  <2>3. A \in Seq(Nat) /\ B \in Seq(Nat) /\ Rising(A) /\ Rising(B)
    BY <1>1, <1>3, <2>1
  <2>4. ASSUME NEW x, NEW y, Occurs(A, x), Occurs(B, y) PROVE x < y
    <3>1. PICK i \in 1 .. m : Occurs(p[i], x)
      BY <1>3, <2>4
    <3>2. i \in 1 .. n /\ i < m + 1
      BY <2>1, <3>1
    <3> QED
      BY <2>1, <2>4, <3>1, <3>2
  <2>5. ASSUME NEW x
        PROVE  (\E i \in 1 .. (m + 1) : Occurs(p[i], x)) <=> Occurs(A, x) \/ Occurs(B, x)
    <3>1. \A i \in 1 .. (m + 1) : i \in 1 .. m \/ i = m + 1
      OBVIOUS
    <3>2. \A i \in 1 .. m : i \in 1 .. (m + 1)
      OBVIOUS
    <3>3. m + 1 \in 1 .. (m + 1)
      OBVIOUS
    <3>4. Occurs(A, x) <=> \E i \in 1 .. m : Occurs(p[i], x)
      BY <1>3
    <3> HIDE DEF A
    <3> QED
      BY <3>1, <3>2, <3>3, <3>4
  <2> HIDE DEF A, B
  <2>6. Rising(A \o B) /\ \A x : Occurs(A \o B, x) <=> Occurs(A, x) \/ Occurs(B, x)
    BY <2>3, <2>4, JoinRising
  <2> QED
    BY <2>2, <2>5, <2>6
<1> HIDE DEF Good
<1>4. 0 \in D
  BY <1>2
<1>5. ASSUME NEW m \in Nat, m \in D PROVE m + 1 \in D
  <2> SUFFICES ASSUME m + 1 <= n PROVE Good(m + 1)
    OBVIOUS
  <2>1. Good(m)
    BY <1>5
  <2> QED
    BY <1>3, <2>1
<1>6. \A m \in Nat : m \in D
  <2> HIDE DEF D
  <2> QED
    BY <1>4, <1>5, NatSet
<1>7. Good(n)
  BY <1>6
<1> QED
  BY <1>1, <1>7 DEF Good

LEMMA LowOrder ==
  ASSUME NEW a, Stored(a), NEW b, Stored(b), Low(a) < Low(b)
  PROVE  a < b
<1>1. /\ a \in Nat /\ b \in Nat /\ Low(a) \in Nat /\ Low(b) \in Nat /\ High(b) \in Nat
      /\ a <= Low(a) /\ Low(b) <= High(b)
  BY StoredIs
<1>2. CASE b \in Names
  BY <1>1, <1>2, NameIs
<1>3. CASE a \in Names /\ b \notin Names
  <2>1. Low(a) = a /\ a # b
    BY <1>3, NameIs
  <2>2. CASE b < a
    <3>1. High(b) < a
      BY <1>3, <2>2, NameAbove
    <3> QED
      BY <1>1, <2>1, <3>1
  <2> QED
    BY <1>1, <2>1, <2>2
<1>4. CASE a \notin Names /\ b \notin Names
  <2>1. IsExtent(a) /\ IsExtent(b)
    <3>1. MaxNum \in Nat /\ \A n \in Nums : n \in 0 .. (MaxNum + 1)
      BY ExtentsAssumption DEF Nums
    <3> QED
      BY <1>4, <3>1, ExtentIs DEF Stored
  <2>2. /\ StartOf(a) \in Nums /\ StopOf(a) \in Nums /\ a = Extent(StartOf(a), StopOf(a))
        /\ StartOf(b) \in Nums /\ StopOf(b) \in Nums /\ b = Extent(StartOf(b), StopOf(b))
        /\ Low(a) = SearchName(StartOf(a)) /\ Low(b) = SearchName(StartOf(b))
    BY <2>1, StoredExtent
  <2> DEFINE s == StartOf(a)
             t == StartOf(b)
  <2>3. MaxNum \in Nat /\ s \in Nat /\ t \in Nat /\ MaxNum + 1 \in 0 .. (MaxNum + 1)
        /\ StopOf(a) \in 0 .. (MaxNum + 1) /\ StopOf(b) \in 0 .. (MaxNum + 1)
    BY <2>2, ExtentsAssumption DEF Nums
  <2>4. Extent(s, MaxNum + 1) < Extent(t, MaxNum + 1)
    BY <2>2 DEF SearchName
  <2> HIDE DEF s, t
  <2>5. s \in Nums /\ t \in Nums
    BY <2>2 DEF s, t
  <2>6. s < t \/ (s = t /\ MaxNum + 1 < MaxNum + 1)
    BY ONLY <2>3, <2>4, <2>5, ExtentOrder
  <2>7. s < t
    BY <2>3, <2>6
  <2>8. Extent(s, StopOf(a)) < Extent(t, StopOf(b))
    BY ONLY <2>3, <2>5, <2>7, ExtentOrder
  <2> QED
    BY <2>2, <2>8 DEF s, t
<1> QED
  BY <1>2, <1>3, <1>4

(* The names a block of zone Z has to list.                                *)
Wanted(N, Z, lo, hi, x) ==
  /\ x \in Nat /\ lo <= x /\ x <= hi /\ Low(x) \in Z
  /\ \E k : Has(N, k) /\ k.name = x

ListsAll(N, Z, lo, hi, s) ==
  /\ s \in Seq(Nat) /\ Rising(s)
  /\ \A x : Occurs(s, x) <=> Wanted(N, Z, lo, hi, x)

ListingOf(N, list, l, lo, hi) == ListOf(list, N[l].height, KeysFrom(N[l].keys, lo), lo, hi)

LEMMA InLeaf ==
  ASSUME NEW N, NEW root, NEW z, Zoned(N, root, z), NEW l \in Blocks(N), N[l].height = 0,
         NEW k, Has(N, k), Low(k.name) \in z[l]
  PROVE  \E i \in 1 .. Len(N[l].keys) : N[l].keys[i] = k
<1>1. PICK m \in Blocks(N) : N[m].height = 0 /\ \E i \in 1 .. Len(N[m].keys) : N[m].keys[i] = k
  BY DEF Has
<1>2. LeafOK(N[m].keys, z[m])
  BY <1>1 DEF Zoned, BlockOK
<1>3. Low(k.name) \in z[m]
  BY <1>1, <1>2 DEF LeafOK
<1>4. Apart(N, z, l, m)
  BY DEF Zoned
<1>5. l = m
  BY <1>1, <1>3, <1>4 DEF Apart
<1> QED
  BY <1>1, <1>5

LEMMA LeafLists ==
  ASSUME NEW N, NEW root, NEW z, Zoned(N, root, z), NEW l \in Blocks(N), N[l].height = 0,
         NEW lo \in Nat, NEW hi \in Nat, NEW list
  PROVE  ListsAll(N, z[l], lo, hi, ListingOf(N, list, l, lo, hi))
<1> DEFINE K == N[l].keys
           F == KeysFrom(K, lo)
           n == Len(F)
           p == [i \in 1 .. n |-> Listed(list, 0, F[i], lo, hi)]
           s == ListOf(list, 0, F, lo, hi)
<1>1. K \in Seq(KeySet) /\ Sorted(K)
  BY ZonedTypes, ZonedSorted
<1>2. LeafOK(K, z[l])
  BY DEF Zoned, BlockOK
<1>3. \A k : Has(N, k) /\ Low(k.name) \in z[l] => \E i \in 1 .. Len(K) : K[i] = k
  BY InLeaf
<1>4. \A i \in 1 .. Len(K) : Has(N, K[i])
  BY HasIs
<1>5. ListingOf(N, list, l, lo, hi) = s
  BY DEF ListingOf
<1> HIDE DEF K, F
<1>6. PICK q \in Nat : /\ F \in Seq(KeySet) /\ Len(K) = q + Len(F)
                       /\ \A i \in 1 .. Len(F) : F[i] = K[q + i]
                       /\ \A i \in 1 .. q : i < FindKey(K, lo)
  BY <1>1, KeysFromIs DEF F
<1>7. n \in Nat /\ \A i \in 1 .. n : q + i \in 1 .. Len(K) /\ F[i] = K[q + i] /\ F[i].name \in Nat
  <2>1. n \in Nat /\ Len(K) \in Nat
    BY <1>1, <1>6
  <2>2. \A i \in 1 .. n : q + i \in 1 .. Len(K)
    BY <1>6, <2>1
  <2> QED
    BY <1>1, <1>6, <2>1, <2>2, KeyNames
<1>8. ASSUME NEW i \in 1 .. n
      PROVE  /\ p[i] = Listed(list, 0, F[i], lo, hi) /\ p[i] \in Seq(Nat) /\ Rising(p[i])
             /\ \A x : Occurs(p[i], x) <=> x = F[i].name /\ lo <= x /\ x <= hi
  <2> DEFINE m == F[i].name
  <2>1. p[i] = Listed(list, 0, F[i], lo, hi)
    OBVIOUS
  <2>2. m \in Nat
    BY <1>7
  <2>3. p[i] = IF m > hi \/ m < lo THEN <<>> ELSE <<m>>
    BY <2>1 DEF Listed
  <2> HIDE DEF m, p
  <2>4. CASE m > hi \/ m < lo
    <3>1. p[i] = <<>> /\ Len(<<>>) = 0 /\ <<>> \in Seq(Nat)
      BY <2>3, <2>4
    <3>2. Rising(p[i]) /\ \A x : ~ Occurs(p[i], x)
      BY <3>1 DEF Rising, Occurs
    <3>3. \A x : ~ (x = m /\ lo <= x /\ x <= hi)
      BY <2>2, <2>4
    <3>4. \A x : Occurs(p[i], x) <=> x = m /\ lo <= x /\ x <= hi
      BY ONLY <3>2, <3>3
    <3> QED
      BY ONLY <2>1, <3>1, <3>2, <3>4 DEF m
  <2>5. CASE ~ (m > hi \/ m < lo)
    <3>1. p[i] = <<m>> /\ Len(<<m>>) = 1 /\ <<m>>[1] = m /\ <<m>> \in Seq(Nat)
      BY <2>2, <2>3, <2>5
    <3>2. Rising(p[i]) /\ \A x : Occurs(p[i], x) <=> x = m
      BY <3>1 DEF Rising, Occurs
    <3>3. \A x : x = m => lo <= x /\ x <= hi
      BY <2>2, <2>5
    <3>4. \A x : Occurs(p[i], x) <=> x = m /\ lo <= x /\ x <= hi
      BY ONLY <3>2, <3>3
    <3> QED
      BY ONLY <2>1, <3>1, <3>2, <3>4 DEF m
  <2> QED
    BY <2>4, <2>5
<1> HIDE DEF p, n, s
<1>9. PICK r : Glued(n, p, r) /\ s = r[n]
  BY <1>6, <1>8, ListRuns DEF n, s
<1>10. ASSUME NEW i \in 1 .. n, NEW j \in 1 .. n, NEW x, NEW y, i < j, Occurs(p[i], x), Occurs(p[j], y)
       PROVE  x < y
  <2>1. q + i \in 1 .. Len(K) /\ F[i] = K[q + i] /\ q + j \in 1 .. Len(K) /\ F[j] = K[q + j]
    BY ONLY <1>7, i \in 1 .. n, j \in 1 .. n
  <2>2. x = F[i].name /\ y = F[j].name
    BY ONLY <1>8, <1>10, i \in 1 .. n, j \in 1 .. n
  <2>3. q + i < q + j
    BY <1>7, <1>10
  <2> QED
    BY <1>1, <2>1, <2>2, <2>3 DEF Sorted
<1>11. /\ r[n] \in Seq(Nat) /\ Rising(r[n])
       /\ \A x : Occurs(r[n], x) <=> \E i \in 1 .. n : Occurs(p[i], x)
  BY <1>7, <1>8, <1>9, <1>10, GluedRising
<1>12. ASSUME NEW i \in 1 .. n, NEW x, Occurs(p[i], x) PROVE Wanted(N, z[l], lo, hi, x)
  <2> DEFINE j == q + i
  <2>1. j \in 1 .. Len(K) /\ F[i] = K[j] /\ F[i].name \in Nat
    BY ONLY <1>7, i \in 1 .. n
  <2>2. x = F[i].name /\ lo <= x /\ x <= hi
    BY ONLY <1>8, <1>12, i \in 1 .. n
  <2> HIDE DEF j
  <2>3. Low(x) \in z[l] /\ Has(N, K[j]) /\ x = K[j].name
    BY <1>2, <1>4, <2>1, <2>2 DEF LeafOK
  <2> QED
    BY <2>1, <2>2, <2>3 DEF Wanted
<1>13. ASSUME NEW x, Wanted(N, z[l], lo, hi, x) PROVE \E i \in 1 .. n : Occurs(p[i], x)
  <2>1. PICK k : Has(N, k) /\ k.name = x
    BY <1>13 DEF Wanted
  <2>2. x \in Nat /\ lo <= x /\ x <= hi /\ Low(x) \in z[l]
    BY <1>13 DEF Wanted
  <2>3. PICK j \in 1 .. Len(K) : K[j] = k
    BY <1>3, <2>1, <2>2
  <2>4. ASSUME j <= q PROVE FALSE
    <3>1. FindKey(K, lo) \in 0 .. Len(K) /\ \A i \in 1 .. Len(K) : K[i].name <= lo <=> i <= FindKey(K, lo)
      BY <1>1, FindKeyIs
    <3>2. j < FindKey(K, lo)
      BY <1>6, <2>4
    <3>3. FindKey(K, lo) \in 1 .. Len(K)
      BY <3>1, <3>2
    <3>4. K[j].name < K[FindKey(K, lo)].name /\ K[FindKey(K, lo)].name <= lo
      BY <1>1, <3>1, <3>2, <3>3 DEF Sorted
    <3>5. K[FindKey(K, lo)].name \in Nat
      BY <1>1, <3>3, KeyNames
    <3> QED
      BY <2>1, <2>2, <2>3, <3>4, <3>5
  <2>5. j - q \in 1 .. n /\ q + (j - q) = j
    BY <1>6, <1>7, <2>4 DEF n
  <2>6. F[j - q] = k
    BY <1>7, <2>3, <2>5
  <2> QED
    BY <1>8, <2>1, <2>2, <2>5, <2>6
<1> QED
  BY <1>5, <1>9, <1>11, <1>12, <1>13 DEF ListsAll

LEMMA InnerLists ==
  ASSUME NEW N, NEW root, NEW z, Zoned(N, root, z), NEW l \in Blocks(N), N[l].height > 0,
         NEW lo \in Names, NEW hi \in Names, NEW list,
         \A i \in 1 .. Len(N[l].keys) :
           ListsAll(N, z[N[l].keys[i].data], lo, hi, list[N[l].keys[i].data])
  PROVE  ListsAll(N, z[l], lo, hi, ListingOf(N, list, l, lo, hi))
<1> DEFINE K == N[l].keys
           h == N[l].height
           Z == z[l]
           F == KeysFrom(K, lo)
           n == Len(F)
           p == [i \in 1 .. n |-> Listed(list, h, F[i], lo, hi)]
           s == ListOf(list, h, F, lo, hi)
<1>1. K \in Seq(KeySet) /\ Sorted(K) /\ h \in Nat /\ h > 0 /\ lo \in Nat /\ hi \in Nat /\ Z \in SUBSET Nat
  BY ZonedTypes, ZonedSorted, NameIs
<1>2. \A i \in 1 .. Len(K) : z[K[i].data] = Part(K, Z, i)
  BY DEF Zoned, BlockOK, InnerOK, Child
<1>3. \A i \in 1 .. Len(K) : ListsAll(N, z[K[i].data], lo, hi, list[K[i].data])
  OBVIOUS
<1>4. \A m \in Z : FindKey(K, m) \in 1 .. Len(K)
  BY ChildFor
<1>5. ListingOf(N, list, l, lo, hi) = s
  BY DEF ListingOf
<1>6. \A x : (\E k : Has(N, k) /\ k.name = x) => Stored(x)
  BY HasStored
<1> HIDE DEF K, F, h, Z
<1>7. PICK q \in Nat : /\ F \in Seq(KeySet) /\ Len(K) = q + Len(F)
                       /\ \A i \in 1 .. Len(F) : F[i] = K[q + i]
                       /\ \A i \in 1 .. q : i < FindKey(K, lo)
  BY <1>1, KeysFromIs DEF F
<1>8. n \in Nat /\ \A i \in 1 .. n : q + i \in 1 .. Len(K) /\ F[i] = K[q + i] /\ F[i].name \in Nat
  <2>1. n \in Nat /\ Len(K) \in Nat
    BY <1>1, <1>7
  <2>2. \A i \in 1 .. n : q + i \in 1 .. Len(K)
    BY <1>7, <2>1
  <2> QED
    BY <1>1, <1>7, <2>1, <2>2, KeyNames
<1> DEFINE Mine(i, x) == F[i].name <= hi /\ Wanted(N, Z, lo, hi, x) /\ FindKey(K, Low(x)) = q + i
<1>9. ASSUME NEW i \in 1 .. n
      PROVE  /\ p[i] = Listed(list, h, F[i], lo, hi) /\ p[i] \in Seq(Nat) /\ Rising(p[i])
             /\ \A x : Occurs(p[i], x) <=> Mine(i, x)
  <2> DEFINE m == F[i].name
             c == F[i].data
  <2>1. p[i] = Listed(list, h, F[i], lo, hi)
    OBVIOUS
  <2>2. m \in Nat /\ q + i \in 1 .. Len(K) /\ F[i] = K[q + i]
    BY <1>8
  <2>3. p[i] = IF m > hi THEN <<>> ELSE list[c]
    BY <1>1, <2>1 DEF Listed
  <2>4. ListsAll(N, z[c], lo, hi, list[c]) /\ z[c] = Part(K, Z, q + i)
    BY <1>2, <1>3, <2>2
  <2>5. ASSUME NEW x PROVE Wanted(N, z[c], lo, hi, x) <=> Wanted(N, Z, lo, hi, x) /\ FindKey(K, Low(x)) = q + i
    <3>1. Low(x) \in z[c] <=> Low(x) \in Z /\ FindKey(K, Low(x)) = q + i
      BY <2>4 DEF Part
    <3> QED
      BY ONLY <3>1 DEF Wanted
  <2>6. \A x : Mine(i, x) <=> m <= hi /\ Wanted(N, z[c], lo, hi, x)
    BY ONLY <2>5 DEF m
  <2> HIDE DEF m, c, p, Mine
  <2>7. CASE m > hi
    <3>1. p[i] = <<>> /\ Len(<<>>) = 0 /\ <<>> \in Seq(Nat)
      BY <2>3, <2>7
    <3>2. Rising(p[i]) /\ \A x : ~ Occurs(p[i], x)
      BY <3>1 DEF Rising, Occurs
    <3>3. ~ (m <= hi)
      BY <1>1, <2>2, <2>7 DEF m
    <3> QED
      BY ONLY <2>1, <2>6, <3>1, <3>2, <3>3
  <2>8. CASE ~ (m > hi)
    <3>1. p[i] = list[c]
      BY <2>3, <2>8
    <3>2. m <= hi
      BY <1>1, <2>2, <2>8 DEF m
    <3> QED
      BY ONLY <2>1, <2>4, <2>6, <3>1, <3>2 DEF ListsAll
  <2> QED
    BY <2>7, <2>8
<1> HIDE DEF p, n, s, Mine
<1>10. PICK r : Glued(n, p, r) /\ s = r[n]
  <2>1. F \in Seq(KeySet)
    BY <1>7
  <2>2. \A i \in 1 .. Len(F) : p[i] = Listed(list, h, F[i], lo, hi) /\ p[i] \in Seq(Nat)
    BY <1>9 DEF n
  <2>3. \E r : Glued(Len(F), p, r) /\ ListOf(list, h, F, lo, hi) = r[Len(F)]
    BY ONLY <2>1, <2>2, ListRuns
  <2> QED
    BY <2>3 DEF n, s
<1>11. ASSUME NEW i \in 1 .. n, NEW j \in 1 .. n, NEW x, NEW y, i < j, Occurs(p[i], x), Occurs(p[j], y)
       PROVE  x < y
  <2>1. Mine(i, x) /\ Mine(j, y)
    BY ONLY <1>9, <1>11, i \in 1 .. n, j \in 1 .. n
  <2>2. /\ FindKey(K, Low(x)) = q + i /\ FindKey(K, Low(y)) = q + j
        /\ Wanted(N, Z, lo, hi, x) /\ Wanted(N, Z, lo, hi, y)
    BY <2>1 DEF Mine
  <2>3. Stored(x) /\ Stored(y)
    BY <1>6, <2>2 DEF Wanted
  <2>4. Low(x) \in Nat /\ Low(y) \in Nat
    BY <2>3, StoredIs
  <2>5. q + i < q + j /\ q + j \in 1 .. Len(K)
    BY <1>8, <1>11
  <2>6. K[q + j].name <= Low(y) /\ ~ (K[q + j].name <= Low(x)) /\ K[q + j].name \in Nat
    <3> DEFINE a == q + i
               b == q + j
    <3>1. a < b /\ b \in 1 .. Len(K) /\ a \in Nat /\ FindKey(K, Low(x)) = a /\ FindKey(K, Low(y)) = b
      BY <1>8, <2>2, <2>5
    <3> HIDE DEF a, b
    <3>2. K[b].name <= Low(x) <=> b <= a
      BY <1>1, <2>4, <3>1, FindKeyIs
    <3>3. K[b].name <= Low(y) <=> b <= b
      BY <1>1, <2>4, <3>1, FindKeyIs
    <3>4. K[b].name <= Low(y) /\ ~ (K[b].name <= Low(x)) /\ K[b].name \in Nat
      BY <1>1, <3>1, <3>2, <3>3, KeyNames
    <3> QED
      BY <3>4 DEF b
  <2>7. Low(x) < Low(y)
    BY <2>4, <2>6
  <2> QED
    BY <2>3, <2>7, LowOrder
<1>12. /\ r[n] \in Seq(Nat) /\ Rising(r[n])
       /\ \A x : Occurs(r[n], x) <=> \E i \in 1 .. n : Occurs(p[i], x)
  BY <1>8, <1>9, <1>10, <1>11, GluedRising
<1>13. ASSUME NEW i \in 1 .. n, NEW x, Occurs(p[i], x) PROVE Wanted(N, Z, lo, hi, x)
  <2>1. Mine(i, x)
    BY ONLY <1>9, <1>13, i \in 1 .. n
  <2> QED
    BY <2>1 DEF Mine
<1>14. ASSUME NEW x, Wanted(N, Z, lo, hi, x) PROVE \E i \in 1 .. n : Occurs(p[i], x)
  <2> DEFINE a == Low(x)
             j == FindKey(K, a)
  <2>1. Stored(x) /\ x \in Nat /\ lo <= x /\ x <= hi /\ a \in Z
    BY <1>6, <1>14 DEF Wanted
  <2>2. a \in Nat /\ x <= a /\ a <= High(x) /\ High(x) \in Nat
    BY <2>1, StoredIs
  <2>3. a <= hi
    <3>1. CASE x = hi
      BY <2>2, <3>1, NameIs
    <3>2. CASE x < hi
      <4>1. High(x) < hi
        BY <2>1, <3>2, NameAbove
      <4> QED
        BY <1>1, <2>2, <4>1
    <3> QED
      BY <1>1, <2>1, <3>1, <3>2
  <2>4. j \in 1 .. Len(K)
    BY <1>4, <2>1
  <2> HIDE DEF a
  <2>5. \A i \in 1 .. Len(K) : K[i].name <= a <=> i <= j
    BY <1>1, <2>2, FindKeyIs
  <2> HIDE DEF j
  <2>6. K[j].name <= a /\ K[j].name \in Nat
    BY <1>1, <2>4, <2>5, KeyNames
  <2>7. ASSUME j <= q PROVE FALSE
    <3> DEFINE f == FindKey(K, lo)
    <3>1. f \in 0 .. Len(K) /\ \A i \in 1 .. Len(K) : K[i].name <= lo <=> i <= f
      BY <1>1, FindKeyIs
    <3>2. j < f
      BY <1>7, <2>4, <2>7
    <3> HIDE DEF f
    <3>3. f \in 1 .. Len(K)
      BY <3>1, <3>2, <2>4
    <3>4. K[f].name <= lo /\ K[f].name \in Nat
      BY <1>1, <3>1, <3>3, KeyNames
    <3>5. K[f].name <= a
      BY <1>1, <2>1, <2>2, <3>4
    <3> QED
      BY <2>4, <2>5, <3>2, <3>3, <3>5
  <2>8. j - q \in 1 .. n /\ q + (j - q) = j
    BY <1>7, <1>8, <2>4, <2>7 DEF n
  <2>9. F[j - q] = K[j]
    BY <1>8, <2>8
  <2>10. F[j - q].name <= hi
    BY <1>1, <2>2, <2>3, <2>6, <2>9
  <2>11. Mine(j - q, x)
    BY ONLY <1>14, <2>8, <2>10 DEF Mine, j, a
  <2> QED
    BY ONLY <1>9, <2>8, <2>11
<1> QED
  BY <1>5, <1>10, <1>12, <1>13, <1>14 DEF ListsAll, Z

LEMMA SameListing ==
  ASSUME NEW N, NEW root, NEW z, Zoned(N, root, z), NEW l \in Blocks(N), NEW lo \in Nat, NEW hi \in Nat,
         NEW e, NEW f,
         N[l].height > 0 => \A i \in 1 .. Len(N[l].keys) :
           e[N[l].keys[i].data] = f[N[l].keys[i].data] /\ f[N[l].keys[i].data] \in Seq(Nat)
  PROVE  ListingOf(N, e, l, lo, hi) = ListingOf(N, f, l, lo, hi)
<1> DEFINE K == N[l].keys
           h == N[l].height
           F == KeysFrom(K, lo)
           n == Len(F)
           p == [i \in 1 .. n |-> Listed(f, h, F[i], lo, hi)]
<1>1. K \in Seq(KeySet) /\ Sorted(K) /\ h \in Nat
  BY ZonedTypes, ZonedSorted
<1>2. h > 0 => \A i \in 1 .. Len(K) : e[K[i].data] = f[K[i].data] /\ f[K[i].data] \in Seq(Nat)
  OBVIOUS
<1>3. ListingOf(N, e, l, lo, hi) = ListOf(e, h, F, lo, hi) /\ ListingOf(N, f, l, lo, hi) = ListOf(f, h, F, lo, hi)
  BY DEF ListingOf
<1> HIDE DEF K, F, h
<1>4. PICK q \in Nat : /\ F \in Seq(KeySet) /\ Len(K) = q + Len(F)
                       /\ \A i \in 1 .. Len(F) : F[i] = K[q + i]
  BY <1>1, KeysFromIs DEF F
<1>5. n \in Nat /\ \A i \in 1 .. n : q + i \in 1 .. Len(K) /\ F[i] = K[q + i] /\ F[i].name \in Nat
  <2>1. n \in Nat /\ Len(K) \in Nat
    BY <1>1, <1>4
  <2>2. \A i \in 1 .. n : q + i \in 1 .. Len(K)
    BY <1>4, <2>1
  <2> QED
    BY <1>1, <1>4, <2>1, <2>2, KeyNames
<1>6. ASSUME NEW i \in 1 .. n
      PROVE  /\ p[i] = Listed(e, h, F[i], lo, hi) /\ p[i] = Listed(f, h, F[i], lo, hi)
             /\ p[i] \in Seq(Nat)
  <2> DEFINE m == F[i].name
             c == F[i].data
  <2>1. p[i] = Listed(f, h, F[i], lo, hi)
    OBVIOUS
  <2>2. m \in Nat /\ q + i \in 1 .. Len(K) /\ F[i] = K[q + i]
    BY <1>5
  <2> HIDE DEF p, m, c
  <2>3. <<m>> \in Seq(Nat) /\ <<>> \in Seq(Nat)
    BY <2>2
  <2>4. h > 0 => e[c] = f[c] /\ f[c] \in Seq(Nat)
    BY <1>2, <2>2 DEF c
  <2>5. h = 0 \/ h > 0
    BY <1>1
  <2>6. \A g : Listed(g, h, F[i], lo, hi) =
                 IF m > hi \/ (h = 0 /\ m < lo) THEN <<>> ELSE IF h = 0 THEN <<m>> ELSE g[c]
    BY DEF Listed, m, c
  <2> QED
    BY <2>1, <2>3, <2>4, <2>5, <2>6
<1> HIDE DEF p, n
<1>7. PICK r : Glued(n, p, r) /\ ListOf(e, h, F, lo, hi) = r[n]
  <2>1. \A i \in 1 .. Len(F) : p[i] = Listed(e, h, F[i], lo, hi) /\ p[i] \in Seq(Nat)
    BY <1>6 DEF n
  <2>2. F \in Seq(KeySet)
    BY <1>4
  <2>3. \E r : Glued(Len(F), p, r) /\ ListOf(e, h, F, lo, hi) = r[Len(F)]
    BY ONLY <2>1, <2>2, ListRuns
  <2> QED
    BY <2>3 DEF n
<1>8. PICK s : Glued(n, p, s) /\ ListOf(f, h, F, lo, hi) = s[n]
  <2>1. \A i \in 1 .. Len(F) : p[i] = Listed(f, h, F[i], lo, hi) /\ p[i] \in Seq(Nat)
    BY <1>6 DEF n
  <2>2. F \in Seq(KeySet)
    BY <1>4
  <2>3. \E s : Glued(Len(F), p, s) /\ ListOf(f, h, F, lo, hi) = s[Len(F)]
    BY ONLY <2>1, <2>2, ListRuns
  <2> QED
    BY <2>3 DEF n
<1>9. r[n] = s[n]
  BY <1>5, <1>7, <1>8, GluedOnce
<1> QED
  BY <1>3, <1>7, <1>8, <1>9

LEMMA BlockLists ==
  ASSUME NEW N, NEW root, NEW z, Zoned(N, root, z), NEW l \in Blocks(N),
         NEW lo \in Names, NEW hi \in Names, NEW list,
         \A c \in Blocks(N) : N[c].height < N[l].height => ListsAll(N, z[c], lo, hi, list[c])
  PROVE  ListsAll(N, z[l], lo, hi, ListingOf(N, list, l, lo, hi))
<1>1. lo \in Nat /\ hi \in Nat /\ N[l].height \in Nat
  BY NameIs, ZonedTypes
<1>2. CASE N[l].height = 0
  BY <1>1, <1>2, LeafLists
<1>3. CASE N[l].height > 0
  <2>1. InnerOK(N, z, l)
    BY <1>3 DEF Zoned, BlockOK
  <2>2. ASSUME NEW i \in 1 .. Len(N[l].keys)
        PROVE  ListsAll(N, z[N[l].keys[i].data], lo, hi, list[N[l].keys[i].data])
    <3> DEFINE c == N[l].keys[i].data
    <3>1. c \in Blocks(N) /\ N[c].height = N[l].height - 1
      BY <2>1 DEF InnerOK, Child
    <3>2. N[c].height < N[l].height
      BY <1>1, <3>1
    <3> HIDE DEF c
    <3>3. ListsAll(N, z[c], lo, hi, list[c])
      BY <3>1, <3>2
    <3> QED
      BY <3>3 DEF c
  <2> QED
    BY <1>3, <2>2, InnerLists
<1> QED
  BY <1>1, <1>2, <1>3

(* Every tree has a listing: one of the blocks of a height is made from    *)
(* one of the blocks below it.                                             *)
IsListing(N, lo, hi, f) == f = [l \in Blocks(N) |-> ListingOf(N, f, l, lo, hi)]

ListsBelow(N, z, lo, hi, h, f) ==
  \A l \in Blocks(N) : N[l].height < h =>
    f[l] = ListingOf(N, f, l, lo, hi) /\ ListsAll(N, z[l], lo, hi, f[l])

LEMMA ListHigher ==
  ASSUME NEW N, NEW root, NEW z, Zoned(N, root, z), NEW lo \in Names, NEW hi \in Names, NEW h \in Nat,
         NEW f, ListsBelow(N, z, lo, hi, h, f),
         NEW g, g = [l \in Blocks(N) |-> IF N[l].height = h THEN ListingOf(N, f, l, lo, hi) ELSE f[l]]
  PROVE  ListsBelow(N, z, lo, hi, h + 1, g)
<1>1. lo \in Nat /\ hi \in Nat /\ \A l \in Blocks(N) : N[l].height \in Nat
  BY NameIs, ZonedTypes
<1>2. \A c \in Blocks(N) : N[c].height < h => g[c] = f[c] /\ ListsAll(N, z[c], lo, hi, f[c])
  BY <1>1 DEF ListsBelow
<1>3. ASSUME NEW l \in Blocks(N), N[l].height <= h
      PROVE  ListingOf(N, g, l, lo, hi) = ListingOf(N, f, l, lo, hi)
  <2>1. ASSUME N[l].height > 0, NEW i \in 1 .. Len(N[l].keys)
        PROVE  g[N[l].keys[i].data] = f[N[l].keys[i].data] /\ f[N[l].keys[i].data] \in Seq(Nat)
    <3> DEFINE c == N[l].keys[i].data
    <3>1. InnerOK(N, z, l)
      BY <2>1 DEF Zoned, BlockOK
    <3>2. c \in Blocks(N) /\ N[c].height = N[l].height - 1
      BY <3>1 DEF InnerOK, Child
    <3>3. N[c].height < h
      BY <1>1, <1>3, <3>2
    <3> HIDE DEF c
    <3>4. g[c] = f[c] /\ f[c] \in Seq(Nat)
      BY <1>2, <3>2, <3>3 DEF ListsAll
    <3> QED
      BY <3>4 DEF c
  <2>2. N[l].height > 0 => \A i \in 1 .. Len(N[l].keys) :
          g[N[l].keys[i].data] = f[N[l].keys[i].data] /\ f[N[l].keys[i].data] \in Seq(Nat)
    BY <2>1
  <2> QED
    <3> DEFINE same(e, d) == N[l].height > 0 => \A i \in 1 .. Len(N[l].keys) :
                 e[N[l].keys[i].data] = d[N[l].keys[i].data] /\ d[N[l].keys[i].data] \in Seq(Nat)
    <3>1. lo \in Nat /\ hi \in Nat
      BY <1>1
    <3>2. same(g, f)
      BY <2>2
    <3>3. \A e, d : same(e, d) => ListingOf(N, e, l, lo, hi) = ListingOf(N, d, l, lo, hi)
      BY ONLY <3>1, SameListing, Zoned(N, root, z), l \in Blocks(N)
    <3> HIDE DEF same
    <3> QED
      BY ONLY <3>2, <3>3
<1>4. ASSUME NEW l \in Blocks(N), N[l].height < h + 1
      PROVE  g[l] = ListingOf(N, g, l, lo, hi) /\ ListsAll(N, z[l], lo, hi, g[l])
  <2>1. CASE N[l].height < h
    <3>1. f[l] = ListingOf(N, f, l, lo, hi) /\ ListsAll(N, z[l], lo, hi, f[l]) /\ g[l] = f[l]
      BY <1>2, <2>1 DEF ListsBelow
    <3>2. N[l].height <= h
      BY <1>1, <2>1
    <3> QED
      BY <1>3, <3>1, <3>2
  <2>2. CASE N[l].height = h
    <3>1. g[l] = ListingOf(N, f, l, lo, hi)
      BY <2>2
    <3>2. \A c \in Blocks(N) : N[c].height < N[l].height => ListsAll(N, z[c], lo, hi, f[c])
      BY <1>2, <2>2
    <3>3. ListsAll(N, z[l], lo, hi, ListingOf(N, f, l, lo, hi))
      BY <3>2, BlockLists
    <3>4. ListingOf(N, g, l, lo, hi) = ListingOf(N, f, l, lo, hi)
      BY <1>1, <1>3, <2>2
    <3> QED
      BY <3>1, <3>3, <3>4
  <2> QED
    BY <1>1, <1>4, <2>1, <2>2
<1> QED
  BY <1>4 DEF ListsBelow

LEMMA ListingExists ==
  ASSUME NEW N, NEW root, NEW z, Zoned(N, root, z), NEW lo \in Names, NEW hi \in Names
  PROVE  \E f : IsListing(N, lo, hi, f)
<1> DEFINE D == {h \in Nat : \E f : ListsBelow(N, z, lo, hi, h, f)}
           top == N[root].height + 1
<1>1. \A l \in Blocks(N) : N[l].height \in Nat /\ N[l].height <= N[root].height /\ N[root].height \in Nat
  BY ZonedTypes
<1>2. root \in Blocks(N)
  BY DEF Zoned
<1>3. 0 \in D
  <2>1. ListsBelow(N, z, lo, hi, 0, N)
    BY <1>1 DEF ListsBelow
  <2> QED
    BY <2>1
<1>4. ASSUME NEW h \in Nat, h \in D PROVE h + 1 \in D
  <2>1. PICK f : ListsBelow(N, z, lo, hi, h, f)
    BY <1>4
  <2> DEFINE g == [l \in Blocks(N) |-> IF N[l].height = h THEN ListingOf(N, f, l, lo, hi) ELSE f[l]]
  <2>2. g = [l \in Blocks(N) |-> IF N[l].height = h THEN ListingOf(N, f, l, lo, hi) ELSE f[l]]
    OBVIOUS
  <2> HIDE DEF g
  <2>3. ListsBelow(N, z, lo, hi, h + 1, g)
    BY <2>1, <2>2, ListHigher
  <2> QED
    BY <2>3
<1>5. \A h \in Nat : h \in D
  <2> HIDE DEF D
  <2> QED
    BY <1>3, <1>4, NatSet
<1>6. top \in Nat /\ \A l \in Blocks(N) : N[l].height < top
  BY <1>1, <1>2
<1> HIDE DEF top
<1>7. PICK f : ListsBelow(N, z, lo, hi, top, f)
  BY <1>5, <1>6
<1> DEFINE g == [l \in Blocks(N) |-> f[l]]
<1>8. ASSUME NEW l \in Blocks(N) PROVE g[l] = ListingOf(N, g, l, lo, hi)
  <2>1. lo \in Nat /\ hi \in Nat
    BY NameIs
  <2>2. ASSUME N[l].height > 0, NEW i \in 1 .. Len(N[l].keys)
        PROVE  g[N[l].keys[i].data] = f[N[l].keys[i].data] /\ f[N[l].keys[i].data] \in Seq(Nat)
    <3> DEFINE c == N[l].keys[i].data
    <3>1. InnerOK(N, z, l)
      BY <2>2 DEF Zoned, BlockOK
    <3>2. c \in Blocks(N)
      BY <3>1 DEF InnerOK, Child
    <3> HIDE DEF c
    <3>3. g[c] = f[c] /\ f[c] \in Seq(Nat)
      BY <1>6, <1>7, <3>2 DEF ListsBelow, ListsAll
    <3> QED
      BY <3>3 DEF c
  <2>3. g[l] = f[l] /\ f[l] = ListingOf(N, f, l, lo, hi)
    BY <1>6, <1>7 DEF ListsBelow
  <2> HIDE DEF g
  <2>4. ListingOf(N, g, l, lo, hi) = ListingOf(N, f, l, lo, hi)
    <3> DEFINE same(e, d) == N[l].height > 0 => \A i \in 1 .. Len(N[l].keys) :
                 e[N[l].keys[i].data] = d[N[l].keys[i].data] /\ d[N[l].keys[i].data] \in Seq(Nat)
    <3>1. same(g, f)
      BY <2>2
    <3>2. \A e, d : same(e, d) => ListingOf(N, e, l, lo, hi) = ListingOf(N, d, l, lo, hi)
      BY ONLY <2>1, SameListing, Zoned(N, root, z), l \in Blocks(N)
    <3> HIDE DEF same
    <3> QED
      BY ONLY <3>1, <3>2
  <2> QED
    BY <2>3, <2>4
<1>9. g = [l \in Blocks(N) |-> g[l]]
  OBVIOUS
<1> HIDE DEF g
<1>10. IsListing(N, lo, hi, g)
  BY <1>8, <1>9 DEF IsListing
<1> QED
  BY <1>10

LEMMA ListingLists ==
  ASSUME NEW N, NEW root, NEW z, Zoned(N, root, z), NEW lo \in Names, NEW hi \in Names,
         NEW f, IsListing(N, lo, hi, f)
  PROVE  \A l \in Blocks(N) : ListsAll(N, z[l], lo, hi, f[l])
<1> DEFINE D == {h \in Nat : \A l \in Blocks(N) : N[l].height < h => ListsAll(N, z[l], lo, hi, f[l])}
<1>1. \A l \in Blocks(N) : N[l].height \in Nat
  BY ZonedTypes
<1>2. \A l \in Blocks(N) : f[l] = ListingOf(N, f, l, lo, hi)
  BY DEF IsListing
<1>3. 0 \in D
  BY <1>1
<1>4. ASSUME NEW h \in Nat, h \in D PROVE h + 1 \in D
  <2> SUFFICES ASSUME NEW l \in Blocks(N), N[l].height < h + 1 PROVE ListsAll(N, z[l], lo, hi, f[l])
    OBVIOUS
  <2>1. \A c \in Blocks(N) : N[c].height < N[l].height => ListsAll(N, z[c], lo, hi, f[c])
    BY <1>1, <1>4
  <2> QED
    BY <1>2, <2>1, BlockLists
<1>5. \A h \in Nat : h \in D
  <2> HIDE DEF D
  <2> QED
    BY <1>3, <1>4, NatSet
<1> SUFFICES ASSUME NEW l \in Blocks(N) PROVE ListsAll(N, z[l], lo, hi, f[l])
  OBVIOUS
<1>6. N[l].height + 1 \in Nat /\ N[l].height < N[l].height + 1
  BY <1>1
<1> QED
  BY <1>5, <1>6

LEMMA TraverseIs ==
  ASSUME NEW t, NEW lo, NEW hi
  PROVE  Traverse(t, lo, hi) = (CHOOSE f : IsListing(t.nodes, lo, hi, f))[t.root]
  BY DEF Traverse, IsListing, ListingOf, ListOf, Locs, Blocks, FoldLeft, MapThenFoldSet

LEMMA TraverseLists ==
  ASSUME NEW t, Sound(t), NEW lo \in Names, NEW hi \in Names
  PROVE  ListsAll(t.nodes, Nat, lo, hi, Traverse(t, lo, hi))
<1> DEFINE N == t.nodes
           root == t.root
           e == CHOOSE f : IsListing(N, lo, hi, f)
<1>1. PICK z : Zoned(N, root, z)
  BY DEF Sound
<1>2. root \in Blocks(N) /\ z[root] = Nat
  BY <1>1 DEF Zoned
<1>3. Traverse(t, lo, hi) = e[root]
  BY TraverseIs
<1> HIDE DEF N, root
<1>4. IsListing(N, lo, hi, e)
  BY <1>1, ListingExists
<1> HIDE DEF e
<1>5. ListsAll(N, z[root], lo, hi, e[root])
  BY <1>1, <1>2, <1>4, ListingLists
<1> QED
  BY <1>2, <1>3, <1>5 DEF N

LEMMA LeafKeysAre ==
  ASSUME Sound(tree)
  PROVE  \A k : k \in LeafKeys <=> Has(tree.nodes, k)
<1>1. PICK z : Zoned(tree.nodes, tree.root, z)
  BY DEF Sound
<1>2. \A l \in Blocks(tree.nodes) : tree.nodes[l].keys \in Seq(KeySet)
  BY <1>1, ZonedTypes
<1>3. ASSUME NEW l \in Blocks(tree.nodes), NEW k
      PROVE  k \in ToSet(tree.nodes[l].keys)
               <=> \E i \in 1 .. Len(tree.nodes[l].keys) : tree.nodes[l].keys[i] = k
  BY <1>2 DEF ToSet
<1>4. LeafKeys = UNION {ToSet(tree.nodes[l].keys) :
                          l \in {m \in Blocks(tree.nodes) : tree.nodes[m].height = 0}}
  BY LocsOf DEF LeafKeys
<1>5. ASSUME NEW k
      PROVE  k \in LeafKeys <=> \E l \in Blocks(tree.nodes) :
                                 tree.nodes[l].height = 0 /\ k \in ToSet(tree.nodes[l].keys)
  BY <1>4
<1> QED
  BY ONLY <1>3, <1>5 DEF Has

LEMMA NamesListed == Inv /\ NoError => ListingComplete
<1> SUFFICES ASSUME Inv, NoError, NEW lo \in Names, NEW hi \in Names, lo <= hi,
                    NEW s, s = Traverse(tree, lo, hi)
             PROVE  /\ ToSet(s) = {k.name : k \in LeafKeys} \cap (lo .. hi)
                    /\ \A i, j \in DOMAIN s : i < j => s[i] < s[j]
  BY DEF ListingComplete
<1>1. Sound(tree)
  BY DEF Inv, NoError
<1>2. ListsAll(tree.nodes, Nat, lo, hi, s)
  BY <1>1, TraverseLists
<1>3. s \in Seq(Nat) /\ Rising(s) /\ lo \in Nat /\ hi \in Nat /\ DOMAIN s = 1 .. Len(s)
  BY <1>2, NameIs DEF ListsAll
<1>4. ASSUME NEW x
      PROVE  x \in ToSet(s) <=> x \in {k.name : k \in LeafKeys} \cap (lo .. hi)
  <2>1. x \in ToSet(s) <=> Occurs(s, x)
    BY <1>3 DEF ToSet, Occurs
  <2>2. Occurs(s, x) <=> Wanted(tree.nodes, Nat, lo, hi, x)
    BY <1>2 DEF ListsAll
  <2>3. (\E k : Has(tree.nodes, k) /\ k.name = x) <=> x \in {k.name : k \in LeafKeys}
    BY <1>1, LeafKeysAre
  <2>4. x \in {k.name : k \in LeafKeys} => x \in Nat /\ Low(x) \in Nat
    BY <1>1, <2>3, SoundStored, StoredIs
  <2>5. x \in Nat => (x \in lo .. hi <=> lo <= x /\ x <= hi)
    BY <1>3
  <2>6. x \in lo .. hi => x \in Nat
    BY <1>3
  <2> QED
    BY <2>1, <2>2, <2>3, <2>4, <2>5, <2>6 DEF Wanted
<1>5. ToSet(s) = {k.name : k \in LeafKeys} \cap (lo .. hi)
  BY <1>4
<1> QED
  BY <1>3, <1>5 DEF Rising

(* A listing meets every key of a prefix, each once, in order, in trees of *)
(* any size and whatever separators they were left with: what a block      *)
(* lists is what the keys of its zone have, one child behind the other.    *)
THEOREM ListingsComplete == Spec => [](NoError => ListingComplete)
BY TreeSound, NamesListed, PTL
=============================================================================
