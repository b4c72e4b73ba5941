------------------------------ MODULE FilesProofs ------------------------------
(***************************************************************************)
(* Files: calls are atomic while nothing crashes.  The changes a call has  *)
(* still to make lead from the keys on the disk to keys that form a tree   *)
(* (FilesKeyProofs) and whose files have the blocks that their sizes       *)
(* promise.  What the runs check between calls and within them is read off *)
(* from this invariant.                                                    *)
(***************************************************************************)
EXTENDS FilesKeyProofs

-----------------------------------------------------------------------------
(* Sizes and blocks.                                                       *)

UsersOf(hs, l) == {h \in Handles : l # 0 /\ hs[h].label = l}

SizeIn(K, l) == IF <<l, "S">> \in DOMAIN K THEN K[<<l, "S">>].data ELSE 0

FinalSize(K, hs, l) ==
  IF UsersOf(hs, l) # {} THEN hs[CHOOSE h \in UsersOf(hs, l) : TRUE].size
  ELSE SizeIn(K, l)

NumsIn(X) == UNION {x[1] .. x[2] : x \in X}

Below(N, size) == \A i : i \in N <=> i \in Nat /\ i < size

OfBlocks(c, l) == c.op \in {"reduce", "map"} /\ c.label = l

(* The blocks that the file has, or will have when the call has made the   *)
(* one change of them that it has still to make.                           *)
BlocksFit(N, t, l, size) ==
  /\ (\A i \in 1 .. Len(t) : ~ OfBlocks(t[i], l)) => Below(N, size)
  /\ \A i \in 1 .. Len(t) :
       OfBlocks(t[i], l) =>
         /\ \A j \in 1 .. Len(t) : OfBlocks(t[j], l) => i = j
         /\ t[i].op = "reduce" =>
              Below(N, t[i].num) /\ t[i].new < t[i].num /\ size = t[i].new
         /\ t[i].op = "map" =>
              \A j : j \in N \/ j = t[i].num <=> j \in Nat /\ j < size

HandlesApart(hs) ==
  \A g, h \in Handles : hs[g].label = hs[h].label => g = h \/ hs[g].label = 0

(* A handle that is not modified has the size of the file.                 *)
SizesSaved(K, hs) ==
  \A h \in Handles :
    hs[h].label # 0 /\ ~ hs[h].modified => hs[h].size = SizeIn(K, hs[h].label)

(* The condition on which sizes are right.                                 *)
Exact == ~ Shared /\ ~ Sparse

Sized(K, hs, t, X) ==
  /\ HandlesApart(hs)
  /\ SizesSaved(K, hs)
  /\ \A l \in Labels : BlocksFit(NumsIn(X[l]), t, l, FinalSize(K, hs, l))

(* Extents do not overlap.                                                 *)
Apart(X) ==
  \A x, y \in X : x[1] <= x[2] /\ (x = y \/ x[2] < y[1] \/ y[2] < x[1])

FitsInv(M) ==
  /\ Typed(M, disk.next)
  /\ Tree(M)
  /\ Held(M, handles)
  /\ Exact => fault = "none" /\ Sized(M, handles, todo, disk.extents)

CallInv ==
  /\ TypeInv
  /\ \A l \in Labels : Apart(disk.extents[l])
  /\ crashes = 0 => \E M : Leads(disk.keys, todo, M) /\ FitsInv(M)

-----------------------------------------------------------------------------
(* The size a file ends up with.                                           *)

LEMMA FinalOpen ==
  ASSUME NEW hs, HandlesApart(hs), NEW h \in Handles, hs[h].label # 0, NEW K
  PROVE  FinalSize(K, hs, hs[h].label) = hs[h].size
<1> DEFINE U == UsersOf(hs, hs[h].label)
<1>1. h \in U /\ \A g \in U : g = h
  BY DEF UsersOf, HandlesApart
<1>2. (CHOOSE g \in U : TRUE) = h
  BY <1>1
<1> QED
  BY <1>1, <1>2 DEF FinalSize

LEMMA FinalClosed ==
  ASSUME NEW hs, NEW l, NEW K, \A h \in Handles : hs[h].label # l \/ l = 0
  PROVE  FinalSize(K, hs, l) = SizeIn(K, l)
<1>1. UsersOf(hs, l) = {}
  BY DEF UsersOf
<1> QED
  BY <1>1 DEF FinalSize

(* Handles of other files do not matter.                                   *)
LEMMA FinalSame ==
  ASSUME NEW hs, NEW gs, NEW l, NEW K, NEW M,
         \A h \in Handles :
           hs[h].label = l \/ gs[h].label = l => l = 0 \/ hs[h] = gs[h],
         UsersOf(hs, l) # {} \/ SizeIn(K, l) = SizeIn(M, l)
  PROVE  FinalSize(K, hs, l) = FinalSize(M, gs, l)
<1>1. UsersOf(gs, l) = UsersOf(hs, l)
  BY DEF UsersOf
<1>2. \A h \in UsersOf(hs, l) : hs[h] = gs[h]
  BY DEF UsersOf
<1> DEFINE h == CHOOSE h \in UsersOf(hs, l) : TRUE
<1>3. CASE UsersOf(hs, l) # {}
  <2>1. h \in UsersOf(hs, l)
    BY <1>3
  <2>2. hs[h] = gs[h]
    BY <1>2, <2>1
  <2> QED
    BY <1>1, <1>3, <2>2 DEF FinalSize
<1>4. CASE UsersOf(hs, l) = {}
  BY <1>1, <1>4 DEF FinalSize
<1> QED
  BY <1>3, <1>4

LEMMA SizeElsewhere ==
  ASSUME NEW K, NEW M, NEW l, Elsewhere(K, M, l)
  PROVE  \A j : j # l => SizeIn(M, j) = SizeIn(K, j)
  BY AttrsElsewhere, AttrNames DEF SizeIn

-----------------------------------------------------------------------------
(* A call begins: the changes it will make and the sizes it leaves agree.  *)

Plain(t) == \A i \in 1 .. Len(t) : t[i].op \in {"add", "delete"}

LEMMA PlainConcat ==
  ASSUME NEW S, NEW a \in Seq(S), NEW b \in Seq(S), Plain(a), Plain(b)
  PROVE  Plain(a \o b)
<1> SUFFICES ASSUME NEW i \in 1 .. Len(a) + Len(b)
             PROVE  (a \o b)[i].op \in {"add", "delete"}
  BY ConcatProperties DEF Plain
<1>1. (a \o b)[i] = IF i <= Len(a) THEN a[i] ELSE b[i - Len(a)]
  BY ConcatProperties
<1>2. Len(a) \in Nat /\ Len(b) \in Nat
  BY LenProperties
<1>3. CASE i <= Len(a)
  <2>1. i \in 1 .. Len(a)
    BY <1>2, <1>3
  <2> QED
    BY <1>1, <1>3, <2>1 DEF Plain
<1>4. CASE ~ (i <= Len(a))
  <2>1. i - Len(a) \in 1 .. Len(b)
    BY <1>2, <1>4
  <2> QED
    BY <1>1, <1>4, <2>1 DEF Plain
<1> QED
  BY <1>3, <1>4

LEMMA PlainFits ==
  ASSUME NEW t, Plain(t), NEW N, NEW l, NEW size, Below(N, size)
  PROVE  BlocksFit(N, t, l, size)
  BY DEF Plain, BlocksFit, OfBlocks

LEMMA NothingFits ==
  ASSUME NEW N, NEW l, NEW size, BlocksFit(N, <<>>, l, size)
  PROVE  Below(N, size)
<1>1. Len(<<>>) = 0
  BY EmptySeq
<1> QED
  BY <1>1 DEF BlocksFit

(* The one change of blocks in a list is a cut.                            *)
CutIn(t, l, size, new) ==
  \E k \in 1 .. Len(t) :
    /\ t[k] = Cut(l, size, new)
    /\ \A i \in 1 .. Len(t) : \A j : OfBlocks(t[i], j) <=> i = k /\ j = l

LEMMA CutPlace ==
  ASSUME NEW S, NEW a \in Seq(S), NEW b \in Seq(S), Plain(a), Plain(b),
         NEW l, NEW size, NEW new, Cut(l, size, new) \in S
  PROVE  CutIn(a \o (<<Cut(l, size, new)>> \o b), l, size, new)
<1> DEFINE c == Cut(l, size, new)
           m == Len(a)
           u == <<c>> \o b
           t == a \o u
<1>1. /\ c.op = "reduce" /\ c.label = l /\ c.num = size /\ c.new = new
  BY DEF Cut
<1>2. /\ m \in Nat /\ Len(b) \in Nat /\ u \in Seq(S) /\ Len(u) = 1 + Len(b)
      /\ \A i \in 1 .. 1 + Len(b) : u[i] = IF i <= 1 THEN c ELSE b[i - 1]
  <2>1. <<c>> \in Seq(S) /\ Len(<<c>>) = 1 /\ <<c>>[1] = c
    OBVIOUS
  <2> HIDE DEF c
  <2>2. \A i \in 1 .. 1 : <<c>>[i] = c
    BY <2>1
  <2> QED
    BY <2>1, <2>2, LenProperties, ConcatProperties
<1> HIDE DEF c, u
<1>3. /\ Len(t) = m + (1 + Len(b))
      /\ \A i \in 1 .. m + (1 + Len(b)) :
            t[i] = IF i <= m THEN a[i] ELSE u[i - m]
  BY <1>2, ConcatProperties
<1> HIDE DEF t
<1>4. m + 1 \in 1 .. Len(t) /\ t[m + 1] = c
  <2>1. m + 1 \in 1 .. m + (1 + Len(b)) /\ ~ (m + 1 <= m) /\ (m + 1) - m = 1
        /\ 1 \in 1 .. 1 + Len(b) /\ 1 <= 1
    BY <1>2
  <2> QED
    BY <1>2, <1>3, <2>1
<1>5. ASSUME NEW i \in 1 .. Len(t), i # m + 1
      PROVE  t[i].op \in {"add", "delete"}
  <2>1. CASE i <= m
    <3>1. i \in 1 .. m /\ i \in 1 .. m + (1 + Len(b))
      BY <1>2, <1>3, <2>1
    <3> QED
      BY <1>3, <2>1, <3>1 DEF Plain
  <2>2. CASE ~ (i <= m)
    <3>1. /\ i \in 1 .. m + (1 + Len(b)) /\ i - m \in 1 .. 1 + Len(b)
          /\ ~ (i - m <= 1) /\ (i - m) - 1 \in 1 .. Len(b)
      BY <1>2, <1>3, <1>5, <2>2
    <3>2. t[i] = b[(i - m) - 1]
      BY <1>2, <1>3, <2>2, <3>1
    <3> QED
      BY <3>1, <3>2 DEF Plain
  <2> QED
    BY <2>1, <2>2
<1>6. \A i \in 1 .. Len(t) : \A j : OfBlocks(t[i], j) <=> i = m + 1 /\ j = l
  <2>1. \A j : OfBlocks(t[m + 1], j) <=> j = l
    BY <1>1, <1>4 DEF OfBlocks
  <2>2. \A i \in 1 .. Len(t) : \A j : i # m + 1 => ~ OfBlocks(t[i], j)
    BY <1>5 DEF OfBlocks
  <2> QED
    BY <2>1, <2>2
<1> QED
  BY <1>4, <1>6 DEF c, t, u, CutIn

(* Of the blocks of the file the list cuts, and of those of others.        *)
LEMMA CutFits ==
  ASSUME NEW t, NEW l, NEW size, NEW new, CutIn(t, l, size, new),
         NEW N, NEW j, NEW x, Below(N, x),
         j = l => x = size /\ new < size
  PROVE  BlocksFit(N, t, j, IF j = l THEN new ELSE x)
<1>1. PICK k \in 1 .. Len(t) :
         /\ t[k] = Cut(l, size, new)
         /\ \A i \in 1 .. Len(t) : \A g : OfBlocks(t[i], g) <=> i = k /\ g = l
  BY DEF CutIn
<1>2. CASE j # l
  <2>1. \A i \in 1 .. Len(t) : ~ OfBlocks(t[i], j)
    BY <1>1, <1>2
  <2> QED
    BY <1>2, <2>1 DEF BlocksFit
<1>3. CASE j = l
  <2>1. ~ (\A i \in 1 .. Len(t) : ~ OfBlocks(t[i], j))
    BY <1>1, <1>3
  <2>2. \A i \in 1 .. Len(t) :
          OfBlocks(t[i], j) =>
            i = k /\ \A g \in 1 .. Len(t) : OfBlocks(t[g], j) => i = g
    BY <1>1, <1>3
  <2>3. /\ t[k].op # "map"
        /\ Below(N, t[k].num) /\ t[k].new < t[k].num
        /\ new = t[k].new
    BY <1>1, <1>3 DEF Cut
  <2> QED
    BY <1>3, <2>1, <2>2, <2>3 DEF BlocksFit
<1> QED
  BY <1>2, <1>3

LEMMA PlainLists ==
  /\ Plain(<<>>)
  /\ \A l, n, x : Plain(<<Attr(l, n, x)>>)
  /\ \A l, n : Plain(<<Del(l, n)>>)
  /\ \A l, n, x, k, m, y : Plain(<<Attr(l, n, x), Attr(k, m, y)>>)
  /\ \A d, n, l, type, count : Plain(CreateLink(d, n, l, type, count))
  /\ \A l : Plain(AllDeleted(l))
<1>1. Plain(<<>>)
  BY EmptySeq DEF Plain
<1>2. \A l, n, x : Attr(l, n, x).op = "add"
  BY DEF Attr, Add
<1>3. \A l, n, x, type : Add(l, n, type, x).op = "add"
  BY DEF Add
<1>4. \A l, n : Del(l, n).op = "delete"
  BY DEF Del
<1>5. ASSUME NEW a PROVE Len(<<a>>) = 1 /\ \A i \in 1 .. 1 : <<a>>[i] = a
  OBVIOUS
<1>6. ASSUME NEW a, NEW b
      PROVE  /\ Len(<<a, b>>) = 2 /\ <<a, b>>[1] = a /\ <<a, b>>[2] = b
             /\ \A i \in 1 .. 2 : i = 1 \/ i = 2
  OBVIOUS
<1>7. /\ \A l, n, x : Plain(<<Attr(l, n, x)>>)
      /\ \A l, n : Plain(<<Del(l, n)>>)
  BY <1>2, <1>4, <1>5 DEF Plain
<1>8. \A a, b : a.op = "add" /\ b.op = "add" => Plain(<<a, b>>)
  BY <1>6 DEF Plain
<1>9. /\ \A l, n, x, k, m, y : Plain(<<Attr(l, n, x), Attr(k, m, y)>>)
      /\ \A d, n, l, type, count : Plain(CreateLink(d, n, l, type, count))
  BY <1>2, <1>3, <1>8 DEF CreateLink
<1>10. ASSUME NEW l PROVE Plain(AllDeleted(l))
  <2>1. \A i \in 1 .. 6 : i \in {1, 2, 3, 4, 5, 6}
    OBVIOUS
  <2>2. Len(AllDeleted(l)) = 6
    BY DEF AllDeleted
  <2>3. /\ AllDeleted(l)[1] = Del(l, "A") /\ AllDeleted(l)[2] = Del(l, "C")
        /\ AllDeleted(l)[3] = Del(l, "M") /\ AllDeleted(l)[4] = Del(l, "D")
        /\ AllDeleted(l)[5] = Del(l, "S") /\ AllDeleted(l)[6] = Del(l, "L")
    BY DEF AllDeleted
  <2> QED
    BY <1>4, <2>1, <2>2, <2>3 DEF Plain
<1> QED
  BY <1>1, <1>7, <1>9, <1>10

-----------------------------------------------------------------------------
(* A change is made: what the changes after it promise.                    *)

LEMMA TailFits ==
  ASSUME NEW S, NEW t \in Seq(S), t # <<>>, NEW l, NEW N, NEW size,
         ~ OfBlocks(Head(t), l), BlocksFit(N, t, l, size)
  PROVE  BlocksFit(N, Tail(t), l, size)
<1> DEFINE n == Len(t)
           u == Tail(t)
<1>1. /\ n \in Nat \ {0} /\ Len(u) = n - 1
      /\ \A i \in 1 .. n - 1 : u[i] = t[i + 1]
  BY EmptySeq, LenProperties, HeadTailProperties
<1>2. Head(t) = t[1]
  OBVIOUS
<1> HIDE DEF u, n
<1>3. \A i \in 1 .. n - 1 : i + 1 \in 1 .. n
  BY <1>1
<1>4. \A i \in 1 .. n : i # 1 => i - 1 \in 1 .. n - 1 /\ t[i] = u[i - 1]
  <2> SUFFICES ASSUME NEW i \in 1 .. n, i # 1
               PROVE  i - 1 \in 1 .. n - 1 /\ t[i] = u[i - 1]
    OBVIOUS
  <2>1. i - 1 \in 1 .. n - 1 /\ (i - 1) + 1 = i
    BY <1>1
  <2> QED
    BY <1>1, <2>1
<1>5. (\A i \in 1 .. n - 1 : ~ OfBlocks(u[i], l)) => Below(N, size)
  <2> SUFFICES ASSUME \A i \in 1 .. n - 1 : ~ OfBlocks(u[i], l)
               PROVE  Below(N, size)
    OBVIOUS
  <2>1. \A i \in 1 .. n : ~ OfBlocks(t[i], l)
    BY <1>2, <1>4
  <2> QED
    BY <2>1 DEF BlocksFit, n
<1>6. ASSUME NEW i \in 1 .. n - 1, OfBlocks(u[i], l)
      PROVE  /\ \A j \in 1 .. n - 1 : OfBlocks(u[j], l) => i = j
             /\ u[i].op = "reduce" =>
                  Below(N, u[i].num) /\ u[i].new < u[i].num
                    /\ size = u[i].new
             /\ u[i].op = "map" =>
                  \A j : j \in N \/ j = u[i].num <=> j \in Nat /\ j < size
  <2>1. i + 1 \in 1 .. n /\ u[i] = t[i + 1]
    BY <1>1, <1>3
  <2>2. \A j \in 1 .. n : OfBlocks(t[j], l) => i + 1 = j
    BY <1>6, <2>1 DEF BlocksFit, n
  <2>3. ASSUME NEW j \in 1 .. n - 1, OfBlocks(u[j], l) PROVE i = j
    <3>1. i + 1 = j + 1
      BY <1>1, <1>3, <2>2, <2>3
    <3> QED
      BY <3>1
  <2> QED
    BY <1>6, <2>1, <2>3 DEF BlocksFit, n
<1> QED
  BY <1>1, <1>5, <1>6 DEF BlocksFit, u

(* The one change of its blocks was the first.                             *)
LEMMA LastFits ==
  ASSUME NEW S, NEW t \in Seq(S), t # <<>>, NEW l, NEW N, NEW size,
         OfBlocks(Head(t), l), BlocksFit(N, t, l, size),
         NEW P, NEW x
  PROVE  /\ Below(P, x) => BlocksFit(P, Tail(t), l, x)
         /\ Head(t).op = "reduce" =>
              /\ Below(N, Head(t).num) /\ Head(t).new < Head(t).num
              /\ size = Head(t).new
              /\ \A c \in S :
                   /\ c.op = "reduce" /\ c.label = l
                   /\ c.new = size /\ size < c.num /\ Below(P, c.num)
                   => BlocksFit(P, <<c>> \o Tail(t), l, size)
         /\ Head(t).op = "map" =>
              \A j : j \in N \/ j = Head(t).num <=> j \in Nat /\ j < size
<1> DEFINE n == Len(t)
           u == Tail(t)
<1>1. /\ n \in Nat \ {0} /\ Len(u) = n - 1 /\ u \in Seq(S)
      /\ \A i \in 1 .. n - 1 : u[i] = t[i + 1]
  BY EmptySeq, LenProperties, HeadTailProperties
<1>2. Head(t) = t[1] /\ 1 \in 1 .. n
  BY <1>1
<1> HIDE DEF u, n
<1>3. \A j \in 1 .. n : OfBlocks(t[j], l) => 1 = j
  BY <1>2 DEF BlocksFit, n
<1>4. \A i \in 1 .. n - 1 : ~ OfBlocks(u[i], l)
  <2> SUFFICES ASSUME NEW i \in 1 .. n - 1 PROVE ~ OfBlocks(u[i], l)
    OBVIOUS
  <2>1. i + 1 \in 1 .. n /\ i + 1 # 1 /\ u[i] = t[i + 1]
    BY <1>1
  <2> QED
    BY <1>3, <2>1
<1>5. Below(P, x) => BlocksFit(P, u, l, x)
  BY <1>1, <1>4 DEF BlocksFit
<1>6. /\ t[1].op = "reduce" =>
           /\ Below(N, t[1].num) /\ t[1].new < t[1].num
           /\ size = t[1].new
      /\ t[1].op = "map" =>
           \A j : j \in N \/ j = t[1].num <=> j \in Nat /\ j < size
  BY <1>2 DEF BlocksFit, n
<1>7. ASSUME NEW c \in S, c.op = "reduce", c.label = l, c.new = size,
             size < c.num, Below(P, c.num)
      PROVE  BlocksFit(P, <<c>> \o u, l, size)
  <2> DEFINE w == <<c>> \o u
  <2>1. <<c>> \in Seq(S) /\ Len(<<c>>) = 1 /\ <<c>>[1] = c
    OBVIOUS
  <2>2. /\ Len(w) = 1 + (n - 1)
        /\ \A i \in 1 .. 1 + (n - 1) :
             w[i] = IF i <= 1 THEN <<c>>[i] ELSE u[i - 1]
    BY <1>1, <2>1, ConcatProperties
  <2> HIDE DEF w
  <2>3. 1 \in 1 .. Len(w) /\ w[1] = c
    <3>1. 1 \in 1 .. 1 + (n - 1) /\ 1 <= 1
      BY <1>1
    <3> QED
      BY <2>1, <2>2, <3>1
  <2>4. \A i \in 1 .. Len(w) : OfBlocks(w[i], l) <=> i = 1
    <3> SUFFICES ASSUME NEW i \in 1 .. Len(w), i # 1
                 PROVE  ~ OfBlocks(w[i], l)
      BY <1>7, <2>3 DEF OfBlocks
    <3>1. i \in 1 .. 1 + (n - 1) /\ ~ (i <= 1) /\ i - 1 \in 1 .. n - 1
      BY <1>1, <2>2
    <3> QED
      BY <1>4, <2>2, <3>1
  <2>5. /\ Below(P, w[1].num) /\ w[1].new < w[1].num /\ size = w[1].new
        /\ w[1].op # "map"
    BY <1>7, <2>3
  <2>6. ~ (\A i \in 1 .. Len(w) : ~ OfBlocks(w[i], l))
    BY <2>3, <2>4
  <2>7. \A i \in 1 .. Len(w) :
          OfBlocks(w[i], l) =>
            i = 1 /\ \A j \in 1 .. Len(w) : OfBlocks(w[j], l) => i = j
    BY <2>4
  <2>8. BlocksFit(P, w, l, size)
    BY <2>5, <2>6, <2>7 DEF BlocksFit
  <2> QED
    BY <2>8 DEF w
<1> QED
  BY <1>2, <1>5, <1>6, <1>7 DEF u

(* As TailFits, with another change of another file before the tail.       *)
LEMMA OtherFits ==
  ASSUME NEW S, NEW t \in Seq(S), NEW l, NEW N, NEW size,
         BlocksFit(N, t, l, size), NEW c \in S, ~ OfBlocks(c, l)
  PROVE  BlocksFit(N, <<c>> \o t, l, size)
<1> DEFINE w == <<c>> \o t
           n == Len(t)
<1>1. <<c>> \in Seq(S) /\ Len(<<c>>) = 1 /\ <<c>>[1] = c
  OBVIOUS
<1>2. /\ n \in Nat /\ Len(w) = 1 + n
      /\ \A i \in 1 .. 1 + n : w[i] = IF i <= 1 THEN <<c>>[i] ELSE t[i - 1]
  BY <1>1, ConcatProperties, LenProperties
<1> HIDE DEF w, n
<1>3. 1 \in 1 .. 1 + n /\ w[1] = c
  <2>1. 1 \in 1 .. 1 + n /\ 1 <= 1
    BY <1>2
  <2> QED
    BY <1>1, <1>2, <2>1
<1>4. \A i \in 1 .. n : i + 1 \in 1 .. 1 + n /\ w[i + 1] = t[i]
  <2> SUFFICES ASSUME NEW i \in 1 .. n
               PROVE  i + 1 \in 1 .. 1 + n /\ w[i + 1] = t[i]
    OBVIOUS
  <2>1. i + 1 \in 1 .. 1 + n /\ ~ (i + 1 <= 1) /\ (i + 1) - 1 = i
    BY <1>2
  <2> QED
    BY <1>2, <2>1
<1>5. \A i \in 1 .. 1 + n :
        OfBlocks(w[i], l) => i - 1 \in 1 .. n /\ w[i] = t[i - 1]
  <2> SUFFICES ASSUME NEW i \in 1 .. 1 + n, OfBlocks(w[i], l)
               PROVE  i - 1 \in 1 .. n /\ w[i] = t[i - 1]
    OBVIOUS
  <2>1. i # 1
    BY <1>3
  <2>2. ~ (i <= 1) /\ i - 1 \in 1 .. n
    BY <1>2, <2>1
  <2> QED
    BY <1>2, <2>2
<1>6. (\A i \in 1 .. 1 + n : ~ OfBlocks(w[i], l)) => Below(N, size)
  <2> SUFFICES ASSUME \A i \in 1 .. 1 + n : ~ OfBlocks(w[i], l)
               PROVE  Below(N, size)
    OBVIOUS
  <2>1. \A i \in 1 .. n : ~ OfBlocks(t[i], l)
    BY <1>4
  <2> QED
    BY <2>1 DEF BlocksFit, n
<1>7. ASSUME NEW i \in 1 .. 1 + n, OfBlocks(w[i], l)
      PROVE  /\ \A j \in 1 .. 1 + n : OfBlocks(w[j], l) => i = j
             /\ w[i].op = "reduce" =>
                  Below(N, w[i].num) /\ w[i].new < w[i].num
                    /\ size = w[i].new
             /\ w[i].op = "map" =>
                  \A j : j \in N \/ j = w[i].num <=> j \in Nat /\ j < size
  <2>1. i - 1 \in 1 .. n /\ w[i] = t[i - 1]
    BY <1>5, <1>7
  <2>2. \A j \in 1 .. n : OfBlocks(t[j], l) => i - 1 = j
    BY <1>7, <2>1 DEF BlocksFit, n
  <2>3. ASSUME NEW j \in 1 .. 1 + n, OfBlocks(w[j], l) PROVE i = j
    <3>1. i - 1 = j - 1
      BY <1>5, <2>2, <2>3
    <3> QED
      BY <3>1
  <2> QED
    BY <1>7, <2>1, <2>3 DEF BlocksFit, n
<1> QED
  BY <1>2, <1>6, <1>7 DEF BlocksFit, w

-----------------------------------------------------------------------------
(* Blocks and extents.                                                     *)

LEMMA ExtentTypes ==
  ASSUME NEW X \in SUBSET (Nums \X Nums), NEW x \in X
  PROVE  /\ x = <<x[1], x[2]>> /\ x[1] \in Nat /\ x[2] \in Nat
         /\ x[1] \in Nums /\ x[2] \in Nums
<1>1. x \in Nums \X Nums
  OBVIOUS
<1>2. x = <<x[1], x[2]>> /\ x[1] \in Nums /\ x[2] \in Nums
  BY <1>1
<1> QED
  BY <1>2, ConstantTypes

LEMMA NumsOfExtents ==
  ASSUME NEW X \in SUBSET (Nums \X Nums)
  PROVE  \A i : i \in NumsIn(X) <=>
                  i \in Nat /\ \E x \in X : x[1] <= i /\ i <= x[2]
<1>1. ASSUME NEW x \in X, NEW i
      PROVE  i \in x[1] .. x[2] <=> i \in Nat /\ x[1] <= i /\ i <= x[2]
  BY ExtentTypes
<1>2. \A i : i \in NumsIn(X) <=> \E x \in X : i \in x[1] .. x[2]
  BY DEF NumsIn
<1> QED
  BY <1>1, <1>2

(* A block that has none before it in its extent.                          *)
LEMMA AloneApart ==
  ASSUME NEW X \in SUBSET (Nums \X Nums), Apart(X), NEW num \in Nums,
         ~ \E x \in X : x[1] <= num /\ num <= x[2],
         NEW Y, Y = X \cup {<<num, num>>}
  PROVE  /\ Apart(Y)
         /\ \A i : i \in NumsIn(Y) <=> i \in NumsIn(X) \/ i = num
<1> DEFINE z == <<num, num>>
<1>1. num \in Nat /\ z[1] = num /\ z[2] = num
  BY ConstantTypes
<1>2. Y \in SUBSET (Nums \X Nums) /\ \A y : y \in Y <=> y \in X \/ y = z
  OBVIOUS
<1> HIDE DEF z
<1>3. \A y \in X : y[2] < num \/ num < y[1]
  BY <1>1, ExtentTypes
<1>4. Apart(Y)
  <2> SUFFICES ASSUME NEW x \in Y, NEW y \in Y
               PROVE  x[1] <= x[2] /\ (x = y \/ x[2] < y[1] \/ y[2] < x[1])
    BY DEF Apart
  <2>1. CASE x \in X /\ y \in X
    BY <2>1 DEF Apart
  <2>2. CASE x = z /\ y \in X
    BY <1>1, <1>3, <2>2
  <2>3. CASE x \in X /\ y = z
    BY <1>1, <1>3, <2>3 DEF Apart
  <2>4. CASE x = z /\ y = z
    BY <1>1, <2>4
  <2> QED
    BY <1>2, <2>1, <2>2, <2>3, <2>4
<1>5. \A i : i \in Nat => (z[1] <= i /\ i <= z[2] <=> i = num)
  BY <1>1
<1> QED
  BY <1>1, <1>2, <1>4, <1>5, NumsOfExtents

(* A block behind the last of an extent.                                   *)
LEMMA GrownApart ==
  ASSUME NEW X \in SUBSET (Nums \X Nums), Apart(X), NEW num \in Nums,
         ~ \E x \in X : x[1] <= num /\ num <= x[2],
         NEW x \in X, x[2] = num - 1,
         NEW Y, Y = (X \ {y \in X : y[2] = num - 1}) \cup {<<x[1], num>>}
  PROVE  /\ Apart(Y)
         /\ \A i : i \in NumsIn(Y) <=> i \in NumsIn(X) \/ i = num
<1> DEFINE z == <<x[1], num>>
<1>1. /\ num \in Nat /\ z[1] = x[1] /\ z[2] = num /\ x[1] \in Nat
      /\ x[2] \in Nat /\ x[1] \in Nums /\ x[1] <= x[2]
  BY ConstantTypes, ExtentTypes DEF Apart
<1>2. ASSUME NEW y \in X, y[2] = num - 1 PROVE y = x
  <2>1. y[1] <= y[2] /\ (y = x \/ y[2] < x[1] \/ x[2] < y[1])
    BY DEF Apart
  <2> QED
    BY <1>1, <1>2, <2>1, ExtentTypes
<1>3. \A y : y \in Y <=> (y \in X /\ y # x) \/ y = z
  BY <1>2
<1>4. Y \in SUBSET (Nums \X Nums)
  BY <1>1
<1> HIDE DEF z
<1>5. \A y \in X : y # x => y[2] < x[1] \/ num < y[1]
  <2> SUFFICES ASSUME NEW y \in X, y # x PROVE y[2] < x[1] \/ num < y[1]
    OBVIOUS
  <2>1. /\ y[1] <= y[2] /\ (y[2] < x[1] \/ x[2] < y[1])
        /\ ~ (y[1] <= num /\ num <= y[2])
    BY DEF Apart
  <2> QED
    BY <1>1, <2>1, ExtentTypes
<1>6. Apart(Y)
  <2> SUFFICES ASSUME NEW v \in Y, NEW y \in Y
               PROVE  v[1] <= v[2] /\ (v = y \/ v[2] < y[1] \/ y[2] < v[1])
    BY DEF Apart
  <2>1. CASE v \in X /\ y \in X
    BY <2>1 DEF Apart
  <2>2. CASE v = z /\ y \in X /\ y # x
    BY <1>1, <1>5, <2>2
  <2>3. CASE v \in X /\ v # x /\ y = z
    BY <1>1, <1>5, <2>3 DEF Apart
  <2>4. CASE v = z /\ y = z
    BY <1>1, <2>4
  <2> QED
    BY <1>3, <2>1, <2>2, <2>3, <2>4
<1>7. \A i \in Nat : z[1] <= i /\ i <= z[2] <=>
                       (x[1] <= i /\ i <= x[2]) \/ i = num
  BY <1>1
<1>8. \A i \in Nat : (\E y \in Y : y[1] <= i /\ i <= y[2]) <=>
                       (\E y \in X : y[1] <= i /\ i <= y[2]) \/ i = num
  BY <1>3, <1>7
<1>9. \A i : i \in NumsIn(Y) <=>
                i \in Nat /\ \E y \in Y : y[1] <= i /\ i <= y[2]
  BY <1>4, NumsOfExtents
<1>10. \A i : i \in NumsIn(X) <=>
                 i \in Nat /\ \E y \in X : y[1] <= i /\ i <= y[2]
  BY NumsOfExtents
<1> QED
  BY <1>1, <1>6, <1>8, <1>9, <1>10

(* An extent is cut off, or goes.                                          *)
LEMMA CutApart ==
  ASSUME NEW X \in SUBSET (Nums \X Nums), Apart(X), NEW x \in X,
         NEW new \in Nums, new <= x[2], NEW Y,
         \/ x[1] < new /\ Y = (X \ {x}) \cup {<<x[1], new - 1>>}
         \/ x[1] >= new /\ Y = X \ {x}
  PROVE  /\ Apart(Y)
         /\ \A i : i \in NumsIn(Y) <=>
                     i \in NumsIn(X) /\ ~ (x[1] <= i /\ new <= i /\ i <= x[2])
<1>1. /\ new \in Nat /\ x[1] \in Nat /\ x[2] \in Nat /\ x[1] \in Nums
      /\ x[1] <= x[2]
  BY ConstantTypes, ExtentTypes DEF Apart
<1>2. \A y \in X : y # x => y[2] < x[1] \/ x[2] < y[1]
  BY DEF Apart
<1>3. CASE x[1] < new /\ Y = (X \ {x}) \cup {<<x[1], new - 1>>}
  <2> DEFINE z == <<x[1], new - 1>>
  <2>1. /\ z[1] = x[1] /\ z[2] = new - 1 /\ new - 1 \in Nat /\ new - 1 \in Nums
        /\ new - 1 < x[2]
    BY <1>1, <1>3, ConstantTypes DEF Nums
  <2>2. \A y : y \in Y <=> (y \in X /\ y # x) \/ y = z
    BY <1>3
  <2>3. Y \in SUBSET (Nums \X Nums)
    BY <1>1, <1>3, <2>1
  <2> HIDE DEF z
  <2>4. Apart(Y)
    <3> SUFFICES ASSUME NEW v \in Y, NEW y \in Y
                 PROVE  v[1] <= v[2] /\ (v = y \/ v[2] < y[1] \/ y[2] < v[1])
      BY DEF Apart
    <3>1. CASE v \in X /\ y \in X
      BY <3>1 DEF Apart
    <3>2. CASE v = z /\ y \in X /\ y # x
      BY <1>1, <1>2, <1>3, <2>1, <3>2, ExtentTypes
    <3>3. CASE v \in X /\ v # x /\ y = z
      <4>1. v[1] <= v[2] /\ v[1] \in Nat /\ v[2] \in Nat
        BY <3>3, ExtentTypes DEF Apart
      <4> QED
        BY <1>1, <1>2, <2>1, <3>3, <4>1
    <3>4. CASE v = z /\ y = z
      BY <1>1, <1>3, <2>1, <3>4
    <3> QED
      BY <2>2, <3>1, <3>2, <3>3, <3>4
  <2>5. \A i \in Nat : z[1] <= i /\ i <= z[2] <=>
                         x[1] <= i /\ i < new /\ i <= x[2]
    BY <1>1, <2>1
  <2>6. \A i \in Nat, y \in X :
          y # x /\ y[1] <= i /\ i <= y[2] => ~ (x[1] <= i /\ i <= x[2])
    <3> SUFFICES ASSUME NEW i \in Nat, NEW y \in X, y # x,
                        y[1] <= i, i <= y[2], x[1] <= i, i <= x[2]
                 PROVE  FALSE
      OBVIOUS
    <3> QED
      BY <1>1, <1>2, ExtentTypes
  <2>7. \A i \in Nat : (\E y \in Y : y[1] <= i /\ i <= y[2]) <=>
                         /\ \E y \in X : y[1] <= i /\ i <= y[2]
                         /\ ~ (x[1] <= i /\ new <= i /\ i <= x[2])
    <3> SUFFICES ASSUME NEW i \in Nat
                 PROVE  (\E y \in Y : y[1] <= i /\ i <= y[2]) <=>
                          /\ \E y \in X : y[1] <= i /\ i <= y[2]
                          /\ ~ (x[1] <= i /\ new <= i /\ i <= x[2])
      OBVIOUS
    <3>1. i < new <=> ~ (new <= i)
      BY <1>1
    <3> QED
      BY <2>2, <2>5, <2>6, <3>1
  <2> QED
    BY <2>3, <2>4, <2>7, NumsOfExtents
<1>4. CASE x[1] >= new /\ Y = X \ {x}
  <2>1. Y \in SUBSET (Nums \X Nums) /\ \A y : y \in Y <=> y \in X /\ y # x
    BY <1>4
  <2>2. Apart(Y)
    BY <2>1 DEF Apart
  <2>3. \A i \in Nat, y \in X :
          y # x /\ y[1] <= i /\ i <= y[2] => ~ (x[1] <= i /\ i <= x[2])
    <3> SUFFICES ASSUME NEW i \in Nat, NEW y \in X, y # x,
                        y[1] <= i, i <= y[2], x[1] <= i, i <= x[2]
                 PROVE  FALSE
      OBVIOUS
    <3> QED
      BY <1>1, <1>2, ExtentTypes
  <2>4. \A i \in Nat : x[1] <= i => new <= i
    BY <1>1, <1>4
  <2>5. \A i \in Nat : (\E y \in Y : y[1] <= i /\ i <= y[2]) <=>
                         /\ \E y \in X : y[1] <= i /\ i <= y[2]
                         /\ ~ (x[1] <= i /\ new <= i /\ i <= x[2])
    BY <2>1, <2>3, <2>4
  <2> QED
    BY <2>1, <2>2, <2>5, NumsOfExtents
<1> QED
  BY <1>1, <1>3, <1>4

LEMMA MapDisk ==
  ASSUME NEW d, DiskOK(d), NEW s \in Maps(d.next), Apart(d.extents[s.label]),
         NEW behind \in BOOLEAN, NEW e, e = MapBlock(d, s, behind)
  PROVE  /\ Apart(e.extents[s.label])
         /\ \A l \in Labels : l # s.label => e.extents[l] = d.extents[l]
         /\ \A i : i \in NumsIn(e.extents[s.label]) <=>
                     i \in NumsIn(d.extents[s.label]) \/ i = s.num
<1> DEFINE l == s.label
           X == d.extents[l]
<1>1. /\ l \in Labels /\ l < d.next /\ s.num \in Nums
      /\ X \in SUBSET (Nums \X Nums) /\ s.num \in Nat
  <2>1. l \in 0 .. d.next - 1 /\ s.num \in Nums
    BY DEF Maps
  <2>2. d.next \in 1 .. MaxLabel + 1
    BY DEF DiskOK
  <2>3. l \in Labels /\ l < d.next
    BY <2>1, <2>2, ConstantTypes DEF Labels
  <2>4. X \in SUBSET (Nums \X Nums)
    BY <2>3 DEF DiskOK, ExtentsOK
  <2> QED
    BY <2>1, <2>3, <2>4, ConstantTypes
<1>2. ASSUME NEW Y \in SUBSET (Nums \X Nums), e = WithExtents(d, l, Y)
      PROVE  e.extents[l] = Y
             /\ \A j \in Labels : j # l => e.extents[j] = d.extents[j]
  <2>1. e.extents = [d.extents EXCEPT ![l] = Y]
    BY <1>1, <1>2, ExtentsChange
  <2>2. DOMAIN d.extents = Labels
    BY DEF DiskOK, ExtentsOK
  <2> QED
    BY <1>1, <2>1, <2>2
<1>3. CASE Covered(d, l, s.num) /\ e = d
  <2>1. s.num \in NumsIn(X)
    BY <1>1, <1>3, NumsOfExtents DEF Covered
  <2> QED
    BY <1>3, <2>1
<1>4. CASE ~ Covered(d, l, s.num) /\ \E x \in X :
             /\ x[2] = s.num - 1
             /\ e = WithExtents(d, l,
                      (X \ {y \in X : y[2] = s.num - 1}) \cup {<<x[1], s.num>>})
  <2>1. PICK x \in X :
             /\ x[2] = s.num - 1
             /\ e = WithExtents(d, l,
                      (X \ {y \in X : y[2] = s.num - 1}) \cup {<<x[1], s.num>>})
    BY <1>4
  <2> DEFINE Y == (X \ {y \in X : y[2] = s.num - 1}) \cup {<<x[1], s.num>>}
  <2>2. Y \in SUBSET (Nums \X Nums)
    BY <1>1
  <2>3. /\ Apart(Y)
        /\ \A i : i \in NumsIn(Y) <=> i \in NumsIn(X) \/ i = s.num
    BY <1>1, <1>4, <2>1, GrownApart DEF Covered
  <2> HIDE DEF Y, X
  <2>4. e.extents[l] = Y
        /\ \A j \in Labels : j # l => e.extents[j] = d.extents[j]
    BY <1>2, <2>1, <2>2 DEF Y
  <2> QED
    BY <2>3, <2>4 DEF X
<1>5. CASE ~ Covered(d, l, s.num)
           /\ e = WithExtents(d, l, X \cup {<<s.num, s.num>>})
  <2> DEFINE Y == X \cup {<<s.num, s.num>>}
  <2>2. Y \in SUBSET (Nums \X Nums)
    BY <1>1
  <2>3. /\ Apart(Y)
        /\ \A i : i \in NumsIn(Y) <=> i \in NumsIn(X) \/ i = s.num
    BY <1>1, <1>5, AloneApart DEF Covered
  <2> HIDE DEF Y, X
  <2>4. e.extents[l] = Y
        /\ \A j \in Labels : j # l => e.extents[j] = d.extents[j]
    BY <1>2, <1>5, <2>2 DEF Y
  <2> QED
    BY <2>3, <2>4 DEF X
<1> QED
  BY <1>3, <1>4, <1>5, MapBlockCases

LEMMA ReduceDisk ==
  ASSUME NEW d, DiskOK(d), NEW s \in Cuts, Apart(d.extents[s.label]),
         NEW x \in d.extents[s.label], s.new <= x[2],
         NEW e, e = ReduceExtent(d, s, x).d
  PROVE  /\ Apart(e.extents[s.label])
         /\ \A l \in Labels : l # s.label => e.extents[l] = d.extents[l]
         /\ \A i : i \in NumsIn(e.extents[s.label]) <=>
                     /\ i \in NumsIn(d.extents[s.label])
                     /\ ~ (x[1] <= i /\ s.new <= i /\ i <= x[2])
<1> DEFINE l == s.label
           X == d.extents[l]
<1>1. /\ l \in Labels /\ l < d.next /\ s.new \in Nums
      /\ X \in SUBSET (Nums \X Nums) /\ x[1] \in Nums /\ x[2] \in Nums
      /\ x[1] \in Int /\ s.new \in Int
  BY ReduceExtentTypes
<1>2. ASSUME NEW Y \in SUBSET (Nums \X Nums), e = WithExtents(d, l, Y)
      PROVE  e.extents[l] = Y
             /\ \A j \in Labels : j # l => e.extents[j] = d.extents[j]
  <2>1. e.extents = [d.extents EXCEPT ![l] = Y]
    BY <1>1, <1>2, ExtentsChange
  <2>2. DOMAIN d.extents = Labels
    BY DEF DiskOK, ExtentsOK
  <2> QED
    BY <1>1, <2>1, <2>2
<1>3. \E Y \in SUBSET (Nums \X Nums) :
        /\ e = WithExtents(d, l, Y)
        /\ \/ x[1] < s.new /\ Y = (X \ {x}) \cup {<<x[1], s.new - 1>>}
           \/ x[1] >= s.new /\ Y = X \ {x}
  <2>1. CASE x[1] < s.new
    <3>1. s.new - 1 \in Nums
      BY <1>1, <2>1, ConstantTypes DEF Nums
    <3>2. (X \ {x}) \cup {<<x[1], s.new - 1>>} \in SUBSET (Nums \X Nums)
      BY <1>1, <3>1
    <3>3. e = WithExtents(d, l, (X \ {x}) \cup {<<x[1], s.new - 1>>})
      BY <2>1, ReduceExtentPart
    <3> QED
      BY <2>1, <3>2, <3>3
  <2>2. CASE x[1] >= s.new
    <3>1. X \ {x} \in SUBSET (Nums \X Nums)
      BY <1>1
    <3>2. e = WithExtents(d, l, X \ {x})
      BY <2>2, ReduceExtentWhole
    <3> QED
      BY <2>2, <3>1, <3>2
  <2> QED
    BY <1>1, <2>1, <2>2
<1>4. PICK Y \in SUBSET (Nums \X Nums) :
        /\ e = WithExtents(d, l, Y)
        /\ \/ x[1] < s.new /\ Y = (X \ {x}) \cup {<<x[1], s.new - 1>>}
           \/ x[1] >= s.new /\ Y = X \ {x}
  BY <1>3
<1>5. /\ Apart(Y)
      /\ \A i : i \in NumsIn(Y) <=>
                  i \in NumsIn(X) /\ ~ (x[1] <= i /\ s.new <= i /\ i <= x[2])
  BY <1>1, <1>4, CutApart
<1>6. e.extents[l] = Y /\ \A j \in Labels : j # l => e.extents[j] = d.extents[j]
  BY <1>2, <1>4
<1> QED
  BY <1>5, <1>6

(* The search for the block before num finds one extent, the one that ends *)
(* with that block if the file has the blocks below num.                   *)
LEMMA FloorFacts ==
  ASSUME NEW d, NEW l, NEW X, X = d.extents[l], X \in SUBSET (Nums \X Nums),
         Apart(X), NEW num \in Nat
  PROVE  /\ \A x \in Floor(d, l, num - 1) : x \in X
         /\ \A x, y \in Floor(d, l, num - 1) : x = y
         /\ Below(NumsIn(X), num) /\ 0 < num =>
              /\ \E x \in Floor(d, l, num - 1) : TRUE
              /\ \A x \in Floor(d, l, num - 1) : x[2] = num - 1 /\ x[1] < num
<1>1. \A x : x \in Floor(d, l, num - 1) <=>
        /\ x \in X /\ x[1] <= num - 1
        /\ \A y \in X : y[1] <= num - 1 => y[1] <= x[1]
  BY DEF Floor
<1>2. ASSUME NEW x \in Floor(d, l, num - 1), NEW y \in Floor(d, l, num - 1)
      PROVE  x = y
  <2>1. x \in X /\ y \in X /\ x[1] <= y[1] /\ y[1] <= x[1]
    BY <1>1
  <2>2. x[1] \in Nat /\ y[1] \in Nat /\ x[2] \in Nat /\ y[2] \in Nat
    BY <2>1, ExtentTypes
  <2>3. x[1] <= x[2] /\ y[1] <= y[2] /\ (x = y \/ x[2] < y[1] \/ y[2] < x[1])
    BY <2>1 DEF Apart
  <2> QED
    BY <2>1, <2>2, <2>3
<1>3. ASSUME Below(NumsIn(X), num), 0 < num
      PROVE  \E x \in Floor(d, l, num - 1) : x[2] = num - 1 /\ x[1] < num
  <2>1. num - 1 \in Nat /\ num - 1 < num
    BY <1>3
  <2>2. num - 1 \in NumsIn(X)
    BY <1>3, <2>1 DEF Below
  <2>3. PICK x \in X : x[1] <= num - 1 /\ num - 1 <= x[2]
    BY <2>2, NumsOfExtents
  <2>4. x[1] \in Nat /\ x[2] \in Nat /\ x[1] <= x[2]
    BY ExtentTypes DEF Apart
  <2>5. x[2] \in NumsIn(X)
    BY <2>4, NumsOfExtents
  <2>6. x[2] < num
    BY <1>3, <2>5 DEF Below
  <2>7. x[2] = num - 1 /\ x[1] < num
    BY <2>1, <2>3, <2>4, <2>6
  <2>8. ASSUME NEW y \in X, y[1] <= num - 1 PROVE y[1] <= x[1]
    <3>1. y[1] \in Nat /\ y[2] \in Nat /\ y[1] <= y[2]
          /\ (x = y \/ x[2] < y[1] \/ y[2] < x[1])
      BY ExtentTypes DEF Apart
    <3> QED
      BY <2>4, <2>7, <2>8, <3>1
  <2> QED
    BY <1>1, <2>3, <2>7, <2>8
<1> QED
  BY <1>1, <1>2, <1>3

-----------------------------------------------------------------------------
(* The changes of the call in progress.                                    *)

LEMMA ChangedKeys ==
  ASSUME NEW d, DiskOK(d), NEW s
  PROVE  /\ s.op = "add" =>
              /\ AddKey(d, s).keys = Apply(d.keys, s)
              /\ AddKey(d, s).extents = d.extents
         /\ s.op = "delete" =>
              /\ DeleteKey(d, s).keys = Apply(d.keys, s)
              /\ DeleteKey(d, s).extents = d.extents
  BY DEF DiskOK, AddKey, DeleteKey, Apply, Put, Drop

LEMMA StepOfKeys ==
  ASSUME CallInv, todo # <<>>, Head(todo).op \in {"add", "delete"},
         disk' = IF Head(todo).op = "add" THEN AddKey(disk, Head(todo))
                 ELSE DeleteKey(disk, Head(todo)),
         todo' = Tail(todo), UNCHANGED <<fault, handles, crashes>>, TypeInv'
  PROVE  CallInv'
<1> DEFINE s == Head(todo)
           S == Changes(disk.next)
<1>1. /\ DiskOK(disk) /\ todo \in Seq(S) /\ disk' \in {AddKey(disk, s), DeleteKey(disk, s)}
      /\ s.op = "add" \/ s.op = "delete"
  BY DEF CallInv, TypeInv
<1>2. disk'.keys = Apply(disk.keys, s) /\ disk'.extents = disk.extents
  BY <1>1, ChangedKeys
<1>3. disk'.next = disk.next
  BY <1>1 DEF DiskOK, AddKey, DeleteKey
<1>4. \A l \in Labels : Apart(disk'.extents[l])
  BY <1>2 DEF CallInv
<1>5. ASSUME NEW M, Leads(disk.keys, todo, M), FitsInv(M)
      PROVE  Leads(disk'.keys, todo', M) /\ FitsInv(M)'
  <2>1. Leads(disk'.keys, todo', M)
    BY <1>1, <1>2, <1>5, LeadsStep
  <2>2. Typed(M, disk'.next) /\ Tree(M) /\ Held(M, handles')
    BY <1>3, <1>5 DEF FitsInv
  <2>3. ASSUME Exact
        PROVE  fault' = "none" /\ Sized(M, handles', todo', disk'.extents)
    <3>1. fault = "none" /\ Sized(M, handles, todo, disk.extents)
      BY <1>5, <2>3 DEF FitsInv
    <3>2. ASSUME NEW l \in Labels
          PROVE  BlocksFit(NumsIn(disk.extents[l]), Tail(todo), l,
                           FinalSize(M, handles, l))
      <4>1. BlocksFit(NumsIn(disk.extents[l]), todo, l,
                      FinalSize(M, handles, l))
        BY <3>1 DEF Sized
      <4>2. ~ OfBlocks(s, l)
        BY <1>1 DEF OfBlocks
      <4> QED
        BY <1>1, <4>1, <4>2, TailFits
    <3> QED
      BY <1>2, <3>1, <3>2 DEF Sized
  <2> QED
    BY <2>1, <2>2, <2>3 DEF FitsInv
<1>6. crashes' = 0 => \E M : Leads(disk'.keys, todo', M) /\ FitsInv(M)'
  BY <1>5 DEF CallInv
<1> QED
  BY <1>4, <1>6 DEF CallInv

LEMMA StepOfMap ==
  ASSUME CallInv, todo # <<>>, Head(todo).op = "map", NEW behind \in BOOLEAN,
         disk' = MapBlock(disk, Head(todo), behind),
         todo' = Tail(todo), UNCHANGED <<fault, handles, crashes>>, TypeInv'
  PROVE  CallInv'
<1> DEFINE s == Head(todo)
           S == Changes(disk.next)
<1>1. DiskOK(disk) /\ todo \in Seq(S) /\ s \in Maps(disk.next)
  <2>1. DiskOK(disk) /\ todo \in Seq(S)
    BY DEF CallInv, TypeInv
  <2>2. s \in S
    BY <2>1, HeadTailProperties
  <2> QED
    BY <2>1, <2>2 DEF Changes, Adds, Deletes, Cuts
<1>2. s.label \in Labels
  BY <1>1, ConstantTypes DEF Maps, Labels, DiskOK
<1>3. disk'.keys = disk.keys /\ disk'.next = disk.next
  BY <1>1, MapBlockOK
<1>4. /\ Apart(disk'.extents[s.label])
      /\ \A l \in Labels : l # s.label => disk'.extents[l] = disk.extents[l]
      /\ \A i : i \in NumsIn(disk'.extents[s.label]) <=>
                  i \in NumsIn(disk.extents[s.label]) \/ i = s.num
  BY <1>1, <1>2, MapDisk DEF CallInv
<1>5. \A l \in Labels : Apart(disk'.extents[l])
  BY <1>4 DEF CallInv
<1>6. ASSUME NEW M, Leads(disk.keys, todo, M), FitsInv(M)
      PROVE  Leads(disk'.keys, todo', M) /\ FitsInv(M)'
  <2>0. Apply(disk.keys, s) = disk.keys
    BY DEF Apply
  <2>1. Leads(disk'.keys, todo', M)
    BY <1>1, <1>3, <1>6, <2>0, LeadsStep
  <2>2. Typed(M, disk'.next) /\ Tree(M) /\ Held(M, handles')
    BY <1>3, <1>6 DEF FitsInv
  <2>3. ASSUME Exact
        PROVE  fault' = "none" /\ Sized(M, handles', todo', disk'.extents)
    <3>1. fault = "none" /\ Sized(M, handles, todo, disk.extents)
      BY <1>6, <2>3 DEF FitsInv
    <3>2. ASSUME NEW l \in Labels
          PROVE  BlocksFit(NumsIn(disk'.extents[l]), Tail(todo), l,
                           FinalSize(M, handles, l))
      <4> DEFINE size == FinalSize(M, handles, l)
      <4>1. BlocksFit(NumsIn(disk.extents[l]), todo, l, size)
        BY <3>1 DEF Sized
      <4> HIDE DEF size
      <4>2. CASE l # s.label
        <5>1. ~ OfBlocks(s, l)
          BY <4>2 DEF OfBlocks
        <5>2. BlocksFit(NumsIn(disk.extents[l]), Tail(todo), l, size)
          BY <1>1, <4>1, <5>1, TailFits
        <5> QED
          BY <1>4, <4>2, <5>2 DEF size
      <4>3. CASE l = s.label
        <5>1. OfBlocks(s, l)
          BY <4>3 DEF OfBlocks
        <5>2. \A j : j \in NumsIn(disk.extents[l]) \/ j = s.num <=>
                       j \in Nat /\ j < size
          BY <1>1, <4>1, <5>1, LastFits
        <5>3. Below(NumsIn(disk'.extents[l]), size)
          BY <1>4, <4>3, <5>2 DEF Below
        <5>4. BlocksFit(NumsIn(disk'.extents[l]), Tail(todo), l, size)
          BY <1>1, <4>1, <5>1, <5>3, LastFits
        <5> QED
          BY <5>4 DEF size
      <4> QED
        BY <4>2, <4>3
    <3> QED
      BY <3>1, <3>2 DEF Sized
  <2> QED
    BY <2>1, <2>2, <2>3 DEF FitsInv
<1>7. crashes' = 0 => \E M : Leads(disk'.keys, todo', M) /\ FitsInv(M)'
  BY <1>6 DEF CallInv
<1> QED
  BY <1>5, <1>7 DEF CallInv

(* The loop of reduce_file finds the extent it looks for.                  *)
LEMMA ReduceFinds ==
  ASSUME CallInv, todo # <<>>, Head(todo).op = "reduce",
         crashes = 0, Exact
  PROVE  \E x \in Floor(disk, Head(todo).label, Head(todo).num - 1) :
           x[2] >= Head(todo).new
<1> DEFINE s == Head(todo)
           X == disk.extents[s.label]
<1>1. DiskOK(disk) /\ todo \in Seq(Changes(disk.next)) /\ s \in Cuts
  <2>1. DiskOK(disk) /\ todo \in Seq(Changes(disk.next))
    BY DEF CallInv, TypeInv
  <2>2. s \in Changes(disk.next)
    BY <2>1, HeadTailProperties
  <2> QED
    BY <2>1, <2>2 DEF Changes, Adds, Deletes, Maps
<1>2. /\ s.label \in Labels /\ X \in SUBSET (Nums \X Nums) /\ Apart(X)
      /\ s.num \in Nat /\ s.new \in Nat
  BY <1>1, ConstantTypes DEF DiskOK, ExtentsOK, Cuts, CallInv
<1>3. PICK M : FitsInv(M)
  BY DEF CallInv
<1>4. BlocksFit(NumsIn(X), todo, s.label, FinalSize(M, handles, s.label))
  BY <1>2, <1>3 DEF FitsInv, Sized
<1>5. OfBlocks(s, s.label)
  BY DEF OfBlocks
<1>6. Below(NumsIn(X), s.num) /\ s.new < s.num
  BY <1>1, <1>4, <1>5, LastFits
<1>7. \E x \in Floor(disk, s.label, s.num - 1) : x[2] = s.num - 1
  BY <1>2, <1>6, FloorFacts
<1> QED
  BY <1>2, <1>6, <1>7

LEMMA StepOfReduce ==
  ASSUME CallInv, todo # <<>>, Head(todo).op = "reduce",
         NEW x \in Floor(disk, Head(todo).label, Head(todo).num - 1),
         x[2] >= Head(todo).new,
         disk' = ReduceExtent(disk, Head(todo), x).d,
         todo' = ReduceExtent(disk, Head(todo), x).rest \o Tail(todo),
         UNCHANGED <<fault, handles, crashes>>, TypeInv'
  PROVE  CallInv'
<1> DEFINE s == Head(todo)
           S == Changes(disk.next)
           X == disk.extents[s.label]
           rest == ReduceExtent(disk, s, x).rest
           c == [s EXCEPT !.num = x[1]]
<1>1. DiskOK(disk) /\ todo \in Seq(S) /\ s \in Cuts
  <2>1. DiskOK(disk) /\ todo \in Seq(S)
    BY DEF CallInv, TypeInv
  <2>2. s \in S
    BY <2>1, HeadTailProperties
  <2> QED
    BY <2>1, <2>2 DEF Changes, Adds, Deletes, Maps
<1>2. /\ s.label \in Labels /\ X \in SUBSET (Nums \X Nums) /\ Apart(X)
      /\ s.num \in Nat /\ s.new \in Nat
  BY <1>1, ConstantTypes DEF DiskOK, ExtentsOK, Cuts, CallInv
<1>3. x \in X
  BY <1>2, FloorFacts
<1>4. x[1] \in Nat /\ x[2] \in Nat
  BY <1>2, <1>3, ExtentTypes
<1>5. disk'.keys = disk.keys /\ disk'.next = disk.next
  BY <1>1, <1>3, ReduceExtentOK
<1>6. /\ Apart(disk'.extents[s.label])
      /\ \A l \in Labels : l # s.label => disk'.extents[l] = disk.extents[l]
      /\ \A i : i \in NumsIn(disk'.extents[s.label]) <=>
                  /\ i \in NumsIn(X)
                  /\ ~ (x[1] <= i /\ s.new <= i /\ i <= x[2])
  <2>1. s.new <= x[2]
    BY <1>2, <1>4
  <2>2. disk' = ReduceExtent(disk, s, x).d /\ Apart(disk.extents[s.label])
        /\ x \in disk.extents[s.label] /\ DiskOK(disk) /\ s \in Cuts
    BY <1>1, <1>2, <1>3
  <2> HIDE DEF s
  <2> QED
    BY <2>1, <2>2, ReduceDisk
<1>7. \A l \in Labels : Apart(disk'.extents[l])
  BY <1>6 DEF CallInv
<1>8. \/ x[1] <= s.new /\ rest = <<>>
      \/ x[1] > s.new /\ rest = <<c>>
  <2>1. CASE x[1] < s.new
    <3>1. rest = <<>>
      BY <1>1, <1>3, <2>1, ReduceExtentPart
    <3> QED
      BY <1>2, <1>4, <2>1, <3>1
  <2>2. CASE x[1] >= s.new
    <3>1. rest = IF x[1] > s.new THEN <<c>> ELSE <<>>
      BY <1>1, <1>3, <2>2, ReduceExtentWhole
    <3> QED
      BY <1>2, <1>4, <2>2, <3>1
  <2> QED
    BY <1>2, <1>4, <2>1, <2>2
<1>9. /\ c \in S /\ c.op = "reduce" /\ c.label = s.label /\ c.new = s.new
      /\ c.num = x[1]
  BY <1>1, <1>4 DEF Cuts, Changes
<1> HIDE DEF c, rest, X, S
<1>10. rest = <<>> => todo' = Tail(todo)
  <2>1. Tail(todo) \in Seq(S)
    BY <1>1, HeadTailProperties
  <2> QED
    BY <2>1, EmptySeq, ConcatEmptySeq DEF rest
<1>11. rest = <<c>> => todo' = <<c>> \o Tail(todo)
  BY DEF rest
<1>12. ASSUME NEW M, Leads(disk.keys, todo, M), FitsInv(M)
       PROVE  Leads(disk'.keys, todo', M) /\ FitsInv(M)'
  <2>1. Leads(disk'.keys, todo', M)
    <3>1. CASE rest = <<>>
      <4>1. Apply(disk.keys, s) = disk.keys
        BY DEF Apply
      <4> QED
        BY <1>1, <1>5, <1>10, <1>12, <3>1, <4>1, LeadsStep
    <3>2. CASE rest = <<c>>
      <4>1. s.op \notin {"add", "delete"} /\ c.op \notin {"add", "delete"}
        BY <1>9
      <4> QED
        BY <1>1, <1>5, <1>9, <1>11, <1>12, <3>2, <4>1, LeadsReplaced
    <3> QED
      BY <1>8, <3>1, <3>2
  <2>2. Typed(M, disk'.next) /\ Tree(M) /\ Held(M, handles')
    BY <1>5, <1>12 DEF FitsInv
  <2>3. ASSUME Exact
        PROVE  fault' = "none" /\ Sized(M, handles', todo', disk'.extents)
    <3>1. fault = "none" /\ Sized(M, handles, todo, disk.extents)
      BY <1>12, <2>3 DEF FitsInv
    <3>2. ASSUME NEW l \in Labels
          PROVE  BlocksFit(NumsIn(disk'.extents[l]), todo', l,
                           FinalSize(M, handles, l))
      <4> DEFINE size == FinalSize(M, handles, l)
      <4>1. BlocksFit(NumsIn(disk.extents[l]), todo, l, size)
        BY <3>1 DEF Sized
      <4> HIDE DEF size
      <4>2. CASE l # s.label
        <5>1. ~ OfBlocks(s, l) /\ ~ OfBlocks(c, l)
          BY <1>9, <4>2 DEF OfBlocks
        <5>2. BlocksFit(NumsIn(disk.extents[l]), Tail(todo), l, size)
              /\ Tail(todo) \in Seq(S)
          BY <1>1, <4>1, <5>1, TailFits, HeadTailProperties
        <5>3. BlocksFit(NumsIn(disk.extents[l]), <<c>> \o Tail(todo), l, size)
          BY <1>9, <5>1, <5>2, OtherFits
        <5> QED
          BY <1>6, <1>8, <1>10, <1>11, <4>2, <5>2, <5>3 DEF size
      <4>3. CASE l = s.label
        <5> DEFINE N == NumsIn(disk'.extents[l])
        <5>1. OfBlocks(s, l)
          BY <4>3 DEF OfBlocks
        <5>2. Below(NumsIn(X), s.num) /\ s.new < s.num /\ size = s.new
          BY <1>1, <4>1, <4>3, <5>1, LastFits DEF X
        <5>3. x[2] = s.num - 1 /\ x[1] < s.num
          BY <1>2, <5>2, FloorFacts DEF X
        <5>4. \A i : i \in N <=>
                i \in Nat /\ i < s.num /\ (i < x[1] \/ i < s.new)
          <6>1. \A i \in Nat : ~ (x[1] <= i /\ s.new <= i /\ i <= x[2]) /\ i < s.num
                          <=> i < s.num /\ (i < x[1] \/ i < s.new)
            BY <1>2, <1>4, <5>3
          <6> QED
            BY <1>6, <4>3, <5>2, <6>1 DEF Below
        <5> HIDE DEF N
        <5>5. CASE rest = <<>>
          <6>1. x[1] <= s.new
            BY <1>8, <5>5
          <6>2. \A i \in Nat : i < s.num /\ (i < x[1] \/ i < s.new) <=> i < s.new
            BY <1>2, <1>4, <5>2, <6>1
          <6>3. Below(N, size)
            BY <5>2, <5>4, <6>2 DEF Below
          <6>4. BlocksFit(N, Tail(todo), l, size)
            BY <1>1, <4>1, <5>1, <6>3, LastFits
          <6> QED
            BY <1>10, <5>5, <6>4 DEF size, N
        <5>6. CASE rest = <<c>> /\ x[1] > s.new
          <6>1. \A i \in Nat : i < s.num /\ (i < x[1] \/ i < s.new) <=> i < x[1]
            BY <1>2, <1>4, <5>2, <5>3, <5>6
          <6>2. Below(N, c.num)
            BY <1>9, <5>4, <6>1 DEF Below
          <6>3. c.new = size /\ size < c.num
            BY <1>2, <1>4, <1>9, <5>2, <5>6
          <6>4. BlocksFit(N, <<c>> \o Tail(todo), l, size)
            BY <1>1, <1>9, <4>1, <4>3, <5>1, <6>2, <6>3, LastFits
          <6> QED
            BY <1>11, <5>6, <6>4 DEF size, N
        <5> QED
          BY <1>8, <5>5, <5>6
      <4> QED
        BY <4>2, <4>3
    <3> QED
      BY <3>1, <3>2 DEF Sized
  <2> QED
    BY <2>1, <2>2, <2>3 DEF FitsInv
<1>13. crashes' = 0 => \E M : Leads(disk'.keys, todo', M) /\ FitsInv(M)'
  BY <1>12 DEF CallInv
<1> QED
  BY <1>7, <1>13 DEF CallInv

LEMMA StepFits == ASSUME CallInv, Step PROVE CallInv'
<1> DEFINE s == Head(todo)
<1>1. TypeInv' /\ todo # <<>> /\ UNCHANGED <<handles, crashes>>
  BY StepOK DEF Step, CallInv
<1>2. CASE /\ s.op \in {"add", "delete"}
           /\ disk' = IF s.op = "add" THEN AddKey(disk, s)
                      ELSE DeleteKey(disk, s)
           /\ todo' = Tail(todo) /\ UNCHANGED fault
  BY <1>1, <1>2, StepOfKeys
<1>3. CASE /\ s.op = "map"
           /\ \E behind \in BOOLEAN : disk' = MapBlock(disk, s, behind)
           /\ todo' = Tail(todo) /\ UNCHANGED fault
  BY <1>1, <1>3, StepOfMap
<1>4. CASE s.op = "reduce" /\ Reduce(s)
  <2> DEFINE floor == Floor(disk, s.label, s.num - 1)
  <2>1. CASE \E x \in floor : x[2] >= s.new
    <3>1. PICK x \in floor : /\ disk' = ReduceExtent(disk, s, x).d
                             /\ todo' = ReduceExtent(disk, s, x).rest \o Tail(todo)
                             /\ UNCHANGED fault
      BY <1>4, <2>1 DEF Reduce
    <3>2. s \in Cuts /\ DiskOK(disk)
      <4>1. DiskOK(disk) /\ todo \in Seq(Changes(disk.next))
        BY DEF CallInv, TypeInv
      <4>2. s \in Changes(disk.next)
        BY <1>1, <4>1, HeadTailProperties
      <4> QED
        BY <1>4, <4>1, <4>2 DEF Changes, Adds, Deletes, Maps
    <3>3. /\ disk.extents[s.label] \in SUBSET (Nums \X Nums)
          /\ Apart(disk.extents[s.label]) /\ s.num \in Nat
      BY <3>2 DEF DiskOK, ExtentsOK, Cuts, CallInv
    <3>4. \A y \in floor : y = x
      BY <3>3, FloorFacts
    <3>5. x[2] >= s.new
      BY <2>1, <3>4
    <3> QED
      BY <1>1, <1>4, <3>1, <3>5, StepOfReduce
  <2>2. CASE ~ \E x \in floor : x[2] >= s.new
    <3>1. fault' = "Unable to find extent" /\ UNCHANGED <<disk, todo>>
      BY <1>4, <2>2 DEF Reduce
    <3>2. crashes = 0 => ~ Exact
      BY <1>1, <1>4, <2>2, ReduceFinds
    <3>3. \A M : FitsInv(M) /\ ~ Exact => FitsInv(M)'
      BY <1>1, <3>1 DEF FitsInv
    <3> QED
      BY <1>1, <3>1, <3>2, <3>3 DEF CallInv
  <2> QED
    BY <2>1, <2>2
<1> QED
  BY <1>2, <1>3, <1>4 DEF Step

-----------------------------------------------------------------------------
(* A call begins where the one before it left the keys.                    *)

LEMMA Begun ==
  ASSUME CallInv, Ready, crashes = 0
  PROVE  /\ Typed(disk.keys, disk.next) /\ Tree(disk.keys)
         /\ Held(disk.keys, handles) /\ Safe(disk.keys)
         /\ disk.next \in 1 .. MaxLabel + 1
         /\ Exact => Sized(disk.keys, handles, <<>>, disk.extents)
<1>1. PICK M : Leads(disk.keys, todo, M) /\ FitsInv(M)
  BY DEF CallInv
<1>2. todo = <<>>
  BY DEF Ready
<1>3. M = disk.keys
  BY <1>1, <1>2, LeadsNowhere
<1> QED
  BY <1>1, <1>2, <1>3 DEF FitsInv, CallInv, TypeInv, DiskOK, Tree

(* The changes of a call, and the keys they lead to.                       *)
Begins(M) ==
  /\ Leads(disk.keys, todo', M)
  /\ Typed(M, disk'.next)
  /\ Tree(M)
  /\ Held(M, handles')
  /\ Exact => Sized(M, handles', todo', disk.extents)

LEMMA CallFits ==
  ASSUME CallInv, Ready, TypeInv', UNCHANGED <<fault, crashes>>,
         disk'.keys = disk.keys, disk'.extents = disk.extents,
         crashes = 0 => \E M : Begins(M)
  PROVE  CallInv'
<1>1. \A M : Begins(M) => Leads(disk'.keys, todo', M) /\ FitsInv(M)'
  BY DEF Begins, FitsInv, Ready
<1> QED
  BY <1>1 DEF CallInv

LEMMA PathPrefix ==
  ASSUME DiskOK(disk), NEW p \in Paths
  PROVE  /\ p[1] = 0 \/ Prefix(disk.keys, p[1])
         /\ p[1] \in Labels /\ p[1] < disk.next /\ p[2] \in Names
<1>1. p[1] \in 0 .. disk.next - 1 /\ p[1] \in Labels /\ p[2] \in Names
  BY PathFacts
<1>2. p[1] < disk.next
  BY <1>1 DEF DiskOK
<1>3. ASSUME p[1] # 0 PROVE Prefix(disk.keys, p[1])
  <2>1. PICK n \in Names : IsDir(0, n) /\ Has(Get(0, n), "D")
                           /\ p[1] = Get(Get(0, n), "D")
    BY <1>3 DEF Paths, Prefixes
  <2>2. Get(0, n) \in Labels
    BY <2>1, KeyFacts
  <2> QED
    BY <2>1, <2>2 DEF Prefix, Has, Get
<1> QED
  BY <1>1, <1>2, <1>3

LEMMA NamedEntry ==
  ASSUME Typed(disk.keys, disk.next), disk.next \in 1 .. MaxLabel + 1,
         NEW d, NEW m \in Names, Has(d, m)
  PROVE  /\ <<d, m>> \in LinkedIn(disk.keys, Get(d, m))
         /\ disk.keys[<<d, m>>].type = TypeOf(d, m)
<1>1. <<d, m>> \in DOMAIN disk.keys /\ <<d, m>>[2] = m
  BY DEF Has
<1>2. <<d, m>> \in EntriesOf(disk.keys)
  BY <1>1, TypedFacts
<1> QED
  BY <1>2 DEF LinkedIn, Get, TypeOf

LEMMA CountThere ==
  ASSUME NEW l PROVE Count(l) = CountIn(disk.keys, l)
  BY DEF Count, CountIn, Has, Get

(* Handles.                                                                *)

LEMMA SizedPlain ==
  ASSUME NEW K, NEW M, NEW hs, NEW gs, NEW t, NEW X, Sized(K, hs, <<>>, X),
         HandlesApart(gs), SizesSaved(M, gs), Plain(t),
         \A l \in Labels : FinalSize(M, gs, l) = FinalSize(K, hs, l)
  PROVE  Sized(M, gs, t, X)
<1> SUFFICES ASSUME NEW l \in Labels
             PROVE  BlocksFit(NumsIn(X[l]), t, l, FinalSize(M, gs, l))
  BY DEF Sized
<1>1. Below(NumsIn(X[l]), FinalSize(K, hs, l))
  BY NothingFits DEF Sized
<1> QED
  BY <1>1, PlainFits

LEMMA SizedCut ==
  ASSUME NEW K, NEW M, NEW hs, NEW gs, NEW X, Sized(K, hs, <<>>, X),
         HandlesApart(gs), SizesSaved(M, gs),
         NEW t, NEW l, NEW size, NEW new, CutIn(t, l, size, new), new < size,
         FinalSize(K, hs, l) = size, FinalSize(M, gs, l) = new,
         \A j \in Labels : j # l => FinalSize(M, gs, j) = FinalSize(K, hs, j)
  PROVE  Sized(M, gs, t, X)
<1> SUFFICES ASSUME NEW j \in Labels
             PROVE  BlocksFit(NumsIn(X[j]), t, j, FinalSize(M, gs, j))
  BY DEF Sized
<1> DEFINE x == FinalSize(K, hs, j)
<1>1. Below(NumsIn(X[j]), x)
  BY NothingFits DEF Sized
<1>2. j = l => x = size /\ new < size
  OBVIOUS
<1>3. FinalSize(M, gs, j) = IF j = l THEN new ELSE x
  OBVIOUS
<1> HIDE DEF x
<1> QED
  BY <1>1, <1>2, <1>3, CutFits

LEMMA SizedReduce ==
  ASSUME NEW K, NEW M, NEW hs, NEW gs, NEW X, Sized(K, hs, <<>>, X),
         HandlesApart(gs), SizesSaved(M, gs),
         NEW t, NEW l, NEW size, NEW new,
         (new < size /\ CutIn(t, l, size, new)) \/ (new = size /\ Plain(t)),
         FinalSize(K, hs, l) = size, FinalSize(M, gs, l) = new,
         \A j \in Labels : j # l => FinalSize(M, gs, j) = FinalSize(K, hs, j)
  PROVE  Sized(M, gs, t, X)
<1>1. CASE new < size /\ CutIn(t, l, size, new)
  BY <1>1, SizedCut
<1>2. CASE new = size /\ Plain(t)
  BY <1>2, SizedPlain
<1> QED
  BY <1>1, <1>2

(* No handle changes, and no size but that of a file nobody has open.      *)
LEMMA HandlesKept ==
  ASSUME NEW K, NEW M, NEW hs, HandlesApart(hs), SizesSaved(K, hs), NEW l,
         Elsewhere(K, M, l),
         \A g \in Handles : hs[g].label = l => l = 0 \/ SizeIn(M, l) = SizeIn(K, l)
  PROVE  /\ SizesSaved(M, hs)
         /\ \A j : j # l \/ SizeIn(M, l) = SizeIn(K, l) =>
              FinalSize(M, hs, j) = FinalSize(K, hs, j)
<1>1. \A j : j # l => SizeIn(M, j) = SizeIn(K, j)
  BY SizeElsewhere
<1> QED
  BY <1>1, FinalSame DEF SizesSaved

LEMMA HandleOpened ==
  ASSUME NEW K, NEW M, NEW hs, HandlesApart(hs), SizesSaved(K, hs), NEW gs,
         NEW l, l # 0, \A g \in Handles : hs[g].label # l,
         \A j : SizeIn(M, j) = SizeIn(K, j),
         NEW h \in Handles, hs[h].label = 0,
         \A g \in Handles : g # h => gs[g] = hs[g],
         gs[h].label = l, gs[h].size = SizeIn(K, l)
  PROVE  /\ HandlesApart(gs) /\ SizesSaved(M, gs)
         /\ \A j : FinalSize(M, gs, j) = FinalSize(K, hs, j)
<1>1. HandlesApart(gs)
  <2> SUFFICES ASSUME NEW g \in Handles, NEW k \in Handles,
                      gs[g].label = gs[k].label
               PROVE  g = k \/ gs[g].label = 0
    BY DEF HandlesApart
  <2>1. CASE g # h /\ k # h
    BY <2>1 DEF HandlesApart
  <2>2. CASE g = h /\ k # h
    <3>1. hs[k].label = l
      BY <2>2
    <3> QED
      BY <3>1
  <2>3. CASE g # h /\ k = h
    <3>1. hs[g].label = l
      BY <2>3
    <3> QED
      BY <3>1
  <2> QED
    BY <2>1, <2>2, <2>3
<1>2. SizesSaved(M, gs)
  BY DEF SizesSaved
<1>3. FinalSize(M, gs, l) = FinalSize(K, hs, l)
  <2>1. FinalSize(M, gs, l) = SizeIn(K, l)
    BY <1>1, FinalOpen
  <2>2. FinalSize(K, hs, l) = SizeIn(K, l)
    BY FinalClosed
  <2> QED
    BY <2>1, <2>2
<1>4. ASSUME NEW j, j # l PROVE FinalSize(M, gs, j) = FinalSize(K, hs, j)
  <2>1. \A g \in Handles : hs[g].label = j \/ gs[g].label = j =>
           j = 0 \/ hs[g] = gs[g]
    BY <1>4
  <2> QED
    BY <2>1, FinalSame
<1> QED
  BY <1>1, <1>2, <1>3, <1>4

LEMMA HandleModified ==
  ASSUME NEW K, NEW hs, HandlesApart(hs), SizesSaved(K, hs), NEW gs,
         NEW h \in Handles, hs[h].label # 0,
         \A g \in Handles : g # h => gs[g] = hs[g],
         gs[h].label = hs[h].label, gs[h].modified = TRUE
  PROVE  /\ HandlesApart(gs) /\ SizesSaved(K, gs)
         /\ FinalSize(K, hs, hs[h].label) = hs[h].size
         /\ FinalSize(K, gs, hs[h].label) = gs[h].size
         /\ \A j : j # hs[h].label =>
              FinalSize(K, gs, j) = FinalSize(K, hs, j)
<1>1. HandlesApart(gs)
  BY DEF HandlesApart
<1>2. SizesSaved(K, gs)
  BY DEF SizesSaved
<1>3. FinalSize(K, gs, hs[h].label) = gs[h].size
  BY <1>1, FinalOpen
<1>4. ASSUME NEW j, j # hs[h].label
      PROVE  FinalSize(K, gs, j) = FinalSize(K, hs, j)
  <2>1. \A g \in Handles : hs[g].label = j \/ gs[g].label = j =>
           j = 0 \/ hs[g] = gs[g]
    BY <1>4
  <2> QED
    BY <2>1, FinalSame
<1> QED
  BY <1>1, <1>2, <1>3, <1>4, FinalOpen

LEMMA HandleReleased ==
  ASSUME NEW K, NEW M, NEW hs, HandlesApart(hs), SizesSaved(K, hs), NEW gs,
         NEW h \in Handles, hs[h].label # 0,
         \A g \in Handles : g # h => gs[g] = hs[g], gs[h].label = 0,
         \A j : j # hs[h].label => SizeIn(M, j) = SizeIn(K, j),
         SizeIn(M, hs[h].label) = hs[h].size
  PROVE  /\ HandlesApart(gs) /\ SizesSaved(M, gs)
         /\ \A j : FinalSize(M, gs, j) = FinalSize(K, hs, j)
<1>1. HandlesApart(gs)
  BY DEF HandlesApart
<1>2. \A g \in Handles : gs[g].label # hs[h].label
  BY DEF HandlesApart
<1>3. SizesSaved(M, gs)
  BY <1>2 DEF SizesSaved
<1>4. FinalSize(M, gs, hs[h].label) = FinalSize(K, hs, hs[h].label)
  BY <1>2, FinalOpen, FinalClosed
<1>5. ASSUME NEW j, j # hs[h].label
      PROVE  FinalSize(M, gs, j) = FinalSize(K, hs, j)
  <2>1. \A g \in Handles : hs[g].label = j \/ gs[g].label = j =>
           j = 0 \/ hs[g] = gs[g]
    BY <1>5
  <2> QED
    BY <1>5, <2>1, FinalSame
<1> QED
  BY <1>1, <1>3, <1>4, <1>5

-----------------------------------------------------------------------------
(* The calls.                                                              *)

LEMMA BeginFits ==
  ASSUME CallInv, TypeInv', Ready, UNCHANGED disk, NEW changes, Begin(changes),
         crashes = 0 => \E M : Begins(M)
  PROVE  CallInv'
  BY CallFits DEF Begin

(* A closed handle has no label, an open one that of a file with a name.   *)
LEMMA OpenHandles ==
  ASSUME NEW K, Held(K, handles), NEW h \in Handles
  PROVE  /\ h \in Open <=> handles[h].label # 0
         /\ h \in Open => \E e \in LinkedIn(K, handles[h].label) :
                            K[e].type = "K_FILE"
  BY DEF Held, Open, Free, Closed

LEMMA NoUsers ==
  ASSUME NEW K, Held(K, handles), NEW l, Users(l) = {}, l # 0
  PROVE  \A h \in Handles : handles[h].label # l
  BY OpenHandles DEF Users

LEMMA CreateFits ==
  ASSUME CallInv, TypeInv', NEW p \in Paths, Create(p[1], p[2])
  PROVE  CallInv'
<1> DEFINE K == disk.keys
           n == disk.next
           N == n + 1
           t == <<Attr(n, "C", 0), Attr(n, "S", 0)>>
                  \o CreateLink(p[1], p[2], n, "K_FILE", 0)
<1>1. /\ Ready /\ ~ Has(p[1], p[2]) /\ n <= MaxLabel /\ todo' = t
      /\ disk' = [disk EXCEPT !.next = N] /\ UNCHANGED <<fault, crashes>>
      /\ NewHandle(n, 0)
  BY DEF Create, Begin
<1>2. DiskOK(disk) /\ n \in 1 .. MaxLabel /\ N \in 1 .. MaxLabel + 1 /\ n < N
  <2>1. DiskOK(disk) /\ n \in 1 .. MaxLabel + 1
    BY DEF CallInv, TypeInv, DiskOK
  <2> QED
    BY <1>1, <2>1, ConstantTypes
<1>3. /\ disk'.next = N /\ disk'.keys = K /\ disk'.extents = disk.extents
  BY <1>1, <1>2, LabelGivenOut
<1> SUFFICES ASSUME crashes = 0 PROVE \E M : Begins(M)
  BY <1>1, <1>3, CallFits
<1>4. /\ Typed(K, n) /\ Tree(K) /\ Held(K, handles)
      /\ Exact => Sized(K, handles, <<>>, disk.extents)
  BY <1>1, Begun
<1>5. /\ p[1] = 0 \/ Prefix(K, p[1])
      /\ p[1] \in Labels /\ p[1] < n /\ p[2] \in Names
      /\ <<p[1], p[2]>> \notin DOMAIN K
  BY <1>1, <1>2, PathPrefix DEF Has
<1> HIDE DEF K, n, N, t
<1>6. PICK M :
        /\ Typed(M, N) /\ Tree(M) /\ Elsewhere(K, M, n) /\ Typed(K, N)
        /\ \A b \in Attributes : <<n, b>> \notin DOMAIN K
        /\ LinkedIn(M, n) = {<<p[1], p[2]>>} /\ M[<<p[1], p[2]>>].type = "K_FILE"
        /\ <<n, "S">> \in DOMAIN M /\ M[<<n, "S">>].data = 0
        /\ Leads(K, t, M)
  <2>1. Made(K, n, N, p[1], p[2], "K_FILE", "S", 0)
    BY <1>2, <1>4, <1>5, NewNode
  <2> QED
    BY <2>1 DEF Made, t
<1>7. PICK h \in Free :
        handles' = [handles EXCEPT ![h] =
                      [label |-> n, size |-> 0, modified |-> FALSE]]
  BY <1>1 DEF NewHandle
<1>8. /\ h \in Handles /\ handles[h].label = 0
      /\ handles'[h].label = n /\ handles'[h].size = 0
      /\ \A g \in Handles : g # h => handles'[g] = handles[g]
  BY <1>7 DEF Free, Closed, CallInv, TypeInv, HandlesOK
<1>9. \A g \in Handles : handles[g].label # n
  BY <1>2, HandleFacts DEF CallInv, n
<1>10. Held(M, handles')
  <2>1. Held(M, handles)
    BY <1>2, <1>4, <1>6, <1>9, HeldAt
  <2>2. \E e \in LinkedIn(M, n) : M[e].type = "K_FILE"
    BY <1>6
  <2> SUFFICES ASSUME NEW g \in Handles
               PROVE  IF handles'[g].label = 0 THEN handles'[g] = Closed
                      ELSE \E e \in LinkedIn(M, handles'[g].label) :
                             M[e].type = "K_FILE"
    BY DEF Held
  <2>3. CASE g = h
    BY <1>2, <1>8, <2>2, <2>3
  <2>4. CASE g # h
    BY <1>8, <2>1, <2>4 DEF Held
  <2> QED
    BY <2>3, <2>4
<1>11. ASSUME Exact PROVE Sized(M, handles', t, disk.extents)
  <2>1. HandlesApart(handles) /\ SizesSaved(K, handles)
        /\ Sized(K, handles, <<>>, disk.extents)
    BY <1>4, <1>11 DEF Sized
  <2>2. SizeIn(K, n) = 0 /\ SizeIn(M, n) = 0
    BY <1>6, AttrNames DEF SizeIn
  <2>3. \A j : SizeIn(M, j) = SizeIn(K, j)
    BY <1>6, <2>2, SizeElsewhere
  <2>4. n # 0
    BY <1>2
  <2>5. /\ HandlesApart(handles') /\ SizesSaved(M, handles')
        /\ \A j : FinalSize(M, handles', j) = FinalSize(K, handles, j)
    <3>1. handles'[h].size = SizeIn(K, n)
      BY <1>8, <2>2
    <3> QED
      BY <1>8, <1>9, <2>1, <2>3, <2>4, <3>1, HandleOpened
  <2>6. Plain(t)
    <3> DEFINE u == <<Attr(n, "C", 0), Attr(n, "S", 0)>>
               w == CreateLink(p[1], p[2], n, "K_FILE", 0)
               S == {Attr(n, "C", 0), Attr(n, "S", 0),
                     Add(p[1], p[2], "K_FILE", n), Attr(n, "L", 0 + 1)}
    <3>1. u \in Seq(S) /\ w \in Seq(S)
      BY DEF CreateLink
    <3>2. Plain(u) /\ Plain(w)
      BY PlainLists
    <3> HIDE DEF u, w, S
    <3>3. Plain(u \o w)
      BY <3>1, <3>2, PlainConcat
    <3> QED
      BY <3>3 DEF u, w, t
  <2> QED
    BY <2>1, <2>5, <2>6, SizedPlain
<1> QED
  BY <1>1, <1>3, <1>6, <1>10, <1>11 DEF Begins, K

LEMMA MkdirFits ==
  ASSUME CallInv, TypeInv', NEW m \in Names, Mkdir(m)
  PROVE  CallInv'
<1> DEFINE K == disk.keys
           n == disk.next
           N == n + 2
           t == <<Attr(n, "C", 0), Attr(n, "D", n + 1)>>
                  \o CreateLink(0, m, n, "K_DIRECTORY", 0)
<1>1. /\ Ready /\ ~ Has(0, m) /\ n + 1 <= MaxLabel /\ todo' = t
      /\ disk' = [disk EXCEPT !.next = N]
      /\ UNCHANGED <<fault, crashes, handles>>
  BY DEF Mkdir, Begin
<1>2. /\ DiskOK(disk) /\ n \in 1 .. MaxLabel /\ N \in 1 .. MaxLabel + 1
      /\ n < N /\ n + 1 < N /\ n <= N /\ 0 < n
  <2>1. DiskOK(disk) /\ n \in 1 .. MaxLabel + 1
    BY DEF CallInv, TypeInv, DiskOK
  <2> QED
    BY <1>1, <2>1, ConstantTypes
<1>3. /\ disk'.next = N /\ disk'.keys = K /\ disk'.extents = disk.extents
  BY <1>1, <1>2, LabelGivenOut
<1> SUFFICES ASSUME crashes = 0 PROVE \E M : Begins(M)
  BY <1>1, <1>3, CallFits
<1>4. /\ Typed(K, n) /\ Tree(K) /\ Held(K, handles)
      /\ Exact => Sized(K, handles, <<>>, disk.extents)
  BY <1>1, Begun
<1>5. <<0, m>> \notin DOMAIN K /\ 0 \in Labels
  BY <1>1, ConstantTypes DEF Has
<1> HIDE DEF K, n, N, t
<1>6. PICK M :
        /\ Typed(M, N) /\ Tree(M) /\ Elsewhere(K, M, n) /\ Typed(K, N)
        /\ \A b \in Attributes : <<n, b>> \notin DOMAIN K
        /\ <<n, "S">> \notin DOMAIN M
        /\ Leads(K, t, M)
  <2>1. Made(K, n, N, 0, m, "K_DIRECTORY", "D", n + 1)
    BY <1>2, <1>4, <1>5, NewNode
  <2> QED
    BY <2>1 DEF Made, t
<1>7. \A g \in Handles : handles[g].label # n
  BY <1>2, HandleFacts DEF CallInv, n
<1>8. Held(M, handles)
  BY <1>2, <1>4, <1>6, <1>7, HeldAt
<1>9. ASSUME Exact PROVE Sized(M, handles, t, disk.extents)
  <2>1. HandlesApart(handles) /\ SizesSaved(K, handles)
        /\ Sized(K, handles, <<>>, disk.extents)
    BY <1>4, <1>9 DEF Sized
  <2>2. SizeIn(K, n) = SizeIn(M, n)
    BY <1>6, AttrNames DEF SizeIn
  <2>3. \A j : j # n => SizeIn(M, j) = SizeIn(K, j)
    BY <1>6, SizeElsewhere
  <2>4. /\ SizesSaved(M, handles)
        /\ \A j : FinalSize(M, handles, j) = FinalSize(K, handles, j)
    BY <1>6, <1>7, <2>1, <2>2, HandlesKept
  <2>5. Plain(t)
    <3> DEFINE u == <<Attr(n, "C", 0), Attr(n, "D", n + 1)>>
               w == CreateLink(0, m, n, "K_DIRECTORY", 0)
               S == {Attr(n, "C", 0), Attr(n, "D", n + 1),
                     Add(0, m, "K_DIRECTORY", n), Attr(n, "L", 0 + 1)}
    <3>1. u \in Seq(S) /\ w \in Seq(S)
      BY DEF CreateLink
    <3>2. Plain(u) /\ Plain(w)
      BY PlainLists
    <3> HIDE DEF u, w, S
    <3>3. Plain(u \o w)
      BY <3>1, <3>2, PlainConcat
    <3> QED
      BY <3>3 DEF u, w, t
  <2> QED
    BY <2>1, <2>4, <2>5, SizedPlain
<1> QED
  BY <1>1, <1>3, <1>6, <1>8, <1>9 DEF Begins, K

(* The call links the file or directory in another way.                    *)
LEMMA RelinkedFits ==
  ASSUME CallInv, Ready, crashes = 0, UNCHANGED <<disk, handles>>,
         NEW l, NEW e \in LinkedIn(disk.keys, l), NEW M,
         Typed(M, disk.next), Tree(M), Elsewhere(disk.keys, M, l),
         LinkedIn(M, l) # {},
         \A f \in LinkedIn(M, l) : M[f].type = disk.keys[e].type,
         SizeIn(M, l) = SizeIn(disk.keys, l),
         Leads(disk.keys, todo', M), Plain(todo')
  PROVE  Begins(M)
<1> DEFINE K == disk.keys
           n == disk.next
<1>1. /\ Typed(K, n) /\ Tree(K) /\ Held(K, handles) /\ n \in 1 .. MaxLabel + 1
      /\ Exact => Sized(K, handles, <<>>, disk.extents)
  BY Begun
<1>2. /\ Typed(M, n) /\ Elsewhere(K, M, l) /\ e \in LinkedIn(K, l)
      /\ \A f \in LinkedIn(M, l) : M[f].type = K[e].type
      /\ LinkedIn(M, l) # {}
      /\ disk' = disk /\ handles' = handles
  OBVIOUS
<1>3. SizeIn(M, l) = SizeIn(K, l)
  OBVIOUS
<1>4. Leads(K, todo', M)
  OBVIOUS
<1> HIDE DEF K, n
<1>5. Held(M, handles)
  <2> SUFFICES ASSUME NEW h \in Handles, handles[h].label = l, l # 0
               PROVE  \E f \in LinkedIn(M, l) : M[f].type = "K_FILE"
    BY <1>1, <1>2, HeldAt
  <2>1. PICK f \in LinkedIn(K, l) : K[f].type = "K_FILE"
    BY <1>1 DEF Held
  <2>2. \A g \in LinkedIn(K, l) : K[g].type = "K_FILE"
    BY <1>1, <2>1, NodeFacts
  <2>3. K[e].type = "K_FILE"
    BY <1>2, <2>2
  <2> QED
    BY <1>2, <2>3
<1>6. ASSUME Exact PROVE Sized(M, handles, todo', disk.extents)
  <2>1. HandlesApart(handles) /\ SizesSaved(K, handles)
        /\ Sized(K, handles, <<>>, disk.extents)
    BY <1>1, <1>6 DEF Sized
  <2>2. \A j : j # l => SizeIn(M, j) = SizeIn(K, j)
    BY <1>2, SizeElsewhere
  <2>3. /\ SizesSaved(M, handles)
        /\ \A j : FinalSize(M, handles, j) = FinalSize(K, handles, j)
    BY <1>2, <1>3, <2>1, HandlesKept
  <2> QED
    BY <2>1, <2>3, SizedPlain
<1> QED
  BY <1>2, <1>4, <1>5, <1>6 DEF Begins, K, n

LEMMA CreateLinkPlain ==
  ASSUME NEW d, NEW m, NEW l, NEW type, NEW c
  PROVE  Plain(CreateLink(d, m, l, type, c))
  BY PlainLists DEF CreateLink

LEMMA LinkFits ==
  ASSUME CallInv, TypeInv', NEW p \in Paths, NEW q \in Paths, Link(p, q)
  PROVE  CallInv'
<1> DEFINE K == disk.keys
           n == disk.next
           l == Get(p[1], p[2])
           t == CreateLink(q[1], q[2], l, "K_FILE", Count(l))
<1>1. /\ Ready /\ Has(p[1], p[2]) /\ TypeOf(p[1], p[2]) = "K_FILE"
      /\ ~ Has(q[1], q[2]) /\ Begin(t) /\ UNCHANGED <<disk, handles>>
      /\ todo' = t
  BY DEF Link, IsFile, Begin
<1> SUFFICES ASSUME crashes = 0 PROVE \E M : Begins(M)
  BY <1>1, BeginFits
<1>2. /\ Typed(K, n) /\ Tree(K) /\ n \in 1 .. MaxLabel + 1
  BY <1>1, Begun
<1>3. /\ q[1] = 0 \/ Prefix(K, q[1])
      /\ q[1] \in Labels /\ q[1] < n /\ q[2] \in Names
      /\ <<q[1], q[2]>> \notin DOMAIN K /\ p[2] \in Names
  BY <1>1, PathPrefix DEF Has, CallInv, TypeInv
<1>4. <<p[1], p[2]>> \in LinkedIn(K, l) /\ K[<<p[1], p[2]>>].type = "K_FILE"
  BY <1>1, <1>2, <1>3, NamedEntry
<1>5. Count(l) = CountIn(K, l)
  BY CountThere
<1>6. Plain(t)
  BY CreateLinkPlain
<1> HIDE DEF K, n, l
<1>7. PICK M :
        /\ Typed(M, n) /\ Tree(M) /\ Elsewhere(K, M, l)
        /\ LinkedIn(M, l) # {}
        /\ \A f \in LinkedIn(M, l) : M[f].type = "K_FILE"
        /\ <<l, "S">> \in DOMAIN K /\ <<l, "S">> \in DOMAIN M
        /\ M[<<l, "S">>] = K[<<l, "S">>]
        /\ Leads(K, CreateLink(q[1], q[2], l, "K_FILE", CountIn(K, l)), M)
  BY <1>2, <1>3, <1>4, AddLink
<1>8. Leads(K, todo', M) /\ Plain(todo') /\ SizeIn(M, l) = SizeIn(K, l)
  BY <1>1, <1>5, <1>6, <1>7 DEF SizeIn
<1> HIDE DEF t
<1> QED
  BY <1>1, <1>4, <1>7, <1>8, RelinkedFits DEF K, n

LEMMA RenameFits ==
  ASSUME CallInv, TypeInv', NEW p \in Paths, NEW q \in Paths, Rename(p, q)
  PROVE  CallInv'
<1> DEFINE K == disk.keys
           n == disk.next
           l == Get(p[1], p[2])
           c == Count(l)
           type == TypeOf(p[1], p[2])
           a == CreateLink(q[1], q[2], l, type, c)
           b == DeleteLink(p[1], p[2], c + 1)
           u == <<Del(p[1], p[2])>>
           w == <<Attr(l, "L", (c + 1) - 1)>>
<1>1. /\ Ready /\ Has(p[1], p[2]) /\ ~ Has(q[1], q[2])
      /\ IsDir(p[1], p[2]) => q[1] = 0
      /\ Begin(a \o b) /\ UNCHANGED <<disk, handles>>
      /\ todo' = a \o b
  BY DEF Rename, Begin
<1> SUFFICES ASSUME crashes = 0 PROVE \E M : Begins(M)
  BY <1>1, BeginFits
<1>2. /\ Typed(K, n) /\ Tree(K) /\ n \in 1 .. MaxLabel + 1
  BY <1>1, Begun
<1>3. /\ q[1] = 0 \/ Prefix(K, q[1])
      /\ q[1] \in Labels /\ q[1] < n /\ q[2] \in Names
      /\ <<q[1], q[2]>> \notin DOMAIN K /\ p[2] \in Names
  BY <1>1, PathPrefix DEF Has, CallInv, TypeInv
<1>4. <<p[1], p[2]>> \in LinkedIn(K, l) /\ K[<<p[1], p[2]>>].type = type
  BY <1>1, <1>2, <1>3, NamedEntry
<1>5. c = CountIn(K, l)
  BY CountThere
<1>6. type = "K_DIRECTORY" => q[1] = 0
  BY <1>1 DEF IsDir
<1>7. c \in Nat \ {0}
  <2> DEFINE e == <<p[1], p[2]>>
  <2>0. e \in LinkedIn(K, l)
    BY <1>4
  <2> HIDE DEF K, n, l, c, e
  <2>1. CountIn(K, l) \in Nat \ {0}
    BY <1>2, <2>0, NodeFacts
  <2> QED
    BY <1>5, <2>1
<1>7a. b = u \o w
  <2> HIDE DEF c
  <2>1. c + 1 > 1
    BY <1>7
  <2> QED
    BY <2>1 DEF DeleteLink
<1>8. Plain(a \o (u \o w))
  <2> DEFINE S == {Add(q[1], q[2], type, l), Attr(l, "L", c + 1),
                   Del(p[1], p[2]), Attr(l, "L", (c + 1) - 1)}
  <2>1. a \in Seq(S) /\ u \in Seq(S) /\ w \in Seq(S)
    BY DEF CreateLink
  <2>2. Plain(a) /\ Plain(u) /\ Plain(w)
    BY PlainLists
  <2> HIDE DEF a, b, u, w, S
  <2>3. u \o w \in Seq(S) /\ Plain(u \o w)
    BY <2>1, <2>2, PlainConcat, ConcatProperties
  <2> QED
    BY <2>1, <2>2, <2>3, PlainConcat
<1> HIDE DEF K, n, l, c, type
<1>9. PICK M :
        /\ Typed(M, n) /\ Tree(M) /\ Elsewhere(K, M, l)
        /\ LinkedIn(M, l) # {}
        /\ \A f \in LinkedIn(M, l) : M[f].type = type
        /\ <<l, "S">> \in DOMAIN M <=> <<l, "S">> \in DOMAIN K
        /\ <<l, "S">> \in DOMAIN K => M[<<l, "S">>] = K[<<l, "S">>]
        /\ Leads(K, a \o (u \o w), M)
  <2>1. Moved(K, n, l, p[1], p[2], type, q[1], q[2], c)
    BY <1>2, <1>3, <1>4, <1>5, <1>6, MoveLink
  <2> QED
    BY <2>1 DEF Moved
<1>10. Leads(K, todo', M) /\ Plain(todo') /\ SizeIn(M, l) = SizeIn(K, l)
  BY <1>1, <1>7a, <1>8, <1>9 DEF SizeIn
<1> HIDE DEF a, b, u, w
<1> QED
  BY <1>1, <1>4, <1>9, <1>10, RelinkedFits DEF K, n

(* Unlink, when the file has another name.                                 *)
LEMMA UnlinkOneFits ==
  ASSUME CallInv, TypeInv', NEW p \in Paths, Unlink(p[1], p[2]),
         Count(Get(p[1], p[2])) > 1
  PROVE  CallInv'
<1> DEFINE K == disk.keys
           n == disk.next
           l == Get(p[1], p[2])
           c == Count(l)
           u == <<Del(p[1], p[2])>>
           w == <<Attr(l, "L", c - 1)>>
<1>1. /\ Ready /\ Has(p[1], p[2]) /\ TypeOf(p[1], p[2]) = "K_FILE"
      /\ Begin(u \o w) /\ UNCHANGED <<disk, handles>>
      /\ todo' = u \o w
  BY DEF Unlink, Begin, IsFile, DeleteLink
<1> SUFFICES ASSUME crashes = 0 PROVE \E M : Begins(M)
  BY <1>1, BeginFits
<1>2. /\ Typed(K, n) /\ Tree(K) /\ n \in 1 .. MaxLabel + 1
  BY <1>1, Begun
<1>3. p[2] \in Names
  BY PathPrefix DEF CallInv, TypeInv
<1>4. <<p[1], p[2]>> \in LinkedIn(K, l) /\ K[<<p[1], p[2]>>].type = "K_FILE"
  BY <1>1, <1>2, <1>3, NamedEntry
<1>5. c = CountIn(K, l) /\ CountIn(K, l) > 1
  BY CountThere
<1>6. Plain(u \o w)
  <2> DEFINE S == {Del(p[1], p[2]), Attr(l, "L", c - 1)}
  <2>1. u \in Seq(S) /\ w \in Seq(S)
    OBVIOUS
  <2>2. Plain(u) /\ Plain(w)
    BY PlainLists
  <2> HIDE DEF u, w, S
  <2> QED
    BY <2>1, <2>2, PlainConcat
<1> HIDE DEF K, n, l, c
<1>7. PICK M :
        /\ Typed(M, n) /\ Tree(M) /\ Elsewhere(K, M, l)
        /\ LinkedIn(M, l) # {}
        /\ \A f \in LinkedIn(M, l) : M[f].type = "K_FILE"
        /\ <<l, "S">> \in DOMAIN K /\ <<l, "S">> \in DOMAIN M
        /\ M[<<l, "S">>] = K[<<l, "S">>]
        /\ Leads(K, u \o <<Attr(l, "L", CountIn(K, l) - 1)>>, M)
  BY <1>2, <1>4, <1>5, DropLink
<1>8. Leads(K, todo', M) /\ Plain(todo') /\ SizeIn(M, l) = SizeIn(K, l)
  BY <1>1, <1>5, <1>6, <1>7 DEF SizeIn
<1> HIDE DEF u, w
<1> QED
  BY <1>1, <1>4, <1>7, <1>8, RelinkedFits DEF K, n

(* The last name goes, and all that is kept of the file or directory.      *)
LEMMA DeletedFits ==
  ASSUME CallInv, Ready, crashes = 0, UNCHANGED <<disk, handles>>,
         NEW l, NEW d, NEW m, LinkedIn(disk.keys, l) = {<<d, m>>},
         <<l, "D">> \in DOMAIN disk.keys =>
           \A e \in EntriesOf(disk.keys) : e[1] # disk.keys[<<l, "D">>].data,
         \A h \in Handles : handles[h].label # l \/ l = 0,
         NEW size, size = SizeIn(disk.keys, l), size \in Nat,
         todo' = <<Del(d, m)>> \o (ReduceFile(l, size, 0) \o AllDeleted(l))
  PROVE  \E M : Begins(M)
<1> DEFINE K == disk.keys
           n == disk.next
           S == {Del(d, m), Cut(l, size, 0)} \cup {Del(l, a) : a \in Attributes}
           u == <<Del(d, m)>>
           cut == ReduceFile(l, size, 0)
           w == AllDeleted(l)
<1>1. /\ Typed(K, n) /\ Tree(K) /\ Held(K, handles) /\ n \in 1 .. MaxLabel + 1
      /\ Exact => Sized(K, handles, <<>>, disk.extents)
  BY Begun
<1>2. /\ u \in Seq(S) /\ w \in Seq(S) /\ <<Cut(l, size, 0)>> \in Seq(S)
      /\ Del(d, m) \in S /\ \A a \in Attributes : Del(l, a) \in S
      /\ Cut(l, size, 0) \in S
  <2>1. \A a \in Attributes : Del(l, a) \in S
    OBVIOUS
  <2>2. w \in Seq(S)
    <3> HIDE DEF S
    <3> QED
      BY <2>1, AttrNames DEF AllDeleted
  <2> QED
    BY <2>1, <2>2
<1>3. cut = IF 0 < size THEN <<Cut(l, size, 0)>> ELSE <<>>
  BY DEF ReduceFile
<1>4. <<>> \in Seq(S)
  BY EmptySeq
<1> HIDE DEF S
<1>5. cut \in Seq(S)
  BY <1>2, <1>3, <1>4
<1>6. \A L : Safe(L) => Leads(L, cut, L)
  <2> SUFFICES ASSUME NEW L, Safe(L) PROVE Leads(L, cut, L)
    OBVIOUS
  <2>1. Leads(L, <<>>, L)
    BY LeadsEmpty
  <2>2. Apply(L, Cut(l, size, 0)) = L
    BY ApplyFacts
  <2>3. Leads(L, <<Cut(l, size, 0)>>, L)
    BY <2>2, LeadsOne
  <2> QED
    BY <1>3, <2>1, <2>3
<1>7. /\ LinkedIn(K, l) = {<<d, m>>}
      /\ <<l, "D">> \in DOMAIN K =>
           \A e \in EntriesOf(K) : e[1] # K[<<l, "D">>].data
      /\ size = SizeIn(K, l) /\ disk' = disk /\ handles' = handles
      /\ todo' = u \o (cut \o w)
  OBVIOUS
<1> HIDE DEF K, n, cut, w
<1>8. PICK M :
        /\ Typed(M, n) /\ Tree(M) /\ Elsewhere(K, M, l)
        /\ LinkedIn(M, l) = {}
        /\ \A a \in Attributes : <<l, a>> \notin DOMAIN M
        /\ Leads(K, u \o (cut \o w), M)
  BY <1>1, <1>2, <1>5, <1>6, <1>7, DropNode DEF w
<1>9. Held(M, handles)
  BY <1>1, <1>8, HeldAt, SMTT(30)
<1>10. ASSUME Exact PROVE Sized(M, handles, todo', disk.extents)
  <2>1. HandlesApart(handles) /\ SizesSaved(K, handles)
        /\ Sized(K, handles, <<>>, disk.extents)
    BY <1>1, <1>10 DEF Sized
  <2>2. SizeIn(M, l) = 0
    BY <1>8, AttrNames DEF SizeIn
  <2>3. \A j : j # l => SizeIn(M, j) = SizeIn(K, j)
    BY <1>8, SizeElsewhere
  <2>4. \A g \in Handles : handles[g].label = l =>
           l = 0 \/ SizeIn(M, l) = SizeIn(K, l)
    OBVIOUS
  <2>5. /\ SizesSaved(M, handles)
        /\ \A j : j # l \/ SizeIn(M, l) = SizeIn(K, l) =>
             FinalSize(M, handles, j) = FinalSize(K, handles, j)
    <3>1. /\ Elsewhere(K, M, l) /\ HandlesApart(handles)
          /\ SizesSaved(K, handles)
      BY <1>8, <2>1
    <3> DEFINE hs == handles
    <3>2. /\ Elsewhere(K, M, l) /\ HandlesApart(hs) /\ SizesSaved(K, hs)
          /\ \A g \in Handles : hs[g].label = l =>
               l = 0 \/ SizeIn(M, l) = SizeIn(K, l)
      BY <2>4, <3>1
    <3> HIDE DEF K, hs
    <3>3. /\ SizesSaved(M, hs)
          /\ \A j : j # l \/ SizeIn(M, l) = SizeIn(K, l) =>
               FinalSize(M, hs, j) = FinalSize(K, hs, j)
      BY ONLY <3>2, HandlesKept
    <3> QED
      BY <3>3 DEF hs
  <2>6. FinalSize(K, handles, l) = size /\ FinalSize(M, handles, l) = 0
    BY <1>7, <2>2, FinalClosed
  <2>7. Plain(u) /\ Plain(w)
    BY PlainLists DEF w
  <2> HIDE DEF u
  <2>8. CASE 0 < size
    <3>1. CutIn(u \o (<<Cut(l, size, 0)>> \o w), l, size, 0)
      BY <1>2, <2>7, CutPlace
    <3>2. CutIn(todo', l, size, 0)
      BY <1>3, <1>7, <2>8, <3>1
    <3> QED
      BY <2>1, <2>5, <2>6, <2>8, <3>2, SizedCut
  <2>9. CASE ~ (0 < size)
    <3>1. size = 0
      BY <2>9
    <3>2. cut \o w = w
      BY <1>2, <1>3, <2>9, ConcatEmptySeq
    <3>3. Plain(todo')
      BY <1>2, <1>7, <2>7, <3>2, PlainConcat
    <3> QED
      BY <1>7, <2>1, <2>2, <2>5, <3>1, <3>3, SizedPlain
  <2> QED
    BY <2>8, <2>9
<1> QED
  BY <1>7, <1>8, <1>9, <1>10 DEF Begins, K, n

LEMMA UnlinkFits ==
  ASSUME CallInv, TypeInv', NEW p \in Paths, Unlink(p[1], p[2])
  PROVE  CallInv'
<1> DEFINE K == disk.keys
           n == disk.next
           d == p[1]
           m == p[2]
           l == Get(d, m)
           size == SizeIn(K, l)
<1>0. CASE Count(l) > 1
  BY <1>0, UnlinkOneFits
<1> SUFFICES ASSUME ~ (Count(l) > 1) PROVE CallInv'
  BY <1>0
<1>1. /\ Ready /\ Has(d, m) /\ TypeOf(d, m) = "K_FILE"
      /\ Users(l) = {}
      /\ Begin(<<Del(d, m)>> \o DeleteFile(l)) /\ UNCHANGED <<disk, handles>>
      /\ todo' = <<Del(d, m)>> \o DeleteFile(l)
  BY DEF Unlink, Begin, IsFile, DeleteLink
<1> SUFFICES ASSUME crashes = 0 PROVE \E M : Begins(M)
  BY <1>1, BeginFits
<1>2. /\ Typed(K, n) /\ Tree(K) /\ n \in 1 .. MaxLabel + 1 /\ Held(K, handles)
  BY <1>1, Begun
<1>3. m \in Names
  BY PathPrefix DEF CallInv, TypeInv
<1>4. <<d, m>> \in LinkedIn(K, l) /\ K[<<d, m>>].type = "K_FILE"
  BY <1>1, <1>2, <1>3, NamedEntry
<1>5. Count(l) = CountIn(K, l)
  BY CountThere
<1>6. ~ (CountIn(K, l) > 1)
  BY <1>5
<1>7. <<l, "S">> \in DOMAIN K => Has(l, "S") /\ K[<<l, "S">>].data = Get(l, "S")
  BY DEF Has, Get
<1>8. Has(l, "S") => Get(l, "S") \in Nat
  BY KeyFacts DEF CallInv, TypeInv
<1>9. \A h \in Handles : handles[h].label # l \/ l = 0
  BY <1>1, <1>2, NoUsers
<1>10. DeleteFile(l) = (IF Has(l, "S") THEN ReduceFile(l, Get(l, "S"), 0)
                        ELSE <<>>) \o AllDeleted(l)
  BY DEF DeleteFile, AllDeleted
<1> DEFINE e == <<d, m>>
<1> HIDE DEF K, n, l, e
<1>11. e \in LinkedIn(K, l) /\ K[e].type = "K_FILE"
  BY <1>4 DEF e
<1>12. LinkedIn(K, l) = {e}
  <2>1. /\ CountIn(K, l) = Cardinality(LinkedIn(K, l))
        /\ CountIn(K, l) \in Nat \ {0}
    BY <1>2, <1>11, NodeFacts
  <2>2. Cardinality(LinkedIn(K, l)) = 1
    BY <1>6, <2>1
  <2>3. IsFiniteSet(LinkedIn(K, l))
    BY <1>2, LinkedFinite
  <2>4. \A f \in LinkedIn(K, l) : f = e
    <3> SUFFICES ASSUME NEW f \in LinkedIn(K, l), f # e PROVE FALSE
      OBVIOUS
    <3> DEFINE U == LinkedIn(K, l) \ {e}
    <3>1. IsFiniteSet(U) /\ Cardinality(U) = 1 - 1
      BY <1>11, <2>2, <2>3, FS_RemoveElement
    <3>2. Cardinality(U) = 0
      BY <3>1
    <3>3. U = {}
      BY <3>1, <3>2, FS_EmptySet
    <3> QED
      BY <3>3
  <2> QED
    BY <1>11, <2>4
<1>13. <<l, "S">> \in DOMAIN K /\ <<l, "D">> \notin DOMAIN K
  BY <1>2, <1>11, NodeFacts
<1>14. size = Get(l, "S") /\ size \in Nat /\ Has(l, "S")
  BY <1>7, <1>8, <1>13 DEF SizeIn
<1>15. todo' = <<Del(d, m)>> \o (ReduceFile(l, size, 0) \o AllDeleted(l))
  BY <1>1, <1>10, <1>14
<1> HIDE DEF size
<1> QED
  <2>1. size = SizeIn(K, l)
    BY DEF size
  <2> QED
    BY <1>1, <1>9, <1>12, <1>13, <1>14, <1>15, <2>1, DeletedFits DEF K, e

LEMMA RmdirFits ==
  ASSUME CallInv, TypeInv', NEW m \in Names, Rmdir(m)
  PROVE  CallInv'
<1> DEFINE K == disk.keys
           n == disk.next
           l == Get(0, m)
           size == SizeIn(K, l)
<1>1. /\ Ready /\ Has(0, m) /\ TypeOf(0, m) = "K_DIRECTORY"
      /\ Has(l, "D") => \A g \in Names : ~ Has(Get(l, "D"), g)
      /\ Begin(DeleteLink(0, m, Count(l))) /\ UNCHANGED <<disk, handles>>
      /\ todo' = DeleteLink(0, m, Count(l))
  BY DEF Rmdir, Begin, IsDir
<1> SUFFICES ASSUME crashes = 0 PROVE \E M : Begins(M)
  BY <1>1, BeginFits
<1>2. /\ Typed(K, n) /\ Tree(K) /\ n \in 1 .. MaxLabel + 1 /\ Held(K, handles)
  BY <1>1, Begun
<1>4. <<0, m>> \in LinkedIn(K, l) /\ K[<<0, m>>].type = "K_DIRECTORY"
  BY <1>1, <1>2, NamedEntry
<1>5. Count(l) = CountIn(K, l)
  BY CountThere
<1>6. <<l, "S">> \in DOMAIN K <=> Has(l, "S")
  BY DEF Has
<1>7. ASSUME <<l, "D">> \in DOMAIN K, NEW f \in EntriesOf(K)
      PROVE  f[1] # K[<<l, "D">>].data
  <2>1. f \in DOMAIN K /\ f = <<f[1], f[2]>> /\ f[2] \in Names
    BY <1>2, TypedFacts DEF EntriesOf
  <2>2. Has(f[1], f[2])
    BY <2>1 DEF Has
  <2>3. Has(l, "D") /\ Get(l, "D") = K[<<l, "D">>].data
    BY <1>7 DEF Has, Get
  <2> QED
    BY <1>1, <2>1, <2>2, <2>3
<1>10. DeleteFile(l) = (IF Has(l, "S") THEN ReduceFile(l, Get(l, "S"), 0)
                        ELSE <<>>) \o AllDeleted(l)
  BY DEF DeleteFile, AllDeleted
<1> DEFINE e == <<0, m>>
           c == Count(l)
<1>8. c <= 1 => DeleteLink(0, m, c) = <<Del(0, m)>> \o DeleteFile(l)
  <2> SUFFICES ASSUME c <= 1
               PROVE  DeleteLink(0, m, c) = <<Del(0, m)>> \o DeleteFile(l)
    OBVIOUS
  <2>1. c \in Nat
    BY CountType DEF CallInv, TypeInv
  <2> HIDE DEF c
  <2>2. ~ (c > 1)
    BY <2>1
  <2> QED
    BY <2>2 DEF DeleteLink
<1> HIDE DEF K, n, l, e
<1>11. e \in LinkedIn(K, l) /\ K[e].type = "K_DIRECTORY"
  BY <1>4 DEF e
<1>12. LinkedIn(K, l) = {e} /\ <<l, "S">> \notin DOMAIN K
       /\ CountIn(K, l) = Cardinality(LinkedIn(K, l))
  <2>1. /\ <<l, "D">> \in DOMAIN K /\ <<l, "S">> \notin DOMAIN K
        /\ e[1] = 0 /\ LinkedIn(K, l) = {e}
    BY <1>2, <1>11, NodeFacts
  <2>3. CountIn(K, l) = Cardinality(LinkedIn(K, l))
    BY <1>2, <1>11, NodeFacts
  <2> QED
    BY <2>1, <2>3
<1>13. Cardinality({e}) = 1
  BY FS_Singleton
<1>14. c <= 1
  BY <1>5, <1>12, <1>13
<1>15. size = 0 /\ ~ Has(l, "S")
  BY <1>6, <1>12 DEF SizeIn
<1>16. ReduceFile(l, 0, 0) = <<>>
  BY DEF ReduceFile
<1>17. todo' = <<Del(0, m)>> \o (ReduceFile(l, size, 0) \o AllDeleted(l))
  BY <1>1, <1>8, <1>10, <1>14, <1>15, <1>16
<1>18. \A h \in Handles : handles[h].label # l \/ l = 0
  <2> SUFFICES ASSUME NEW h \in Handles, handles[h].label = l, l # 0
               PROVE  FALSE
    OBVIOUS
  <2>1. \E f \in LinkedIn(K, l) : K[f].type = "K_FILE"
    BY <1>2 DEF Held
  <2> QED
    BY <1>11, <1>12, <2>1
<1> HIDE DEF size
<1> QED
  <2>1. size = SizeIn(K, l) /\ size \in Nat
    BY <1>15 DEF size
  <2> QED
    BY <1>1, <1>7, <1>12, <1>17, <1>18, <2>1, DeletedFits DEF K, e

(* The attributes of a file are set, one after another.                    *)
Kept(K, n, l, x, t) ==
  \E M :
    /\ Typed(M, n) /\ Tree(M) /\ Elsewhere(K, M, l)
    /\ LinkedIn(M, l) = LinkedIn(K, l)
    /\ \A f \in LinkedIn(K, l) : M[f] = K[f]
    /\ SizeIn(M, l) = x
    /\ Leads(K, t, M)

LEMMA KeptFirst ==
  ASSUME NEW K, NEW n \in 1 .. MaxLabel + 1, Typed(K, n), Tree(K),
         NEW l, NEW e \in LinkedIn(K, l), NEW x \in Nat
  PROVE  Kept(K, n, l, SizeIn(K, l), <<Attr(l, "A", x)>>)
<1>1. SetTo(K, n, l, "A", x)
  BY SetAttr
<1>2. PICK M :
        /\ Typed(M, n) /\ Tree(M) /\ Elsewhere(K, M, l)
        /\ \A j : LinkedIn(M, j) = LinkedIn(K, j)
        /\ \A f \in EntriesOf(K) : M[f] = K[f]
        /\ \A c \in Attributes :
             c # "A" => /\ <<l, c>> \in DOMAIN M <=> <<l, c>> \in DOMAIN K
                        /\ <<l, c>> \in DOMAIN K => M[<<l, c>>] = K[<<l, c>>]
        /\ Leads(K, <<Attr(l, "A", x)>>, M)
  BY <1>1 DEF SetTo
<1>3. SizeIn(M, l) = SizeIn(K, l)
  <2>1. "S" \in Attributes /\ "S" # "A"
    BY AttrNames
  <2> QED
    BY <1>2, <2>1 DEF SizeIn
<1>4. \A f \in LinkedIn(K, l) : M[f] = K[f]
  BY <1>2 DEF LinkedIn
<1> QED
  BY <1>2, <1>3, <1>4 DEF Kept

LEMMA ElsewhereTwice ==
  ASSUME NEW K, NEW L, NEW M, NEW l, Elsewhere(K, L, l), Elsewhere(L, M, l)
  PROVE  Elsewhere(K, M, l)
<1>1. ASSUME NEW j \in DOMAIN K, About(K, j) # l
      PROVE  j \in DOMAIN M /\ M[j] = K[j]
  <2>1. j \in DOMAIN L /\ L[j] = K[j]
    BY <1>1 DEF Elsewhere
  <2>2. About(L, j) # l
    BY <1>1, <2>1 DEF About
  <2> QED
    BY <2>1, <2>2 DEF Elsewhere
<1>2. ASSUME NEW j \in DOMAIN M, About(M, j) # l
      PROVE  j \in DOMAIN K /\ M[j] = K[j]
  <2>1. j \in DOMAIN L /\ M[j] = L[j]
    BY <1>2 DEF Elsewhere
  <2>2. About(L, j) # l
    BY <1>2, <2>1 DEF About
  <2> QED
    BY <2>1, <2>2 DEF Elsewhere
<1> QED
  BY <1>1, <1>2 DEF Elsewhere

LEMMA KeptNext ==
  ASSUME NEW K, NEW n \in 1 .. MaxLabel + 1,
         NEW l, NEW e \in LinkedIn(K, l), K[e].type = "K_FILE",
         NEW x, NEW S, NEW t \in Seq(S), Kept(K, n, l, x, t),
         NEW a \in {"A", "C", "M", "S"}, NEW y \in Nat,
         a = "S" => y <= MaxNum + 1, Attr(l, a, y) \in S
  PROVE  Kept(K, n, l, IF a = "S" THEN y ELSE x, t \o <<Attr(l, a, y)>>)
<1>1. PICK L :
        /\ Typed(L, n) /\ Tree(L) /\ Elsewhere(K, L, l)
        /\ LinkedIn(L, l) = LinkedIn(K, l)
        /\ \A f \in LinkedIn(K, l) : L[f] = K[f]
        /\ SizeIn(L, l) = x
        /\ Leads(K, t, L)
  BY DEF Kept
<1>2. e \in LinkedIn(L, l) /\ L[e].type = "K_FILE"
  BY <1>1
<1>3. SetTo(L, n, l, a, y)
  BY <1>1, <1>2, SetAttr
<1>4. PICK M :
        /\ Typed(M, n) /\ Tree(M) /\ Elsewhere(L, M, l)
        /\ \A j : LinkedIn(M, j) = LinkedIn(L, j)
        /\ \A f \in EntriesOf(L) : M[f] = L[f]
        /\ <<l, a>> \in DOMAIN M /\ M[<<l, a>>] = AttrKey(y)
        /\ \A c \in Attributes :
             c # a => /\ <<l, c>> \in DOMAIN M <=> <<l, c>> \in DOMAIN L
                      /\ <<l, c>> \in DOMAIN L => M[<<l, c>>] = L[<<l, c>>]
        /\ Leads(L, <<Attr(l, a, y)>>, M)
  BY <1>3 DEF SetTo
<1>5. SizeIn(M, l) = IF a = "S" THEN y ELSE x
  <2>1. CASE a = "S"
    BY <1>4, <2>1 DEF SizeIn, AttrKey
  <2>2. CASE a # "S"
    <3>1. "S" \in Attributes
      BY AttrNames
    <3>2. SizeIn(M, l) = SizeIn(L, l)
      BY <1>4, <2>2, <3>1 DEF SizeIn
    <3> QED
      BY <1>1, <2>2, <3>2
  <2> QED
    BY <2>1, <2>2
<1>6. \A f \in LinkedIn(K, l) : M[f] = K[f]
  <2>1. \A f \in LinkedIn(K, l) : f \in EntriesOf(L)
    BY <1>1 DEF LinkedIn
  <2> QED
    BY <1>1, <1>4, <2>1
<1>7. Elsewhere(K, M, l)
  BY <1>1, <1>4, ElsewhereTwice
<1>8. Leads(K, t \o <<Attr(l, a, y)>>, M)
  <2>1. <<Attr(l, a, y)>> \in Seq(S)
    OBVIOUS
  <2> QED
    BY <1>1, <1>4, <2>1, LeadsConcat
<1>9. LinkedIn(M, l) = LinkedIn(K, l)
  BY <1>1, <1>4
<1> QED
  BY <1>4, <1>5, <1>6, <1>7, <1>8, <1>9 DEF Kept

LEMMA TwoChanges == ASSUME NEW a, NEW b PROVE <<a>> \o <<b>> = <<a, b>>
<1> DEFINE t == <<a>> \o <<b>>
           u == <<a, b>>
           S == {a, b}
<1>1. t \in Seq(S) /\ Len(t) = 2 /\ t[1] = a /\ t[2] = b
  OBVIOUS
<1>2. u \in Seq(S) /\ Len(u) = 2 /\ u[1] = a /\ u[2] = b
  OBVIOUS
<1> HIDE DEF t, u, S
<1>3. \A i \in 1 .. 2 : t[i] = u[i]
  <2>1. \A i \in 1 .. 2 : i = 1 \/ i = 2
    OBVIOUS
  <2> QED
    BY <1>1, <1>2, <2>1
<1>4. t = u
  BY <1>1, <1>2, <1>3, SeqEqual
<1> QED
  BY <1>4 DEF t, u

LEMMA KeptTwo ==
  ASSUME NEW K, NEW n \in 1 .. MaxLabel + 1, Typed(K, n), Tree(K),
         NEW l, NEW e \in LinkedIn(K, l), K[e].type = "K_FILE"
  PROVE  Kept(K, n, l, SizeIn(K, l), <<Attr(l, "A", 0), Attr(l, "M", 0)>>)
<1> DEFINE S == {Attr(l, "A", 0), Attr(l, "M", 0)}
           t == <<Attr(l, "A", 0)>>
<1>1. t \in Seq(S) /\ Attr(l, "M", 0) \in S
  OBVIOUS
<1>2. t \o <<Attr(l, "M", 0)>> = <<Attr(l, "A", 0), Attr(l, "M", 0)>>
  BY TwoChanges
<1>3. Kept(K, n, l, SizeIn(K, l), t)
  BY KeptFirst
<1> HIDE DEF S, t
<1>4. Kept(K, n, l, IF "M" = "S" THEN 0 ELSE SizeIn(K, l),
           t \o <<Attr(l, "M", 0)>>)
  BY <1>1, <1>3, KeptNext
<1> QED
  BY <1>2, <1>4

LEMMA KeptFlush ==
  ASSUME NEW K, NEW n \in 1 .. MaxLabel + 1, Typed(K, n), Tree(K),
         NEW l, NEW e \in LinkedIn(K, l), K[e].type = "K_FILE",
         NEW fh, fh.label = l, fh.size \in 0 .. MaxNum + 1
  PROVE  Kept(K, n, l, IF fh.modified THEN fh.size ELSE SizeIn(K, l),
              FlushHandle(fh))
<1> DEFINE a == Attr(l, "A", 0)
           b == Attr(l, "S", fh.size)
           c == Attr(l, "M", 0)
           S == {a, b, c}
           t == <<a>>
           u == t \o <<b>>
<1>1. t \in Seq(S) /\ u \in Seq(S) /\ b \in S /\ c \in S
  OBVIOUS
<1>2. Kept(K, n, l, SizeIn(K, l), t)
  BY KeptFirst
<1>3. fh.size \in Nat /\ fh.size <= MaxNum + 1
  BY ConstantTypes
<1>4. FlushHandle(fh) = IF fh.modified THEN u \o <<c>> ELSE t
  <2>1. <<a>> \o <<>> = <<a>>
    OBVIOUS
  <2>2. (<<a>> \o <<b>>) \o <<c>> = <<a>> \o <<b, c>>
    OBVIOUS
  <2> QED
    BY <2>1, <2>2 DEF FlushHandle
<1> HIDE DEF S, t, a, c
<1>5. Kept(K, n, l, IF "S" = "S" THEN fh.size ELSE SizeIn(K, l), t \o <<b>>)
  BY <1>1, <1>2, <1>3, KeptNext
<1>6. Kept(K, n, l, fh.size, u)
  BY <1>5
<1> HIDE DEF u, b
<1>7. Kept(K, n, l, IF "M" = "S" THEN 0 ELSE fh.size, u \o <<Attr(l, "M", 0)>>)
  BY <1>1, <1>6, KeptNext DEF c
<1> QED
  BY <1>2, <1>4, <1>7 DEF c

LEMMA UtimensFits ==
  ASSUME CallInv, TypeInv', NEW p \in Paths, Utimens(p[1], p[2])
  PROVE  CallInv'
<1> DEFINE K == disk.keys
           n == disk.next
           l == Get(p[1], p[2])
           t == <<Attr(l, "A", 0), Attr(l, "M", 0)>>
           e == <<p[1], p[2]>>
<1>1. /\ Ready /\ Has(p[1], p[2]) /\ TypeOf(p[1], p[2]) = "K_FILE"
      /\ Begin(t) /\ UNCHANGED <<disk, handles>>
      /\ todo' = t
  BY DEF Utimens, Begin, IsFile
<1> SUFFICES ASSUME crashes = 0 PROVE \E M : Begins(M)
  BY <1>1, BeginFits
<1>2. /\ Typed(K, n) /\ Tree(K) /\ n \in 1 .. MaxLabel + 1
  BY <1>1, Begun
<1>3. p[2] \in Names
  BY PathPrefix DEF CallInv, TypeInv
<1>4. e \in LinkedIn(K, l) /\ K[e].type = "K_FILE"
  BY <1>1, <1>2, <1>3, NamedEntry
<1>5. Plain(t)
  BY PlainLists
<1> HIDE DEF K, n, l, e, t
<1>6. Kept(K, n, l, SizeIn(K, l), t)
  BY <1>2, <1>4, KeptTwo DEF t
<1>7. PICK M :
        /\ Typed(M, n) /\ Tree(M) /\ Elsewhere(K, M, l)
        /\ LinkedIn(M, l) = LinkedIn(K, l)
        /\ \A f \in LinkedIn(K, l) : M[f] = K[f]
        /\ SizeIn(M, l) = SizeIn(K, l)
        /\ Leads(K, t, M)
  BY <1>6 DEF Kept
<1>8. \A f \in LinkedIn(K, l) : K[f].type = "K_FILE"
  BY <1>2, <1>4, NodeFacts
<1>9. /\ LinkedIn(M, l) # {}
      /\ \A f \in LinkedIn(M, l) : M[f].type = K[e].type
  BY <1>4, <1>7, <1>8
<1>10. Leads(K, todo', M) /\ Plain(todo')
  BY <1>1, <1>5, <1>7
<1> QED
  BY <1>1, <1>4, <1>7, <1>9, <1>10, RelinkedFits DEF K, n

LEMMA PlainFlush == ASSUME NEW fh PROVE Plain(FlushHandle(fh))
<1> DEFINE a == Attr(fh.label, "A", 0)
           b == Attr(fh.label, "S", fh.size)
           c == Attr(fh.label, "M", 0)
           S == {a, b, c}
           u == <<a>>
           w == <<b, c>>
<1>1. u \in Seq(S) /\ w \in Seq(S) /\ <<>> \in Seq(S)
  OBVIOUS
<1>2. Plain(u) /\ Plain(w) /\ Plain(<<>>)
  BY PlainLists
<1>3. FlushHandle(fh) = u \o (IF fh.modified THEN w ELSE <<>>)
  BY DEF FlushHandle
<1> HIDE DEF u, w, S
<1>4. Plain(u \o w) /\ Plain(u \o <<>>)
  BY <1>1, <1>2, PlainConcat
<1> QED
  BY <1>3, <1>4

LEMMA FlushChanges ==
  ASSUME NEW fh, NEW S, Attr(fh.label, "A", 0) \in S,
         Attr(fh.label, "S", fh.size) \in S, Attr(fh.label, "M", 0) \in S
  PROVE  FlushHandle(fh) \in Seq(S)
<1> DEFINE u == <<Attr(fh.label, "A", 0)>>
           w == <<Attr(fh.label, "S", fh.size), Attr(fh.label, "M", 0)>>
<1>1. u \in Seq(S) /\ w \in Seq(S) /\ <<>> \in Seq(S)
  OBVIOUS
<1>2. FlushHandle(fh) = u \o (IF fh.modified THEN w ELSE <<>>)
  BY DEF FlushHandle
<1> HIDE DEF u, w
<1> QED
  BY <1>1, <1>2, ConcatProperties

LEMMA ReleaseFits ==
  ASSUME CallInv, TypeInv', NEW h \in Handles, Release(h)
  PROVE  CallInv'
<1> DEFINE K == disk.keys
           n == disk.next
           fh == handles[h]
           l == fh.label
           x == IF fh.modified THEN fh.size ELSE SizeIn(K, l)
           t == FlushHandle(fh)
<1>1. /\ Ready /\ h \in Open /\ handles' = [handles EXCEPT ![h] = Closed]
      /\ Begin(t) /\ UNCHANGED disk /\ todo' = t
  BY DEF Release, Begin
<1> SUFFICES ASSUME crashes = 0 PROVE \E M : Begins(M)
  BY <1>1, BeginFits
<1>2. /\ Typed(K, n) /\ Tree(K) /\ n \in 1 .. MaxLabel + 1 /\ Held(K, handles)
      /\ Exact => Sized(K, handles, <<>>, disk.extents)
  BY <1>1, Begun
<1>3. /\ l # 0 /\ \E f \in LinkedIn(K, l) : K[f].type = "K_FILE"
  BY <1>1, <1>2, OpenHandles
<1>4. fh.size \in 0 .. MaxNum + 1
  BY HandleFacts DEF CallInv
<1>5. /\ handles'[h] = Closed /\ handles'[h].label = 0
      /\ \A g \in Handles : g # h => handles'[g] = handles[g]
  BY <1>1 DEF Closed, CallInv, TypeInv, HandlesOK
<1>6. Plain(t)
  BY PlainFlush
<1>7. PICK e \in LinkedIn(K, l) : K[e].type = "K_FILE"
  BY <1>3
<1>8. Kept(K, n, l, x, t)
  <2>1. fh.label = l
    OBVIOUS
  <2> HIDE DEF K, n, l, fh
  <2> QED
    BY <1>2, <1>4, <1>7, <2>1, KeptFlush
<1>9. disk' = disk
  BY <1>1
<1> HIDE DEF K, n, x, t, l
<1>10. PICK M :
        /\ Typed(M, n) /\ Tree(M) /\ Elsewhere(K, M, l)
        /\ LinkedIn(M, l) = LinkedIn(K, l)
        /\ \A f \in LinkedIn(K, l) : M[f] = K[f]
        /\ SizeIn(M, l) = x
        /\ Leads(K, t, M)
  BY <1>8 DEF Kept
<1>11. Held(M, handles')
  <2>1. \E f \in LinkedIn(M, l) : M[f].type = "K_FILE"
    BY <1>7, <1>10
  <2>2. Held(M, handles)
    BY <1>2, <1>10, <2>1, HeldAt
  <2> SUFFICES ASSUME NEW g \in Handles
               PROVE  IF handles'[g].label = 0 THEN handles'[g] = Closed
                      ELSE \E f \in LinkedIn(M, handles'[g].label) :
                             M[f].type = "K_FILE"
    BY DEF Held
  <2>3. CASE g = h
    BY <1>5, <2>3
  <2>4. CASE g # h
    BY <1>5, <2>2, <2>4 DEF Held
  <2> QED
    BY <2>3, <2>4
<1>12. ASSUME Exact PROVE Sized(M, handles', t, disk.extents)
  <2>1. HandlesApart(handles) /\ SizesSaved(K, handles)
        /\ Sized(K, handles, <<>>, disk.extents)
    BY <1>2, <1>12 DEF Sized
  <2>2. x = fh.size
    BY <1>3, <2>1 DEF SizesSaved, x, l
  <2>3. \A j : j # l => SizeIn(M, j) = SizeIn(K, j)
    BY <1>10, SizeElsewhere
  <2>4. /\ HandlesApart(handles') /\ SizesSaved(M, handles')
        /\ \A j : FinalSize(M, handles', j) = FinalSize(K, handles, j)
    <3>1. SizeIn(M, l) = fh.size
      BY <1>10, <2>2
    <3> QED
      BY <1>3, <1>5, <2>1, <2>3, <3>1, HandleReleased DEF l
  <2> QED
    BY <1>6, <2>1, <2>4, SizedPlain
<1> QED
  BY <1>1, <1>9, <1>10, <1>11, <1>12 DEF Begins, K, n

LEMMA OpenFileFits ==
  ASSUME CallInv, TypeInv', NEW p \in Paths, OpenFile(p[1], p[2])
  PROVE  CallInv'
<1> DEFINE K == disk.keys
           n == disk.next
           l == Get(p[1], p[2])
           e == <<p[1], p[2]>>
<1>1. /\ Ready /\ Has(p[1], p[2]) /\ TypeOf(p[1], p[2]) = "K_FILE"
      /\ UNCHANGED <<disk, todo, fault, crashes>>
      /\ Shared \/ Users(l) = {}
  BY DEF OpenFile, IsFile, MayOpen
<1>2. PICK size \in Sizes(l), h \in Free :
        handles' = [handles EXCEPT ![h] =
                      [label |-> l, size |-> size, modified |-> FALSE]]
  BY DEF OpenFile, NewHandle
<1>3. /\ h \in Handles /\ handles[h].label = 0
      /\ handles'[h].label = l /\ handles'[h].size = size
      /\ \A g \in Handles : g # h => handles'[g] = handles[g]
  BY <1>2 DEF Free, Closed, CallInv, TypeInv, HandlesOK
<1>4. disk'.keys = disk.keys /\ disk'.extents = disk.extents /\ todo' = <<>>
      /\ disk' = disk
  BY <1>1 DEF Ready
<1> SUFFICES ASSUME crashes = 0 PROVE \E M : Begins(M)
  BY <1>1, <1>4, CallFits
<1>5. /\ Typed(K, n) /\ Tree(K) /\ n \in 1 .. MaxLabel + 1 /\ Held(K, handles)
      /\ Exact => Sized(K, handles, <<>>, disk.extents)
      /\ Safe(K)
  BY <1>1, Begun
<1>6. p[2] \in Names
  BY PathPrefix DEF CallInv, TypeInv
<1>7. e \in LinkedIn(K, l) /\ K[e].type = "K_FILE"
  BY <1>1, <1>5, <1>6, NamedEntry
<1>8. <<l, "S">> \in DOMAIN K => size = K[<<l, "S">>].data
  BY <1>2 DEF Sizes, Has, Get
<1>9. Exact /\ l # 0 => \A g \in Handles : handles[g].label # l
  BY <1>1, <1>5, NoUsers DEF Exact
<1> HIDE DEF K, n, l, e
<1>10. l \in 1 .. n - 1 /\ <<l, "S">> \in DOMAIN K
  BY <1>5, <1>7, NodeFacts
<1>11. l # 0 /\ size = SizeIn(K, l)
  BY <1>5, <1>8, <1>10 DEF SizeIn
<1>12. Held(K, handles')
  <2> SUFFICES ASSUME NEW g \in Handles
               PROVE  IF handles'[g].label = 0 THEN handles'[g] = Closed
                      ELSE \E f \in LinkedIn(K, handles'[g].label) :
                             K[f].type = "K_FILE"
    BY DEF Held
  <2>3. CASE g = h
    BY <1>3, <1>7, <1>11, <2>3
  <2>4. CASE g # h
    BY <1>3, <1>5, <2>4 DEF Held
  <2> QED
    BY <2>3, <2>4
<1>13. ASSUME Exact PROVE Sized(K, handles', <<>>, disk.extents)
  <2>1. HandlesApart(handles) /\ SizesSaved(K, handles)
        /\ Sized(K, handles, <<>>, disk.extents)
    BY <1>5, <1>13 DEF Sized
  <2>2. \A g \in Handles : handles[g].label # l
    BY <1>9, <1>11, <1>13
  <2>3. handles'[h].size = SizeIn(K, l) /\ \A j : SizeIn(K, j) = SizeIn(K, j)
    BY <1>3, <1>11
  <2>4. /\ HandlesApart(handles') /\ SizesSaved(K, handles')
        /\ \A j : FinalSize(K, handles', j) = FinalSize(K, handles, j)
    BY <1>3, <1>11, <2>1, <2>2, <2>3, HandleOpened
  <2>5. Plain(<<>>)
    BY PlainLists
  <2> QED
    BY <2>1, <2>4, <2>5, SizedPlain
<1>14. Leads(K, <<>>, K)
  BY <1>5, LeadsEmpty
<1> QED
  BY <1>4, <1>5, <1>12, <1>13, <1>14 DEF Begins, K, n

(* A block is mapped: the file has it afterwards.                          *)
LEMMA MapFits ==
  ASSUME NEW N, NEW size \in Nat, Below(N, size), NEW num \in Nat,
         num <= size, NEW l
  PROVE  BlocksFit(N, <<Map(l, num)>>, l, IF num < size THEN size ELSE num + 1)
<1> DEFINE t == <<Map(l, num)>>
           new == IF num < size THEN size ELSE num + 1
<1>1. /\ Len(t) = 1 /\ t[1].op = "map" /\ t[1].label = l /\ t[1].num = num
      /\ \A i \in 1 .. 1 : i = 1
  BY DEF Map
<1>2. \A i \in Nat : i < size \/ i = num <=> i < new
  OBVIOUS
<1>3. \A i : i \in N \/ i = num <=> i \in Nat /\ i < new
  BY <1>2 DEF Below
<1>4. OfBlocks(t[1], l) /\ 1 \in 1 .. 1
  BY <1>1 DEF OfBlocks
<1> HIDE DEF t, new
<1>5. BlocksFit(N, t, l, new)
  BY <1>1, <1>3, <1>4 DEF BlocksFit
<1> QED
  BY <1>5 DEF t, new

LEMMA ReadFits ==
  ASSUME CallInv, TypeInv', NEW h \in Handles, NEW num \in Nums, Read(h, num)
  PROVE  CallInv'
<1> DEFINE K == disk.keys
           l == handles[h].label
           size == handles[h].size
           t == <<Map(l, num)>>
<1>1. /\ Ready /\ h \in Open /\ num < size /\ Begin(t) /\ UNCHANGED disk
      /\ todo' = t /\ disk' = disk /\ handles' = handles
  BY DEF Read, Begin
<1> SUFFICES ASSUME crashes = 0 PROVE \E M : Begins(M)
  BY <1>1, BeginFits
<1>2. /\ Typed(K, disk.next) /\ Tree(K) /\ Held(K, handles) /\ Safe(K)
      /\ Exact => Sized(K, handles, <<>>, disk.extents)
  BY <1>1, Begun
<1>3. l # 0 /\ size \in Nat /\ num \in Nat
  BY <1>1, <1>2, OpenHandles, HandleFacts, ConstantTypes DEF CallInv
<1>4. Leads(K, t, K)
  <2>1. Apply(K, Map(l, num)) = K
    BY ApplyFacts
  <2> QED
    BY <1>2, <2>1, LeadsOne
<1> HIDE DEF K
<1>5. ASSUME Exact PROVE Sized(K, handles, t, disk.extents)
  <2>1. Sized(K, handles, <<>>, disk.extents) /\ HandlesApart(handles)
    BY <1>2, <1>5 DEF Sized
  <2>2. FinalSize(K, handles, l) = size
    BY <1>3, <2>1, FinalOpen
  <2> HIDE DEF l, size
  <2> SUFFICES ASSUME NEW j \in Labels
               PROVE  BlocksFit(NumsIn(disk.extents[j]), t, j, FinalSize(K, handles, j))
    BY <2>1 DEF Sized
  <2>3. Below(NumsIn(disk.extents[j]), FinalSize(K, handles, j))
    BY <2>1, NothingFits DEF Sized
  <2>4. CASE j = l
    <3>1. BlocksFit(NumsIn(disk.extents[j]), t, l, IF num < size THEN size ELSE num + 1)
      BY <1>1, <1>3, <2>2, <2>3, <2>4, MapFits
    <3> QED
      BY <1>1, <2>2, <2>4, <3>1
  <2>5. CASE j # l
    <3>1. \A i \in 1 .. Len(t) : ~ OfBlocks(t[i], j)
      <4>1. Len(t) = 1 /\ t[1].label = l /\ \A i \in 1 .. 1 : i = 1
        BY DEF Map
      <4> QED
        BY <2>5, <4>1 DEF OfBlocks
    <3> QED
      BY <2>3, <3>1 DEF BlocksFit
  <2> QED
    BY <2>4, <2>5
<1> QED
  BY <1>1, <1>2, <1>4, <1>5 DEF Begins, K

LEMMA WriteFits ==
  ASSUME CallInv, TypeInv', NEW h \in Handles, NEW num \in Nums, Write(h, num)
  PROVE  CallInv'
<1> DEFINE K == disk.keys
           n == disk.next
           l == handles[h].label
           size == handles[h].size
           new == IF num < size THEN size ELSE num + 1
           t == <<Map(l, num)>>
<1>1. /\ Ready /\ h \in Open /\ (num <= size \/ Sparse) /\ Begin(t) /\ UNCHANGED disk
      /\ handles' = [handles EXCEPT
                       ![h].size = IF num < @ THEN @ ELSE num + 1,
                       ![h].modified = TRUE]
      /\ todo' = t /\ disk' = disk
  BY DEF Write, Begin
<1> SUFFICES ASSUME crashes = 0 PROVE \E M : Begins(M)
  BY <1>1, BeginFits
<1>2. /\ Typed(K, n) /\ Tree(K) /\ Held(K, handles) /\ Safe(K)
      /\ Exact => Sized(K, handles, <<>>, disk.extents)
  BY <1>1, Begun
<1>3. l # 0 /\ size \in Nat /\ num \in Nat
  BY <1>1, <1>2, OpenHandles, HandleFacts, ConstantTypes DEF CallInv
<1>4. /\ handles'[h].label = l /\ handles'[h].size = new
      /\ handles'[h].modified = TRUE
      /\ \A g \in Handles : g # h => handles'[g] = handles[g]
  <2>1. handles \in [Handles -> [label : 0 .. disk.next - 1,
                                 size : 0 .. MaxNum + 1, modified : BOOLEAN]]
    BY DEF CallInv, TypeInv, HandlesOK
  <2> QED
    BY <1>1, <2>1
<1>5. Held(K, handles')
  <2> SUFFICES ASSUME NEW g \in Handles
               PROVE  IF handles'[g].label = 0 THEN handles'[g] = Closed
                      ELSE \E f \in LinkedIn(K, handles'[g].label) :
                             K[f].type = "K_FILE"
    BY DEF Held
  <2>1. CASE g = h
    BY <1>2, <1>3, <1>4, <2>1 DEF Held
  <2>2. CASE g # h
    BY <1>2, <1>4, <2>2 DEF Held
  <2> QED
    BY <2>1, <2>2
<1>6. Leads(K, t, K)
  <2>1. Apply(K, Map(l, num)) = K
    BY ApplyFacts
  <2> QED
    BY <1>2, <2>1, LeadsOne
<1> HIDE DEF K, n, new
<1>7. ASSUME Exact PROVE Sized(K, handles', t, disk.extents)
  <2>1. HandlesApart(handles) /\ SizesSaved(K, handles)
        /\ Sized(K, handles, <<>>, disk.extents)
    BY <1>2, <1>7 DEF Sized
  <2>2. /\ HandlesApart(handles') /\ SizesSaved(K, handles')
        /\ FinalSize(K, handles, l) = size
        /\ FinalSize(K, handles', l) = new
        /\ \A j : j # l => FinalSize(K, handles', j) = FinalSize(K, handles, j)
    <3>1. /\ handles[h].label # 0 /\ handles'[h].label = handles[h].label
          /\ handles'[h].modified = TRUE
          /\ \A g \in Handles : g # h => handles'[g] = handles[g]
      BY <1>3, <1>4
    <3>2. /\ HandlesApart(handles') /\ SizesSaved(K, handles')
          /\ FinalSize(K, handles, handles[h].label) = handles[h].size
          /\ FinalSize(K, handles', handles[h].label) = handles'[h].size
          /\ \A j : j # handles[h].label =>
               FinalSize(K, handles', j) = FinalSize(K, handles, j)
      BY <2>1, <3>1, HandleModified
    <3> QED
      BY <1>4, <3>2
  <2> HIDE DEF l, size, t
  <2> SUFFICES ASSUME NEW j \in Labels
               PROVE  BlocksFit(NumsIn(disk.extents[j]), t, j,
                                FinalSize(K, handles', j))
    BY <2>2 DEF Sized
  <2>3. Below(NumsIn(disk.extents[j]), FinalSize(K, handles, j))
    BY <2>1, NothingFits DEF Sized
  <2>4. CASE j = l
    <3>1. Below(NumsIn(disk.extents[j]), size)
      BY <2>2, <2>3, <2>4
    <3>2. BlocksFit(NumsIn(disk.extents[j]), t, l, new)
      BY <1>1, <1>3, <1>7, <3>1, MapFits DEF new, t, Exact
    <3> QED
      BY <2>2, <2>4, <3>2
  <2>5. CASE j # l
    <3>1. FinalSize(K, handles', j) = FinalSize(K, handles, j)
      BY <2>2, <2>5
    <3>2. \A i \in 1 .. Len(t) : ~ OfBlocks(t[i], j)
      <4>1. Len(t) = 1 /\ t[1].label = l /\ \A i \in 1 .. 1 : i = 1
        BY DEF Map, t
      <4> QED
        BY <2>5, <4>1 DEF OfBlocks
    <3> QED
      BY <2>3, <3>1, <3>2 DEF BlocksFit
  <2> QED
    BY <2>4, <2>5
<1> QED
  BY <1>1, <1>2, <1>5, <1>6, <1>7 DEF Begins, K, n

LEMMA FtruncateFits ==
  ASSUME CallInv, TypeInv', NEW h \in Handles, NEW new \in Nums,
         Ftruncate(h, new)
  PROVE  CallInv'
<1> DEFINE K == disk.keys
           n == disk.next
           l == handles[h].label
           size == handles[h].size
           c == Cut(l, size, new)
           t == ReduceFile(l, size, new)
<1>1. /\ Ready /\ h \in Open /\ (new <= size \/ Sparse) /\ UNCHANGED disk
      /\ handles' = [handles EXCEPT ![h].size = new, ![h].modified = TRUE]
      /\ Begin(t) /\ todo' = t /\ disk' = disk
  BY DEF Ftruncate, Begin
<1> SUFFICES ASSUME crashes = 0 PROVE \E M : Begins(M)
  BY <1>1, BeginFits
<1>2. /\ Typed(K, n) /\ Tree(K) /\ Held(K, handles) /\ Safe(K)
      /\ Exact => Sized(K, handles, <<>>, disk.extents)
  BY <1>1, Begun
<1>3. l # 0 /\ size \in Nat /\ new \in Nat
  BY <1>1, <1>2, OpenHandles, HandleFacts, ConstantTypes DEF CallInv
<1>4. /\ handles'[h].label = l /\ handles'[h].size = new
      /\ handles'[h].modified = TRUE
      /\ \A g \in Handles : g # h => handles'[g] = handles[g]
  <2>1. handles \in [Handles -> [label : 0 .. disk.next - 1,
                                 size : 0 .. MaxNum + 1, modified : BOOLEAN]]
    BY DEF CallInv, TypeInv, HandlesOK
  <2> QED
    BY <1>1, <2>1
<1>5. Held(K, handles')
  <2> SUFFICES ASSUME NEW g \in Handles
               PROVE  IF handles'[g].label = 0 THEN handles'[g] = Closed
                      ELSE \E f \in LinkedIn(K, handles'[g].label) :
                             K[f].type = "K_FILE"
    BY DEF Held
  <2>1. CASE g = h
    BY <1>2, <1>3, <1>4, <2>1 DEF Held
  <2>2. CASE g # h
    BY <1>2, <1>4, <2>2 DEF Held
  <2> QED
    BY <2>1, <2>2
<1>6. Leads(K, t, K)
  <2>1. Apply(K, c) = K
    BY ApplyFacts
  <2>2. Leads(K, <<c>>, K) /\ Leads(K, <<>>, K)
    BY <1>2, <2>1, LeadsOne, LeadsEmpty
  <2> QED
    BY <2>2 DEF ReduceFile
<1>7. CutIn(<<c>>, l, size, new)
  <2> DEFINE S == {c}
  <2>1. <<>> \in Seq(S) /\ Plain(<<>>) /\ c \in S /\ <<c>> \in Seq(S)
    BY PlainLists
  <2> HIDE DEF S, l, size
  <2>2. CutIn(<<>> \o (<<c>> \o <<>>), l, size, new)
    BY <2>1, CutPlace
  <2>3. <<>> \o (<<c>> \o <<>>) = <<c>>
    <3>1. <<c>> \o <<>> = <<c>> /\ <<>> \o <<c>> = <<c>>
      BY <2>1, ConcatEmptySeq
    <3> QED
      BY <3>1
  <2> QED
    BY <2>2, <2>3
<1> HIDE DEF K, n
<1>8. ASSUME Exact PROVE Sized(K, handles', t, disk.extents)
  <2>1. HandlesApart(handles) /\ SizesSaved(K, handles)
        /\ Sized(K, handles, <<>>, disk.extents)
    BY <1>2, <1>8 DEF Sized
  <2>2. /\ HandlesApart(handles') /\ SizesSaved(K, handles')
        /\ FinalSize(K, handles, l) = size
        /\ FinalSize(K, handles', l) = new
        /\ \A j : j # l => FinalSize(K, handles', j) = FinalSize(K, handles, j)
    <3>1. /\ handles[h].label # 0 /\ handles'[h].label = handles[h].label
          /\ handles'[h].modified = TRUE
          /\ \A g \in Handles : g # h => handles'[g] = handles[g]
      BY <1>3, <1>4
    <3>2. /\ HandlesApart(handles') /\ SizesSaved(K, handles')
          /\ FinalSize(K, handles, handles[h].label) = handles[h].size
          /\ FinalSize(K, handles', handles[h].label) = handles'[h].size
          /\ \A j : j # handles[h].label =>
               FinalSize(K, handles', j) = FinalSize(K, handles, j)
      BY <2>1, <3>1, HandleModified
    <3> QED
      BY <1>4, <3>2
  <2>3. (new < size /\ CutIn(t, l, size, new)) \/ (new = size /\ Plain(t))
    <3>1. CASE new < size
      <4>1. t = <<c>>
        BY <3>1 DEF ReduceFile
      <4> HIDE DEF c, t, l, size
      <4>2. CutIn(t, l, size, new)
        BY <1>7, <4>1
      <4> QED
        BY <3>1, <4>2
    <3>2. CASE new = size
      <4>1. t = <<>>
        BY <1>3, <3>2 DEF ReduceFile
      <4> QED
        BY <3>2, <4>1, PlainLists
    <3> QED
      BY <1>1, <1>3, <1>8, <3>1, <3>2 DEF Exact
  <2> HIDE DEF l, size, t
  <2> QED
    BY <2>1, <2>2, <2>3, SizedReduce
<1> QED
  BY <1>1, <1>2, <1>5, <1>6, <1>8 DEF Begins, K, n

LEMMA TruncateFits ==
  ASSUME CallInv, TypeInv', NEW p \in Paths, NEW new \in Nums,
         Truncate(p[1], p[2], new)
  PROVE  CallInv'
<1> DEFINE K == disk.keys
           n == disk.next
           l == Get(p[1], p[2])
           e == <<p[1], p[2]>>
           fh == [label |-> l, size |-> new, modified |-> TRUE]
           w == FlushHandle(fh)
<1>1. /\ Ready /\ Has(p[1], p[2]) /\ TypeOf(p[1], p[2]) = "K_FILE"
      /\ UNCHANGED <<disk, handles>>
      /\ Shared \/ Users(l) = {}
  BY DEF Truncate, IsFile, MayOpen
<1>2. PICK size \in Sizes(l) : (new <= size \/ Sparse) /\ Begin(ReduceFile(l, size, new) \o w)
  BY DEF Truncate
<1> DEFINE c == Cut(l, size, new)
           r == ReduceFile(l, size, new)
           t == r \o w
<1>3. todo' = t
  BY <1>2 DEF Begin
<1>4. r = IF new < size THEN <<c>> ELSE <<>>
  BY DEF ReduceFile
<1> SUFFICES ASSUME crashes = 0 PROVE \E M : Begins(M)
  BY <1>1, <1>2, BeginFits
<1>5. /\ Typed(K, n) /\ Tree(K) /\ n \in 1 .. MaxLabel + 1 /\ Held(K, handles)
      /\ Exact => Sized(K, handles, <<>>, disk.extents)
      /\ Safe(K)
  BY <1>1, Begun
<1>6. p[2] \in Names
  BY PathPrefix DEF CallInv, TypeInv
<1>7. e \in LinkedIn(K, l) /\ K[e].type = "K_FILE"
  BY <1>1, <1>5, <1>6, NamedEntry
<1>8. <<l, "S">> \in DOMAIN K => size = K[<<l, "S">>].data
  BY <1>2 DEF Sizes, Has, Get
<1>9. Exact /\ l # 0 => \A g \in Handles : handles[g].label # l
  BY <1>1, <1>5, NoUsers DEF Exact
<1>10. /\ fh.label = l /\ fh.size = new /\ fh.modified = TRUE
       /\ fh.size \in 0 .. MaxNum + 1
  <2>1. new \in 0 .. MaxNum + 1
    BY ConstantTypes DEF Nums
  <2> QED
    BY <2>1
<1> HIDE DEF K, n, l, e, fh
<1>11. l \in 1 .. n - 1 /\ <<l, "S">> \in DOMAIN K
  BY <1>5, <1>7, NodeFacts
<1>12. l # 0 /\ size = SizeIn(K, l) /\ size \in Nat /\ new \in Nat
  <2>1. size \in Nat
    BY <1>2, SizesType, ConstantTypes DEF CallInv, TypeInv
  <2> QED
    BY <1>5, <1>8, <1>11, <2>1, ConstantTypes DEF SizeIn, Nums
<1>13. Kept(K, n, l, new, w)
  <2>1. Kept(K, n, l, IF fh.modified THEN fh.size ELSE SizeIn(K, l), w)
    BY <1>5, <1>7, <1>10, KeptFlush
  <2> QED
    BY <1>10, <2>1
<1> DEFINE S == {c, Attr(fh.label, "A", 0), Attr(fh.label, "S", fh.size),
                 Attr(fh.label, "M", 0)}
<1>14. /\ w \in Seq(S) /\ c \in S /\ <<c>> \in Seq(S) /\ <<>> \in Seq(S)
       /\ Plain(w) /\ Plain(<<>>)
  <2>1. w \in Seq(S)
    <3>1. /\ Attr(fh.label, "A", 0) \in S /\ Attr(fh.label, "S", fh.size) \in S
          /\ Attr(fh.label, "M", 0) \in S
      OBVIOUS
    <3> HIDE DEF S
    <3> QED
      BY <3>1, FlushChanges
  <2>2. Plain(w) /\ Plain(<<>>)
    BY PlainFlush, PlainLists
  <2>3. c \in S
    OBVIOUS
  <2> HIDE DEF S, c, w
  <2> QED
    BY <2>1, <2>2, <2>3
<1>15. Leads(K, r, K) /\ r \in Seq(S)
  <2>1. Apply(K, c) = K
    BY ApplyFacts
  <2>2. Leads(K, <<c>>, K) /\ Leads(K, <<>>, K)
    BY <1>5, <2>1, LeadsOne, LeadsEmpty
  <2> QED
    BY <1>4, <1>14, <2>2
<1> HIDE DEF S, w, r
<1>16. PICK M :
        /\ Typed(M, n) /\ Tree(M) /\ Elsewhere(K, M, l)
        /\ LinkedIn(M, l) = LinkedIn(K, l)
        /\ \A f \in LinkedIn(K, l) : M[f] = K[f]
        /\ SizeIn(M, l) = new
        /\ Leads(K, w, M)
  BY <1>13 DEF Kept
<1>17. Leads(K, r \o w, M)
  BY <1>14, <1>15, <1>16, LeadsConcat
<1>18. Held(M, handles)
  <2>1. \E f \in LinkedIn(M, l) : M[f].type = "K_FILE"
    BY <1>7, <1>16
  <2> QED
    BY <1>5, <1>16, <2>1, HeldAt
<1>19. CutIn(<<c>> \o w, l, size, new) /\ <<>> \o w = w
  <2>1. CutIn(<<>> \o (<<c>> \o w), l, size, new)
    BY <1>14, CutPlace
  <2>2. <<c>> \o w \in Seq(S)
    BY <1>14, ConcatProperties
  <2>3. <<>> \o (<<c>> \o w) = <<c>> \o w /\ <<>> \o w = w
    BY <1>14, <2>2, ConcatEmptySeq
  <2> QED
    BY <2>1, <2>3
<1>20. ASSUME Exact PROVE Sized(M, handles, r \o w, disk.extents)
  <2>1. HandlesApart(handles) /\ SizesSaved(K, handles)
        /\ Sized(K, handles, <<>>, disk.extents)
    BY <1>5, <1>20 DEF Sized
  <2>2. \A g \in Handles : handles[g].label # l
    BY <1>9, <1>12, <1>20
  <2>3. \A g \in Handles : handles[g].label = l =>
          l = 0 \/ SizeIn(M, l) = SizeIn(K, l)
    BY <2>2
  <2>4. /\ SizesSaved(M, handles)
        /\ \A j : j # l \/ SizeIn(M, l) = SizeIn(K, l) =>
             FinalSize(M, handles, j) = FinalSize(K, handles, j)
    <3>1. Elsewhere(K, M, l)
      BY <1>16
    <3> QED
      BY <2>1, <2>3, <3>1, HandlesKept
  <2>5. FinalSize(K, handles, l) = size /\ FinalSize(M, handles, l) = new
    BY <1>12, <1>16, <2>2, FinalClosed
  <2>6. \A j \in Labels : j # l =>
           FinalSize(M, handles, j) = FinalSize(K, handles, j)
    BY <2>4
  <2>7. \/ new < size /\ CutIn(r \o w, l, size, new)
        \/ new = size /\ Plain(r \o w)
    <3>1. new < size \/ new = size
      BY <1>2, <1>12, <1>20 DEF Exact
    <3> QED
      BY <1>4, <1>12, <1>14, <1>19, <3>1
  <2> DEFINE q == r \o w
  <2>8. (new < size /\ CutIn(q, l, size, new)) \/ (new = size /\ Plain(q))
    BY <2>7
  <2> HIDE DEF q, K
  <2>9. Sized(M, handles, q, disk.extents)
    <3>1. CASE new < size /\ CutIn(q, l, size, new)
      BY <2>1, <2>4, <2>5, <2>6, <3>1, SizedCut
    <3>2. CASE new = size /\ Plain(q)
      BY <2>1, <2>4, <2>5, <2>6, <3>2, SizedPlain
    <3> QED
      BY <2>8, <3>1, <3>2
  <2> QED
    BY <2>9 DEF q
<1> HIDE DEF t
<1> QED
  <2>1. t = r \o w /\ disk' = disk /\ handles' = handles
    BY <1>1 DEF t
  <2> QED
    BY <1>3, <1>16, <1>17, <1>18, <1>20, <2>1 DEF Begins, K, n

LEMMA CrashFits == ASSUME CallInv, TypeInv', Crash PROVE CallInv'
<1>1. crashes' # 0
  BY DEF Crash, CallInv, TypeInv
<1> QED
  BY <1>1 DEF Crash, CallInv

LEMMA InitFits == Init => CallInv
<1> SUFFICES ASSUME Init PROVE CallInv
  OBVIOUS
<1> DEFINE K == disk.keys
<1>1. /\ TypeInv /\ disk = Blank /\ todo = <<>> /\ fault = "none"
      /\ handles = [h \in Handles |-> Closed]
  BY InitTyped DEF Init
<1>2. DOMAIN K = {}
  <2>1. K = <<>>
    BY <1>1 DEF Blank
  <2> QED
    BY <2>1
<1>3. \A l \in Labels : disk.extents[l] = {}
  BY <1>1 DEF Blank
<1>4. \A h \in Handles : handles[h] = Closed /\ handles[h].label = 0
  BY <1>1 DEF Closed
<1> HIDE DEF K
<1>5. EntriesOf(K) = {} /\ \A l : LinkedIn(K, l) = {} /\ CountIn(K, l) = 0
  BY <1>2 DEF EntriesOf, LinkedIn, CountIn
<1>6. Cardinality({}) = 0
  BY FS_EmptySet
<1>7. Safe(K) /\ Tree(K)
  BY <1>2, <1>5, <1>6 DEF Safe, Tree, Counted, Owned, Matching, DirsAlone,
                          Placed, PrefixesApart
<1>8. Typed(K, disk.next)
  BY <1>2 DEF Typed
<1>9. Held(K, handles)
  BY <1>4 DEF Held
<1>10. Sized(K, handles, <<>>, disk.extents)
  <2>1. HandlesApart(handles) /\ SizesSaved(K, handles)
    BY <1>4 DEF HandlesApart, SizesSaved
  <2>2. ASSUME NEW l \in Labels
        PROVE  BlocksFit(NumsIn(disk.extents[l]), <<>>, l, FinalSize(K, handles, l))
    <3>1. NumsIn(disk.extents[l]) = {}
      BY <1>3 DEF NumsIn
    <3>2. SizeIn(K, l) = 0
      BY <1>2 DEF SizeIn
    <3>3. FinalSize(K, handles, l) = 0
      BY <1>4, <3>2, FinalClosed
    <3>4. Below({}, 0)
      BY DEF Below
    <3>5. Len(<<>>) = 0
      BY EmptySeq
    <3> QED
      BY <3>1, <3>3, <3>4, <3>5 DEF BlocksFit
  <2> QED
    BY <2>1, <2>2 DEF Sized
<1>11. Leads(K, todo, K)
  BY <1>1, <1>7, LeadsEmpty
<1>12. \A l \in Labels : Apart(disk.extents[l])
  BY <1>3 DEF Apart
<1> QED
  BY <1>1, <1>7, <1>8, <1>9, <1>10, <1>11, <1>12 DEF CallInv, FitsInv, K

LEMMA NextFits == CallInv /\ [Next]_vars => CallInv'
<1> SUFFICES ASSUME CallInv, [Next]_vars PROVE CallInv'
  OBVIOUS
<1>0. TypeInv'
  BY NextTyped DEF CallInv
<1>1. CASE Call
  <2>1. ASSUME NEW p \in Paths, NEW q \in Paths, NEW new \in Nums,
               \/ Create(p[1], p[2]) \/ OpenFile(p[1], p[2])
               \/ Unlink(p[1], p[2]) \/ Utimens(p[1], p[2])
               \/ Truncate(p[1], p[2], new) \/ Link(p, q) \/ Rename(p, q)
        PROVE  CallInv'
    BY <1>0, <2>1, CreateFits, OpenFileFits, UnlinkFits, UtimensFits,
       TruncateFits, LinkFits, RenameFits
  <2>2. ASSUME NEW m \in Names, Mkdir(m) \/ Rmdir(m) PROVE CallInv'
    BY <1>0, <2>2, MkdirFits, RmdirFits
  <2>3. ASSUME NEW h \in Handles, NEW num \in Nums,
               Release(h) \/ Read(h, num) \/ Write(h, num) \/ Ftruncate(h, num)
        PROVE  CallInv'
    BY <1>0, <2>3, ReleaseFits, ReadFits, WriteFits, FtruncateFits
  <2>4. 0 \in Nums
    BY ConstantTypes
  <2> QED
    BY <1>1, <2>1, <2>2, <2>3, <2>4 DEF Call
<1>2. CASE Step
  BY <1>2, StepFits
<1>3. CASE Crash
  BY <1>0, <1>3, CrashFits
<1>4. CASE UNCHANGED vars
  <2>1. \A M : FitsInv(M) <=> FitsInv(M)'
    BY <1>4 DEF vars, FitsInv
  <2> QED
    BY <1>0, <1>4, <2>1 DEF vars, CallInv
<1> QED
  BY <1>1, <1>2, <1>3, <1>4 DEF Next

-----------------------------------------------------------------------------
(* Theorems.                                                               *)

(* Until a crash the changes a call has still to make lead, through keys   *)
(* without a dangling name, to a tree of counted names whose files have    *)
(* the blocks their sizes promise (fs/operations.c, fs/file.c).            *)
THEOREM FilesCalls == Spec => []CallInv
<1> QED
  BY InitFits, NextFits, PTL DEF Spec

LEMMA CallInvNoDangling == CallInv => NoDangling
<1> SUFFICES ASSUME CallInv, crashes = 0 PROVE NoDangling
  BY DEF NoDangling
<1>1. PICK M : Leads(disk.keys, todo, M)
  BY DEF CallInv
<1>2. Safe(disk.keys)
  BY <1>1, LeadsSafe DEF CallInv, TypeInv
<1>3. \A k \in EntriesOf(disk.keys) :
        <<disk.keys[k].data,
          IF disk.keys[k].type = "K_FILE" THEN "S" ELSE "D">> \in DOMAIN disk.keys
  BY <1>2 DEF Safe, Needed
<1> QED
  BY <1>3 DEF NoDangling, Entries, EntriesOf, Has

(* At every step of every call, wherever a crash may leave the disk, a     *)
(* name leads to a file with a size or to a directory with a prefix: the   *)
(* calls of fs/operations.c change keys in an order that keeps this.       *)
THEOREM NamesNeverDangle == Spec => []NoDangling
<1> QED
  BY FilesCalls, CallInvNoDangling, PTL

LEMMA CallInvLinkCounts == CallInv => LinkCounts
<1> SUFFICES ASSUME CallInv, Quiet PROVE LinkCounts
  BY DEF LinkCounts
<1>1. Tree(disk.keys)
  BY Begun DEF Quiet
<1>2. \A l \in Labels :
        CountIn(disk.keys, l) = Cardinality(LinkedIn(disk.keys, l))
  BY <1>1 DEF Tree, Counted
<1>3. \A l : Linked(disk, l) = LinkedIn(disk.keys, l)
  BY DEF Linked, LinkedIn, Entries, EntriesOf
<1> QED
  BY <1>2, <1>3, CountThere DEF LinkCounts

(* Between calls the key L of each file and directory counts its names     *)
(* (create_link and delete_link, fs/file.c), whatever calls came before.   *)
THEOREM LinksCounted == Spec => []LinkCounts
<1> QED
  BY FilesCalls, CallInvLinkCounts, PTL

LEMMA CallInvNoError == CallInv /\ Exact => NoError
  BY DEF CallInv, FitsInv, NoError

(* While no file is open twice, reduce_file finds all extents that the     *)
(* size of the file promises, and no call stops the program (fs/file.c).   *)
THEOREM CutsFindExtents ==
  ASSUME ~ Shared, ~ Sparse
  PROVE  Spec => []NoError
<1>1. CallInv => NoError
  BY CallInvNoError DEF Exact
<1> QED
  BY <1>1, FilesCalls, PTL

LEMMA CallInvSizes == CallInv /\ Exact => SizeCoversBlocks
<1> SUFFICES ASSUME CallInv, Exact, Quiet, NEW l \in Labels
             PROVE  NumsOf(l) = 0 .. SizeOf(l) - 1
  BY DEF SizeCoversBlocks
<1> DEFINE N == NumsOf(l)
           size == SizeOf(l)
<1>1. /\ Sized(disk.keys, handles, <<>>, disk.extents)
      /\ Held(disk.keys, handles)
  BY Begun DEF Quiet
<1>2. Users(l) = UsersOf(handles, l)
  BY <1>1, OpenHandles DEF Users, UsersOf, Open
<1>3. size = FinalSize(disk.keys, handles, l)
  BY <1>2 DEF SizeOf, FinalSize, SizeIn, Has, Get
<1>4. N = NumsIn(disk.extents[l])
  BY DEF NumsOf, NumsIn
<1>5. Below(N, size)
  BY <1>1, <1>3, <1>4, NothingFits DEF Sized
<1>6. size \in Nat
  <2>1. Has(l, "S") => Get(l, "S") \in Nat
    BY KeyFacts DEF CallInv, TypeInv
  <2>2. \A h \in Handles : handles[h].size \in Nat
    BY HandleFacts DEF CallInv
  <2>3. Users(l) # {} => (CHOOSE h \in Users(l) : TRUE) \in Handles
    BY DEF Users, Open
  <2> QED
    BY <2>1, <2>2, <2>3 DEF SizeOf
<1> HIDE DEF N, size
<1>7. \A i : i \in 0 .. size - 1 <=> i \in Nat /\ i < size
  BY <1>6
<1>8. N = 0 .. size - 1
  BY <1>5, <1>7 DEF Below
<1> QED
  BY <1>8 DEF N, size

(* Between calls a file has exactly the blocks below its size, that of its *)
(* handle while it is open and of its key S once it is closed (write_data, *)
(* flush_fh and reduce_file, fs/file.c), while no file is open twice.      *)
THEOREM SizesCovered ==
  ASSUME ~ Shared, ~ Sparse
  PROVE  Spec => []SizeCoversBlocks
<1>1. CallInv => SizeCoversBlocks
  BY CallInvSizes DEF Exact
<1> QED
  BY <1>1, FilesCalls, PTL

LEMMA CallInvNothingLeft == CallInv /\ Exact => NothingLeft
<1> SUFFICES ASSUME CallInv, Exact, Quiet, NEW l \in Labels \ Prefixes,
                    {k \in DOMAIN disk.keys : k[1] = l} # {}
                      \/ disk.extents[l] # {}
             PROVE  Linked(disk, l) # {}
  BY DEF NothingLeft
<1> DEFINE K == disk.keys
           n == disk.next
<1>1. /\ Typed(K, n) /\ Tree(K) /\ Held(K, handles) /\ n \in 1 .. MaxLabel + 1
      /\ Sized(K, handles, <<>>, disk.extents)
  BY Begun DEF Quiet
<1>2. Linked(disk, l) = LinkedIn(K, l)
  BY DEF Linked, LinkedIn, Entries, EntriesOf
<1>3. ASSUME Prefix(K, l) PROVE l \in Prefixes
  <2>1. PICK j \in Labels : <<j, "D">> \in DOMAIN K /\ K[<<j, "D">>].data = l
    BY <1>3 DEF Prefix
  <2>2. PICK e : e \in LinkedIn(K, j)
    <3>1. <<j, "D">>[1] = j /\ <<j, "D">>[2] \in Attributes
      BY AttrNames
    <3> QED
      BY <1>1, <2>1, <3>1 DEF Tree, Owned
  <2>3. e \in EntriesOf(K) /\ K[e].data = j /\ e \in DOMAIN K
    BY <2>2 DEF LinkedIn, EntriesOf
  <2>4. K[e].type = "K_DIRECTORY"
    <3>1. <<j, "D">>[1] = j /\ <<j, "D">>[2] = "D"
      OBVIOUS
    <3> QED
      BY <1>1, <2>1, <2>3, <3>1 DEF Tree, Matching
  <2>5. e[1] = 0
    BY <1>1, <2>3, <2>4 DEF Tree, DirsAlone
  <2>6. e = <<0, e[2]>> /\ e[2] \in Names
    BY <1>1, <2>3, <2>5, TypedFacts
  <2>7. IsDir(0, e[2]) /\ Get(0, e[2]) = j /\ Has(j, "D") /\ Get(j, "D") = l
    BY <2>1, <2>3, <2>4, <2>6 DEF IsDir, Has, TypeOf, Get
  <2> QED
    BY <2>6, <2>7 DEF Prefixes
<1>4. 0 \in Prefixes
  BY DEF Prefixes
<1>5. ASSUME NEW k \in DOMAIN K, k[1] = l PROVE LinkedIn(K, l) # {}
  <2>1. CASE k[2] \in Attributes
    BY <1>1, <1>5, <2>1 DEF Tree, Owned
  <2>2. CASE k[2] \notin Attributes
    <3>1. k \in EntriesOf(K)
      BY <1>1, <2>2, TypedFacts
    <3>2. k[1] = 0 \/ Prefix(K, k[1])
      BY <1>1, <3>1 DEF Tree, Placed
    <3> QED
      BY <1>3, <1>4, <1>5, <3>2
  <2> QED
    BY <2>1, <2>2
<1>6. ASSUME disk.extents[l] # {} PROVE LinkedIn(K, l) # {}
  <2>1. PICK x \in disk.extents[l] : x[1] <= x[2]
    BY <1>6 DEF CallInv, Apart
  <2>2. x[1] \in Nat /\ x[2] \in Nat
    BY <2>1, ExtentTypes DEF CallInv, TypeInv, DiskOK, ExtentsOK
  <2>3. x[1] \in NumsIn(disk.extents[l])
    BY <2>1, <2>2 DEF NumsIn
  <2>4. Below(NumsIn(disk.extents[l]), FinalSize(K, handles, l))
    BY <1>1, NothingFits DEF Sized
  <2>5. FinalSize(K, handles, l) # 0
    BY <2>2, <2>3, <2>4 DEF Below
  <2>6. CASE UsersOf(handles, l) # {}
    <3>1. PICK h \in Handles : l # 0 /\ handles[h].label = l
      BY <2>6 DEF UsersOf
    <3> QED
      BY <1>1, <3>1 DEF Held
  <2>7. CASE UsersOf(handles, l) = {}
    <3>1. <<l, "S">> \in DOMAIN K
      BY <2>5, <2>7 DEF FinalSize, SizeIn
    <3>2. <<l, "S">>[1] = l
      OBVIOUS
    <3> QED
      BY <1>5, <3>1, <3>2
  <2> QED
    BY <2>6, <2>7
<1> QED
  BY <1>2, <1>5, <1>6

(* Between calls nothing is kept, no key and no block, of a file or        *)
(* directory without a name (delete_link and delete_file, fs/file.c),      *)
(* while no file is open twice.                                            *)
THEOREM NothingIsLeft ==
  ASSUME ~ Shared, ~ Sparse
  PROVE  Spec => []NothingLeft
<1>1. CallInv => NothingLeft
  BY CallInvNothingLeft DEF Exact
<1> QED
  BY <1>1, FilesCalls, PTL
=============================================================================
