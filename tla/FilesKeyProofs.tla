---------------------------- MODULE FilesKeyProofs ----------------------------
(***************************************************************************)
(* Files: types, labels that are never given out twice, and the keys that  *)
(* calls make, for every number of names, labels, blocks and handles.      *)
(*                                                                         *)
(* The first invariant holds with crashes, and speaks of three things: the *)
(* disk, the open handles, and the changes the call in progress has still  *)
(* to make, each of which must be one that keeps the disk as it should be. *)
(* Without a crash these changes, one key at a time, lead from keys that   *)
(* form a tree of counted names, through keys without a dangling name, to  *)
(* keys that form such a tree again.                                       *)
(***************************************************************************)
EXTENDS Files, FiniteSetTheorems, SequenceTheorems, TLAPS

AllNames == Names \cup Attributes
Types == {"K_ATTRIBUTE", "K_FILE", "K_DIRECTORY"}

(* A key whose label, and the label it leads to, have been given out.      *)
KeyOK(k, v, next) ==
  /\ k \in Labels \X AllNames
  /\ v \in [type : Types, data : Nat]
  /\ k[1] < next
  /\ (v.type = "K_ATTRIBUTE") = (k[2] \in Attributes)
  /\ v.type # "K_ATTRIBUTE" \/ k[2] = "D" => v.data \in 1 .. next - 1
  /\ k[2] = "S" => v.data <= MaxNum + 1

KeysOK(d) == \A k \in DOMAIN d.keys : KeyOK(k, d.keys[k], d.next)

ExtentsOK(d) ==
  /\ d.extents \in [Labels -> SUBSET (Nums \X Nums)]
  /\ \A l \in Labels : d.extents[l] # {} => l < d.next

DiskOK(d) ==
  /\ DOMAIN d = {"keys", "extents", "next"}
  /\ d.next \in 1 .. MaxLabel + 1
  /\ KeysOK(d)
  /\ ExtentsOK(d)

Adds(next) ==
  {c \in [op : {"add"}, label : Labels, name : AllNames,
          key : [type : Types, data : Nat]] :
     KeyOK(<<c.label, c.name>>, c.key, next)}

Deletes == [op : {"delete"}, label : Labels, name : AllNames]
Cuts == [op : {"reduce"}, label : Labels, num : Nat, new : Nums]
Maps(next) == [op : {"map"}, label : 0 .. next - 1, num : Nums]

Changes(next) == Adds(next) \cup Deletes \cup Cuts \cup Maps(next)

HandlesOK(hs, next) ==
  hs \in [Handles -> [label : 0 .. next - 1, size : 0 .. MaxNum + 1,
                      modified : BOOLEAN]]

TypeInv ==
  /\ DiskOK(disk)
  /\ HandlesOK(handles, disk.next)
  /\ todo \in Seq(Changes(disk.next))
  /\ crashes \in 0 .. MaxCrashes

-----------------------------------------------------------------------------
(* Constants, and what grows with the next label.                          *)

LEMMA ConstantTypes ==
  /\ MaxLabel \in Nat /\ MaxNum \in Nat /\ MaxCrashes \in Nat
  /\ 0 \in Labels /\ 0 \in Nums /\ Labels \subseteq Nat /\ Nums \subseteq Nat
  /\ Names \cap Attributes = {}
  BY FilesAssumption DEF Labels, Nums

LEMMA KeyGrows ==
  ASSUME NEW m \in 1 .. MaxLabel + 1, NEW n \in 1 .. MaxLabel + 1, m <= n,
         NEW k, NEW v, KeyOK(k, v, m)
  PROVE  KeyOK(k, v, n)
  BY ConstantTypes DEF KeyOK, Labels

LEMMA ChangesGrow ==
  ASSUME NEW m \in 1 .. MaxLabel + 1, NEW n \in 1 .. MaxLabel + 1, m <= n
  PROVE  Changes(m) \subseteq Changes(n)
<1>1. Adds(m) \subseteq Adds(n)
  BY KeyGrows DEF Adds
<1>2. Maps(m) \subseteq Maps(n)
  BY ConstantTypes DEF Maps
<1> QED
  BY <1>1, <1>2 DEF Changes

LEMMA HandlesGrow ==
  ASSUME NEW m \in 1 .. MaxLabel + 1, NEW n \in 1 .. MaxLabel + 1, m <= n,
         NEW hs, HandlesOK(hs, m)
  PROVE  HandlesOK(hs, n)
<1>1. 0 .. m - 1 \subseteq 0 .. n - 1
  BY ConstantTypes
<1> QED
  BY <1>1 DEF HandlesOK

(* Giving out a label leaves all that was there as it should be.           *)
LEMMA LabelGivenOut ==
  ASSUME NEW d, DiskOK(d), NEW n \in 1 .. MaxLabel + 1, d.next <= n
  PROVE  /\ DiskOK([d EXCEPT !.next = n])
         /\ [d EXCEPT !.next = n].next = n
         /\ [d EXCEPT !.next = n].keys = d.keys
         /\ [d EXCEPT !.next = n].extents = d.extents
<1> DEFINE e == [d EXCEPT !.next = n]
<1>1. /\ DOMAIN e = {"keys", "extents", "next"}
      /\ e.next = n /\ e.keys = d.keys /\ e.extents = d.extents
  BY DEF DiskOK
<1>2. KeysOK(e)
  BY <1>1, KeyGrows DEF KeysOK, DiskOK
<1>3. ExtentsOK(e)
  <2>1. \A l \in Labels : l < d.next => l < n
    BY ConstantTypes DEF DiskOK
  <2> QED
    BY <1>1, <2>1 DEF ExtentsOK, DiskOK
<1> QED
  BY <1>1, <1>2, <1>3 DEF DiskOK

-----------------------------------------------------------------------------
(* The parts calls are made of.                                            *)

LEMMA AttrChange ==
  ASSUME NEW n \in 1 .. MaxLabel + 1, NEW l \in 0 .. n - 1,
         NEW a \in {"A", "C", "D", "L", "M", "S"}, NEW x \in Nat,
         a = "D" => x \in 1 .. n - 1, a = "S" => x <= MaxNum + 1
  PROVE  Attr(l, a, x) \in Changes(n)
<1>1. l \in Labels /\ l < n
  BY ConstantTypes DEF Labels
<1>2. KeyOK(<<l, a>>, [type |-> "K_ATTRIBUTE", data |-> x], n)
  BY <1>1 DEF KeyOK, AllNames, Attributes, Types
<1>3. Attr(l, a, x) \in Adds(n)
  BY <1>1, <1>2 DEF Attr, Add, Adds, AllNames, Attributes, Types
<1> QED
  BY <1>3 DEF Changes

LEMMA EntryChange ==
  ASSUME NEW n \in 1 .. MaxLabel + 1, NEW d \in 0 .. n - 1,
         NEW m \in Names, NEW l \in 1 .. n - 1,
         NEW type \in {"K_FILE", "K_DIRECTORY"}
  PROVE  Add(d, m, type, l) \in Changes(n)
<1>1. d \in Labels /\ d < n /\ l \in Nat
  BY ConstantTypes DEF Labels
<1>2. m \notin Attributes /\ m # "S" /\ m # "D"
  BY ConstantTypes DEF Attributes
<1>3. KeyOK(<<d, m>>, [type |-> type, data |-> l], n)
  BY <1>1, <1>2 DEF KeyOK, AllNames, Types
<1>4. Add(d, m, type, l) \in Adds(n)
  BY <1>1, <1>3 DEF Add, Adds, AllNames, Types
<1> QED
  BY <1>4 DEF Changes

LEMMA DelChange ==
  ASSUME NEW n, NEW l \in Labels, NEW m \in AllNames
  PROVE  Del(l, m) \in Changes(n)
  BY DEF Del, Changes, Deletes

LEMMA ReduceFileChanges ==
  ASSUME NEW n, NEW l \in Labels, NEW size \in Nat, NEW new \in Nums
  PROVE  ReduceFile(l, size, new) \in Seq(Changes(n))
<1>1. Cut(l, size, new) \in Changes(n)
  BY DEF Cut, Cuts, Changes
<1> QED
  BY <1>1 DEF ReduceFile

(* What the keys say, when they are as they should be.                     *)
LEMMA KeyFacts ==
  ASSUME DiskOK(disk), NEW l, NEW n, Has(l, n)
  PROVE  /\ l \in Labels /\ l < disk.next /\ n \in AllNames
         /\ Get(l, n) \in Nat
         /\ TypeOf(l, n) \in Types
         /\ (TypeOf(l, n) = "K_ATTRIBUTE") = (n \in Attributes)
         /\ n = "S" => Get(l, n) <= MaxNum + 1
         /\ n = "D" \/ TypeOf(l, n) # "K_ATTRIBUTE" =>
              /\ Get(l, n) \in 1 .. disk.next - 1
              /\ Get(l, n) \in Labels
<1>1. KeyOK(<<l, n>>, disk.keys[<<l, n>>], disk.next)
  BY DEF DiskOK, KeysOK, Has
<1>2. disk.next \in 1 .. MaxLabel + 1
  BY DEF DiskOK
<1> QED
  BY <1>1, <1>2, ConstantTypes DEF KeyOK, Get, TypeOf, Labels, AllNames

LEMMA CountType == ASSUME DiskOK(disk), NEW l PROVE Count(l) \in Nat
  BY KeyFacts DEF Count

LEMMA PathFacts ==
  ASSUME DiskOK(disk), NEW p \in Paths
  PROVE  p[1] \in 0 .. disk.next - 1 /\ p[1] \in Labels /\ p[2] \in Names
<1>1. disk.next \in 1 .. MaxLabel + 1
  BY DEF DiskOK
<1>2. p[1] \in Prefixes /\ p[2] \in Names
  BY DEF Paths
<1>3. CASE p[1] = 0
  BY <1>1, <1>2, <1>3, ConstantTypes
<1>4. CASE p[1] # 0
  <2>1. PICK n \in Names : IsDir(0, n) /\ Has(Get(0, n), "D")
                           /\ p[1] = Get(Get(0, n), "D")
    BY <1>2, <1>4 DEF Prefixes
  <2>2. p[1] \in 1 .. disk.next - 1 /\ p[1] \in Labels
    BY <2>1, KeyFacts
  <2> QED
    BY <1>1, <1>2, <2>2, ConstantTypes
<1> QED
  BY <1>3, <1>4

(* A name leads to a label that has been given out.                        *)
LEMMA EntryFacts ==
  ASSUME DiskOK(disk), NEW d, NEW n \in Names, Has(d, n)
  PROVE  /\ TypeOf(d, n) \in {"K_FILE", "K_DIRECTORY"}
         /\ Get(d, n) \in 1 .. disk.next - 1 /\ Get(d, n) \in Labels
<1>1. TypeOf(d, n) # "K_ATTRIBUTE"
  BY KeyFacts, ConstantTypes
<1> QED
  BY <1>1, KeyFacts DEF Types

LEMMA CreateLinkChanges ==
  ASSUME NEW n \in 1 .. MaxLabel + 1, NEW d \in 0 .. n - 1,
         NEW m \in Names, NEW l \in 1 .. n - 1,
         NEW type \in {"K_FILE", "K_DIRECTORY"}, NEW count \in Nat
  PROVE  CreateLink(d, m, l, type, count) \in Seq(Changes(n))
<1>1. Add(d, m, type, l) \in Changes(n)
  BY EntryChange
<1>2. l \in 0 .. n - 1 /\ count + 1 \in Nat
  BY ConstantTypes
<1>3. Attr(l, "L", count + 1) \in Changes(n)
  BY <1>2, AttrChange
<1> QED
  BY <1>1, <1>3 DEF CreateLink

LEMMA DeleteFileChanges ==
  ASSUME DiskOK(disk), NEW l \in Labels
  PROVE  DeleteFile(l) \in Seq(Changes(disk.next))
<1> DEFINE n == disk.next
           a == IF Has(l, "S") THEN ReduceFile(l, Get(l, "S"), 0) ELSE <<>>
           b == <<Del(l, "A"), Del(l, "C"), Del(l, "M"),
                  Del(l, "D"), Del(l, "S"), Del(l, "L")>>
<1>1. a \in Seq(Changes(n))
  <2>1. CASE Has(l, "S")
    <3>1. Get(l, "S") \in Nat
      BY <2>1, KeyFacts
    <3>2. ReduceFile(l, Get(l, "S"), 0) \in Seq(Changes(n))
      BY <3>1, ReduceFileChanges, ConstantTypes
    <3> QED
      BY <2>1, <3>2
  <2>2. CASE ~ Has(l, "S")
    BY <2>2
  <2> QED
    BY <2>1, <2>2
<1>2. \A x \in Attributes : Del(l, x) \in Changes(n)
  BY DelChange DEF AllNames
<1>3. b \in Seq(Changes(n))
  BY <1>2 DEF Attributes
<1>4. a \o b \in Seq(Changes(n))
  BY <1>1, <1>3, ConcatProperties
<1> QED
  BY <1>4 DEF DeleteFile

LEMMA DeleteLinkChanges ==
  ASSUME DiskOK(disk), NEW d \in Labels, NEW m \in Names, Has(d, m),
         NEW count \in Nat
  PROVE  DeleteLink(d, m, count) \in Seq(Changes(disk.next))
<1> DEFINE n == disk.next
           l == Get(d, m)
           b == IF count > 1 THEN <<Attr(l, "L", count - 1)>> ELSE DeleteFile(l)
<1>1. l \in 1 .. n - 1 /\ l \in Labels
  BY EntryFacts
<1>2. n \in 1 .. MaxLabel + 1
  BY DEF DiskOK
<1>3. b \in Seq(Changes(n))
  <2>1. CASE count > 1
    <3>1. l \in 0 .. n - 1 /\ count - 1 \in Nat
      BY <1>1, <1>2, <2>1
    <3>2. Attr(l, "L", count - 1) \in Changes(n)
      BY <3>1, <1>2, AttrChange
    <3> QED
      BY <2>1, <3>2
  <2>2. CASE ~ (count > 1)
    BY <2>2, <1>1, DeleteFileChanges
  <2> QED
    BY <2>1, <2>2
<1>4. <<Del(d, m)>> \in Seq(Changes(n))
  BY DelChange DEF AllNames
<1>5. <<Del(d, m)>> \o b \in Seq(Changes(n))
  BY <1>3, <1>4, ConcatProperties
<1> QED
  BY <1>5 DEF DeleteLink

LEMMA FlushHandleChanges ==
  ASSUME NEW n \in 1 .. MaxLabel + 1,
         NEW fh \in [label : 0 .. n - 1, size : 0 .. MaxNum + 1,
                     modified : BOOLEAN]
  PROVE  FlushHandle(fh) \in Seq(Changes(n))
<1> DEFINE a == <<Attr(fh.label, "A", 0)>>
           b == IF fh.modified
                THEN <<Attr(fh.label, "S", fh.size), Attr(fh.label, "M", 0)>>
                ELSE <<>>
<1>0. /\ fh.label \in 0 .. n - 1 /\ fh.size \in Nat /\ fh.size <= MaxNum + 1
      /\ 0 \in Nat
  BY ConstantTypes
<1>1. /\ Attr(fh.label, "A", 0) \in Changes(n)
      /\ Attr(fh.label, "M", 0) \in Changes(n)
  BY <1>0, AttrChange
<1>2. Attr(fh.label, "S", fh.size) \in Changes(n)
  BY <1>0, AttrChange
<1>3. a \in Seq(Changes(n)) /\ b \in Seq(Changes(n))
  BY <1>1, <1>2
<1>4. a \o b \in Seq(Changes(n))
  BY <1>3, ConcatProperties
<1> QED
  BY <1>4 DEF FlushHandle

-----------------------------------------------------------------------------
(* One change keeps the disk as it should be.                              *)

LEMMA AddKeyOK ==
  ASSUME NEW d, DiskOK(d), NEW s \in Adds(d.next)
  PROVE  DiskOK(AddKey(d, s)) /\ AddKey(d, s).next = d.next
<1> DEFINE e == AddKey(d, s)
           k == <<s.label, s.name>>
<1>1. /\ DOMAIN e = {"keys", "extents", "next"}
      /\ e.next = d.next /\ e.extents = d.extents
      /\ e.keys = [j \in DOMAIN d.keys \cup {k} |->
                     IF j = k THEN s.key ELSE d.keys[j]]
  BY DEF DiskOK, AddKey
<1>2. KeyOK(k, s.key, d.next)
  BY DEF Adds
<1>3. KeysOK(e)
  BY <1>1, <1>2 DEF KeysOK, DiskOK
<1>4. ExtentsOK(e)
  BY <1>1 DEF ExtentsOK, DiskOK
<1> QED
  BY <1>1, <1>3, <1>4 DEF DiskOK

LEMMA DeleteKeyOK ==
  ASSUME NEW d, DiskOK(d), NEW s
  PROVE  DiskOK(DeleteKey(d, s)) /\ DeleteKey(d, s).next = d.next
<1> DEFINE e == DeleteKey(d, s)
           k == <<s.label, s.name>>
<1>1. /\ DOMAIN e = {"keys", "extents", "next"}
      /\ e.next = d.next /\ e.extents = d.extents
      /\ e.keys = [j \in DOMAIN d.keys \ {k} |-> d.keys[j]]
  BY DEF DiskOK, DeleteKey
<1>2. KeysOK(e)
  BY <1>1 DEF KeysOK, DiskOK
<1>3. ExtentsOK(e)
  BY <1>1 DEF ExtentsOK, DiskOK
<1> QED
  BY <1>1, <1>2, <1>3 DEF DiskOK

WithExtents(d, l, X) == [d EXCEPT !.extents[l] = X]

(* The extents of one label change, those of a label that has been given   *)
(* out.                                                                    *)
LEMMA ExtentsChange ==
  ASSUME NEW d, DiskOK(d), NEW l \in Labels, l < d.next,
         NEW X \in SUBSET (Nums \X Nums)
  PROVE  /\ DiskOK(WithExtents(d, l, X))
         /\ WithExtents(d, l, X).next = d.next
         /\ WithExtents(d, l, X).keys = d.keys
         /\ WithExtents(d, l, X).extents = [d.extents EXCEPT ![l] = X]
<1> DEFINE e == WithExtents(d, l, X)
<1>1. /\ DOMAIN e = {"keys", "extents", "next"}
      /\ e.next = d.next /\ e.keys = d.keys
      /\ e.extents = [d.extents EXCEPT ![l] = X]
  BY DEF DiskOK, WithExtents
<1>2. KeysOK(e)
  BY <1>1 DEF KeysOK, DiskOK
<1>3. ExtentsOK(e)
  BY <1>1 DEF ExtentsOK, DiskOK
<1> QED
  BY <1>1, <1>2, <1>3 DEF DiskOK

(* What a block does to the extents of its file: nothing if it is there,   *)
(* and else one of them grows to it or it becomes one.                     *)
LEMMA MapBlockCases ==
  ASSUME NEW d, NEW s, NEW behind \in BOOLEAN
  PROVE  \/ Covered(d, s.label, s.num) /\ MapBlock(d, s, behind) = d
         \/ /\ ~ Covered(d, s.label, s.num)
            /\ \E x \in d.extents[s.label] :
                 /\ x[2] = s.num - 1
                 /\ MapBlock(d, s, behind) =
                      WithExtents(d, s.label,
                        (d.extents[s.label] \
                           {y \in d.extents[s.label] : y[2] = s.num - 1})
                        \cup {<<x[1], s.num>>})
         \/ /\ ~ Covered(d, s.label, s.num)
            /\ MapBlock(d, s, behind) =
                 WithExtents(d, s.label,
                             d.extents[s.label] \cup {<<s.num, s.num>>})
<1> DEFINE l == s.label
           X == d.extents[l]
           before == {y \in X : y[2] = s.num - 1}
           x == CHOOSE y \in before : TRUE
           With(gone, y) == WithExtents(d, l, (X \ gone) \cup {y})
<1>1. MapBlock(d, s, behind) =
        CASE Covered(d, l, s.num) -> d
          [] ~ Covered(d, l, s.num) /\ behind /\ before # {} ->
               With(before, <<x[1], s.num>>)
          [] OTHER -> With({}, <<s.num, s.num>>)
  BY DEF MapBlock, WithExtents
<1>2. X \ {} = X
  OBVIOUS
<1>3. before # {} => x \in before
  OBVIOUS
<1> HIDE DEF x
<1> QED
  BY <1>1, <1>2, <1>3

LEMMA MapBlockOK ==
  ASSUME NEW d, DiskOK(d), NEW s \in Maps(d.next), NEW behind \in BOOLEAN
  PROVE  /\ DiskOK(MapBlock(d, s, behind))
         /\ MapBlock(d, s, behind).next = d.next
         /\ MapBlock(d, s, behind).keys = d.keys
<1> DEFINE l == s.label
           X == d.extents[l]
<1>1. /\ l \in Labels /\ l < d.next /\ s.num \in Nums
      /\ X \in SUBSET (Nums \X Nums)
  BY ConstantTypes DEF DiskOK, ExtentsOK, Maps, Labels
<1>2. \/ MapBlock(d, s, behind) = d
      \/ \E Y \in SUBSET (Nums \X Nums) :
            MapBlock(d, s, behind) = WithExtents(d, l, Y)
  <2>1. X \cup {<<s.num, s.num>>} \in SUBSET (Nums \X Nums)
    BY <1>1
  <2>2. \A x \in X :
           (X \ {y \in X : y[2] = s.num - 1}) \cup {<<x[1], s.num>>}
             \in SUBSET (Nums \X Nums)
    BY <1>1
  <2> QED
    BY <2>1, <2>2, MapBlockCases
<1>3. CASE MapBlock(d, s, behind) = d
  BY <1>3
<1>4. ASSUME NEW Y \in SUBSET (Nums \X Nums),
             MapBlock(d, s, behind) = WithExtents(d, l, Y)
      PROVE  /\ DiskOK(MapBlock(d, s, behind))
             /\ MapBlock(d, s, behind).next = d.next
             /\ MapBlock(d, s, behind).keys = d.keys
  <2>1. /\ DiskOK(WithExtents(d, l, Y))
        /\ WithExtents(d, l, Y).next = d.next
        /\ WithExtents(d, l, Y).keys = d.keys
    BY <1>1, ExtentsChange
  <2> QED
    BY <1>4, <2>1
<1> QED
  BY <1>2, <1>3, <1>4

(* What one pass of the loop of reduce_file does to the extents: it cuts   *)
(* one in two or takes it away.                                            *)
LEMMA ReduceExtentTypes ==
  ASSUME NEW d, DiskOK(d), NEW s \in Cuts, NEW x \in d.extents[s.label]
  PROVE  /\ x[1] \in Nums /\ x[2] \in Nums /\ s.new \in Nums
         /\ x[1] \in Int /\ x[2] \in Int /\ s.new \in Int
         /\ s.label \in Labels /\ s.label < d.next
         /\ d.extents[s.label] \in SUBSET (Nums \X Nums)
<1>1. /\ s.label \in Labels /\ s.new \in Nums
      /\ d.extents[s.label] \in SUBSET (Nums \X Nums)
      /\ s.label < d.next
  BY DEF DiskOK, ExtentsOK, Cuts
<1>2. /\ x[1] \in Nums /\ x[2] \in Nums
  BY <1>1
<1> QED
  BY <1>1, <1>2, ConstantTypes DEF Nums

LEMMA ReduceExtentPart ==
  ASSUME NEW d, DiskOK(d), NEW s \in Cuts, NEW x \in d.extents[s.label],
         x[1] < s.new
  PROVE  /\ ReduceExtent(d, s, x).d =
              WithExtents(d, s.label,
                (d.extents[s.label] \ {x}) \cup {<<x[1], s.new - 1>>})
         /\ ReduceExtent(d, s, x).rest = <<>>
<1> DEFINE X == d.extents[s.label]
<1>1. x[1] \in Int /\ s.new \in Int
  BY ReduceExtentTypes
<1>2. /\ (IF x[1] < s.new THEN s.new ELSE x[1]) = s.new
      /\ s.new > x[1] /\ ~ (s.new > s.new)
  BY <1>1
<1>3. /\ ReduceExtent(d, s, x).d =
           WithExtents(d, s.label, (X \ {x}) \cup
             (IF s.new > x[1] THEN {<<x[1], s.new - 1>>} ELSE {}))
      /\ ReduceExtent(d, s, x).rest =
           IF s.new > s.new THEN <<[s EXCEPT !.num = s.new]>> ELSE <<>>
  BY <1>2 DEF ReduceExtent, WithExtents
<1> QED
  BY <1>2, <1>3

LEMMA ReduceExtentWhole ==
  ASSUME NEW d, DiskOK(d), NEW s \in Cuts, NEW x \in d.extents[s.label],
         x[1] >= s.new
  PROVE  /\ ReduceExtent(d, s, x).d =
              WithExtents(d, s.label, d.extents[s.label] \ {x})
         /\ ReduceExtent(d, s, x).rest =
              IF x[1] > s.new THEN <<[s EXCEPT !.num = x[1]]>> ELSE <<>>
<1> DEFINE X == d.extents[s.label]
<1>1. x[1] \in Int /\ s.new \in Int
  BY ReduceExtentTypes
<1>2. /\ (IF x[1] < s.new THEN s.new ELSE x[1]) = x[1]
      /\ ~ (x[1] > x[1])
  BY <1>1
<1>3. /\ ReduceExtent(d, s, x).d =
           WithExtents(d, s.label, (X \ {x}) \cup
             (IF x[1] > x[1] THEN {<<x[1], x[1] - 1>>} ELSE {}))
      /\ ReduceExtent(d, s, x).rest =
           IF x[1] > s.new THEN <<[s EXCEPT !.num = x[1]]>> ELSE <<>>
  BY <1>2 DEF ReduceExtent, WithExtents
<1>4. (X \ {x}) \cup {} = X \ {x}
  OBVIOUS
<1> QED
  BY <1>2, <1>3, <1>4

LEMMA ReduceExtentOK ==
  ASSUME NEW d, DiskOK(d), NEW s \in Cuts, NEW x \in d.extents[s.label]
  PROVE  /\ DiskOK(ReduceExtent(d, s, x).d)
         /\ ReduceExtent(d, s, x).d.next = d.next
         /\ ReduceExtent(d, s, x).d.keys = d.keys
         /\ ReduceExtent(d, s, x).rest \in Seq(Cuts)
<1>1. /\ s.label \in Labels /\ s.label < d.next
      /\ d.extents[s.label] \in SUBSET (Nums \X Nums)
      /\ x[1] \in Nums /\ s.new \in Nums
  BY ReduceExtentTypes
<1>2. <<>> \in Seq(Cuts) /\ <<[s EXCEPT !.num = x[1]]>> \in Seq(Cuts)
  BY <1>1, ConstantTypes DEF Cuts
<1>3. ReduceExtent(d, s, x).rest \in Seq(Cuts)
  <2>1. CASE x[1] < s.new
    BY <1>2, <2>1, ReduceExtentPart
  <2>2. CASE x[1] >= s.new
    BY <1>2, <2>2, ReduceExtentWhole
  <2> QED
    BY <2>1, <2>2, ReduceExtentTypes
<1>4. \E Y \in SUBSET (Nums \X Nums) :
         ReduceExtent(d, s, x).d = WithExtents(d, s.label, Y)
  <2>1. CASE x[1] < s.new
    <3>1. s.new - 1 \in Nums
      BY <1>1, <2>1, ConstantTypes DEF Nums
    <3>2. (d.extents[s.label] \ {x}) \cup {<<x[1], s.new - 1>>}
             \in SUBSET (Nums \X Nums)
      BY <1>1, <3>1
    <3>3. ReduceExtent(d, s, x).d =
            WithExtents(d, s.label,
              (d.extents[s.label] \ {x}) \cup {<<x[1], s.new - 1>>})
      BY <2>1, ReduceExtentPart
    <3> QED
      BY <3>2, <3>3
  <2>2. CASE x[1] >= s.new
    <3>1. d.extents[s.label] \ {x} \in SUBSET (Nums \X Nums)
      BY <1>1
    <3>2. ReduceExtent(d, s, x).d =
            WithExtents(d, s.label, d.extents[s.label] \ {x})
      BY <2>2, ReduceExtentWhole
    <3> QED
      BY <3>1, <3>2
  <2> QED
    BY <2>1, <2>2, ReduceExtentTypes
<1>5. PICK Y \in SUBSET (Nums \X Nums) :
         ReduceExtent(d, s, x).d = WithExtents(d, s.label, Y)
  BY <1>4
<1>6. /\ DiskOK(WithExtents(d, s.label, Y))
      /\ WithExtents(d, s.label, Y).next = d.next
      /\ WithExtents(d, s.label, Y).keys = d.keys
  BY <1>1, ExtentsChange
<1> QED
  BY <1>3, <1>5, <1>6

LEMMA StepOK == ASSUME TypeInv, Step PROVE TypeInv'
<1> DEFINE s == Head(todo)
           n == disk.next
<1>1. todo # <<>> /\ todo \in Seq(Changes(n)) /\ DiskOK(disk)
      /\ HandlesOK(handles, n) /\ crashes \in 0 .. MaxCrashes
  BY DEF Step, TypeInv
<1>2. s \in Changes(n) /\ Tail(todo) \in Seq(Changes(n))
  BY <1>1, HeadTailProperties
<1>3. UNCHANGED <<handles, crashes>>
  BY DEF Step
<1> SUFFICES DiskOK(disk') /\ disk'.next = n /\ todo' \in Seq(Changes(n))
  BY <1>1, <1>3 DEF TypeInv
<1>4. CASE s.op \in {"add", "delete"} /\ todo' = Tail(todo)
           /\ disk' = IF s.op = "add" THEN AddKey(disk, s)
                      ELSE DeleteKey(disk, s)
  <2>1. CASE s.op = "add"
    <3>1. s \in Adds(n)
      BY <1>2, <2>1 DEF Changes, Deletes, Cuts, Maps
    <3> QED
      BY <1>1, <1>2, <1>4, <2>1, <3>1, AddKeyOK
  <2>2. CASE s.op # "add"
    BY <1>1, <1>2, <1>4, <2>2, DeleteKeyOK
  <2> QED
    BY <2>1, <2>2
<1>5. CASE s.op = "map" /\ todo' = Tail(todo)
           /\ \E behind \in BOOLEAN : disk' = MapBlock(disk, s, behind)
  <2>1. s \in Maps(n)
    BY <1>2, <1>5 DEF Changes, Deletes, Cuts, Adds
  <2> QED
    BY <1>1, <1>2, <1>5, <2>1, MapBlockOK
<1>6. CASE s.op = "reduce" /\ Reduce(s)
  <2>1. s \in Cuts
    BY <1>2, <1>6 DEF Changes, Deletes, Maps, Adds
  <2>2. CASE UNCHANGED <<disk, todo>>
    BY <1>1, <2>2
  <2>3. ASSUME NEW x \in Floor(disk, s.label, s.num - 1),
               disk' = ReduceExtent(disk, s, x).d,
               todo' = ReduceExtent(disk, s, x).rest \o Tail(todo)
        PROVE  DiskOK(disk') /\ disk'.next = n /\ todo' \in Seq(Changes(n))
    <3>1. x \in disk.extents[s.label]
      BY DEF Floor
    <3>2. DiskOK(disk') /\ disk'.next = n
      BY <1>1, <2>1, <2>3, <3>1, ReduceExtentOK
    <3>3. ReduceExtent(disk, s, x).rest \in Seq(Cuts) /\ Cuts \subseteq Changes(n)
      BY <1>1, <2>1, <3>1, ReduceExtentOK DEF Changes
    <3>4. ReduceExtent(disk, s, x).rest \in Seq(Changes(n))
      BY <3>3, SeqMonotonic
    <3>5. todo' \in Seq(Changes(n))
      BY <1>2, <2>3, <3>4, ConcatProperties
    <3> QED
      BY <3>2, <3>5
  <2> QED
    BY <1>6, <2>2, <2>3 DEF Reduce
<1> QED
  BY <1>4, <1>5, <1>6 DEF Step

-----------------------------------------------------------------------------
(* The calls.                                                              *)

(* A call that begins leaves the disk alone or gives out labels.           *)
LEMMA BeginOK ==
  ASSUME TypeInv, NEW changes, NEW n \in 1 .. MaxLabel + 1, disk.next <= n,
         disk' = disk \/ disk' = [disk EXCEPT !.next = n],
         n = disk.next \/ disk' = [disk EXCEPT !.next = n],
         HandlesOK(handles', n), changes \in Seq(Changes(n)), Begin(changes)
  PROVE  TypeInv'
<1>1. DiskOK(disk') /\ disk'.next = n
  BY LabelGivenOut DEF TypeInv
<1> QED
  BY <1>1 DEF Begin, TypeInv

LEMMA NewHandleOK ==
  ASSUME NEW n \in 1 .. MaxLabel + 1, HandlesOK(handles, n),
         NEW l \in 0 .. n - 1, NEW size \in 0 .. MaxNum + 1,
         NewHandle(l, size)
  PROVE  HandlesOK(handles', n)
<1>1. [label |-> l, size |-> size, modified |-> FALSE] \in
         [label : 0 .. n - 1, size : 0 .. MaxNum + 1, modified : BOOLEAN]
  OBVIOUS
<1>2. PICK h \in Free : handles' = [handles EXCEPT ![h] =
                          [label |-> l, size |-> size, modified |-> FALSE]]
  BY DEF NewHandle
<1> QED
  BY <1>1, <1>2 DEF HandlesOK

LEMMA CreateOK ==
  ASSUME TypeInv, NEW p \in Paths, Create(p[1], p[2]) PROVE TypeInv'
<1> DEFINE l == disk.next
           n == l + 1
           a == <<Attr(l, "C", 0), Attr(l, "S", 0)>>
           b == CreateLink(p[1], p[2], l, "K_FILE", 0)
<1>1. l \in 1 .. MaxLabel + 1 /\ l <= MaxLabel /\ l <= n
      /\ n \in 1 .. MaxLabel + 1 /\ l \in 0 .. n - 1 /\ l \in 1 .. n - 1
      /\ disk' = [disk EXCEPT !.next = n]
  BY ConstantTypes DEF Create, TypeInv, DiskOK
<1>2. p[1] \in 0 .. n - 1 /\ p[2] \in Names
  BY <1>1, PathFacts DEF TypeInv
<1>3. a \in Seq(Changes(n))
  BY <1>1, AttrChange, ConstantTypes
<1>4. b \in Seq(Changes(n))
  BY <1>1, <1>2, CreateLinkChanges
<1>5. a \o b \in Seq(Changes(n))
  BY <1>3, <1>4, ConcatProperties
<1>6. HandlesOK(handles, n)
  BY <1>1, HandlesGrow DEF TypeInv
<1>7. HandlesOK(handles', n)
  BY <1>1, <1>6, NewHandleOK, ConstantTypes DEF Create
<1>8. Begin(a \o b)
  BY DEF Create
<1> QED
  BY <1>1, <1>5, <1>7, <1>8, BeginOK

LEMMA MkdirOK == ASSUME TypeInv, NEW m \in Names, Mkdir(m) PROVE TypeInv'
<1> DEFINE l == disk.next
           n == l + 2
           a == <<Attr(l, "C", 0), Attr(l, "D", l + 1)>>
           b == CreateLink(0, m, l, "K_DIRECTORY", 0)
<1>1. l \in 1 .. MaxLabel + 1 /\ l <= n
      /\ n \in 1 .. MaxLabel + 1 /\ l \in 0 .. n - 1 /\ l \in 1 .. n - 1
      /\ l + 1 \in 1 .. n - 1 /\ l + 1 \in Nat /\ 0 \in 0 .. n - 1
      /\ disk' = [disk EXCEPT !.next = n] /\ handles' = handles
  BY ConstantTypes DEF Mkdir, TypeInv, DiskOK
<1>2. a \in Seq(Changes(n))
  BY <1>1, AttrChange, ConstantTypes
<1>3. b \in Seq(Changes(n))
  BY <1>1, CreateLinkChanges
<1>4. a \o b \in Seq(Changes(n))
  BY <1>2, <1>3, ConcatProperties
<1>5. HandlesOK(handles', n)
  BY <1>1, HandlesGrow DEF TypeInv
<1>6. Begin(a \o b)
  BY DEF Mkdir
<1> QED
  BY <1>1, <1>4, <1>5, <1>6, BeginOK

(* All other calls give out no label.                                      *)
LEMMA CallOK ==
  ASSUME TypeInv, NEW changes \in Seq(Changes(disk.next)),
         HandlesOK(handles', disk.next), UNCHANGED disk, Begin(changes)
  PROVE  TypeInv'
<1>1. disk.next \in 1 .. MaxLabel + 1 /\ disk.next <= disk.next
  BY ConstantTypes DEF TypeInv, DiskOK
<1> QED
  BY <1>1, BeginOK

LEMMA RmdirOK == ASSUME TypeInv, NEW m \in Names, Rmdir(m) PROVE TypeInv'
<1>1. DiskOK(disk) /\ Has(0, m) /\ 0 \in Labels
  BY ConstantTypes DEF Rmdir, IsDir, TypeInv
<1>2. Count(Get(0, m)) \in Nat
  BY <1>1, CountType
<1>3. DeleteLink(0, m, Count(Get(0, m))) \in Seq(Changes(disk.next))
  BY <1>1, <1>2, DeleteLinkChanges
<1> QED
  BY <1>3, CallOK DEF Rmdir, TypeInv

LEMMA SizesType ==
  ASSUME DiskOK(disk), NEW l, NEW size \in Sizes(l)
  PROVE  size \in 0 .. MaxNum + 1
<1>1. CASE Has(l, "S")
  BY <1>1, KeyFacts, ConstantTypes DEF Sizes
<1>2. CASE ~ Has(l, "S")
  BY <1>2 DEF Sizes
<1> QED
  BY <1>1, <1>2

LEMMA OpenFileOK ==
  ASSUME TypeInv, NEW p \in Paths, OpenFile(p[1], p[2]) PROVE TypeInv'
<1> DEFINE l == Get(p[1], p[2])
<1>1. DiskOK(disk) /\ disk.next \in 1 .. MaxLabel + 1 /\ p[2] \in Names
      /\ Has(p[1], p[2])
  BY PathFacts DEF TypeInv, DiskOK, OpenFile, IsFile
<1>2. l \in 0 .. disk.next - 1
  BY <1>1, EntryFacts
<1>3. PICK size \in Sizes(l) : NewHandle(l, size)
  BY DEF OpenFile
<1>4. size \in 0 .. MaxNum + 1
  BY <1>1, SizesType
<1>5. HandlesOK(handles', disk.next)
  BY <1>1, <1>2, <1>3, <1>4, NewHandleOK DEF TypeInv
<1> QED
  BY <1>5 DEF OpenFile, TypeInv

LEMMA HandleFacts ==
  ASSUME TypeInv, NEW h \in Handles
  PROVE  /\ handles[h] \in [label : 0 .. disk.next - 1,
                            size : 0 .. MaxNum + 1, modified : BOOLEAN]
         /\ handles[h].label \in Labels
         /\ handles[h].size \in Nat
  BY ConstantTypes DEF TypeInv, HandlesOK, DiskOK, Labels

LEMMA ReadOK ==
  ASSUME TypeInv, NEW h \in Handles, NEW num \in Nums, Read(h, num)
  PROVE  TypeInv'
<1>1. Map(handles[h].label, num) \in Changes(disk.next)
  BY HandleFacts DEF Map, Maps, Changes
<1>2. <<Map(handles[h].label, num)>> \in Seq(Changes(disk.next))
  BY <1>1
<1> QED
  BY <1>2, CallOK DEF Read, TypeInv

LEMMA WriteOK ==
  ASSUME TypeInv, NEW h \in Handles, NEW num \in Nums, Write(h, num)
  PROVE  TypeInv'
<1>1. (IF num < handles[h].size THEN handles[h].size ELSE num + 1)
         \in 0 .. MaxNum + 1
  BY HandleFacts, ConstantTypes DEF Nums
<1>2. HandlesOK(handles', disk.next)
  BY <1>1, HandleFacts DEF Write, HandlesOK, TypeInv
<1>3. Map(handles[h].label, num) \in Changes(disk.next)
  BY HandleFacts DEF Map, Maps, Changes
<1>4. <<Map(handles[h].label, num)>> \in Seq(Changes(disk.next))
  BY <1>3
<1> QED
  BY <1>2, <1>4, CallOK DEF Write

LEMMA FtruncateOK ==
  ASSUME TypeInv, NEW h \in Handles, NEW new \in Nums, Ftruncate(h, new)
  PROVE  TypeInv'
<1>1. new \in 0 .. MaxNum + 1
  BY ConstantTypes DEF Nums
<1>2. HandlesOK(handles', disk.next)
  BY <1>1, HandleFacts DEF Ftruncate, HandlesOK, TypeInv
<1>3. ReduceFile(handles[h].label, handles[h].size, new)
         \in Seq(Changes(disk.next))
  BY HandleFacts, ReduceFileChanges
<1> QED
  BY <1>2, <1>3, CallOK DEF Ftruncate

LEMMA ReleaseOK ==
  ASSUME TypeInv, NEW h \in Handles, Release(h) PROVE TypeInv'
<1>1. disk.next \in 1 .. MaxLabel + 1
  BY DEF TypeInv, DiskOK
<1>2. Closed \in [label : 0 .. disk.next - 1, size : 0 .. MaxNum + 1,
                  modified : BOOLEAN]
  BY <1>1, ConstantTypes DEF Closed
<1>3. HandlesOK(handles', disk.next)
  BY <1>2 DEF Release, HandlesOK, TypeInv
<1>4. FlushHandle(handles[h]) \in Seq(Changes(disk.next))
  BY <1>1, HandleFacts, FlushHandleChanges
<1> QED
  BY <1>3, <1>4, CallOK DEF Release

LEMMA TruncateOK ==
  ASSUME TypeInv, NEW p \in Paths, NEW new \in Nums,
         Truncate(p[1], p[2], new)
  PROVE  TypeInv'
<1> DEFINE l == Get(p[1], p[2])
           fh == [label |-> l, size |-> new, modified |-> TRUE]
<1>1. DiskOK(disk) /\ disk.next \in 1 .. MaxLabel + 1 /\ p[2] \in Names
      /\ Has(p[1], p[2])
  BY PathFacts DEF TypeInv, DiskOK, Truncate, IsFile
<1>2. l \in 0 .. disk.next - 1 /\ l \in Labels
  BY <1>1, EntryFacts
<1>3. PICK size \in Sizes(l) :
         Begin(ReduceFile(l, size, new) \o FlushHandle(fh))
  BY DEF Truncate
<1>4. size \in Nat
  BY <1>1, SizesType, ConstantTypes
<1>5. ReduceFile(l, size, new) \in Seq(Changes(disk.next))
  BY <1>2, <1>4, ReduceFileChanges
<1>6. fh \in [label : 0 .. disk.next - 1, size : 0 .. MaxNum + 1,
              modified : BOOLEAN]
  BY <1>2, ConstantTypes DEF Nums
<1>7. FlushHandle(fh) \in Seq(Changes(disk.next))
  BY <1>1, <1>6, FlushHandleChanges
<1>8. ReduceFile(l, size, new) \o FlushHandle(fh) \in Seq(Changes(disk.next))
  BY <1>5, <1>7, ConcatProperties
<1> QED
  BY <1>3, <1>8, CallOK DEF Truncate, TypeInv

LEMMA LinkOK ==
  ASSUME TypeInv, NEW p \in Paths, NEW q \in Paths, Link(p, q) PROVE TypeInv'
<1> DEFINE l == Get(p[1], p[2])
<1>1. DiskOK(disk) /\ disk.next \in 1 .. MaxLabel + 1 /\ p[2] \in Names
      /\ Has(p[1], p[2]) /\ q[1] \in 0 .. disk.next - 1 /\ q[2] \in Names
  BY PathFacts DEF TypeInv, DiskOK, Link, IsFile
<1>2. l \in 1 .. disk.next - 1 /\ Count(l) \in Nat
  BY <1>1, EntryFacts, CountType
<1>3. CreateLink(q[1], q[2], l, "K_FILE", Count(l)) \in Seq(Changes(disk.next))
  BY <1>1, <1>2, CreateLinkChanges
<1> QED
  BY <1>3, CallOK DEF Link, TypeInv

LEMMA UnlinkOK ==
  ASSUME TypeInv, NEW p \in Paths, Unlink(p[1], p[2]) PROVE TypeInv'
<1>1. DiskOK(disk) /\ Has(p[1], p[2]) /\ p[1] \in Labels /\ p[2] \in Names
  BY PathFacts DEF Unlink, IsFile, TypeInv
<1>2. Count(Get(p[1], p[2])) \in Nat
  BY <1>1, CountType
<1>3. DeleteLink(p[1], p[2], Count(Get(p[1], p[2]))) \in Seq(Changes(disk.next))
  BY <1>1, <1>2, DeleteLinkChanges
<1> QED
  BY <1>3, CallOK DEF Unlink, TypeInv

LEMMA RenameOK ==
  ASSUME TypeInv, NEW p \in Paths, NEW q \in Paths, Rename(p, q)
  PROVE  TypeInv'
<1> DEFINE l == Get(p[1], p[2])
           a == CreateLink(q[1], q[2], l, TypeOf(p[1], p[2]), Count(l))
           b == DeleteLink(p[1], p[2], Count(l) + 1)
<1>1. DiskOK(disk) /\ disk.next \in 1 .. MaxLabel + 1
      /\ p[1] \in Labels /\ p[2] \in Names /\ Has(p[1], p[2])
      /\ q[1] \in 0 .. disk.next - 1 /\ q[2] \in Names
  BY PathFacts DEF TypeInv, DiskOK, Rename
<1>2. /\ l \in 1 .. disk.next - 1 /\ Count(l) \in Nat /\ Count(l) + 1 \in Nat
      /\ TypeOf(p[1], p[2]) \in {"K_FILE", "K_DIRECTORY"}
  BY <1>1, EntryFacts, CountType
<1>3. a \in Seq(Changes(disk.next))
  BY <1>1, <1>2, CreateLinkChanges
<1>4. b \in Seq(Changes(disk.next))
  BY <1>1, <1>2, DeleteLinkChanges
<1>5. a \o b \in Seq(Changes(disk.next))
  BY <1>3, <1>4, ConcatProperties
<1>6. Begin(a \o b) /\ UNCHANGED <<disk, handles>>
  BY DEF Rename
<1> QED
  BY <1>5, <1>6, CallOK DEF TypeInv

LEMMA UtimensOK ==
  ASSUME TypeInv, NEW p \in Paths, Utimens(p[1], p[2]) PROVE TypeInv'
<1> DEFINE l == Get(p[1], p[2])
<1>1. DiskOK(disk) /\ disk.next \in 1 .. MaxLabel + 1 /\ p[2] \in Names
      /\ Has(p[1], p[2])
  BY PathFacts DEF TypeInv, DiskOK, Utimens, IsFile
<1>2. l \in 0 .. disk.next - 1
  BY <1>1, EntryFacts
<1>3. <<Attr(l, "A", 0), Attr(l, "M", 0)>> \in Seq(Changes(disk.next))
  BY <1>1, <1>2, AttrChange, ConstantTypes
<1> QED
  BY <1>3, CallOK DEF Utimens, TypeInv

LEMMA CrashOK == ASSUME TypeInv, Crash PROVE TypeInv'
<1>1. /\ DiskOK(disk) /\ disk' = disk /\ todo' = <<>>
      /\ handles' = [h \in Handles |-> Closed]
      /\ disk.next \in 1 .. MaxLabel + 1
  BY DEF Crash, TypeInv, DiskOK
<1>2. HandlesOK(handles', disk.next)
  BY <1>1, ConstantTypes DEF HandlesOK, Closed
<1>3. <<>> \in Seq(Changes(disk.next))
  BY EmptySeq
<1>4. crashes' \in 0 .. MaxCrashes
  BY ConstantTypes DEF Crash, TypeInv
<1> QED
  BY <1>1, <1>2, <1>3, <1>4 DEF TypeInv

-----------------------------------------------------------------------------
(* Theorems.                                                               *)

LEMMA InitTyped == Init => TypeInv
<1> SUFFICES ASSUME Init PROVE TypeInv
  OBVIOUS
<1>1. DiskOK(disk) /\ disk.next = 1
  <2>1. /\ DOMAIN disk = {"keys", "extents", "next"} /\ disk.next = 1
        /\ disk.keys = <<>> /\ disk.extents = [l \in Labels |-> {}]
    BY DEF Init, Blank
  <2>2. DOMAIN disk.keys = {}
    BY <2>1
  <2>3. KeysOK(disk) /\ ExtentsOK(disk)
    BY <2>1, <2>2 DEF KeysOK, ExtentsOK
  <2> QED
    BY <2>1, <2>3, ConstantTypes DEF DiskOK
<1>2. HandlesOK(handles, 1)
  BY ConstantTypes DEF Init, HandlesOK, Closed
<1>3. todo \in Seq(Changes(1))
  BY EmptySeq DEF Init
<1> QED
  BY <1>1, <1>2, <1>3, ConstantTypes DEF TypeInv, Init

LEMMA NextTyped == TypeInv /\ [Next]_vars => TypeInv'
<1> SUFFICES ASSUME TypeInv, [Next]_vars PROVE TypeInv'
  OBVIOUS
<1>1. CASE Call
  <2>1. ASSUME NEW p \in Paths, NEW q \in Paths, NEW new \in Nums,
               \/ Create(p[1], p[2]) \/ OpenFile(p[1], p[2])
               \/ Unlink(p[1], p[2]) \/ Utimens(p[1], p[2])
               \/ Truncate(p[1], p[2], new) \/ Link(p, q) \/ Rename(p, q)
        PROVE  TypeInv'
    BY <2>1, CreateOK, OpenFileOK, UnlinkOK, UtimensOK, TruncateOK, LinkOK,
       RenameOK
  <2>2. ASSUME NEW m \in Names, Mkdir(m) \/ Rmdir(m) PROVE TypeInv'
    BY <2>2, MkdirOK, RmdirOK
  <2>3. ASSUME NEW h \in Handles, NEW num \in Nums,
               Release(h) \/ Read(h, num) \/ Write(h, num) \/ Ftruncate(h, num)
        PROVE  TypeInv'
    BY <2>3, ReleaseOK, ReadOK, WriteOK, FtruncateOK
  <2>4. 0 \in Nums
    BY ConstantTypes
  <2> QED
    BY <1>1, <2>1, <2>2, <2>3, <2>4 DEF Call
<1>2. CASE Step
  BY <1>2, StepOK
<1>3. CASE Crash
  BY <1>3, CrashOK
<1>4. CASE UNCHANGED vars
  BY <1>4 DEF vars, TypeInv
<1> QED
  BY <1>1, <1>2, <1>3, <1>4 DEF Next

(* The disk, the handles and the changes a call has still to make are well *)
(* formed in every reachable state, crashes or not (fs/file.c,             *)
(* fs/operations.c).                                                       *)
THEOREM FilesTyped == Spec => []TypeInv
<1> QED
  BY InitTyped, NextTyped, PTL DEF Spec

LEMMA TypeInvTypeOK == TypeInv => TypeOK
<1> SUFFICES ASSUME TypeInv PROVE TypeOK
  OBVIOUS
<1>1. DiskOK(disk) /\ disk.next \in 1 .. MaxLabel + 1 /\ ExtentsOK(disk)
  BY DEF TypeInv, DiskOK
<1>2. \A k \in DOMAIN disk.keys :
         /\ k[1] \in Labels /\ k[2] \in Names \cup Attributes
         /\ (disk.keys[k].type = "K_ATTRIBUTE") = (k[2] \in Attributes)
  BY <1>1 DEF DiskOK, KeysOK, KeyOK, AllNames
<1>3. handles \in [Handles -> [label : Labels, size : 0 .. MaxNum + 1,
                               modified : BOOLEAN]]
  <2>1. 0 .. disk.next - 1 \subseteq Labels
    BY <1>1, ConstantTypes DEF Labels
  <2> QED
    BY <2>1 DEF TypeInv, HandlesOK
<1> QED
  BY <1>1, <1>2, <1>3 DEF TypeInv, TypeOK, ExtentsOK

(* Keys, extents and handles have the types the code declares, and exactly *)
(* the attributes of a file are keys of type K_ATTRIBUTE.                  *)
THEOREM FilesTypeCorrect == Spec => []TypeOK
<1> QED
  BY FilesTyped, TypeInvTypeOK, PTL

LEMMA TypeInvFresh == TypeInv => FreshLabels
<1> SUFFICES ASSUME TypeInv PROVE FreshLabels
  OBVIOUS
<1>1. \A k \in DOMAIN disk.keys : KeyOK(k, disk.keys[k], disk.next)
  BY DEF TypeInv, DiskOK, KeysOK
<1>2. disk.next \in 1 .. MaxLabel + 1
  BY DEF TypeInv, DiskOK
<1>3. \A k \in DOMAIN disk.keys : k[1] < disk.next
  BY <1>1 DEF KeyOK
<1>4. \A k \in Entries(disk) : disk.keys[k].data < disk.next
  BY <1>1, <1>2, ConstantTypes DEF KeyOK, Entries
<1>5. \A l \in Labels : disk.extents[l] # {} => l < disk.next
  BY DEF TypeInv, DiskOK, ExtentsOK
<1> QED
  BY <1>3, <1>4, <1>5 DEF FreshLabels

(* No label that a key, a name or an extent uses is given out again by     *)
(* next_label (fs/tree.c), not even after a stop without unmounting.       *)
THEOREM LabelsAreFresh == Spec => []FreshLabels
<1> QED
  BY FilesTyped, TypeInvFresh, PTL

-----------------------------------------------------------------------------
(* Keys, apart from the disk they are on.                                  *)

Put(K, k, v) == [j \in DOMAIN K \cup {k} |-> IF j = k THEN v ELSE K[j]]
Drop(K, k) == [j \in DOMAIN K \ {k} |-> K[j]]

Apply(K, c) ==
  CASE c.op = "add" -> Put(K, <<c.label, c.name>>, c.key)
    [] c.op = "delete" -> Drop(K, <<c.label, c.name>>)
    [] OTHER -> K

EntriesOf(K) == {k \in DOMAIN K : K[k].type # "K_ATTRIBUTE"}
LinkedIn(K, l) == {k \in EntriesOf(K) : K[k].data = l}

(* A name leads to a file with a size or to a directory with a prefix.     *)
Needed(v) == <<v.data, IF v.type = "K_FILE" THEN "S" ELSE "D">>
Safe(K) == \A k \in EntriesOf(K) : Needed(K[k]) \in DOMAIN K

(* The changes t lead from K to M through keys without a dangling name.    *)
Leads(K, t, M) ==
  \E path :
    /\ path[0] = K /\ path[Len(t)] = M
    /\ \A i \in 1 .. Len(t) : path[i] = Apply(path[i - 1], t[i])
    /\ \A i \in 0 .. Len(t) : Safe(path[i])

CountIn(K, l) == IF <<l, "L">> \in DOMAIN K THEN K[<<l, "L">>].data ELSE 0

Prefix(K, p) == \E l \in Labels : /\ <<l, "D">> \in DOMAIN K
                                  /\ K[<<l, "D">>].data = p

(* Keys that form a tree of names: the count of links is right, attributes *)
(* belong to something with a name, a size to a file and a prefix to a     *)
(* directory, a directory has one name, in the root, a name is in the root *)
(* or in a directory, and a prefix is that of one directory.               *)
Counted(K) == \A l \in Labels : CountIn(K, l) = Cardinality(LinkedIn(K, l))

Owned(K) ==
  \A k \in DOMAIN K : k[2] \in Attributes => LinkedIn(K, k[1]) # {}

Matching(K) ==
  \A k \in DOMAIN K, e \in EntriesOf(K) :
    k[1] = K[e].data =>
      /\ k[2] = "S" => K[e].type = "K_FILE"
      /\ k[2] = "D" => K[e].type = "K_DIRECTORY"

DirsAlone(K) ==
  \A e \in EntriesOf(K) :
    K[e].type = "K_DIRECTORY" =>
      e[1] = 0 /\ \A f \in EntriesOf(K) : K[f].data = K[e].data => f = e

Placed(K) == \A e \in EntriesOf(K) : e[1] = 0 \/ Prefix(K, e[1])

PrefixesApart(K) ==
  \A k \in DOMAIN K :
    k[2] = "D" =>
      /\ LinkedIn(K, K[k].data) = {}
      /\ \A j \in DOMAIN K : j[2] = "D" /\ K[j].data = K[k].data => j = k

Tree(K) ==
  /\ Safe(K) /\ Counted(K) /\ Owned(K) /\ Matching(K) /\ DirsAlone(K)
  /\ Placed(K) /\ PrefixesApart(K)

Typed(K, next) == \A k \in DOMAIN K : KeyOK(k, K[k], next)

(* An open handle is that of a file with a name.                           *)
Held(K, hs) ==
  \A h \in Handles :
    IF hs[h].label = 0 THEN hs[h] = Closed
    ELSE \E e \in LinkedIn(K, hs[h].label) : K[e].type = "K_FILE"

-----------------------------------------------------------------------------
(* Paths from keys to keys.                                                *)

LEMMA LeadsEmpty == ASSUME NEW K, Safe(K) PROVE Leads(K, <<>>, K)
<1> DEFINE path == [i \in {0} |-> K]
<1>1. Len(<<>>) = 0
  BY EmptySeq
<1>2. path[0] = K
  OBVIOUS
<1> HIDE DEF path
<1> QED
  BY <1>1, <1>2 DEF Leads

LEMMA LeadsNowhere == ASSUME NEW K, NEW M, Leads(K, <<>>, M) PROVE M = K
<1>1. Len(<<>>) = 0
  BY EmptySeq
<1> QED
  BY <1>1 DEF Leads

LEMMA LeadsSafe ==
  ASSUME NEW S, NEW t \in Seq(S), NEW K, NEW M, Leads(K, t, M)
  PROVE  Safe(K)
<1>1. 0 \in 0 .. Len(t)
  BY LenProperties
<1> QED
  BY <1>1 DEF Leads

LEMMA LeadsOne ==
  ASSUME NEW K, NEW c, Safe(K), Safe(Apply(K, c))
  PROVE  Leads(K, <<c>>, Apply(K, c))
<1> DEFINE path == [i \in 0 .. 1 |-> IF i = 0 THEN K ELSE Apply(K, c)]
<1>1. Len(<<c>>) = 1 /\ <<c>>[1] = c
  OBVIOUS
<1>2. path[0] = K /\ path[1] = Apply(K, c)
  OBVIOUS
<1>3. \A i \in 1 .. 1 : i = 1
  OBVIOUS
<1>4. \A i \in 0 .. 1 : i = 0 \/ i = 1
  OBVIOUS
<1>5. 1 - 1 = 0
  OBVIOUS
<1> HIDE DEF path
<1>6. \A i \in 1 .. 1 : path[i] = Apply(path[i - 1], <<c>>[i])
  BY <1>1, <1>2, <1>3, <1>5
<1>7. \A i \in 0 .. 1 : Safe(path[i])
  BY <1>2, <1>4
<1> QED
  BY <1>1, <1>2, <1>6, <1>7 DEF Leads

LEMMA LeadsConcat ==
  ASSUME NEW S, NEW a \in Seq(S), NEW b \in Seq(S), NEW K, NEW L, NEW M,
         Leads(K, a, L), Leads(L, b, M)
  PROVE  Leads(K, a \o b, M)
<1>1. PICK p : /\ p[0] = K /\ p[Len(a)] = L
               /\ \A i \in 1 .. Len(a) : p[i] = Apply(p[i - 1], a[i])
               /\ \A i \in 0 .. Len(a) : Safe(p[i])
  BY DEF Leads
<1>2. PICK q : /\ q[0] = L /\ q[Len(b)] = M
               /\ \A i \in 1 .. Len(b) : q[i] = Apply(q[i - 1], b[i])
               /\ \A i \in 0 .. Len(b) : Safe(q[i])
  BY DEF Leads
<1> DEFINE m == Len(a)
           n == Len(b)
           path == [i \in 0 .. m + n |-> IF i <= m THEN p[i] ELSE q[i - m]]
<1>3. m \in Nat /\ n \in Nat /\ Len(a \o b) = m + n
  BY LenProperties, ConcatProperties
<1>4. path[0] = K
  BY <1>1, <1>3
<1>5. path[m + n] = M
  <2>1. CASE n = 0
    BY <1>1, <1>2, <1>3, <2>1
  <2>2. CASE n # 0
    BY <1>2, <1>3, <2>2
  <2> QED
    BY <2>1, <2>2
<1>6. ASSUME NEW i \in 1 .. m + n
      PROVE  path[i] = Apply(path[i - 1], (a \o b)[i])
  <2>0. (a \o b)[i] = IF i <= m THEN a[i] ELSE b[i - m]
    BY ConcatProperties
  <2>1. CASE i <= m
    <3>1. i \in 1 .. m /\ i \in 0 .. m + n /\ i - 1 \in 0 .. m + n
          /\ i - 1 <= m
      BY <1>3, <2>1
    <3>2. path[i] = p[i] /\ path[i - 1] = p[i - 1]
      BY <2>1, <3>1
    <3> HIDE DEF path
    <3> QED
      BY <1>1, <2>0, <2>1, <3>1, <3>2
  <2>2. CASE i = m + 1
    <3>1. 1 \in 1 .. n /\ i \in 0 .. m + n /\ i - 1 \in 0 .. m + n
          /\ ~ (i <= m) /\ i - m = 1 /\ i - 1 = m /\ 1 - 1 = 0
      BY <1>3, <2>2
    <3>2. path[i] = q[1] /\ path[i - 1] = q[0]
      BY <1>1, <1>2, <3>1
    <3>3. q[1] = Apply(q[0], b[1])
      BY <1>2, <3>1
    <3> HIDE DEF path
    <3> QED
      BY <2>0, <3>1, <3>2, <3>3
  <2>3. CASE i > m + 1
    <3>1. i - m \in 1 .. n /\ i \in 0 .. m + n /\ i - 1 \in 0 .. m + n
          /\ ~ (i <= m) /\ ~ (i - 1 <= m) /\ (i - 1) - m = (i - m) - 1
      BY <1>3, <2>3
    <3>2. path[i] = q[i - m] /\ path[i - 1] = q[(i - m) - 1]
      BY <3>1
    <3> HIDE DEF path
    <3> QED
      BY <1>2, <2>0, <3>1, <3>2
  <2> QED
    BY <1>3, <2>1, <2>2, <2>3
<1>7. ASSUME NEW i \in 0 .. m + n PROVE Safe(path[i])
  <2>1. CASE i <= m
    <3>1. i \in 0 .. m
      BY <1>3, <2>1
    <3> QED
      BY <1>1, <2>1, <3>1
  <2>2. CASE ~ (i <= m)
    <3>1. i - m \in 0 .. n
      BY <1>3, <2>2
    <3> QED
      BY <1>2, <2>2, <3>1
  <2> QED
    BY <2>1, <2>2
<1> HIDE DEF path
<1> QED
  BY <1>3, <1>4, <1>5, <1>6, <1>7 DEF Leads

LEMMA LeadsStep ==
  ASSUME NEW S, NEW t \in Seq(S), t # <<>>, NEW K, NEW M, Leads(K, t, M)
  PROVE  Leads(Apply(K, Head(t)), Tail(t), M)
<1>1. PICK p : /\ p[0] = K /\ p[Len(t)] = M
               /\ \A i \in 1 .. Len(t) : p[i] = Apply(p[i - 1], t[i])
               /\ \A i \in 0 .. Len(t) : Safe(p[i])
  BY DEF Leads
<1> DEFINE n == Len(t)
           u == Tail(t)
           path == [i \in 0 .. n - 1 |-> p[i + 1]]
<1>2. /\ n \in Nat \ {0} /\ Len(u) = n - 1
      /\ \A i \in 1 .. n - 1 : u[i] = t[i + 1]
  BY EmptySeq, LenProperties, HeadTailProperties
<1>3. Head(t) = t[1]
  OBVIOUS
<1>4. 1 \in 1 .. n /\ 1 - 1 = 0 /\ 0 \in 0 .. n - 1 /\ n - 1 \in 0 .. n - 1
      /\ 0 + 1 = 1 /\ (n - 1) + 1 = n
  BY <1>2
<1>5. p[1] = Apply(K, Head(t))
  BY <1>1, <1>3, <1>4
<1>6. path[0] = p[1] /\ path[n - 1] = M
  BY <1>1, <1>4
<1>7. ASSUME NEW i \in 1 .. n - 1 PROVE path[i] = Apply(path[i - 1], u[i])
  <2>1. i + 1 \in 1 .. n /\ i \in 0 .. n - 1 /\ i - 1 \in 0 .. n - 1
        /\ (i - 1) + 1 = i /\ (i + 1) - 1 = i
    BY <1>2
  <2>2. path[i] = p[i + 1] /\ path[i - 1] = p[i]
    BY <2>1
  <2>3. p[i + 1] = Apply(p[i], t[i + 1])
    BY <1>1, <2>1
  <2> QED
    BY <1>2, <2>2, <2>3
<1>8. ASSUME NEW i \in 0 .. n - 1 PROVE Safe(path[i])
  <2>1. i + 1 \in 0 .. n
    BY <1>2
  <2> QED
    BY <1>1, <2>1
<1> HIDE DEF path
<1> QED
  BY <1>2, <1>5, <1>6, <1>7, <1>8 DEF Leads

LEMMA LeadsFirst ==
  ASSUME NEW S, NEW t \in Seq(S), t # <<>>, NEW K, NEW M, Safe(K),
         Leads(Apply(K, Head(t)), Tail(t), M)
  PROVE  Leads(K, t, M)
<1> DEFINE n == Len(t)
           u == Tail(t)
<1>1. /\ n \in Nat \ {0} /\ Len(u) = n - 1
      /\ \A i \in 1 .. n - 1 : u[i] = t[i + 1]
  BY EmptySeq, LenProperties, HeadTailProperties
<1>2. Head(t) = t[1]
  OBVIOUS
<1>3. PICK p : /\ p[0] = Apply(K, t[1]) /\ p[n - 1] = M
               /\ \A i \in 1 .. n - 1 : p[i] = Apply(p[i - 1], u[i])
               /\ \A i \in 0 .. n - 1 : Safe(p[i])
  BY <1>1, <1>2 DEF Leads
<1> DEFINE path == [i \in 0 .. n |-> IF i = 0 THEN K ELSE p[i - 1]]
<1>4. path[0] = K /\ path[n] = M
  BY <1>1, <1>3
<1>5. ASSUME NEW i \in 1 .. n PROVE path[i] = Apply(path[i - 1], t[i])
  <2>1. CASE i = 1
    <3>1. path[1] = p[0] /\ path[0] = K /\ 1 - 1 = 0
      BY <1>1
    <3> HIDE DEF path
    <3> QED
      BY <1>3, <2>1, <3>1
  <2>2. CASE i # 1
    <3>1. i - 1 \in 1 .. n - 1 /\ (i - 1) + 1 = i /\ i - 1 # 0
          /\ i - 1 \in 0 .. n /\ i \in 0 .. n /\ i # 0
      BY <1>1, <2>2
    <3>2. path[i] = p[i - 1] /\ path[i - 1] = p[(i - 1) - 1]
      BY <3>1
    <3>3. p[i - 1] = Apply(p[(i - 1) - 1], u[i - 1]) /\ u[i - 1] = t[i]
      BY <1>1, <1>3, <3>1
    <3> HIDE DEF path
    <3> QED
      BY <3>2, <3>3
  <2> QED
    BY <2>1, <2>2
<1>6. ASSUME NEW i \in 0 .. n PROVE Safe(path[i])
  <2>1. i # 0 => i - 1 \in 0 .. n - 1
    BY <1>1
  <2> QED
    BY <1>3, <2>1
<1> HIDE DEF path
<1> QED
  BY <1>4, <1>5, <1>6 DEF Leads

LEMMA LeadsTwo ==
  ASSUME NEW K, NEW a, NEW b, Safe(K), Safe(Apply(K, a)),
         Safe(Apply(Apply(K, a), b))
  PROVE  Leads(K, <<a, b>>, Apply(Apply(K, a), b))
<1>1. Leads(Apply(K, a), <<b>>, Apply(Apply(K, a), b))
  BY LeadsOne
<1> DEFINE S == {a, b}
<1>2. <<a, b>> \in Seq(S) /\ <<a, b>> # <<>> /\ Head(<<a, b>>) = a
      /\ Tail(<<a, b>>) = <<b>>
  OBVIOUS
<1> QED
  BY <1>1, <1>2, LeadsFirst

(* A change of blocks, in place of another, leads from the same keys to    *)
(* the same keys.                                                          *)
LEMMA LeadsReplaced ==
  ASSUME NEW S, NEW t \in Seq(S), t # <<>>, NEW K, NEW M, Leads(K, t, M),
         NEW c \in S, Head(t).op \notin {"add", "delete"},
         c.op \notin {"add", "delete"}
  PROVE  Leads(K, <<c>> \o Tail(t), M)
<1>1. Apply(K, Head(t)) = K /\ Apply(K, c) = K
  BY DEF Apply
<1>2. Leads(K, Tail(t), M) /\ Safe(K) /\ Tail(t) \in Seq(S)
  BY <1>1, LeadsStep, LeadsSafe, HeadTailProperties
<1>3. Leads(K, <<c>>, K) /\ <<c>> \in Seq(S)
  BY <1>1, <1>2, LeadsOne
<1> QED
  BY <1>2, <1>3, LeadsConcat

-----------------------------------------------------------------------------
(* What one change of a key does to the names.                             *)

LEMMA PutFacts ==
  ASSUME NEW K, NEW k, NEW v
  PROVE  /\ \A j : j \in DOMAIN Put(K, k, v) <=> j \in DOMAIN K \/ j = k
         /\ Put(K, k, v)[k] = v
         /\ \A j \in DOMAIN K : j # k => Put(K, k, v)[j] = K[j]
  BY DEF Put

LEMMA DropFacts ==
  ASSUME NEW K, NEW k
  PROVE  /\ \A j : j \in DOMAIN Drop(K, k) <=> j \in DOMAIN K /\ j # k
         /\ \A j \in DOMAIN K : j # k => Drop(K, k)[j] = K[j]
  BY DEF Drop

LEMMA PutTyped ==
  ASSUME NEW K, NEW n, Typed(K, n), NEW k, NEW v, KeyOK(k, v, n)
  PROVE  Typed(Put(K, k, v), n)
  BY PutFacts DEF Typed

LEMMA DropTyped ==
  ASSUME NEW K, NEW n, Typed(K, n), NEW k
  PROVE  Typed(Drop(K, k), n)
  BY DropFacts DEF Typed

(* Names are in Names, attributes in Attributes.                           *)
LEMMA TypedFacts ==
  ASSUME NEW K, NEW n \in 1 .. MaxLabel + 1, Typed(K, n), NEW k \in DOMAIN K
  PROVE  /\ k = <<k[1], k[2]>> /\ k[1] \in Labels /\ k[1] < n
         /\ K[k].type \in Types /\ K[k].data \in Nat
         /\ k[2] \in Attributes <=> k \notin EntriesOf(K)
         /\ k[2] \in Attributes <=> K[k].type = "K_ATTRIBUTE"
         /\ k[2] \in Names <=> k \in EntriesOf(K)
         /\ k \in EntriesOf(K) \/ k[2] = "D" =>
              K[k].data \in 1 .. n - 1 /\ K[k].data \in Labels
         /\ k \in EntriesOf(K) => K[k].type \in {"K_FILE", "K_DIRECTORY"}
<1>1. KeyOK(k, K[k], n)
  BY DEF Typed
<1> QED
  BY <1>1, ConstantTypes DEF KeyOK, EntriesOf, AllNames, Types, Labels

LEMMA PutAttrEntries ==
  ASSUME NEW K, NEW k, NEW v, k \notin EntriesOf(K), v.type = "K_ATTRIBUTE"
  PROVE  /\ EntriesOf(Put(K, k, v)) = EntriesOf(K)
         /\ \A e \in EntriesOf(K) : Put(K, k, v)[e] = K[e]
         /\ \A l : LinkedIn(Put(K, k, v), l) = LinkedIn(K, l)
<1>1. /\ EntriesOf(Put(K, k, v)) = EntriesOf(K)
      /\ \A e \in EntriesOf(K) : Put(K, k, v)[e] = K[e]
  BY PutFacts DEF EntriesOf
<1> QED
  BY <1>1 DEF LinkedIn

LEMMA PutEntryEntries ==
  ASSUME NEW K, NEW k, NEW v, k \notin DOMAIN K, v.type # "K_ATTRIBUTE"
  PROVE  /\ \A e : e \in EntriesOf(Put(K, k, v)) <=> e \in EntriesOf(K) \/ e = k
         /\ \A e \in EntriesOf(K) : Put(K, k, v)[e] = K[e]
         /\ \A l, e : e \in LinkedIn(Put(K, k, v), l) <=>
                        e \in LinkedIn(K, l) \/ (e = k /\ l = v.data)
<1>1. /\ \A e : e \in EntriesOf(Put(K, k, v)) <=> e \in EntriesOf(K) \/ e = k
      /\ \A e \in EntriesOf(K) : Put(K, k, v)[e] = K[e]
      /\ Put(K, k, v)[k] = v
  BY PutFacts DEF EntriesOf
<1>2. k \notin EntriesOf(K)
  BY DEF EntriesOf
<1> QED
  BY <1>1, <1>2 DEF LinkedIn

LEMMA DropEntries ==
  ASSUME NEW K, NEW k
  PROVE  /\ \A e : e \in EntriesOf(Drop(K, k)) <=> e \in EntriesOf(K) /\ e # k
         /\ \A e \in EntriesOf(K) : e # k => Drop(K, k)[e] = K[e]
         /\ \A l, e : e \in LinkedIn(Drop(K, k), l) <=>
                        e \in LinkedIn(K, l) /\ e # k
<1>1. /\ \A e : e \in EntriesOf(Drop(K, k)) <=> e \in EntriesOf(K) /\ e # k
      /\ \A e \in EntriesOf(K) : e # k => Drop(K, k)[e] = K[e]
  BY DropFacts DEF EntriesOf
<1> QED
  BY <1>1 DEF LinkedIn

LEMMA SafePutAttr ==
  ASSUME NEW K, NEW k, NEW v, Safe(K), k \notin EntriesOf(K),
         v.type = "K_ATTRIBUTE"
  PROVE  Safe(Put(K, k, v))
  BY PutAttrEntries, PutFacts DEF Safe

LEMMA SafePutEntry ==
  ASSUME NEW K, NEW k, NEW v, Safe(K), k \notin DOMAIN K,
         v.type # "K_ATTRIBUTE", Needed(v) \in DOMAIN K
  PROVE  Safe(Put(K, k, v))
<1>1. \A e \in EntriesOf(K) : Needed(Put(K, k, v)[e]) \in DOMAIN K
  BY PutEntryEntries DEF Safe
<1>2. Needed(Put(K, k, v)[k]) \in DOMAIN K
  BY PutFacts
<1> QED
  BY <1>1, <1>2, PutEntryEntries, PutFacts DEF Safe

LEMMA SafeDrop ==
  ASSUME NEW K, NEW k, Safe(K),
         \A e \in EntriesOf(K) : e # k => Needed(K[e]) # k
  PROVE  Safe(Drop(K, k))
  BY DropEntries, DropFacts DEF Safe

LEMMA ApplyFacts ==
  /\ \A K, l, n, x : Apply(K, Attr(l, n, x)) =
                       Put(K, <<l, n>>, [type |-> "K_ATTRIBUTE", data |-> x])
  /\ \A K, l, n, t, x : Apply(K, Add(l, n, t, x)) =
                          Put(K, <<l, n>>, [type |-> t, data |-> x])
  /\ \A K, l, n : Apply(K, Del(l, n)) = Drop(K, <<l, n>>)
  /\ \A K, l, n, m : Apply(K, Cut(l, n, m)) = K
  /\ \A K, l, n : Apply(K, Map(l, n)) = K
  BY DEF Apply, Attr, Add, Del, Cut, Map

-----------------------------------------------------------------------------
(* A call changes the keys of one file or directory, its attributes and    *)
(* its names; whether the keys form a tree again depends on these.         *)

About(K, j) == IF j[2] \in Attributes THEN j[1] ELSE K[j].data

Elsewhere(K, M, l) ==
  /\ \A j \in DOMAIN K : About(K, j) # l => j \in DOMAIN M /\ M[j] = K[j]
  /\ \A j \in DOMAIN M : About(M, j) # l => j \in DOMAIN K /\ M[j] = K[j]

Local(M, l) ==
  /\ CountIn(M, l) = Cardinality(LinkedIn(M, l))
  /\ LinkedIn(M, l) = {} => \A a \in Attributes : <<l, a>> \notin DOMAIN M
  /\ \A e \in LinkedIn(M, l) :
       /\ e[1] = 0 \/ Prefix(M, e[1])
       /\ M[e].type = "K_FILE" =>
            <<l, "S">> \in DOMAIN M /\ <<l, "D">> \notin DOMAIN M
       /\ M[e].type = "K_DIRECTORY" =>
            /\ <<l, "D">> \in DOMAIN M /\ <<l, "S">> \notin DOMAIN M
            /\ e[1] = 0 /\ \A f \in LinkedIn(M, l) : f = e
  /\ <<l, "D">> \in DOMAIN M =>
       /\ LinkedIn(M, M[<<l, "D">>].data) = {}
       /\ \A j \in DOMAIN M :
            j[2] = "D" /\ M[j].data = M[<<l, "D">>].data => j = <<l, "D">>

(* Nothing is in a directory that goes.                                    *)
PrefixKept(K, M, l) ==
  <<l, "D">> \in DOMAIN K =>
    \/ <<l, "D">> \in DOMAIN M /\ M[<<l, "D">>].data = K[<<l, "D">>].data
    \/ \A e \in EntriesOf(M) : e[1] # K[<<l, "D">>].data

LEMMA AttrNames ==
  \A a \in {"A", "C", "D", "L", "M", "S"} : a \in Attributes
  BY DEF Attributes

LEMMA LinkedElsewhere ==
  ASSUME NEW K, NEW M, NEW l, NEW n \in 1 .. MaxLabel + 1,
         Typed(K, n), Typed(M, n), Elsewhere(K, M, l)
  PROVE  \A j : j # l => /\ LinkedIn(M, j) = LinkedIn(K, j)
                         /\ \A e \in LinkedIn(K, j) : M[e] = K[e]
<1> SUFFICES ASSUME NEW j, j # l
             PROVE  /\ LinkedIn(M, j) = LinkedIn(K, j)
                    /\ \A e \in LinkedIn(K, j) : M[e] = K[e]
  OBVIOUS
<1>1. ASSUME NEW e \in LinkedIn(K, j) PROVE e \in LinkedIn(M, j) /\ M[e] = K[e]
  <2>1. e \in DOMAIN K /\ K[e].type # "K_ATTRIBUTE" /\ K[e].data = j
    BY DEF LinkedIn, EntriesOf
  <2>2. e[2] \notin Attributes
    BY <2>1, TypedFacts
  <2>3. About(K, e) = j
    BY <2>1, <2>2 DEF About
  <2>4. e \in DOMAIN M /\ M[e] = K[e]
    BY <2>1, <2>3 DEF Elsewhere
  <2> QED
    BY <2>1, <2>4 DEF LinkedIn, EntriesOf
<1>2. ASSUME NEW e \in LinkedIn(M, j) PROVE e \in LinkedIn(K, j)
  <2>1. e \in DOMAIN M /\ M[e].type # "K_ATTRIBUTE" /\ M[e].data = j
    BY DEF LinkedIn, EntriesOf
  <2>2. e[2] \notin Attributes
    BY <2>1, TypedFacts
  <2>3. About(M, e) = j
    BY <2>1, <2>2 DEF About
  <2>4. e \in DOMAIN K /\ M[e] = K[e]
    BY <2>1, <2>3 DEF Elsewhere
  <2> QED
    BY <2>1, <2>4 DEF LinkedIn, EntriesOf
<1> QED
  BY <1>1, <1>2

LEMMA AttrsElsewhere ==
  ASSUME NEW K, NEW M, NEW l, Elsewhere(K, M, l)
  PROVE  \A j, a : j # l /\ a \in Attributes =>
           /\ <<j, a>> \in DOMAIN M <=> <<j, a>> \in DOMAIN K
           /\ <<j, a>> \in DOMAIN K => M[<<j, a>>] = K[<<j, a>>]
<1> SUFFICES ASSUME NEW j, NEW a, j # l, a \in Attributes
             PROVE  /\ <<j, a>> \in DOMAIN M <=> <<j, a>> \in DOMAIN K
                    /\ <<j, a>> \in DOMAIN K => M[<<j, a>>] = K[<<j, a>>]
  OBVIOUS
<1>1. <<j, a>>[1] = j /\ <<j, a>>[2] = a
  OBVIOUS
<1>2. About(K, <<j, a>>) = j /\ About(M, <<j, a>>) = j
  BY <1>1 DEF About
<1> QED
  BY <1>2 DEF Elsewhere

(* An entry is about l or is as it was.                                    *)
LEMMA EntryElsewhere ==
  ASSUME NEW K, NEW M, NEW l, NEW n \in 1 .. MaxLabel + 1,
         Typed(K, n), Typed(M, n), Elsewhere(K, M, l), NEW e \in EntriesOf(M)
  PROVE  e \in LinkedIn(M, l) \/ (e \in EntriesOf(K) /\ M[e] = K[e])
<1>1. e \in LinkedIn(M, M[e].data)
  BY DEF LinkedIn
<1>2. CASE M[e].data # l
  <2>1. e \in LinkedIn(K, M[e].data)
    BY <1>1, <1>2, LinkedElsewhere
  <2>2. M[e] = K[e]
    BY <1>2, <2>1, LinkedElsewhere
  <2> QED
    BY <2>1, <2>2 DEF LinkedIn
<1> QED
  BY <1>1, <1>2

LEMMA PrefixElsewhere ==
  ASSUME NEW K, NEW M, NEW l \in Labels, Elsewhere(K, M, l),
         PrefixKept(K, M, l), NEW e \in EntriesOf(M), Prefix(K, e[1])
  PROVE  Prefix(M, e[1])
<1>1. PICK j \in Labels : <<j, "D">> \in DOMAIN K /\ K[<<j, "D">>].data = e[1]
  BY DEF Prefix
<1>2. CASE j = l
  BY <1>1, <1>2 DEF PrefixKept, Prefix
<1>3. CASE j # l
  <2>1. <<j, "D">> \in DOMAIN M /\ M[<<j, "D">>] = K[<<j, "D">>]
    BY <1>1, <1>3, AttrsElsewhere, AttrNames
  <2> QED
    BY <1>1, <2>1 DEF Prefix
<1> QED
  BY <1>2, <1>3

LEMMA TreeAt ==
  ASSUME NEW K, NEW M, NEW l \in Labels, NEW n \in 1 .. MaxLabel + 1,
         Typed(K, n), Typed(M, n), Tree(K), Elsewhere(K, M, l), Local(M, l),
         PrefixKept(K, M, l), LinkedIn(M, l) = {} \/ ~ Prefix(K, l)
  PROVE  Tree(M)
<1>1. Safe(M)
  <2> SUFFICES ASSUME NEW e \in EntriesOf(M) PROVE Needed(M[e]) \in DOMAIN M
    BY DEF Safe
  <2>1. M[e].type \in {"K_FILE", "K_DIRECTORY"}
    BY TypedFacts DEF EntriesOf
  <2>2. CASE e \in LinkedIn(M, l)
    <3>1. M[e].data = l
      BY <2>2 DEF LinkedIn
    <3> QED
      BY <2>1, <2>2, <3>1 DEF Local, Needed
  <2>3. CASE e \in EntriesOf(K) /\ M[e] = K[e] /\ e \notin LinkedIn(M, l)
    <3>1. M[e].data # l
      BY <2>3 DEF LinkedIn
    <3>2. Needed(K[e]) \in DOMAIN K
      BY <2>3 DEF Tree, Safe
    <3> QED
      BY <2>3, <3>1, <3>2, AttrsElsewhere, AttrNames DEF Needed
  <2> QED
    BY <2>2, <2>3, EntryElsewhere
<1>2. Counted(M)
  <2> SUFFICES ASSUME NEW j \in Labels, j # l
               PROVE  CountIn(M, j) = Cardinality(LinkedIn(M, j))
    BY DEF Counted, Local
  <2>1. CountIn(M, j) = CountIn(K, j)
    BY AttrsElsewhere, AttrNames DEF CountIn
  <2>2. LinkedIn(M, j) = LinkedIn(K, j)
    BY LinkedElsewhere
  <2> QED
    BY <2>1, <2>2 DEF Tree, Counted
<1>3. Owned(M)
  <2> SUFFICES ASSUME NEW k \in DOMAIN M, k[2] \in Attributes
               PROVE  LinkedIn(M, k[1]) # {}
    BY DEF Owned
  <2>1. k = <<k[1], k[2]>>
    BY TypedFacts
  <2>2. CASE k[1] = l
    BY <2>1, <2>2 DEF Local
  <2>3. CASE k[1] # l
    <3>1. k \in DOMAIN K
      BY <2>1, <2>3, AttrsElsewhere
    <3>2. LinkedIn(K, k[1]) # {}
      BY <3>1 DEF Tree, Owned
    <3> QED
      BY <2>3, <3>2, LinkedElsewhere
  <2> QED
    BY <2>2, <2>3
<1>4. Matching(M)
  <2> SUFFICES ASSUME NEW k \in DOMAIN M, NEW e \in EntriesOf(M),
                      k[1] = M[e].data, k[2] = "S" \/ k[2] = "D"
               PROVE  /\ k[2] = "S" => M[e].type = "K_FILE"
                      /\ k[2] = "D" => M[e].type = "K_DIRECTORY"
    BY DEF Matching
  <2>1. k = <<k[1], k[2]>> /\ M[e].type \in {"K_FILE", "K_DIRECTORY"}
    BY TypedFacts DEF EntriesOf
  <2>2. CASE k[1] = l
    <3>1. e \in LinkedIn(M, l)
      BY <2>2 DEF LinkedIn
    <3> QED
      BY <2>1, <2>2, <3>1 DEF Local
  <2>3. CASE k[1] # l
    <3>1. k \in DOMAIN K /\ M[k] = K[k]
      BY <2>1, <2>3, AttrsElsewhere, AttrNames
    <3>2. e \in EntriesOf(K) /\ M[e] = K[e]
      BY <2>3, EntryElsewhere DEF LinkedIn
    <3> QED
      BY <3>1, <3>2 DEF Tree, Matching
  <2> QED
    BY <2>2, <2>3
<1>5. DirsAlone(M)
  <2> SUFFICES ASSUME NEW e \in EntriesOf(M), M[e].type = "K_DIRECTORY"
               PROVE  e[1] = 0 /\ \A f \in EntriesOf(M) :
                                     M[f].data = M[e].data => f = e
    BY DEF DirsAlone
  <2>1. CASE M[e].data = l
    <3>1. e \in LinkedIn(M, l)
      BY <2>1 DEF LinkedIn
    <3>2. \A f \in EntriesOf(M) : M[f].data = M[e].data => f \in LinkedIn(M, l)
      BY <2>1 DEF LinkedIn
    <3> QED
      BY <3>1, <3>2 DEF Local
  <2>2. CASE M[e].data # l
    <3>1. \A f \in EntriesOf(M) : M[f].data = M[e].data =>
             f \in EntriesOf(K) /\ M[f] = K[f]
      BY <2>2, EntryElsewhere DEF LinkedIn
    <3> QED
      BY <3>1 DEF Tree, DirsAlone
  <2> QED
    BY <2>1, <2>2
<1>6. Placed(M)
  <2> SUFFICES ASSUME NEW e \in EntriesOf(M), e[1] # 0 PROVE Prefix(M, e[1])
    BY DEF Placed
  <2>1. CASE e \in LinkedIn(M, l)
    BY <2>1 DEF Local
  <2>2. CASE e \in EntriesOf(K)
    <3>1. Prefix(K, e[1])
      BY <2>2 DEF Tree, Placed
    <3> QED
      BY <3>1, PrefixElsewhere
  <2> QED
    BY <2>1, <2>2, EntryElsewhere
<1>7. PrefixesApart(M)
  <2> SUFFICES ASSUME NEW k \in DOMAIN M, k[2] = "D"
               PROVE  /\ LinkedIn(M, M[k].data) = {}
                      /\ \A j \in DOMAIN M :
                           j[2] = "D" /\ M[j].data = M[k].data => j = k
    BY DEF PrefixesApart
  <2>1. k = <<k[1], "D">> /\ k[1] \in Labels
    BY TypedFacts
  <2>2. CASE k[1] = l
    BY <2>1, <2>2 DEF Local
  <2>3. CASE k[1] # l
    <3>1. k \in DOMAIN K /\ M[k] = K[k]
      BY <2>1, <2>3, AttrsElsewhere, AttrNames
    <3>2. Prefix(K, M[k].data)
      BY <2>1, <3>1 DEF Prefix
    <3>3. LinkedIn(M, M[k].data) = {}
      <4>1. CASE M[k].data = l
        BY <3>2, <4>1
      <4>2. CASE M[k].data # l
        <5>1. LinkedIn(K, M[k].data) = {}
          BY <3>1 DEF Tree, PrefixesApart
        <5> QED
          BY <4>2, <5>1, LinkedElsewhere
      <4> QED
        BY <4>1, <4>2
    <3>4. ASSUME NEW j \in DOMAIN M, j[2] = "D", M[j].data = M[k].data
          PROVE  j = k
      <4>1. j = <<j[1], "D">>
        BY <3>4, TypedFacts
      <4>2. CASE j[1] = l
        <5>1. j = <<l, "D">>
          BY <4>1, <4>2
        <5>2. k = <<l, "D">>
          BY <3>4, <5>1 DEF Local
        <5> QED
          BY <5>1, <5>2
      <4>3. CASE j[1] # l
        <5>1. j \in DOMAIN K /\ M[j] = K[j]
          BY <4>1, <4>3, AttrsElsewhere, AttrNames
        <5> QED
          BY <3>1, <3>4, <5>1 DEF Tree, PrefixesApart
      <4> QED
        BY <4>2, <4>3
    <3> QED
      BY <3>3, <3>4
  <2> QED
    BY <2>2, <2>3
<1> QED
  BY <1>1, <1>2, <1>3, <1>4, <1>5, <1>6, <1>7 DEF Tree

LEMMA HeldAt ==
  ASSUME NEW K, NEW M, NEW l, NEW n \in 1 .. MaxLabel + 1,
         Typed(K, n), Typed(M, n), Elsewhere(K, M, l), NEW hs, Held(K, hs),
         \A h \in Handles : hs[h].label = l /\ l # 0 =>
           \E e \in LinkedIn(M, l) : M[e].type = "K_FILE"
  PROVE  Held(M, hs)
<1> SUFFICES ASSUME NEW h \in Handles, hs[h].label # 0
             PROVE  \E e \in LinkedIn(M, hs[h].label) : M[e].type = "K_FILE"
  BY DEF Held
<1>1. CASE hs[h].label = l
  BY <1>1
<1>2. CASE hs[h].label # l
  <2>1. PICK e \in LinkedIn(K, hs[h].label) : K[e].type = "K_FILE"
    BY DEF Held
  <2>2. e \in LinkedIn(M, hs[h].label) /\ M[e] = K[e]
    BY <1>2, LinkedElsewhere
  <2> QED
    BY <2>1, <2>2
<1> QED
  BY <1>1, <1>2

-----------------------------------------------------------------------------
(* What a tree says of one file or directory.                              *)

LEMMA LinkedFinite ==
  ASSUME NEW K, NEW n \in 1 .. MaxLabel + 1, Typed(K, n), NEW l
  PROVE  IsFiniteSet(LinkedIn(K, l))
<1>1. IsFiniteSet(Labels) /\ IsFiniteSet(Names)
  BY ConstantTypes, FS_Interval, FilesAssumption DEF Labels
<1>2. IsFiniteSet(Labels \X Names)
  BY <1>1, FS_Product
<1>3. LinkedIn(K, l) \subseteq Labels \X Names
  BY TypedFacts DEF LinkedIn, EntriesOf
<1> QED
  BY <1>2, <1>3, FS_Subset

LEMMA NodeFacts ==
  ASSUME NEW K, NEW n \in 1 .. MaxLabel + 1, Typed(K, n), Tree(K),
         NEW l, NEW e \in LinkedIn(K, l)
  PROVE  /\ l \in 1 .. n - 1 /\ l \in Labels
         /\ e \in EntriesOf(K) /\ K[e].data = l /\ e \in DOMAIN K
         /\ K[e].type \in {"K_FILE", "K_DIRECTORY"}
         /\ ~ Prefix(K, l)
         /\ K[e].type = "K_FILE" =>
              /\ <<l, "S">> \in DOMAIN K /\ <<l, "D">> \notin DOMAIN K
              /\ \A f \in LinkedIn(K, l) : K[f].type = "K_FILE"
         /\ K[e].type = "K_DIRECTORY" =>
              /\ <<l, "D">> \in DOMAIN K /\ <<l, "S">> \notin DOMAIN K
              /\ e[1] = 0 /\ LinkedIn(K, l) = {e}
         /\ CountIn(K, l) = Cardinality(LinkedIn(K, l))
         /\ CountIn(K, l) \in Nat \ {0}
<1>1. e \in EntriesOf(K) /\ K[e].data = l /\ e \in DOMAIN K
  BY DEF LinkedIn, EntriesOf
<1>2. /\ l \in 1 .. n - 1 /\ l \in Labels
      /\ K[e].type \in {"K_FILE", "K_DIRECTORY"}
  BY <1>1, TypedFacts
<1>3. ~ Prefix(K, l)
  <2> SUFFICES ASSUME NEW j \in Labels, <<j, "D">> \in DOMAIN K,
                      K[<<j, "D">>].data = l
               PROVE  FALSE
    BY DEF Prefix
  <2>1. <<j, "D">>[2] = "D"
    OBVIOUS
  <2>2. LinkedIn(K, l) = {}
    BY <2>1 DEF Tree, PrefixesApart
  <2> QED
    BY <2>2
<1>4. Needed(K[e]) \in DOMAIN K
  BY <1>1 DEF Tree, Safe
<1>5. /\ <<l, "D">> \in DOMAIN K => K[e].type = "K_DIRECTORY"
      /\ <<l, "S">> \in DOMAIN K =>
           \A f \in LinkedIn(K, l) : K[f].type = "K_FILE"
  <2>1. <<l, "D">>[1] = l /\ <<l, "D">>[2] = "D"
        /\ <<l, "S">>[1] = l /\ <<l, "S">>[2] = "S"
    OBVIOUS
  <2> QED
    BY <1>1, <2>1 DEF Tree, Matching, LinkedIn
<1>6. K[e].type = "K_DIRECTORY" => e[1] = 0 /\ LinkedIn(K, l) = {e}
  BY <1>1 DEF Tree, DirsAlone, LinkedIn
<1>7. CountIn(K, l) = Cardinality(LinkedIn(K, l))
  BY <1>2 DEF Tree, Counted
<1>8. CountIn(K, l) \in Nat \ {0}
  BY <1>7, LinkedFinite, FS_CardinalityType, FS_EmptySet
<1> QED
  BY <1>1, <1>2, <1>3, <1>4, <1>5, <1>6, <1>7, <1>8 DEF Needed

AttrKey(x) == [type |-> "K_ATTRIBUTE", data |-> x]
EntryKey(type, l) == [type |-> type, data |-> l]

LEMMA AttrKeyOK ==
  ASSUME NEW n \in 1 .. MaxLabel + 1, NEW l \in 0 .. n - 1, l \in Labels,
         NEW a \in Attributes, NEW x \in Nat,
         a = "D" => x \in 1 .. n - 1, a = "S" => x <= MaxNum + 1
  PROVE  KeyOK(<<l, a>>, AttrKey(x), n)
  BY ConstantTypes DEF KeyOK, AttrKey, AllNames, Types

LEMMA EntryKeyOK ==
  ASSUME NEW n \in 1 .. MaxLabel + 1, NEW d \in Labels, d < n,
         NEW m \in Names, NEW l \in 1 .. n - 1,
         NEW type \in {"K_FILE", "K_DIRECTORY"}
  PROVE  KeyOK(<<d, m>>, EntryKey(type, l), n)
<1>1. m \notin Attributes /\ m # "S" /\ m # "D"
  BY ConstantTypes DEF Attributes
<1>2. l \in Nat
  BY ConstantTypes
<1> QED
  BY <1>1, <1>2 DEF KeyOK, EntryKey, AllNames, Types

SetTo(K, n, l, a, x) ==
  \E M :
    /\ Typed(M, n) /\ Tree(M) /\ Elsewhere(K, M, l)
    /\ \A j : LinkedIn(M, j) = LinkedIn(K, j)
    /\ \A f \in EntriesOf(K) : M[f] = K[f]
    /\ <<l, a>> \in DOMAIN M /\ M[<<l, a>>] = AttrKey(x)
    /\ \A c \in Attributes :
         c # a => /\ <<l, c>> \in DOMAIN M <=> <<l, c>> \in DOMAIN K
                  /\ <<l, c>> \in DOMAIN K => M[<<l, c>>] = K[<<l, c>>]
    /\ Leads(K, <<Attr(l, a, x)>>, M)

(* An attribute of something with a name is set.                           *)
LEMMA SetAttr ==
  ASSUME NEW K, NEW n \in 1 .. MaxLabel + 1, Typed(K, n), Tree(K),
         NEW l, NEW e \in LinkedIn(K, l),
         NEW a \in {"A", "C", "M", "S"}, NEW x \in Nat,
         a = "S" => K[e].type = "K_FILE" /\ x <= MaxNum + 1
  PROVE  SetTo(K, n, l, a, x)
<1> PICK M : M = Put(K, <<l, a>>, AttrKey(x))
  OBVIOUS
<1> DEFINE k == <<l, a>>
<1>0. /\ k[1] = l /\ k[2] = a /\ a \in Attributes /\ AttrKey(x).type = "K_ATTRIBUTE"
      /\ a # "D" /\ a # "L"
  BY AttrNames DEF AttrKey
<1>1. l \in 0 .. n - 1 /\ l \in Labels
  <2>1. l \in 1 .. n - 1 /\ l \in Labels
    BY NodeFacts
  <2> QED
    BY <2>1
<1>2. KeyOK(k, AttrKey(x), n)
  BY <1>0, <1>1, AttrKeyOK
<1>3. Typed(M, n)
  BY <1>2, PutTyped
<1>4. k \notin EntriesOf(K)
  BY <1>0, TypedFacts DEF EntriesOf
<1>5. /\ EntriesOf(M) = EntriesOf(K)
      /\ \A f \in EntriesOf(K) : M[f] = K[f]
      /\ \A j : LinkedIn(M, j) = LinkedIn(K, j)
  BY <1>0, <1>4, PutAttrEntries
<1>6. /\ \A j : j \in DOMAIN M <=> j \in DOMAIN K \/ j = k
      /\ \A j \in DOMAIN K : j # k => M[j] = K[j]
      /\ M[k] = AttrKey(x)
  BY PutFacts
<1>7. Elsewhere(K, M, l)
  BY <1>0, <1>6 DEF Elsewhere, About
<1>8. /\ \A b \in {"D", "L"} :
           <<l, b>> # k /\ (<<l, b>> \in DOMAIN M <=> <<l, b>> \in DOMAIN K)
           /\ (<<l, b>> \in DOMAIN K => M[<<l, b>>] = K[<<l, b>>])
  BY <1>0, <1>6
<1>9. CountIn(M, l) = CountIn(K, l)
  BY <1>8 DEF CountIn
<1>10. /\ <<l, "D">> \in DOMAIN M <=> <<l, "D">> \in DOMAIN K
       /\ <<l, "D">> \in DOMAIN K => M[<<l, "D">>] = K[<<l, "D">>]
  BY <1>8
<1>11. \A p : Prefix(K, p) => Prefix(M, p)
  BY <1>0, <1>6 DEF Prefix
<1>12. Local(M, l)
  <2>1. CountIn(M, l) = Cardinality(LinkedIn(M, l)) /\ LinkedIn(M, l) # {}
    BY <1>5, <1>9, NodeFacts
  <2>2. ASSUME NEW f \in LinkedIn(M, l)
        PROVE  /\ f[1] = 0 \/ Prefix(M, f[1])
               /\ M[f].type = "K_FILE" =>
                    <<l, "S">> \in DOMAIN M /\ <<l, "D">> \notin DOMAIN M
               /\ M[f].type = "K_DIRECTORY" =>
                    /\ <<l, "D">> \in DOMAIN M /\ <<l, "S">> \notin DOMAIN M
                    /\ f[1] = 0 /\ \A g \in LinkedIn(M, l) : g = f
    <3>1. f \in LinkedIn(K, l) /\ M[f] = K[f] /\ f \in EntriesOf(K)
      BY <1>5 DEF LinkedIn
    <3>2. f[1] = 0 \/ Prefix(M, f[1])
      BY <3>1, <1>11 DEF Tree, Placed
    <3>3. CASE K[f].type = "K_FILE"
      <4>1. <<l, "S">> \in DOMAIN K /\ <<l, "D">> \notin DOMAIN K
        BY <3>1, <3>3, NodeFacts
      <4> QED
        BY <1>6, <1>10, <3>1, <3>2, <3>3, <4>1
    <3>4. CASE K[f].type = "K_DIRECTORY"
      <4>1. /\ <<l, "D">> \in DOMAIN K /\ <<l, "S">> \notin DOMAIN K
            /\ f[1] = 0 /\ LinkedIn(K, l) = {f}
        BY <3>1, <3>4, NodeFacts
      <4>2. a # "S"
        BY <3>4, <4>1
      <4> QED
        BY <1>5, <1>6, <1>10, <3>1, <3>4, <4>1, <4>2
    <3> QED
      BY <3>1, <3>3, <3>4, NodeFacts
  <2>3. ASSUME <<l, "D">> \in DOMAIN M
        PROVE  /\ LinkedIn(M, M[<<l, "D">>].data) = {}
               /\ \A j \in DOMAIN M :
                    j[2] = "D" /\ M[j].data = M[<<l, "D">>].data => j = <<l, "D">>
    <3>1. <<l, "D">>[2] = "D" /\ <<l, "D">> \in DOMAIN K
      BY <1>10, <2>3
    <3>2. /\ LinkedIn(K, K[<<l, "D">>].data) = {}
          /\ \A j \in DOMAIN K :
               j[2] = "D" /\ K[j].data = K[<<l, "D">>].data => j = <<l, "D">>
      BY <3>1 DEF Tree, PrefixesApart
    <3> QED
      BY <1>0, <1>5, <1>6, <1>10, <3>1, <3>2
  <2> QED
    BY <2>1, <2>2, <2>3 DEF Local
<1>13. PrefixKept(K, M, l)
  BY <1>10 DEF PrefixKept
<1>14. Tree(M)
  BY <1>1, <1>3, <1>7, <1>12, <1>13, TreeAt, NodeFacts
<1>15. Leads(K, <<Attr(l, a, x)>>, M)
  <2>1. Apply(K, Attr(l, a, x)) = M
    BY ApplyFacts DEF AttrKey
  <2>2. Safe(K) /\ Safe(M)
    BY <1>14 DEF Tree
  <2> QED
    BY <2>1, <2>2, LeadsOne
<1>16. \A c \in Attributes : c # a => <<l, c>> # k
  OBVIOUS
<1> HIDE DEF k
<1> QED
  BY <1>3, <1>5, <1>6, <1>7, <1>14, <1>15, <1>16 DEF SetTo, k

(* The names of a file or directory change, and their count, but nothing   *)
(* else about it.                                                          *)
LEMMA TreeRelinked ==
  ASSUME NEW K, NEW M, NEW n \in 1 .. MaxLabel + 1, Typed(K, n), Typed(M, n),
         Tree(K), NEW l, NEW e \in LinkedIn(K, l), Elsewhere(K, M, l),
         \A a \in Attributes : a # "L" =>
           /\ <<l, a>> \in DOMAIN M <=> <<l, a>> \in DOMAIN K
           /\ <<l, a>> \in DOMAIN K => M[<<l, a>>] = K[<<l, a>>],
         CountIn(M, l) = Cardinality(LinkedIn(M, l)),
         LinkedIn(M, l) # {},
         \A f \in LinkedIn(M, l) :
           /\ M[f].type = K[e].type
           /\ f[1] = 0 \/ Prefix(K, f[1])
           /\ K[e].type = "K_DIRECTORY" =>
                f[1] = 0 /\ \A g \in LinkedIn(M, l) : g = f
  PROVE  Tree(M)
<1>1. /\ l \in Labels /\ ~ Prefix(K, l)
      /\ K[e].type \in {"K_FILE", "K_DIRECTORY"}
      /\ K[e].type = "K_FILE" =>
           <<l, "S">> \in DOMAIN K /\ <<l, "D">> \notin DOMAIN K
      /\ K[e].type = "K_DIRECTORY" =>
           <<l, "D">> \in DOMAIN K /\ <<l, "S">> \notin DOMAIN K
  BY NodeFacts
<1>2. /\ <<l, "D">> \in DOMAIN M <=> <<l, "D">> \in DOMAIN K
      /\ <<l, "S">> \in DOMAIN M <=> <<l, "S">> \in DOMAIN K
      /\ <<l, "D">> \in DOMAIN K => M[<<l, "D">>] = K[<<l, "D">>]
  BY AttrNames
<1>3. PrefixKept(K, M, l)
  BY <1>2 DEF PrefixKept
<1>4. ASSUME NEW f \in LinkedIn(M, l)
      PROVE  f[1] = 0 \/ Prefix(M, f[1])
  <2>1. f \in EntriesOf(M)
    BY DEF LinkedIn
  <2> QED
    BY <1>1, <1>3, <2>1, PrefixElsewhere
<1>5. ASSUME <<l, "D">> \in DOMAIN M
      PROVE  /\ LinkedIn(M, M[<<l, "D">>].data) = {}
             /\ \A j \in DOMAIN M :
                  j[2] = "D" /\ M[j].data = M[<<l, "D">>].data => j = <<l, "D">>
  <2>1. /\ <<l, "D">>[2] = "D" /\ <<l, "D">> \in DOMAIN K
        /\ M[<<l, "D">>] = K[<<l, "D">>]
    BY <1>2, <1>5
  <2>2. /\ LinkedIn(K, K[<<l, "D">>].data) = {}
        /\ \A j \in DOMAIN K :
             j[2] = "D" /\ K[j].data = K[<<l, "D">>].data => j = <<l, "D">>
    BY <2>1 DEF Tree, PrefixesApart
  <2>3. K[<<l, "D">>].data # l
    BY <2>2
  <2>4. LinkedIn(M, M[<<l, "D">>].data) = {}
    BY <2>1, <2>2, <2>3, LinkedElsewhere
  <2>5. ASSUME NEW j \in DOMAIN M, j[2] = "D", M[j].data = M[<<l, "D">>].data
        PROVE  j = <<l, "D">>
    <3>1. j = <<j[1], "D">>
      BY <2>5, TypedFacts
    <3>2. CASE j[1] = l
      BY <3>1, <3>2
    <3>3. CASE j[1] # l
      <4>1. j \in DOMAIN K /\ M[j] = K[j]
        BY <3>1, <3>3, AttrsElsewhere, AttrNames
      <4> QED
        BY <2>1, <2>2, <2>5, <4>1
    <3> QED
      BY <3>2, <3>3
  <2> QED
    BY <2>4, <2>5
<1>6. Local(M, l)
  BY <1>1, <1>2, <1>4, <1>5 DEF Local
<1> QED
  BY <1>1, <1>3, <1>6, TreeAt

(* CreateLink: a name is added to a file.                                  *)
LEMMA AddLink ==
  ASSUME NEW K, NEW n \in 1 .. MaxLabel + 1, Typed(K, n), Tree(K),
         NEW l, NEW e \in LinkedIn(K, l), K[e].type = "K_FILE",
         NEW d \in Labels, d < n, NEW m \in Names, <<d, m>> \notin DOMAIN K,
         d = 0 \/ Prefix(K, d)
  PROVE  \E M :
           /\ Typed(M, n) /\ Tree(M) /\ Elsewhere(K, M, l)
           /\ LinkedIn(M, l) # {}
           /\ \A f \in LinkedIn(M, l) : M[f].type = "K_FILE"
           /\ <<l, "S">> \in DOMAIN K /\ <<l, "S">> \in DOMAIN M
           /\ M[<<l, "S">>] = K[<<l, "S">>]
           /\ Leads(K, CreateLink(d, m, l, "K_FILE", CountIn(K, l)), M)
<1> PICK P : P = Put(K, <<d, m>>, EntryKey("K_FILE", l))
  OBVIOUS
<1> PICK M : M = Put(P, <<l, "L">>, AttrKey(CountIn(K, l) + 1))
  OBVIOUS
<1> DEFINE q == <<d, m>>
           k == <<l, "L">>
           v == EntryKey("K_FILE", l)
           c == CountIn(K, l)
<1>0. /\ k[1] = l /\ k[2] = "L" /\ q[1] = d /\ q[2] = m /\ q # k
      /\ m \notin Attributes /\ v.type = "K_FILE" /\ v.data = l
      /\ AttrKey(c + 1).type = "K_ATTRIBUTE" /\ AttrKey(c + 1).data = c + 1
  BY AttrNames, ConstantTypes DEF AttrKey, EntryKey
<1>1. /\ l \in 1 .. n - 1 /\ l \in Labels /\ c \in Nat \ {0}
      /\ c = Cardinality(LinkedIn(K, l))
      /\ <<l, "S">> \in DOMAIN K
      /\ \A f \in LinkedIn(K, l) : K[f].type = "K_FILE"
  BY NodeFacts
<1>2. l \in 0 .. n - 1 /\ c + 1 \in Nat
  BY <1>1
<1>3. Typed(P, n) /\ Typed(M, n)
  <2>1. KeyOK(q, v, n)
    BY <1>1, EntryKeyOK
  <2>2. KeyOK(k, AttrKey(c + 1), n)
    BY <1>1, <1>2, AttrKeyOK, AttrNames
  <2> QED
    BY <2>1, <2>2, PutTyped
<1>4. /\ \A j : j \in DOMAIN P <=> j \in DOMAIN K \/ j = q
      /\ \A j \in DOMAIN K : j # q => P[j] = K[j]
      /\ P[q] = v
  BY PutFacts
<1>5. /\ \A j : j \in DOMAIN M <=> j \in DOMAIN P \/ j = k
      /\ \A j \in DOMAIN P : j # k => M[j] = P[j]
      /\ M[k] = AttrKey(c + 1)
  BY PutFacts
<1>6. /\ \A j : j \in DOMAIN M <=> j \in DOMAIN K \/ j = q \/ j = k
      /\ \A j \in DOMAIN K : j # k => M[j] = K[j]
      /\ M[q] = v
  BY <1>0, <1>4, <1>5
<1>7. Elsewhere(K, M, l)
  <2>1. About(K, k) = l /\ About(M, k) = l /\ About(M, q) = l
    BY <1>0, <1>6, AttrNames DEF About
  <2> QED
    BY <1>6, <2>1 DEF Elsewhere
<1>8. k \notin EntriesOf(K) /\ k \notin EntriesOf(P)
  BY <1>0, <1>3, TypedFacts, AttrNames DEF EntriesOf
<1>9. \A f : f \in LinkedIn(M, l) <=> f \in LinkedIn(K, l) \/ f = q
  <2>1. \A f : f \in LinkedIn(P, l) <=> f \in LinkedIn(K, l) \/ f = q
    BY <1>0, PutEntryEntries
  <2>2. LinkedIn(M, l) = LinkedIn(P, l)
    BY <1>0, <1>8, PutAttrEntries
  <2> QED
    BY <2>1, <2>2
<1>10. \A f \in LinkedIn(M, l) : M[f].type = "K_FILE"
                                 /\ (f[1] = 0 \/ Prefix(K, f[1]))
  <2>1. \A f \in LinkedIn(K, l) : f \in EntriesOf(K) /\ f \in DOMAIN K /\ f # k
    BY <1>8 DEF LinkedIn, EntriesOf
  <2> QED
    BY <1>0, <1>1, <1>6, <1>9, <2>1 DEF Tree, Placed
<1>11. CountIn(M, l) = Cardinality(LinkedIn(M, l))
  <2>1. q \notin LinkedIn(K, l) /\ LinkedIn(M, l) = LinkedIn(K, l) \cup {q}
    BY <1>9 DEF LinkedIn, EntriesOf
  <2>2. Cardinality(LinkedIn(M, l)) = c + 1
    BY <1>1, <2>1, LinkedFinite, FS_AddElement
  <2> QED
    BY <1>0, <1>5, <2>2 DEF CountIn
<1>12. \A a \in Attributes : a # "L" =>
         /\ <<l, a>> # k /\ <<l, a>> # q
         /\ <<l, a>> \in DOMAIN M <=> <<l, a>> \in DOMAIN K
         /\ <<l, a>> \in DOMAIN K => M[<<l, a>>] = K[<<l, a>>]
  BY <1>0, <1>6
<1>13. Tree(M)
  BY <1>3, <1>7, <1>9, <1>10, <1>11, <1>12, TreeRelinked
<1>14. Leads(K, CreateLink(d, m, l, "K_FILE", c), M)
  <2>1. /\ Apply(K, Add(d, m, "K_FILE", l)) = P
        /\ Apply(P, Attr(l, "L", c + 1)) = M
    BY ApplyFacts DEF AttrKey, EntryKey
  <2>2. Needed(v) \in DOMAIN K
    BY <1>0, <1>1 DEF Needed
  <2>3. Safe(K) /\ Safe(P) /\ Safe(M)
    BY <1>0, <1>13, <2>2, SafePutEntry DEF Tree
  <2>4. Leads(K, <<Add(d, m, "K_FILE", l), Attr(l, "L", c + 1)>>, M)
    BY <2>1, <2>3, LeadsTwo
  <2> QED
    BY <2>4 DEF CreateLink
<1> QED
  BY <1>1, <1>3, <1>6, <1>7, <1>9, <1>10, <1>12, <1>13, <1>14, AttrNames

(* No name is needed by another.                                           *)
LEMMA SafeDropEntry ==
  ASSUME NEW K, Safe(K), NEW k, k[2] \notin Attributes
  PROVE  Safe(Drop(K, k))
<1>1. \A v : Needed(v)[2] \in Attributes
  BY AttrNames DEF Needed
<1> QED
  BY <1>1, SafeDrop

(* DeleteLink: a name goes from a file that has others.                    *)
LEMMA DropLink ==
  ASSUME NEW K, NEW n \in 1 .. MaxLabel + 1, Typed(K, n), Tree(K),
         NEW l, NEW d, NEW m, <<d, m>> \in LinkedIn(K, l), CountIn(K, l) > 1
  PROVE  \E M :
           /\ Typed(M, n) /\ Tree(M) /\ Elsewhere(K, M, l)
           /\ LinkedIn(M, l) # {}
           /\ \A f \in LinkedIn(M, l) : M[f].type = "K_FILE"
           /\ <<l, "S">> \in DOMAIN K /\ <<l, "S">> \in DOMAIN M
           /\ M[<<l, "S">>] = K[<<l, "S">>]
           /\ Leads(K, <<Del(d, m)>> \o <<Attr(l, "L", CountIn(K, l) - 1)>>, M)
<1> PICK P : P = Drop(K, <<d, m>>)
  OBVIOUS
<1> PICK M : M = Put(P, <<l, "L">>, AttrKey(CountIn(K, l) - 1))
  OBVIOUS
<1> DEFINE q == <<d, m>>
           k == <<l, "L">>
           c == CountIn(K, l)
<1>0. /\ k[1] = l /\ k[2] = "L" /\ q[2] = m
      /\ AttrKey(c - 1).type = "K_ATTRIBUTE" /\ AttrKey(c - 1).data = c - 1
  BY DEF AttrKey
<1>1. /\ l \in 1 .. n - 1 /\ l \in Labels /\ c \in Nat \ {0}
      /\ c = Cardinality(LinkedIn(K, l))
      /\ q \in EntriesOf(K) /\ q \in DOMAIN K /\ K[q].data = l
      /\ K[q].type \in {"K_FILE", "K_DIRECTORY"}
      /\ K[q].type = "K_DIRECTORY" => LinkedIn(K, l) = {q}
      /\ K[q].type = "K_FILE" =>
           /\ <<l, "S">> \in DOMAIN K
           /\ \A f \in LinkedIn(K, l) : K[f].type = "K_FILE"
  <2> HIDE DEF q, c
  <2>1. q \in LinkedIn(K, l)
    BY DEF q
  <2> QED
    BY <2>1, NodeFacts DEF c
<1>2. K[q].type = "K_FILE"
  <2>1. Cardinality({q}) = 1
    BY FS_Singleton
  <2>2. LinkedIn(K, l) = {q} => c = 1
    BY <1>1, <2>1
  <2> HIDE DEF c, q
  <2> QED
    BY <1>1, <2>2 DEF c
<1>3. l \in 0 .. n - 1 /\ c - 1 \in Nat
  BY <1>1
<1>4. m \notin Attributes /\ q # k
  BY <1>0, <1>1, TypedFacts, AttrNames
<1>5. Typed(P, n) /\ Typed(M, n)
  <2>1. KeyOK(k, AttrKey(c - 1), n)
    BY <1>1, <1>3, AttrKeyOK, AttrNames
  <2> QED
    BY <2>1, PutTyped, DropTyped
<1>6. /\ \A j : j \in DOMAIN P <=> j \in DOMAIN K /\ j # q
      /\ \A j \in DOMAIN K : j # q => P[j] = K[j]
  BY DropFacts
<1>7. /\ \A j : j \in DOMAIN M <=> j \in DOMAIN P \/ j = k
      /\ \A j \in DOMAIN P : j # k => M[j] = P[j]
      /\ M[k] = AttrKey(c - 1)
  BY PutFacts
<1>8. /\ \A j : j \in DOMAIN M <=> (j \in DOMAIN K /\ j # q) \/ j = k
      /\ \A j \in DOMAIN K : j # k /\ j # q => M[j] = K[j]
  BY <1>6, <1>7
<1>9. Elsewhere(K, M, l)
  <2>1. About(K, k) = l /\ About(M, k) = l /\ About(K, q) = l
    BY <1>0, <1>1, <1>4, AttrNames DEF About
  <2> QED
    BY <1>8, <2>1 DEF Elsewhere
<1>10. k \notin EntriesOf(K) /\ k \notin EntriesOf(P)
  BY <1>0, <1>5, TypedFacts, AttrNames DEF EntriesOf
<1>11. \A f : f \in LinkedIn(M, l) <=> f \in LinkedIn(K, l) /\ f # q
  <2>1. \A f : f \in LinkedIn(P, l) <=> f \in LinkedIn(K, l) /\ f # q
    BY DropEntries
  <2>2. LinkedIn(M, l) = LinkedIn(P, l)
    BY <1>0, <1>10, PutAttrEntries
  <2> QED
    BY <2>1, <2>2
<1>12. \A f \in LinkedIn(M, l) : M[f].type = "K_FILE"
                                 /\ (f[1] = 0 \/ Prefix(K, f[1]))
  <2>1. \A f \in LinkedIn(K, l) : f \in EntriesOf(K) /\ f \in DOMAIN K /\ f # k
    BY <1>10 DEF LinkedIn, EntriesOf
  <2> QED
    BY <1>1, <1>2, <1>8, <1>11, <2>1 DEF Tree, Placed
<1>13. Cardinality(LinkedIn(M, l)) = c - 1
  <2>1. LinkedIn(M, l) = LinkedIn(K, l) \ {q}
    BY <1>11
  <2> QED
    BY <1>1, <2>1, LinkedFinite, FS_RemoveElement
<1>14. CountIn(M, l) = Cardinality(LinkedIn(M, l))
  BY <1>0, <1>7, <1>13 DEF CountIn
<1>15. LinkedIn(M, l) # {}
  <2>1. Cardinality({}) = 0
    BY FS_EmptySet
  <2>2. c - 1 # 0
    BY <1>1
  <2> QED
    BY <1>13, <2>1, <2>2
<1>16. \A a \in Attributes : a # "L" =>
         /\ <<l, a>> # k /\ <<l, a>> # q
         /\ <<l, a>> \in DOMAIN M <=> <<l, a>> \in DOMAIN K
         /\ <<l, a>> \in DOMAIN K => M[<<l, a>>] = K[<<l, a>>]
  BY <1>4, <1>8
<1>17. Tree(M)
  BY <1>1, <1>2, <1>5, <1>9, <1>12, <1>14, <1>15, <1>16, TreeRelinked
<1>18. Leads(K, <<Del(d, m)>> \o <<Attr(l, "L", c - 1)>>, M)
  <2>1. Apply(K, Del(d, m)) = P /\ Apply(P, Attr(l, "L", c - 1)) = M
    BY ApplyFacts DEF AttrKey
  <2>2. Safe(K) /\ Safe(P) /\ Safe(M)
    BY <1>0, <1>4, <1>17, SafeDropEntry DEF Tree
  <2>3. Leads(K, <<Del(d, m)>>, P) /\ Leads(P, <<Attr(l, "L", c - 1)>>, M)
    BY <2>1, <2>2, LeadsOne
  <2> DEFINE S == {Del(d, m), Attr(l, "L", c - 1)}
  <2>4. <<Del(d, m)>> \in Seq(S) /\ <<Attr(l, "L", c - 1)>> \in Seq(S)
    OBVIOUS
  <2> HIDE DEF S
  <2> QED
    BY <2>3, <2>4, LeadsConcat
<1> QED
  BY <1>1, <1>2, <1>5, <1>8, <1>9, <1>12, <1>15, <1>16, <1>17, <1>18, AttrNames

(* DeleteFile: all attributes of something without a name.                 *)
AllDeleted(l) ==
  <<Del(l, "A"), Del(l, "C"), Del(l, "M"),
    Del(l, "D"), Del(l, "S"), Del(l, "L")>>

LEMMA DropAttr ==
  ASSUME NEW K, NEW l, Safe(K), LinkedIn(K, l) = {}, NEW a \in Attributes
  PROVE  /\ Safe(Drop(K, <<l, a>>))
         /\ LinkedIn(Drop(K, <<l, a>>), l) = {}
         /\ Apply(K, Del(l, a)) = Drop(K, <<l, a>>)
<1>1. <<l, a>>[1] = l
  OBVIOUS
<1>2. \A e \in EntriesOf(K) : Needed(K[e])[1] # l
  BY DEF Needed, LinkedIn
<1>3. Safe(Drop(K, <<l, a>>))
  BY <1>1, <1>2, SafeDrop
<1> QED
  BY <1>3, DropEntries, ApplyFacts

LEMMA LeadsAllDeleted ==
  ASSUME NEW K, NEW l, Safe(K), LinkedIn(K, l) = {}
  PROVE  \E M :
           /\ Leads(K, AllDeleted(l), M)
           /\ \A j : j \in DOMAIN M <=>
                       j \in DOMAIN K /\ \A a \in Attributes : j # <<l, a>>
           /\ \A j \in DOMAIN M : M[j] = K[j]
           /\ LinkedIn(M, l) = {}
<1> DEFINE K1 == Drop(K, <<l, "A">>)
           K2 == Drop(K1, <<l, "C">>)
           K3 == Drop(K2, <<l, "M">>)
           K4 == Drop(K3, <<l, "D">>)
           K5 == Drop(K4, <<l, "S">>)
           K6 == Drop(K5, <<l, "L">>)
           S == {Del(l, a) : a \in Attributes}
           t5 == <<Del(l, "L")>>
           t4 == <<Del(l, "S"), Del(l, "L")>>
           t3 == <<Del(l, "D"), Del(l, "S"), Del(l, "L")>>
           t2 == <<Del(l, "M"), Del(l, "D"), Del(l, "S"), Del(l, "L")>>
           t1 == <<Del(l, "C"), Del(l, "M"), Del(l, "D"), Del(l, "S"),
                   Del(l, "L")>>
           t0 == AllDeleted(l)
<1>0. \A a \in {"A", "C", "D", "L", "M", "S"} : Del(l, a) \in S
  BY AttrNames
<1>1. /\ Safe(K1) /\ LinkedIn(K1, l) = {} /\ Apply(K, Del(l, "A")) = K1
  BY DropAttr, AttrNames
<1>2. /\ Safe(K2) /\ LinkedIn(K2, l) = {} /\ Apply(K1, Del(l, "C")) = K2
  BY <1>1, DropAttr, AttrNames
<1>3. /\ Safe(K3) /\ LinkedIn(K3, l) = {} /\ Apply(K2, Del(l, "M")) = K3
  BY <1>2, DropAttr, AttrNames
<1>4. /\ Safe(K4) /\ LinkedIn(K4, l) = {} /\ Apply(K3, Del(l, "D")) = K4
  BY <1>3, DropAttr, AttrNames
<1>5. /\ Safe(K5) /\ LinkedIn(K5, l) = {} /\ Apply(K4, Del(l, "S")) = K5
  BY <1>4, DropAttr, AttrNames
<1>6. /\ Safe(K6) /\ LinkedIn(K6, l) = {} /\ Apply(K5, Del(l, "L")) = K6
  BY <1>5, DropAttr, AttrNames
<1>7. /\ \A j : j \in DOMAIN K6 <=>
                  j \in DOMAIN K /\ \A a \in Attributes : j # <<l, a>>
      /\ \A j \in DOMAIN K6 : K6[j] = K[j]
  <2>1. /\ \A j : j \in DOMAIN K3 <=>
                    /\ j \in DOMAIN K /\ j # <<l, "A">> /\ j # <<l, "C">>
                    /\ j # <<l, "M">>
        /\ \A j \in DOMAIN K3 : K3[j] = K[j]
    BY DropFacts
  <2>2. /\ \A j : j \in DOMAIN K6 <=>
                    /\ j \in DOMAIN K3 /\ j # <<l, "D">> /\ j # <<l, "S">>
                    /\ j # <<l, "L">>
        /\ \A j \in DOMAIN K6 : K6[j] = K3[j]
    BY DropFacts
  <2> HIDE DEF K3, K6
  <2> QED
    BY <2>1, <2>2 DEF Attributes
<1> HIDE DEF K1, K2, K3, K4, K5, K6
<1>8. /\ t0 \in Seq(S) /\ t0 # <<>> /\ Head(t0) = Del(l, "A") /\ Tail(t0) = t1
  BY <1>0 DEF AllDeleted
<1>9. /\ t1 \in Seq(S) /\ t1 # <<>> /\ Head(t1) = Del(l, "C") /\ Tail(t1) = t2
  BY <1>0
<1>10. /\ t2 \in Seq(S) /\ t2 # <<>> /\ Head(t2) = Del(l, "M") /\ Tail(t2) = t3
  BY <1>0
<1>11. /\ t3 \in Seq(S) /\ t3 # <<>> /\ Head(t3) = Del(l, "D") /\ Tail(t3) = t4
  BY <1>0
<1>12. /\ t4 \in Seq(S) /\ t4 # <<>> /\ Head(t4) = Del(l, "S") /\ Tail(t4) = t5
  BY <1>0
<1>13. Leads(K5, t5, K6)
  BY <1>5, <1>6, LeadsOne
<1> HIDE DEF S, t0, t1, t2, t3, t4, t5
<1>14. Leads(K4, t4, K6)
  BY <1>4, <1>5, <1>12, <1>13, LeadsFirst
<1>15. Leads(K3, t3, K6)
  BY <1>3, <1>4, <1>11, <1>14, LeadsFirst
<1>16. Leads(K2, t2, K6)
  BY <1>2, <1>3, <1>10, <1>15, LeadsFirst
<1>17. Leads(K1, t1, K6)
  BY <1>1, <1>2, <1>9, <1>16, LeadsFirst
<1>18. Leads(K, t0, K6)
  BY <1>1, <1>8, <1>17, LeadsFirst
<1> QED
  BY <1>6, <1>7, <1>18 DEF t0

(* DeleteLink: a file or an empty directory goes with its last name.       *)
LEMMA DropNode ==
  ASSUME NEW K, NEW n \in 1 .. MaxLabel + 1, Typed(K, n), Tree(K),
         NEW l, NEW d, NEW m, LinkedIn(K, l) = {<<d, m>>},
         <<l, "D">> \in DOMAIN K =>
           \A e \in EntriesOf(K) : e[1] # K[<<l, "D">>].data,
         NEW S, NEW cut \in Seq(S), \A L : Safe(L) => Leads(L, cut, L),
         Del(d, m) \in S, \A a \in Attributes : Del(l, a) \in S
  PROVE  \E M :
           /\ Typed(M, n) /\ Tree(M) /\ Elsewhere(K, M, l)
           /\ LinkedIn(M, l) = {}
           /\ \A a \in Attributes : <<l, a>> \notin DOMAIN M
           /\ Leads(K, <<Del(d, m)>> \o (cut \o AllDeleted(l)), M)
<1> DEFINE q == <<d, m>>
           P == Drop(K, q)
<1>1. /\ l \in Labels /\ q \in EntriesOf(K) /\ q \in DOMAIN K /\ K[q].data = l
  BY NodeFacts
<1>2. q[2] \notin Attributes /\ q[2] = m
  BY <1>1, TypedFacts
<1>3. /\ \A j : j \in DOMAIN P <=> j \in DOMAIN K /\ j # q
      /\ \A j \in DOMAIN K : j # q => P[j] = K[j]
  BY DropFacts
<1>4. Safe(K) /\ Safe(P) /\ LinkedIn(P, l) = {}
  BY <1>2, SafeDropEntry, DropEntries, SMTT(30) DEF Tree
<1>5. Apply(K, Del(d, m)) = P
  BY ApplyFacts
<1> HIDE DEF P
<1>6. PICK M : /\ Leads(P, AllDeleted(l), M)
               /\ \A j : j \in DOMAIN M <=>
                           j \in DOMAIN P /\ \A a \in Attributes : j # <<l, a>>
               /\ \A j \in DOMAIN M : M[j] = P[j]
               /\ LinkedIn(M, l) = {}
  BY <1>4, LeadsAllDeleted
<1>7. /\ \A j : j \in DOMAIN M <=>
                  /\ j \in DOMAIN K /\ j # q
                  /\ \A a \in Attributes : j # <<l, a>>
      /\ \A j \in DOMAIN M : M[j] = K[j]
  BY <1>3, <1>6
<1>8. Typed(M, n)
  BY <1>7 DEF Typed
<1>9. \A a \in Attributes : <<l, a>> \notin DOMAIN M
  BY <1>7
<1>10. Elsewhere(K, M, l)
  <2>1. About(K, q) = l /\ \A a \in Attributes : About(K, <<l, a>>) = l
    BY <1>1, <1>2 DEF About
  <2>2. ASSUME NEW j \in DOMAIN M PROVE About(M, j) = About(K, j)
    BY <1>7 DEF About
  <2>3. ASSUME NEW j \in DOMAIN K, About(K, j) # l
        PROVE  j \in DOMAIN M /\ M[j] = K[j]
    BY <1>7, <2>1, <2>3
  <2> QED
    BY <1>7, <2>3 DEF Elsewhere
<1>11. Local(M, l)
  <2>1. CountIn(M, l) = 0
    BY <1>9, AttrNames DEF CountIn
  <2>2. Cardinality(LinkedIn(M, l)) = 0
    BY <1>6, FS_EmptySet
  <2> QED
    BY <1>6, <1>9, <2>1, <2>2, AttrNames DEF Local
<1>12. PrefixKept(K, M, l)
  <2>1. \A e \in EntriesOf(M) : e \in EntriesOf(K)
    BY <1>7 DEF EntriesOf
  <2> QED
    BY <2>1 DEF PrefixKept
<1>13. Tree(M)
  BY <1>1, <1>6, <1>8, <1>10, <1>11, <1>12, TreeAt
<1>14. Leads(K, <<Del(d, m)>> \o (cut \o AllDeleted(l)), M)
  <2>1. AllDeleted(l) \in Seq(S)
    BY AttrNames DEF AllDeleted
  <2>2. Leads(P, cut, P)
    BY <1>4
  <2>3. Leads(P, cut \o AllDeleted(l), M) /\ cut \o AllDeleted(l) \in Seq(S)
    BY <1>6, <2>1, <2>2, LeadsConcat, ConcatProperties
  <2>4. <<Del(d, m)>> \in Seq(S) /\ Leads(K, <<Del(d, m)>>, P)
    BY <1>4, <1>5, LeadsOne
  <2> QED
    BY <2>3, <2>4, LeadsConcat
<1> QED
  BY <1>6, <1>8, <1>9, <1>10, <1>13, <1>14

Made(K, n, N, d, m, type, a, x) ==
  \E M :
    /\ Typed(M, N) /\ Tree(M) /\ Elsewhere(K, M, n) /\ Typed(K, N)
    /\ LinkedIn(K, n) = {}
    /\ \A b \in Attributes : <<n, b>> \notin DOMAIN K
    /\ LinkedIn(M, n) = {<<d, m>>} /\ M[<<d, m>>].type = type
    /\ <<n, a>> \in DOMAIN M /\ M[<<n, a>>].data = x
    /\ a = "D" => <<n, "S">> \notin DOMAIN M
    /\ Leads(K, <<Attr(n, "C", 0), Attr(n, a, x)>>
                  \o CreateLink(d, m, n, type, 0), M)

(* Create and Mkdir: a new label and its first name.                       *)
LEMMA NewNode ==
  ASSUME NEW K, NEW n \in 1 .. MaxLabel, Typed(K, n), Tree(K),
         NEW N \in 1 .. MaxLabel + 1, n < N,
         NEW d \in Labels, d < n, NEW m \in Names, <<d, m>> \notin DOMAIN K,
         d = 0 \/ Prefix(K, d),
         NEW type, NEW a, NEW x,
         \/ type = "K_FILE" /\ a = "S" /\ x = 0
         \/ type = "K_DIRECTORY" /\ a = "D" /\ x = n + 1 /\ x < N /\ d = 0
  PROVE  Made(K, n, N, d, m, type, a, x)
<1> PICK K1 : K1 = Put(K, <<n, "C">>, AttrKey(0))
  OBVIOUS
<1> PICK K2 : K2 = Put(K1, <<n, a>>, AttrKey(x))
  OBVIOUS
<1> PICK K3 : K3 = Put(K2, <<d, m>>, EntryKey(type, n))
  OBVIOUS
<1> PICK M : M = Put(K3, <<n, "L">>, AttrKey(1))
  OBVIOUS
<1> DEFINE q == <<d, m>>
           v == EntryKey(type, n)
<1>0. /\ q[2] = m /\ m \notin Attributes /\ v.type = type /\ v.data = n
      /\ q[1] = d
      /\ a \in Attributes /\ a \in {"S", "D"} /\ a # "C" /\ a # "L"
      /\ type \in {"K_FILE", "K_DIRECTORY"} /\ type # "K_ATTRIBUTE"
      /\ AttrKey(0).type = "K_ATTRIBUTE" /\ AttrKey(x).type = "K_ATTRIBUTE"
      /\ AttrKey(1).type = "K_ATTRIBUTE" /\ AttrKey(1).data = 1
      /\ AttrKey(x).data = x
  BY ConstantTypes, AttrNames DEF AttrKey, EntryKey
<1>1. /\ n \in 1 .. MaxLabel + 1 /\ n \in Labels /\ n \in 0 .. N - 1
      /\ n \in 1 .. N - 1 /\ d < N /\ x \in Nat /\ n <= N /\ n # d
      /\ a = "D" => x \in 1 .. N - 1
      /\ a = "S" => x <= MaxNum + 1
      /\ 0 \in Nat /\ 1 \in Nat
  BY ConstantTypes DEF Labels
<1>2. ASSUME NEW j \in DOMAIN K
      PROVE  j[1] # n /\ (j \in EntriesOf(K) \/ j[2] = "D" =>
                            K[j].data # n /\ K[j].data < n)
  <2>1. j[1] < n /\ j[1] \in Labels
    BY <1>1, TypedFacts
  <2>2. j \in EntriesOf(K) \/ j[2] = "D" => K[j].data \in 1 .. n - 1
    BY <1>1, TypedFacts
  <2> QED
    BY <1>1, <2>1, <2>2
<1>3. Typed(K, N)
  BY <1>1, KeyGrows DEF Typed
<1>4. Typed(K1, N) /\ Typed(K2, N) /\ Typed(K3, N) /\ Typed(M, N)
  <2>1. KeyOK(<<n, "C">>, AttrKey(0), N)
    BY <1>1, AttrKeyOK, AttrNames
  <2>2. KeyOK(<<n, a>>, AttrKey(x), N)
    BY <1>0, <1>1, AttrKeyOK
  <2>3. KeyOK(q, v, N)
    BY <1>0, <1>1, EntryKeyOK
  <2>4. KeyOK(<<n, "L">>, AttrKey(1), N)
    BY <1>1, AttrKeyOK, AttrNames
  <2> QED
    BY <1>3, <2>1, <2>2, <2>3, <2>4, PutTyped
<1>5. /\ \A j : j \in DOMAIN K2 <=>
                  j \in DOMAIN K \/ j = <<n, "C">> \/ j = <<n, a>>
      /\ \A j \in DOMAIN K : K2[j] = K[j]
      /\ K2[<<n, a>>] = AttrKey(x)
  <2>1. /\ \A j : j \in DOMAIN K1 <=> j \in DOMAIN K \/ j = <<n, "C">>
        /\ \A j \in DOMAIN K : j # <<n, "C">> => K1[j] = K[j]
    BY PutFacts
  <2>2. /\ \A j : j \in DOMAIN K2 <=> j \in DOMAIN K1 \/ j = <<n, a>>
        /\ \A j \in DOMAIN K1 : j # <<n, a>> => K2[j] = K1[j]
        /\ K2[<<n, a>>] = AttrKey(x)
    BY PutFacts
  <2>3. \A j \in DOMAIN K : j # <<n, "C">> /\ j # <<n, a>>
    BY <1>2
  <2> QED
    BY <2>1, <2>2, <2>3
<1>6. /\ \A j : j \in DOMAIN M <=>
                  j \in DOMAIN K2 \/ j = q \/ j = <<n, "L">>
      /\ \A j \in DOMAIN K2 : j # <<n, "L">> /\ j # q => M[j] = K2[j]
      /\ M[q] = v /\ M[<<n, "L">>] = AttrKey(1)
  <2>1. /\ \A j : j \in DOMAIN K3 <=> j \in DOMAIN K2 \/ j = q
        /\ \A j \in DOMAIN K2 : j # q => K3[j] = K2[j]
        /\ K3[q] = v
    BY PutFacts
  <2>2. /\ \A j : j \in DOMAIN M <=> j \in DOMAIN K3 \/ j = <<n, "L">>
        /\ \A j \in DOMAIN K3 : j # <<n, "L">> => M[j] = K3[j]
        /\ M[<<n, "L">>] = AttrKey(1)
    BY PutFacts
  <2>3. q # <<n, "L">>
    BY <1>0, AttrNames
  <2> QED
    BY <2>1, <2>2, <2>3
<1>7. /\ \A j : j \in DOMAIN M <=>
                  \/ j \in DOMAIN K
                  \/ j \in {<<n, "C">>, <<n, a>>, q, <<n, "L">>}
      /\ \A j \in DOMAIN K : M[j] = K[j]
      /\ M[q] = v /\ M[<<n, "L">>] = AttrKey(1) /\ M[<<n, a>>] = AttrKey(x)
      /\ M[<<n, "C">>].type = "K_ATTRIBUTE"
  <2>1. \A j \in DOMAIN K : j # <<n, "L">> /\ j # q
    BY <1>2
  <2>2. \A b \in Attributes : <<n, b>> # q
    BY <1>0
  <2>3. <<n, a>> # <<n, "L">> /\ <<n, "C">> # <<n, "L">>
    BY <1>0
  <2>4. <<n, "C">> \in DOMAIN M /\ <<n, "C">>[2] \in Attributes
    BY <1>5, <1>6, AttrNames
  <2>5. M[<<n, "C">>].type = "K_ATTRIBUTE"
    BY <1>4, <2>4, TypedFacts
  <2> QED
    BY <1>0, <1>5, <1>6, <2>1, <2>2, <2>3, <2>5, AttrNames
<1>8. \A b \in Attributes : <<n, b>> \notin DOMAIN K
  <2>1. \A b : <<n, b>>[1] = n
    OBVIOUS
  <2> QED
    BY <1>2, <2>1
<1>9. LinkedIn(K, n) = {} /\ ~ Prefix(K, n)
  <2>1. LinkedIn(K, n) = {}
    BY <1>2 DEF LinkedIn, EntriesOf
  <2>2. \A j : <<j, "D">>[2] = "D"
    OBVIOUS
  <2> QED
    BY <1>2, <2>1, <2>2 DEF Prefix
<1>10. \A e : e \in EntriesOf(M) <=> e \in EntriesOf(K) \/ e = q
  <2>1. AttrKey(x).type = "K_ATTRIBUTE" /\ AttrKey(1).type = "K_ATTRIBUTE"
    BY <1>0
  <2> QED
    BY <1>0, <1>7, <2>1 DEF EntriesOf
<1>11. LinkedIn(M, n) = {q}
  <2>1. \A e \in EntriesOf(K) : e \in DOMAIN K
    BY DEF EntriesOf
  <2> QED
    BY <1>0, <1>2, <1>7, <1>10, <2>1 DEF LinkedIn
<1>12. Elsewhere(K, M, n)
  <2>1. \A b \in Attributes : About(M, <<n, b>>) = n
    BY DEF About
  <2>2. About(M, q) = n
    BY <1>0, <1>7 DEF About
  <2> QED
    BY <1>0, <1>7, <2>1, <2>2, AttrNames DEF Elsewhere
<1>13. /\ <<n, "L">> \in DOMAIN M
       /\ a = "S" => <<n, "D">> \notin DOMAIN M /\ <<n, "S">> \in DOMAIN M
       /\ a = "D" => <<n, "S">> \notin DOMAIN M /\ <<n, "D">> \in DOMAIN M
  <2>1. <<n, "S">> # q /\ <<n, "D">> # q
    BY <1>0, AttrNames
  <2>2. <<n, "S">> \notin DOMAIN K /\ <<n, "D">> \notin DOMAIN K
    BY <1>8, AttrNames
  <2> QED
    BY <1>0, <1>7, <2>1, <2>2
<1>14. ASSUME a = "D"
       PROVE  /\ LinkedIn(M, x) = {}
              /\ \A j \in DOMAIN M :
                   j[2] = "D" /\ M[j].data = x => j = <<n, "D">>
  <2>1. x = n + 1 /\ x # n
    BY <1>1, <1>14
  <2>2. \A e \in DOMAIN K : e \in EntriesOf(K) \/ e[2] = "D" => K[e].data # x
    <3> SUFFICES ASSUME NEW e \in DOMAIN K, e \in EntriesOf(K) \/ e[2] = "D"
                 PROVE  K[e].data # x
      OBVIOUS
    <3>1. K[e].data < n /\ K[e].data \in Nat
      BY <1>1, <1>2, TypedFacts
    <3> QED
      BY <1>1, <2>1, <3>1
  <2>3. \A e \in EntriesOf(M) : M[e].data # x
    BY <1>0, <1>7, <1>10, <2>1, <2>2 DEF EntriesOf
  <2>4. \A j \in DOMAIN M : j[2] = "D" => j \in DOMAIN K \/ j = <<n, "D">>
    BY <1>0, <1>7, <1>14, AttrNames
  <2> QED
    BY <1>7, <2>2, <2>3, <2>4 DEF LinkedIn
<1>15. Local(M, n)
  <2>1. CountIn(M, n) = 1
    BY <1>0, <1>7, <1>13 DEF CountIn
  <2>2. Cardinality(LinkedIn(M, n)) = 1
    BY <1>11, FS_Singleton
  <2>3. d = 0 \/ Prefix(M, d)
    BY <1>7 DEF Prefix
  <2>4. <<n, "D">> \in DOMAIN M => a = "D" /\ M[<<n, "D">>].data = x
    BY <1>0, <1>7, <1>13
  <2>5. M[q].type = type
    BY <1>0, <1>7
  <2>6. <<n, "D">> \in DOMAIN M =>
          /\ LinkedIn(M, M[<<n, "D">>].data) = {}
          /\ \A j \in DOMAIN M :
               j[2] = "D" /\ M[j].data = M[<<n, "D">>].data => j = <<n, "D">>
    BY <1>14, <2>4
  <2>7. \A e \in LinkedIn(M, n) :
          /\ e[1] = 0 \/ Prefix(M, e[1])
          /\ M[e].type = "K_FILE" =>
               <<n, "S">> \in DOMAIN M /\ <<n, "D">> \notin DOMAIN M
          /\ M[e].type = "K_DIRECTORY" =>
               /\ <<n, "D">> \in DOMAIN M /\ <<n, "S">> \notin DOMAIN M
               /\ e[1] = 0 /\ \A f \in LinkedIn(M, n) : f = e
    BY <1>0, <1>11, <1>13, <2>3, <2>5
  <2> QED
    BY <1>11, <2>1, <2>2, <2>6, <2>7 DEF Local
<1>16. PrefixKept(K, M, n)
  BY <1>8, AttrNames DEF PrefixKept
<1>17. Tree(M)
  BY <1>1, <1>3, <1>4, <1>9, <1>12, <1>15, <1>16, TreeAt
<1>18. /\ Safe(K) /\ Safe(K1) /\ Safe(K2) /\ Safe(K3) /\ Safe(M)
  <2>1. <<n, "C">> \notin EntriesOf(K) /\ <<n, a>> \notin EntriesOf(K1)
    <3>1. <<n, "C">>[2] \in Attributes /\ <<n, a>>[2] \in Attributes
      BY <1>0, AttrNames
    <3> QED
      BY <1>3, <1>4, <3>1, TypedFacts DEF EntriesOf
  <2>2. Safe(K) /\ Safe(K1) /\ Safe(K2)
    BY <1>0, <2>1, SafePutAttr DEF Tree
  <2>3. q \notin DOMAIN K2 /\ Needed(v) = <<n, a>> /\ <<n, a>> \in DOMAIN K2
    BY <1>0, <1>5, AttrNames DEF Needed
  <2>4. Safe(K3)
    BY <1>0, <2>2, <2>3, SafePutEntry
  <2> QED
    BY <1>17, <2>2, <2>4 DEF Tree
<1>19. /\ Apply(K, Attr(n, "C", 0)) = K1
       /\ Apply(K1, Attr(n, a, x)) = K2
       /\ Apply(K2, Add(d, m, type, n)) = K3
       /\ Apply(K3, Attr(n, "L", 0 + 1)) = M
  BY ApplyFacts DEF AttrKey, EntryKey
<1>20. Leads(K, <<Attr(n, "C", 0), Attr(n, a, x)>>
                  \o CreateLink(d, m, n, type, 0), M)
  <2> DEFINE s == <<Attr(n, "C", 0), Attr(n, a, x)>>
             t == <<Add(d, m, type, n), Attr(n, "L", 0 + 1)>>
             S == {Attr(n, "C", 0), Attr(n, a, x), Add(d, m, type, n),
                   Attr(n, "L", 0 + 1)}
  <2>1. s \in Seq(S) /\ t \in Seq(S)
    OBVIOUS
  <2>2. Leads(K, s, K2) /\ Leads(K2, t, M)
    BY <1>18, <1>19, LeadsTwo
  <2> HIDE DEF s, t, S
  <2>3. Leads(K, s \o t, M)
    BY <2>1, <2>2, LeadsConcat
  <2> QED
    BY <2>3 DEF s, t, CreateLink
<1> QED
  BY <1>0, <1>3, <1>4, <1>7, <1>8, <1>9, <1>11, <1>12, <1>13, <1>17, <1>20 DEF Made

Moved(K, n, l, d, m, type, b, g, c) ==
  \E M :
    /\ Typed(M, n) /\ Tree(M) /\ Elsewhere(K, M, l)
    /\ LinkedIn(M, l) # {}
    /\ \A f \in LinkedIn(M, l) : M[f].type = type
    /\ <<l, "S">> \in DOMAIN M <=> <<l, "S">> \in DOMAIN K
    /\ <<l, "S">> \in DOMAIN K => M[<<l, "S">>] = K[<<l, "S">>]
    /\ Leads(K, CreateLink(b, g, l, type, c) \o
                  (<<Del(d, m)>> \o <<Attr(l, "L", (c + 1) - 1)>>), M)

(* Rename: a name is added, counted, and another goes.                     *)
LEMMA MoveLink ==
  ASSUME NEW K, NEW n \in 1 .. MaxLabel + 1, Typed(K, n), Tree(K),
         NEW l, NEW d, NEW m, <<d, m>> \in LinkedIn(K, l),
         NEW type, type = K[<<d, m>>].type,
         NEW b \in Labels, b < n, NEW g \in Names, <<b, g>> \notin DOMAIN K,
         b = 0 \/ Prefix(K, b), type = "K_DIRECTORY" => b = 0,
         NEW c, c = CountIn(K, l)
  PROVE  Moved(K, n, l, d, m, type, b, g, c)
<1> PICK K1 : K1 = Put(K, <<b, g>>, EntryKey(type, l))
  OBVIOUS
<1> PICK K2 : K2 = Put(K1, <<l, "L">>, AttrKey(c + 1))
  OBVIOUS
<1> PICK K3 : K3 = Drop(K2, <<d, m>>)
  OBVIOUS
<1> PICK M : M = Put(K3, <<l, "L">>, AttrKey((c + 1) - 1))
  OBVIOUS
<1> DEFINE p == <<d, m>>
           q == <<b, g>>
           k == <<l, "L">>
           v == EntryKey(type, l)
<1>1. /\ l \in 1 .. n - 1 /\ l \in Labels /\ c \in Nat \ {0}
      /\ c = Cardinality(LinkedIn(K, l))
      /\ p \in EntriesOf(K) /\ p \in DOMAIN K /\ K[p].data = l
      /\ type \in {"K_FILE", "K_DIRECTORY"}
      /\ type = "K_DIRECTORY" => LinkedIn(K, l) = {p} /\ p[1] = 0
                                 /\ <<l, "D">> \in DOMAIN K
      /\ type = "K_FILE" =>
           /\ <<l, "S">> \in DOMAIN K
           /\ \A f \in LinkedIn(K, l) : K[f].type = "K_FILE"
  BY NodeFacts
<1>0. /\ k[1] = l /\ k[2] = "L" /\ p[2] = m /\ q[2] = g /\ q[1] = b
      /\ v.type = type /\ v.data = l /\ type # "K_ATTRIBUTE"
      /\ \A y : AttrKey(y).type = "K_ATTRIBUTE" /\ AttrKey(y).data = y
      /\ g \notin Attributes
  BY <1>1, ConstantTypes DEF AttrKey, EntryKey
<1>2. l \in 0 .. n - 1 /\ c + 1 \in Nat /\ (c + 1) - 1 = c
  BY <1>1
<1>3. m \notin Attributes
  BY <1>0, <1>1, TypedFacts
<1>4. p # k /\ q # k /\ p # q
  BY <1>0, <1>1, <1>3, AttrNames
<1>5. Typed(K1, n) /\ Typed(K2, n) /\ Typed(K3, n) /\ Typed(M, n)
  <2>1. KeyOK(q, v, n)
    BY <1>1, EntryKeyOK
  <2>2. KeyOK(k, AttrKey(c + 1), n) /\ KeyOK(k, AttrKey((c + 1) - 1), n)
    BY <1>1, <1>2, AttrKeyOK, AttrNames
  <2> QED
    BY <2>1, <2>2, PutTyped, DropTyped
<1>6. /\ \A j : j \in DOMAIN K2 <=> j \in DOMAIN K \/ j = q \/ j = k
      /\ \A j \in DOMAIN K : j # q /\ j # k => K2[j] = K[j]
      /\ K2[q] = v
  <2>1. /\ \A j : j \in DOMAIN K1 <=> j \in DOMAIN K \/ j = q
        /\ \A j \in DOMAIN K : j # q => K1[j] = K[j]
        /\ K1[q] = v
    BY PutFacts
  <2>2. /\ \A j : j \in DOMAIN K2 <=> j \in DOMAIN K1 \/ j = k
        /\ \A j \in DOMAIN K1 : j # k => K2[j] = K1[j]
    BY PutFacts
  <2> QED
    BY <1>4, <2>1, <2>2
<1>7. /\ \A j : j \in DOMAIN M <=>
                  (j \in DOMAIN K /\ j # p) \/ j = q \/ j = k
      /\ \A j \in DOMAIN K : j # p /\ j # k => M[j] = K[j]
      /\ M[q] = v /\ M[k] = AttrKey((c + 1) - 1)
  <2>1. /\ \A j : j \in DOMAIN K3 <=> j \in DOMAIN K2 /\ j # p
        /\ \A j \in DOMAIN K2 : j # p => K3[j] = K2[j]
    BY DropFacts
  <2>2. /\ \A j : j \in DOMAIN M <=> j \in DOMAIN K3 \/ j = k
        /\ \A j \in DOMAIN K3 : j # k => M[j] = K3[j]
        /\ M[k] = AttrKey((c + 1) - 1)
    BY PutFacts
  <2> QED
    BY <1>4, <1>6, <2>1, <2>2
<1>8. Elsewhere(K, M, l)
  <2>1. /\ About(K, k) = l /\ About(M, k) = l /\ About(K, p) = l
        /\ About(M, q) = l
    BY <1>0, <1>1, <1>3, <1>7, AttrNames DEF About
  <2> QED
    BY <1>7, <2>1 DEF Elsewhere
<1>9. k \notin EntriesOf(K) /\ k \notin EntriesOf(K1) /\ k \notin EntriesOf(M)
      /\ k \notin EntriesOf(K3)
  BY <1>0, <1>5, TypedFacts, AttrNames DEF EntriesOf
<1>10. \A f : f \in LinkedIn(M, l) <=>
                (f \in LinkedIn(K, l) /\ f # p) \/ f = q
  BY <1>0, <1>7, <1>9 DEF LinkedIn, EntriesOf
<1>11. \A f \in LinkedIn(M, l) :
         /\ M[f].type = type /\ (f[1] = 0 \/ Prefix(K, f[1]))
         /\ type = "K_DIRECTORY" => f = q
  <2>1. \A f \in LinkedIn(K, l) : f \in EntriesOf(K) /\ f \in DOMAIN K /\ f # k
    BY <1>9 DEF LinkedIn, EntriesOf
  <2> QED
    BY <1>0, <1>1, <1>7, <1>10, <2>1 DEF Tree, Placed
<1>12. Cardinality(LinkedIn(M, l)) = c
  <2> DEFINE R == LinkedIn(K, l) \ {p}
  <2>1. p \in LinkedIn(K, l) /\ IsFiniteSet(LinkedIn(K, l))
    BY LinkedFinite
  <2>2. IsFiniteSet(R) /\ Cardinality(R) = c - 1
    BY <1>1, <2>1, FS_RemoveElement
  <2>3. q \notin R
    BY DEF LinkedIn, EntriesOf
  <2>4. LinkedIn(M, l) = R \cup {q}
    BY <1>10
  <2>5. Cardinality(R \cup {q}) = (c - 1) + 1
    BY <2>2, <2>3, FS_AddElement
  <2>6. (c - 1) + 1 = c
    BY <1>1
  <2> QED
    BY <2>4, <2>5, <2>6
<1>13. CountIn(M, l) = Cardinality(LinkedIn(M, l))
  BY <1>0, <1>2, <1>7, <1>12 DEF CountIn
<1>14. LinkedIn(M, l) # {}
  BY <1>10
<1>15. \A a \in Attributes : a # "L" =>
         /\ <<l, a>> # k /\ <<l, a>> # q /\ <<l, a>> # p
         /\ <<l, a>> \in DOMAIN M <=> <<l, a>> \in DOMAIN K
         /\ <<l, a>> \in DOMAIN K => M[<<l, a>>] = K[<<l, a>>]
  BY <1>0, <1>3, <1>7
<1>16. Tree(M)
  <2>1. \A f \in LinkedIn(M, l) :
           /\ M[f].type = K[p].type
           /\ f[1] = 0 \/ Prefix(K, f[1])
           /\ K[p].type = "K_DIRECTORY" =>
                f[1] = 0 /\ \A h \in LinkedIn(M, l) : h = f
    BY <1>0, <1>11
  <2> QED
    BY <1>5, <1>8, <1>13, <1>14, <1>15, <2>1, TreeRelinked
<1>17. Safe(K) /\ Safe(K1) /\ Safe(K2) /\ Safe(K3) /\ Safe(M)
  <2>1. Needed(v) \in DOMAIN K
    BY <1>0, <1>1 DEF Needed
  <2>2. Safe(K) /\ Safe(K1)
    BY <1>0, <2>1, SafePutEntry DEF Tree
  <2>3. Safe(K2)
    BY <1>0, <1>9, <2>2, SafePutAttr
  <2> QED
    BY <1>0, <1>3, <1>16, <2>2, <2>3, SafeDropEntry DEF Tree
<1>18. Leads(K, CreateLink(b, g, l, type, c) \o
                  (<<Del(d, m)>> \o <<Attr(l, "L", (c + 1) - 1)>>), M)
  <2> DEFINE s == <<Add(b, g, type, l), Attr(l, "L", c + 1)>>
             t == <<Del(d, m)>>
             u == <<Attr(l, "L", (c + 1) - 1)>>
             S == {Add(b, g, type, l), Attr(l, "L", c + 1), Del(d, m),
                   Attr(l, "L", (c + 1) - 1)}
  <2>1. /\ Apply(K, Add(b, g, type, l)) = K1
        /\ Apply(K1, Attr(l, "L", c + 1)) = K2
        /\ Apply(K2, Del(d, m)) = K3
        /\ Apply(K3, Attr(l, "L", (c + 1) - 1)) = M
    BY ApplyFacts DEF AttrKey, EntryKey
  <2>2. Leads(K, s, K2)
    BY <1>17, <2>1, LeadsTwo
  <2>3. Leads(K2, t, K3) /\ Leads(K3, u, M)
    BY <1>17, <2>1, LeadsOne
  <2>4. s \in Seq(S) /\ t \in Seq(S) /\ u \in Seq(S)
    OBVIOUS
  <2>5. s = CreateLink(b, g, l, type, c)
    BY DEF CreateLink
  <2> HIDE DEF s, t, u, S
  <2>6. Leads(K2, t \o u, M) /\ t \o u \in Seq(S)
    BY <2>3, <2>4, LeadsConcat, ConcatProperties
  <2>7. Leads(K, s \o (t \o u), M)
    BY <2>2, <2>4, <2>6, LeadsConcat
  <2> QED
    BY <2>5, <2>7 DEF t, u
<1> QED
  BY <1>5, <1>8, <1>11, <1>14, <1>15, <1>16, <1>18, AttrNames DEF Moved
=============================================================================
