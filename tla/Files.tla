-------------------------------- MODULE Files --------------------------------
(***************************************************************************)
(* Files and directories (fs/file.c, fs/operations.c) behind the FUSE      *)
(* driver (fs/linux/main.c), over a map of keys: what the tree promises.   *)
(*                                                                         *)
(* A call is a list of changes to keys, made one at a time, between any    *)
(* two of which the timer's signal may flush and the program may stop.     *)
(* Calls do not overlap: the code has no locks.  Sizes count blocks; times *)
(* are left out of A, C and M.                                             *)
(***************************************************************************)
EXTENDS Integers, FiniteSets, Sequences

CONSTANTS
  Names,        (* names of directory entries                              *)
  Handles,      (* fs->fh_cache                                            *)
  MaxLabel,     (* bound on fs->next_label                                 *)
  MaxNum,       (* bound on the number of a block in a file                *)
  MaxLinks,     (* bound on directory entries                              *)
  Shared,       (* is a file opened by several handles at a time?          *)
  Sparse,       (* is a file given a size, or a block, beyond its end?     *)
  MaxCrashes    (* bound on stops without unmounting                       *)

Attributes == {"A", "C", "D", "L", "M", "S"}
Labels == 0 .. MaxLabel
Nums == 0 .. MaxNum

ASSUME FilesAssumption ==
  /\ MaxLabel \in Nat /\ MaxNum \in Nat /\ MaxLinks \in Nat
  /\ IsFiniteSet(Names) /\ Names \cap Attributes = {}
  /\ IsFiniteSet(Handles) /\ Handles # {}
  /\ Shared \in BOOLEAN /\ Sparse \in BOOLEAN /\ MaxCrashes \in Nat

VARIABLES
  disk,     (* keys, extents and next label, as in the cache               *)
  handles,  (* fs->fh_cache                                                *)
  todo,     (* the changes the call in progress has still to make          *)
  fault,    (* the error() that stopped the program, or "none"             *)
  crashes   (* how often the program has stopped without unmounting        *)

vars == <<disk, handles, todo, fault, crashes>>

(* Keys are <<label, name>>; extents <<start, stop>> are kept apart, under *)
(* their label.                                                            *)
Blank == [keys |-> <<>>, extents |-> [l \in Labels |-> {}], next |-> 1]
Closed == [label |-> 0, size |-> 0, modified |-> FALSE]

Init ==
  /\ disk = Blank
  /\ handles = [h \in Handles |-> Closed]
  /\ todo = <<>> /\ fault = "none" /\ crashes = 0

-----------------------------------------------------------------------------
(* Keys.                                                                   *)

Has(l, n) == <<l, n>> \in DOMAIN disk.keys
Get(l, n) == disk.keys[<<l, n>>].data
TypeOf(l, n) == disk.keys[<<l, n>>].type
IsFile(d, n) == Has(d, n) /\ TypeOf(d, n) = "K_FILE"
IsDir(d, n) == Has(d, n) /\ TypeOf(d, n) = "K_DIRECTORY"

Add(l, n, type, data) ==
  [op |-> "add", label |-> l, name |-> n,
   key |-> [type |-> type, data |-> data]]
Attr(l, n, data) == Add(l, n, "K_ATTRIBUTE", data)
Del(l, n) == [op |-> "delete", label |-> l, name |-> n]
Cut(l, num, new) == [op |-> "reduce", label |-> l, num |-> num, new |-> new]
Map(l, num) == [op |-> "map", label |-> l, num |-> num]

Entries(d) == {k \in DOMAIN d.keys : d.keys[k].type # "K_ATTRIBUTE"}
Linked(d, l) == {k \in Entries(d) : d.keys[k].data = l}

(* Where paths lead: the root's names have label 0, a directory's those of *)
(* its key D.  The kernel has looked up the directory before a call.       *)
Prefixes ==
  {0} \cup {Get(Get(0, n), "D") :
               n \in {m \in Names : IsDir(0, m) /\ Has(Get(0, m), "D")}}
Paths == Prefixes \X Names

(* create_link: the entry first, then the count.                           *)
Count(l) == IF Has(l, "L") THEN Get(l, "L") ELSE 0
CreateLink(d, n, l, type, count) ==
  <<Add(d, n, type, l), Attr(l, "L", count + 1)>>

ReduceFile(l, size, new) == IF new < size THEN <<Cut(l, size, new)>> ELSE <<>>

(* Mutant: the blocks are not given back.                                  *)
DeleteFileKeys(l) ==
  <<Del(l, "A"), Del(l, "C"), Del(l, "M"),
    Del(l, "D"), Del(l, "S"), Del(l, "L")>>

DeleteFile(l) ==
  (IF Has(l, "S") THEN ReduceFile(l, Get(l, "S"), 0) ELSE <<>>)
    \o <<Del(l, "A"), Del(l, "C"), Del(l, "M"),
         Del(l, "D"), Del(l, "S"), Del(l, "L")>>

(* Mutant: the file goes although a link is left.                          *)
DeleteLinkAlways(d, n, count) == <<Del(d, n)>> \o DeleteFile(Get(d, n))

(* Mutant: the entry last.                                                 *)
DeleteLinkLast(d, n, count) ==
  LET l == Get(d, n)
  IN (IF count > 1 THEN <<Attr(l, "L", count - 1)>> ELSE DeleteFile(l))
       \o <<Del(d, n)>>

(* delete_link: the entry first, then the count or the file.               *)
DeleteLink(d, n, count) ==
  LET l == Get(d, n)
  IN <<Del(d, n)>> \o
     (IF count > 1 THEN <<Attr(l, "L", count - 1)>> ELSE DeleteFile(l))

(* flush_fh.                                                               *)
FlushHandle(fh) ==
  <<Attr(fh.label, "A", 0)>> \o
  (IF fh.modified
   THEN <<Attr(fh.label, "S", fh.size), Attr(fh.label, "M", 0)>> ELSE <<>>)

-----------------------------------------------------------------------------
(* One change.                                                             *)

AddKey(d, s) ==
  [d EXCEPT !.keys = [k \in DOMAIN d.keys \cup {<<s.label, s.name>>} |->
                        IF k = <<s.label, s.name>> THEN s.key ELSE d.keys[k]]]

DeleteKey(d, s) ==
  [d EXCEPT !.keys = [k \in DOMAIN d.keys \ {<<s.label, s.name>>} |->
                        d.keys[k]]]

Covered(d, l, num) == \E x \in d.extents[l] : x[1] <= num /\ num <= x[2]

(* get_file_data_block: the block extends the extent before it, if it lies *)
(* behind it on the disk, or starts one of its own.                        *)
MapBlock(d, s, behind) ==
  LET before == {x \in d.extents[s.label] : x[2] = s.num - 1}
      With(gone, x) ==
        [d EXCEPT !.extents[s.label] = (@ \ gone) \cup {x}]
  IN CASE Covered(d, s.label, s.num) -> d
       [] ~ Covered(d, s.label, s.num) /\ behind /\ before # {} ->
            With(before, <<(CHOOSE x \in before : TRUE)[1], s.num>>)
       [] OTHER -> With({}, <<s.num, s.num>>)

(* The extent a search for block num of the file is shown.                 *)
Floor(d, l, num) ==
  LET below == {x \in d.extents[l] : x[1] <= num}
  IN {x \in below : \A y \in below : y[1] <= x[1]}

(* Mutant: the loop of reduce_file ends after one extent.                  *)
ReduceOnce(d, s, x) ==
  [d |-> [d EXCEPT !.extents[s.label] =
            (@ \ {x}) \cup
            (IF x[1] < s.new THEN {<<x[1], s.new - 1>>} ELSE {})],
   rest |-> <<>>]

(* Mutant: an extent that goes whole is replaced by an empty one.          *)
ReduceEmpty(d, s, x) ==
  LET first == IF x[1] < s.new THEN s.new ELSE x[1]
  IN [d |-> [d EXCEPT !.extents[s.label] =
               (@ \ {x}) \cup {<<x[1], first - 1>>}],
      rest |-> IF first > s.new THEN <<[s EXCEPT !.num = first]>> ELSE <<>>]

(* Mutant: the loop goes on when nothing is left to give back.             *)
ReduceAgain(d, s, x) ==
  LET first == IF x[1] < s.new THEN s.new ELSE x[1]
  IN [d |-> [d EXCEPT !.extents[s.label] =
               (@ \ {x}) \cup
               (IF first > x[1] THEN {<<x[1], first - 1>>} ELSE {})],
      rest |-> <<[s EXCEPT !.num = first]>>]

(* One pass of the loop of reduce_file, over extent x.                     *)
ReduceExtent(d, s, x) ==
  LET first == IF x[1] < s.new THEN s.new ELSE x[1]
  IN [d |-> [d EXCEPT !.extents[s.label] =
               (@ \ {x}) \cup
               (IF first > x[1] THEN {<<x[1], first - 1>>} ELSE {})],
      rest |-> IF first > s.new THEN <<[s EXCEPT !.num = first]>> ELSE <<>>]

Ready == todo = <<>> /\ fault = "none"

Reduce(s) ==
  LET floor == Floor(disk, s.label, s.num - 1)
  IN IF \E x \in floor : x[2] >= s.new
     THEN \E x \in floor :
            /\ disk' = ReduceExtent(disk, s, x).d
            /\ todo' = ReduceExtent(disk, s, x).rest \o Tail(todo)
            /\ UNCHANGED fault
     ELSE fault' = "Unable to find extent" /\ UNCHANGED <<disk, todo>>

(* The next change of the call in progress.                                *)
Step ==
  /\ todo # <<>> /\ fault = "none"
  /\ LET s == Head(todo)
     IN \/ /\ s.op \in {"add", "delete"}
           /\ disk' = IF s.op = "add" THEN AddKey(disk, s)
                      ELSE DeleteKey(disk, s)
           /\ todo' = Tail(todo) /\ UNCHANGED fault
        \/ /\ s.op = "map"
           /\ \E behind \in BOOLEAN : disk' = MapBlock(disk, s, behind)
           /\ todo' = Tail(todo) /\ UNCHANGED fault
        \/ s.op = "reduce" /\ Reduce(s)
  /\ UNCHANGED <<handles, crashes>>

-----------------------------------------------------------------------------
(* Calls.                                                                  *)

Free == {h \in Handles : handles[h] = Closed}
Open == Handles \ Free
Users(l) == {h \in Open : handles[h].label = l}
MayOpen(l) == Free # {} /\ (Shared \/ Users(l) = {})

(* fs_open_file leaves the size of the slot's last use if there is no S.   *)
Sizes(l) == IF Has(l, "S") THEN {Get(l, "S")} ELSE 0 .. MaxNum + 1

NewHandle(l, size) ==
  \E h \in Free :
    handles' = [handles EXCEPT
                  ![h] = [label |-> l, size |-> size, modified |-> FALSE]]

Begin(changes) == todo' = changes /\ UNCHANGED <<fault, crashes>>

(* op_create, or op_mkdir for a directory, which also takes a label for    *)
(* the prefix of its entries.                                              *)
Create(d, n) ==
  LET l == disk.next
  IN /\ Ready /\ ~ Has(d, n) /\ Free # {}
     /\ l <= MaxLabel /\ Cardinality(Entries(disk)) < MaxLinks
     /\ disk' = [disk EXCEPT !.next = l + 1]
     /\ NewHandle(l, 0)
     /\ Begin(<<Attr(l, "C", 0), Attr(l, "S", 0)>>
                \o CreateLink(d, n, l, "K_FILE", 0))

Mkdir(n) ==
  LET l == disk.next
  IN /\ Ready /\ ~ Has(0, n)
     /\ l + 1 <= MaxLabel /\ Cardinality(Entries(disk)) < MaxLinks
     /\ disk' = [disk EXCEPT !.next = l + 2]
     /\ Begin(<<Attr(l, "C", 0), Attr(l, "D", l + 1)>>
                \o CreateLink(0, n, l, "K_DIRECTORY", 0))
     /\ UNCHANGED handles

Rmdir(n) ==
  /\ Ready /\ IsDir(0, n)
  /\ LET l == Get(0, n)
     IN Has(l, "D") => \A m \in Names : ~ Has(Get(l, "D"), m)
  /\ Begin(DeleteLink(0, n, Count(Get(0, n))))
  /\ UNCHANGED <<disk, handles>>

OpenFile(d, n) ==
  /\ Ready /\ IsFile(d, n) /\ MayOpen(Get(d, n))
  /\ \E size \in Sizes(Get(d, n)) : NewHandle(Get(d, n), size)
  /\ UNCHANGED <<disk, todo, fault, crashes>>

(* read_data, one block of it: a block that is not there is added.         *)
Read(h, num) ==
  /\ Ready /\ h \in Open /\ num < handles[h].size
  /\ Begin(<<Map(handles[h].label, num)>>)
  /\ UNCHANGED <<disk, handles>>

(* write_data, one block of it.                                            *)
Write(h, num) ==
  /\ Ready /\ h \in Open
  /\ num <= handles[h].size \/ Sparse
  /\ handles' = [handles EXCEPT
                   ![h].size = IF num < @ THEN @ ELSE num + 1,
                   ![h].modified = TRUE]
  /\ Begin(<<Map(handles[h].label, num)>>)
  /\ UNCHANGED disk

(* Mutant: the handle is not marked modified.                              *)
FtruncateUnmarked(h, new) ==
  /\ Ready /\ h \in Open
  /\ new <= handles[h].size \/ Sparse
  /\ handles' = [handles EXCEPT ![h].size = new]
  /\ Begin(ReduceFile(handles[h].label, handles[h].size, new))
  /\ UNCHANGED disk

Ftruncate(h, new) ==
  /\ Ready /\ h \in Open
  /\ new <= handles[h].size \/ Sparse
  /\ handles' = [handles EXCEPT ![h].size = new, ![h].modified = TRUE]
  /\ Begin(ReduceFile(handles[h].label, handles[h].size, new))
  /\ UNCHANGED disk

Release(h) ==
  /\ Ready /\ h \in Open
  /\ handles' = [handles EXCEPT ![h] = Closed]
  /\ Begin(FlushHandle(handles[h]))
  /\ UNCHANGED disk

(* op_truncate opens a handle of its own and closes it.                    *)
Truncate(d, n, new) ==
  LET l == Get(d, n)
  IN /\ Ready /\ IsFile(d, n) /\ MayOpen(l)
     /\ \E size \in Sizes(l) :
          /\ new <= size \/ Sparse
          /\ Begin(ReduceFile(l, size, new) \o
                   FlushHandle([label |-> l, size |-> new, modified |-> TRUE]))
     /\ UNCHANGED <<disk, handles>>

Link(p, q) ==
  /\ Ready /\ IsFile(p[1], p[2]) /\ ~ Has(q[1], q[2])
  /\ Cardinality(Entries(disk)) < MaxLinks
  /\ LET l == Get(p[1], p[2])
     IN Begin(CreateLink(q[1], q[2], l, "K_FILE", Count(l)))
  /\ UNCHANGED <<disk, handles>>

(* FUSE renames a file that is open instead of having its last name        *)
(* unlinked.                                                               *)
Unlink(d, n) ==
  /\ Ready /\ IsFile(d, n)
  /\ Users(Get(d, n)) # {} => Count(Get(d, n)) > 1
  /\ Begin(DeleteLink(d, n, Count(Get(d, n))))
  /\ UNCHANGED <<disk, handles>>

(* op_rename: a link and a delete.  A directory stays in the root here.    *)
Rename(p, q) ==
  /\ Ready /\ Has(p[1], p[2]) /\ ~ Has(q[1], q[2])
  /\ IsDir(p[1], p[2]) => q[1] = 0
  /\ LET l == Get(p[1], p[2])
     IN Begin(CreateLink(q[1], q[2], l, TypeOf(p[1], p[2]), Count(l))
                \o DeleteLink(p[1], p[2], Count(l) + 1))
  /\ UNCHANGED <<disk, handles>>

Utimens(d, n) ==
  /\ Ready /\ IsFile(d, n)
  /\ Begin(<<Attr(Get(d, n), "A", 0), Attr(Get(d, n), "M", 0)>>)
  /\ UNCHANGED <<disk, handles>>

(* Mutant: a flush leaves a superblock that is not dirty alone.            *)
CrashOldLabel ==
  /\ crashes < MaxCrashes
  /\ crashes' = crashes + 1
  /\ disk' = [disk EXCEPT !.next = 1]
  /\ todo' = <<>> /\ fault' = "none"
  /\ handles' = [h \in Handles |-> Closed]

(* catch_alarm flushes everything, and later the program stops; all calls  *)
(* since the flush are as if they had never been.  So it is enough to let  *)
(* it stop where it has just flushed, at any moment of a call.             *)
Crash ==
  /\ crashes < MaxCrashes
  /\ crashes' = crashes + 1
  /\ todo' = <<>> /\ fault' = "none"
  /\ handles' = [h \in Handles |-> Closed]
  /\ UNCHANGED disk

Call ==
  \/ \E p \in Paths :
       \/ Create(p[1], p[2]) \/ OpenFile(p[1], p[2])
       \/ Unlink(p[1], p[2]) \/ Utimens(p[1], p[2])
       \/ \E new \in Nums : Truncate(p[1], p[2], new)
       \/ \E q \in Paths : Link(p, q) \/ Rename(p, q)
  \/ \E n \in Names : Mkdir(n) \/ Rmdir(n)
  \/ \E h \in Handles :
       \/ Release(h)
       \/ \E num \in Nums : Read(h, num) \/ Write(h, num) \/ Ftruncate(h, num)

Next == Call \/ Step \/ Crash

(* A call that runs keeps running; none need ever be made.                 *)
Spec == Init /\ [][Next]_vars /\ WF_vars(Step)

-----------------------------------------------------------------------------
(* Properties.                                                             *)

TypeOK ==
  /\ disk.next \in 1 .. MaxLabel + 1
  /\ \A k \in DOMAIN disk.keys :
       /\ k[1] \in Labels /\ k[2] \in Names \cup Attributes
       /\ (disk.keys[k].type = "K_ATTRIBUTE") = (k[2] \in Attributes)
  /\ \A l \in Labels : disk.extents[l] \subseteq Nums \X Nums
  /\ handles \in [Handles -> [label : Labels, size : 0 .. MaxNum + 1,
                              modified : BOOLEAN]]
  /\ crashes \in 0 .. MaxCrashes

Quiet == Ready /\ crashes = 0

(* Between calls each label has as many links as its key L counts, whatever*)
(* links, renames and deletions came before.                               *)
LinkCounts ==
  Quiet => \A l \in Labels : Count(l) = Cardinality(Linked(disk, l))

NumsOf(l) == UNION {x[1] .. x[2] : x \in disk.extents[l]}

SizeOf(l) ==
  IF Users(l) # {} THEN handles[CHOOSE h \in Users(l) : TRUE].size
  ELSE IF Has(l, "S") THEN Get(l, "S") ELSE 0

(* A file has exactly the blocks below its size: the handle's while it is  *)
(* open, that of its key S once it is closed.                              *)
SizeCoversBlocks ==
  Quiet => \A l \in Labels : NumsOf(l) = 0 .. SizeOf(l) - 1

(* delete_file deletes all keys belonging to a file or directory, and its  *)
(* extents: between calls every label with any has a name.                 *)
NothingLeft ==
  Quiet => \A l \in Labels \ Prefixes :
             ({k \in DOMAIN disk.keys : k[1] = l} # {} \/ disk.extents[l] # {})
               => Linked(disk, l) # {}

(* At every step of every call, and so wherever a crash leaves the disk,   *)
(* a name leads to a file with a size or to a directory with a prefix.     *)
NoDangling ==
  crashes = 0 =>
    \A k \in Entries(disk) :
      Has(disk.keys[k].data,
          IF disk.keys[k].type = "K_FILE" THEN "S" ELSE "D")

(* No label in use, by a key, a name or an extent, is given out again, not *)
(* even after a crash: a flush always saves next_label.                    *)
FreshLabels ==
  /\ \A k \in DOMAIN disk.keys : k[1] < disk.next
  /\ \A k \in Entries(disk) : disk.keys[k].data < disk.next
  /\ \A l \in Labels : disk.extents[l] # {} => l < disk.next

(* Cutting or deleting a file finds all extents its size promises.         *)
NoError == crashes = 0 => fault = "none"

(* Every call returns.                                                     *)
CallsEnd == (todo # <<>>) ~> (todo = <<>> \/ crashes > 0)
=============================================================================
