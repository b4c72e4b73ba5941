------------------------------- MODULE Extents -------------------------------
(***************************************************************************)
(* The blocks of one file as keys of the tree (fs/file.c): an extent is a  *)
(* key "label/X<start>-<stop>" whose data is the location of block start.  *)
(* Looking a block up, adding one and cutting the file off are searches    *)
(* for "label/X<num>-99999999", whose callbacks insert, replace and delete *)
(* keys of the leaf they are given.  Other keys come and go beside it.     *)
(***************************************************************************)
EXTENDS BTree

CONSTANTS
  XBase,       (* the place of "label/X" in the order of names             *)
  MaxNum,      (* bound on the number of a block in the file               *)
  MaxGap,      (* bound on the blocks a write skips past the end           *)
  DataBlocks   (* locations of data blocks                                 *)

VARIABLES
  size,        (* the handle's size, in blocks                             *)
  reducing     (* the loop of reduce_file: blocks left and blocks to keep  *)

vars == <<tree, size, reducing>>

Nums == 0 .. MaxNum
Idle == [num |-> 0, new |-> 0]

Extent(start, stop) == XBase + start * (MaxNum + 2) + stop
SearchName(num) == Extent(num, MaxNum + 1)
IsExtent(name) == name \in XBase .. SearchName(MaxNum)
StartOf(name) == (name - XBase) \div (MaxNum + 2)
StopOf(name) == (name - XBase) % (MaxNum + 2)

ASSUME ExtentsAssumption ==
  /\ XBase \in Nat \ {0} /\ MaxNum \in Nat /\ MaxGap \in Nat
  /\ DataBlocks \subseteq Nat
  /\ \A start, stop \in Nums : Extent(start, stop) \in AllNames
  /\ \A name \in Names : ~ IsExtent(name)

(* The key a callback is given.  Before the first key of a leaf the code   *)
(* reads a type and an offset that are not there; it is taken to see no    *)
(* extent then.                                                            *)
KeyAt(t, name) ==
  LET keys == t.nodes[Leaf(t, name)].keys
      pos == FindKey(keys, name)
  IN IF pos = 0 THEN [name |-> 0, data |-> 0] ELSE keys[pos]

LeafKeys ==
  UNION {ToSet(tree.nodes[l].keys) :
           l \in {m \in Locs(tree) : tree.nodes[m].height = 0}}

Extents == {k \in LeafKeys : IsExtent(k.name)}
NumsOf(k) == StartOf(k.name) .. StopOf(k.name)
At(k, num) == k.data + num - StartOf(k.name)
UsedBlocks == UNION {{At(k, num) : num \in NumsOf(k)} : k \in Extents}

-----------------------------------------------------------------------------
Init ==
  /\ \E l \in TreeBlocks :
       tree = [root |-> l, fault |-> "none",
               nodes |-> [m \in TreeBlocks |->
                 IF m = l THEN [height |-> 0, keys |-> <<>>] ELSE FreeBlock]]
  /\ size = 0 /\ reducing = Idle

Ready == tree.fault = "none" /\ reducing = Idle

(* add_labelled_key and delete_labelled_key.                               *)
KeyOp(op, name, data) ==
  /\ Ready
  /\ tree' = Search(tree, name,
                    KeyOperation(tree, Leaf(tree, name), op, name, data))
  /\ UNCHANGED <<size, reducing>>

(* Mutant: a block is appended to an extent that ends anywhere else.       *)
ContinuesAnywhere(k, num, b) ==
  IsExtent(k.name) /\ StopOf(k.name) = num - 1

Continues(k, num, b) ==
  /\ IsExtent(k.name)
  /\ StopOf(k.name) = num - 1
  /\ At(k, StopOf(k.name)) = b - 1

(* get_file_data_block of a block the file has.                            *)
Holds(k, num) == IsExtent(k.name) /\ num \in NumsOf(k)

(* get_file_data_block: the callback allocates block b for num, unless the *)
(* extent it is shown has it.                                              *)
GetFileDataBlock(num) ==
  LET leaf == Leaf(tree, SearchName(num))
      key == KeyAt(tree, SearchName(num))
      Added(b) ==
        IF Continues(key, num, b)
        THEN ReplaceKey(tree, leaf, key.name,
               [name |-> Extent(StartOf(key.name), num), data |-> key.data])
        ELSE InsertKey(tree, leaf, [name |-> Extent(num, num), data |-> b])
  IN /\ Ready /\ num <= size + MaxGap
     /\ \/ /\ Holds(key, num)
           /\ UNCHANGED tree
        \/ /\ ~ Holds(key, num)
           /\ \E b \in DataBlocks \ UsedBlocks :
                tree' = Search(tree, SearchName(num), Added(b))
     /\ size' = IF num < size THEN size ELSE num + 1
     /\ UNCHANGED reducing

(* fs_truncate to new blocks: reduce_file starts, if there is work to do.  *)
Truncate(new) ==
  /\ Ready /\ new <= size + MaxGap
  /\ reducing' = IF new < size THEN [num |-> size, new |-> new] ELSE Idle
  /\ size' = new
  /\ UNCHANGED tree

(* One pass of the loop of reduce_file.                                    *)
Reduce ==
  LET name == SearchName(reducing.num - 1)
      key == KeyAt(tree, name)
      leaf == Leaf(tree, name)
      start == StartOf(key.name)
      first == IF start > reducing.new THEN start ELSE reducing.new
      Reduced ==
        IF first <= start
        THEN DeleteKey(tree, leaf, key.name)
        ELSE ReplaceKey(tree, leaf, key.name,
               [name |-> Extent(start, first - 1), data |-> key.data])
  IN /\ tree.fault = "none" /\ reducing # Idle
     /\ IF ~ IsExtent(key.name) \/ StopOf(key.name) < reducing.new
        THEN tree' = Fail(tree, "extent") /\ UNCHANGED reducing
        ELSE /\ tree' = Search(tree, name, Reduced)
             /\ reducing' = IF first > reducing.new
                            THEN [reducing EXCEPT !.num = first] ELSE Idle
     /\ UNCHANGED size

Next ==
  \/ \E n \in Names :
       \/ KeyOp("O_DELETE", n, 0)
       \/ \E d \in Data : KeyOp("O_REPLACE", n, d)
  \/ \E num \in Nums : GetFileDataBlock(num) \/ Truncate(num)
  \/ Reduce

Spec == Init /\ [][Next]_vars

-----------------------------------------------------------------------------
(* Properties.                                                             *)

(* Blocks are records of sorted keys that fit; heights count down to the   *)
(* leaves; every block of children starts with "".                         *)
TypeOK ==
  /\ tree.root \in Locs(tree)
  /\ \A l \in Locs(tree) :
       LET node == tree.nodes[l]
       IN /\ FreeSpace(node) >= 0
          /\ \A i \in 1 .. Len(node.keys) - 1 :
               node.keys[i].name < node.keys[i + 1].name
          /\ node.height > 0 =>
               /\ Len(node.keys) > 0 /\ node.keys[1].name = 0
               /\ \A i \in DOMAIN node.keys :
                    /\ node.keys[i].data \in Locs(tree)
                    /\ tree.nodes[node.keys[i].data].height = node.height - 1
  /\ size \in 0 .. MaxNum + 1
  /\ reducing \in [num : 0 .. MaxNum + 1, new : Nums]

(* Splits, merges and changes of the root neither leak a block nor give    *)
(* one back that is in use: every block of the tree but its root is the    *)
(* child of exactly one key.                                               *)
ReachedOnce ==
  \A l \in Locs(tree) :
    Cardinality({p \in UNION {{m} \X DOMAIN tree.nodes[m].keys :
                     m \in {k \in Locs(tree) : tree.nodes[k].height > 0}} :
                   tree.nodes[p[1]].keys[p[2]].data = l})
      = (IF l = tree.root THEN 0 ELSE 1)

(* An exact search finds each plain key with the data it was given last,   *)
(* although separators stay behind when the keys they were taken from are  *)
(* deleted or replaced.                                                    *)
KeysFound ==
  \A k \in LeafKeys : k.name \in Names => KeyAt(tree, k.name) = k

(* A listing meets every key of a prefix, each once, in order, whatever    *)
(* the separators on its way are.                                          *)
ListingComplete ==
  \A lo, hi \in Names :
    lo <= hi =>
      LET names == Traverse(tree, lo, hi)
      IN /\ ToSet(names) = {k.name : k \in LeafKeys} \cap (lo .. hi)
         /\ \A i, j \in DOMAIN names : i < j => names[i] < names[j]

(* No call stops the program: no block is too full after a split, no key   *)
(* is inserted twice or missing, no extent is missing when a file is cut.  *)
NoError == tree.fault = "none"

NumsMapped == UNION {NumsOf(k) : k \in Extents}

KeysHeld ==
  [n \in {k.name : k \in LeafKeys} \cap Names |->
     (CHOOSE k \in LeafKeys : k.name = n).data]

BlocksHeld ==
  [num \in NumsMapped |-> At(CHOOSE k \in Extents : num \in NumsOf(k), num)]

(* The keys and the blocks the file has are those of a map: a block once   *)
(* written keeps its location through all splits, merges, extensions and   *)
(* truncations of extents, and no two blocks share one.                    *)
Map == INSTANCE KeyMap WITH keys <- KeysHeld, blocks <- BlocksHeld

MapSpec == Map!Spec
=============================================================================
