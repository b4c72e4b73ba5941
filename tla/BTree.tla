-------------------------------- MODULE BTree --------------------------------
(***************************************************************************)
(* The tree of fs/tree.c: sorted keys in blocks of limited size below one  *)
(* root, with copy-on-split and copy-on-merge.                             *)
(*                                                                         *)
(* Each function is an operator on the record tree (its root, its blocks   *)
(* and the error() that stopped the program, if any).  One that reports an *)
(* EFFECT to its caller yields [tree, effect].  A name is a number: only   *)
(* its place in COMPARE_FUNCTION's order and its length matter; 0 is "".   *)
(* Blocks are taken to stay where they are while the tree holds them: that *)
(* is what BlockCache is about.                                            *)
(***************************************************************************)
EXTENDS Integers, FiniteSets, SequencesExt

CONSTANTS
  Names,       (* the names of plain keys                                  *)
  AllNames,    (* every name a block may hold                              *)
  Length,      (* strlen of each of AllNames                               *)
  Data,        (* what a plain key points to                               *)
  TreeBlocks,  (* locations for blocks of the tree                         *)
  BlockSize,   (* fs->block_size                                           *)
  HeaderSize   (* sizeof (struct tree_block_header)                        *)

ASSUME NamesAssumption ==
  /\ AllNames \subseteq Nat /\ Names \subseteq AllNames \ {0}
  /\ 0 \in AllNames /\ Length \in [AllNames -> Nat]
  /\ \A n \in AllNames : Length[n] = 0 <=> n = 0
ASSUME SizesAssumption == BlockSize \in Nat /\ HeaderSize \in 0 .. BlockSize

VARIABLE tree

NoEffect == [type |-> "E_NONE"]
Shrink == [type |-> "E_SHRINK"]

Fail(t, why) == [t EXCEPT !.fault = IF @ = "none" THEN why ELSE @]

-----------------------------------------------------------------------------
(* One block.                                                              *)

(* How many keys are not above name: the position of find_key, from 1.     *)
FindKey(keys, name) == Cardinality({i \in DOMAIN keys : keys[i].name <= name})

Found(keys, name) ==
  FindKey(keys, name) > 0 /\ keys[FindKey(keys, name)].name = name

RequiredSpace(name, height) ==
  Length[name] + 1 + (IF height = 0 THEN 1 ELSE 0) + 2 + 4

FreeSpace(node) ==
  FoldLeft(LAMBDA n, k : n - RequiredSpace(k.name, node.height),
           BlockSize - HeaderSize, node.keys)

StringSize(keys) == FoldLeft(LAMBDA n, k : n + Length[k.name] + 1, 0, keys)

AddKeyToIndex(keys, key) == InsertAt(keys, FindKey(keys, key.name) + 1, key)

RemoveKeyFromIndex(keys, name) == RemoveAt(keys, FindKey(keys, name))

(* Mutant: the bytes of all names are not halved.                          *)
PivotWhole(keys) ==
  LET Half(i) == StringSize(SubSeq(keys, 1, i)) >= StringSize(keys)
  IN CHOOSE i \in 0 .. Len(keys) :
       Half(i) /\ \A j \in 0 .. Len(keys) : Half(j) => i <= j

(* split_index: the first keys with half the bytes of all names.           *)
Pivot(keys) ==
  LET Half(i) == StringSize(SubSeq(keys, 1, i)) >= StringSize(keys) \div 2
  IN CHOOSE i \in 0 .. Len(keys) :
       Half(i) /\ \A j \in 0 .. Len(keys) : Half(j) => i <= j

(* Mutant: a block of children keeps the name of its first key.            *)
SecondHalfNamed(node, p) == SubSeq(node.keys, p + 1, Len(node.keys))

SecondHalf(node, p) ==
  LET rest == SubSeq(node.keys, p + 1, Len(node.keys))
  IN IF node.height = 0 THEN rest
     ELSE <<[name |-> 0, data |-> rest[1].data]>> \o Tail(rest)

(* merge_indexes: every key is added at its place, "" under its separator. *)
MergeIndexes(left, name, right) ==
  LET Named(k) ==
        IF right.height > 0 /\ k.name = 0 THEN [k EXCEPT !.name = name] ELSE k
  IN FoldLeft(AddKeyToIndex, left.keys,
              [i \in DOMAIN right.keys |-> Named(right.keys[i])])

-----------------------------------------------------------------------------
(* Blocks of the tree.  allocate_block gives a location of no live block,  *)
(* or stops the program; TreeBlocks are all there are.                     *)

FreeBlock == [height |-> -1, keys |-> <<>>]
Locs(t) == {l \in TreeBlocks : t.nodes[l] # FreeBlock}
Fresh(t) == CHOOSE l \in TreeBlocks : Locs(t) # TreeBlocks => l \notin Locs(t)

Store(t, l, node) ==
  IF l \in Locs(t) THEN Fail(t, "full") ELSE [t EXCEPT !.nodes[l] = node]

Deallocate(t, ls) ==
  FoldSet(LAMBDA l, u : [u EXCEPT !.nodes[l] = FreeBlock], t, ls)

SetKeys(t, l, keys) == [t EXCEPT !.nodes[l].keys = keys]

(* The old block is given back by the caller, who repoints its parent.     *)
SplitBlock(t, l) ==
  LET node == t.nodes[l]
      p == Pivot(node.keys)
      l0 == Fresh(t)
      t0 == Store(t, l0, [node EXCEPT !.keys = SubSeq(node.keys, 1, p)])
      l1 == Fresh(t0)
  IN IF p >= Len(node.keys)
     THEN [tree |-> Fail(t, "pivot"), effect |-> NoEffect]
     ELSE [tree |-> Store(t0, l1, [node EXCEPT !.keys = SecondHalf(node, p)]),
           effect |-> [type |-> "E_SPLIT", new0 |-> l0, new1 |-> l1,
                       name |-> node.keys[p + 1].name]]

AddKey(t, l, key) ==
  IF RequiredSpace(key.name, t.nodes[l].height) > FreeSpace(t.nodes[l])
  THEN Fail(t, "space")
  ELSE IF Found(t.nodes[l].keys, key.name) THEN Fail(t, "exists")
  ELSE SetKeys(t, l, AddKeyToIndex(t.nodes[l].keys, key))

(* Mutant: the key always goes to the first half.                          *)
HalfForFirst(effect, name) == effect.new0

HalfFor(effect, name) == IF name >= effect.name THEN effect.new1 ELSE effect.new0

InsertKey(t, l, key) ==
  LET Into(r) ==
        IF r.effect.type # "E_SPLIT" THEN r
        ELSE [r EXCEPT !.tree =
                AddKey(r.tree, HalfFor(r.effect, key.name), key)]
  IN IF RequiredSpace(key.name, t.nodes[l].height) > FreeSpace(t.nodes[l])
     THEN Into(SplitBlock(t, l))
     ELSE [tree |-> AddKey(t, l, key), effect |-> NoEffect]

DeleteKey(t, l, name) ==
  IF ~ Found(t.nodes[l].keys, name)
  THEN [tree |-> Fail(t, "missing"), effect |-> Shrink]
  ELSE [tree |-> SetKeys(t, l, RemoveKeyFromIndex(t.nodes[l].keys, name)),
        effect |-> Shrink]

ReplaceKey(t, l, old, key) == InsertKey(DeleteKey(t, l, old).tree, l, key)

SetData(t, l, pos, data) == [t EXCEPT !.nodes[l].keys[pos].data = data]

UpdateKey(t, l, name, data) ==
  IF FindKey(t.nodes[l].keys, name) = 0 THEN Fail(t, "missing")
  ELSE SetData(t, l, FindKey(t.nodes[l].keys, name), data)

-----------------------------------------------------------------------------
(* search: down to a leaf, where the callback acts, and up again.          *)

(* The block at each height on the way to name.                            *)
Path(t, name) ==
  LET top == t.nodes[t.root].height
      at[h \in 0 .. top] ==
        IF h = top THEN t.root
        ELSE t.nodes[at[h + 1]].keys[FindKey(t.nodes[at[h + 1]].keys, name)].data
  IN at

Leaf(t, name) == Path(t, name)[0]

(* Mutant: the right one of the two blocks is not given back.              *)
MergeLeaks(t, l, pos, child) ==
  LET keys == t.nodes[l].keys
      left == keys[pos - 1].data
  IN DeleteKey([t EXCEPT !.nodes[left].keys =
                  MergeIndexes(t.nodes[left], keys[pos].name, t.nodes[child])],
               l, keys[pos].name)

(* merge_blocks into a new block, which takes the place of both.           *)
MergeBlocks(t, l, pos, child) ==
  LET keys == t.nodes[l].keys
      left == keys[pos - 1].data
      new == Fresh(t)
      merged == [t.nodes[left] EXCEPT
                   !.keys = MergeIndexes(t.nodes[left], keys[pos].name,
                                         t.nodes[child])]
      Checked(u) == IF FreeSpace(merged) < 0 THEN Fail(u, "space") ELSE u
      Point(u) == SetData(u, l, pos - 1, new)
      Given(u) == Deallocate(u, {left, child})
  IN DeleteKey(Point(Given(Checked(Store(t, new, merged)))), l, keys[pos].name)

(* The two blocks together fill less than a third of the space.            *)
Roomy(t, left, child) ==
  100 * (FreeSpace(t.nodes[left]) + FreeSpace(t.nodes[child]))
    > 67 * 2 * BlockSize

(* What search_tree does to block l after the search below it returned r;  *)
(* after an error() nothing is done any more.                              *)
Settle(r, l, name) ==
  LET t == r.tree
      keys == t.nodes[l].keys
      pos == FindKey(keys, name)
      child == keys[pos].data
      Free(s) == [s EXCEPT !.tree = Deallocate(s.tree, {child})]
  IN CASE t.fault = "none" /\ r.effect.type = "E_SPLIT" ->
            Free(InsertKey(UpdateKey(t, l, keys[pos].name, r.effect.new0), l,
                           [name |-> r.effect.name, data |-> r.effect.new1]))
       [] t.fault = "none" /\ r.effect.type = "E_SHRINK" /\ pos > 1
            /\ Roomy(t, keys[pos - 1].data, child) ->
            MergeBlocks(t, l, pos, child)
       [] OTHER -> [r EXCEPT !.effect = NoEffect]

(* What search does to the root.  A new root without room for two keys     *)
(* stops the program in insert_key, too.                                   *)
NewRoot(r) ==
  LET t == r.tree
      old == t.nodes[t.root]
      new == Fresh(t)
      Added(u, name, l) == AddKey(u, new, [name |-> name, data |-> l])
      first == Added(Store(t, new, [height |-> old.height + 1, keys |-> <<>>]),
                     0, r.effect.new0)
  IN CASE t.fault = "none" /\ r.effect.type = "E_SPLIT" ->
            [Deallocate(Added(first, r.effect.name, r.effect.new1), {t.root})
               EXCEPT !.root = new]
       [] /\ t.fault = "none" /\ r.effect.type = "E_SHRINK"
          /\ old.height > 0 /\ Len(old.keys) = 1 ->
            [Deallocate(t, {t.root}) EXCEPT !.root = old.keys[1].data]
       [] OTHER -> t

(* The tree after a search for name whose callback returned leafResult.    *)
Search(t, name, leafResult) ==
  LET path == Path(t, name)
      up[h \in DOMAIN path] ==
        IF h = 0 THEN leafResult ELSE Settle(up[h - 1], path[h], name)
  IN NewRoot(up[t.nodes[t.root].height])

(* key_operation_callback.                                                 *)
KeyOperation(t, l, op, name, data) ==
  CASE op = "O_DELETE" /\ Found(t.nodes[l].keys, name) ->
         DeleteKey(t, l, name)
    [] op = "O_REPLACE" /\ Found(t.nodes[l].keys, name) ->
         [tree |-> UpdateKey(t, l, name, data), effect |-> NoEffect]
    [] op \in {"O_INSERT", "O_REPLACE"} /\ ~ Found(t.nodes[l].keys, name) ->
         InsertKey(t, l, [name |-> name, data |-> data])
    [] OTHER -> [tree |-> t, effect |-> NoEffect]

(* traverse: the loop over a block begins at the greatest key not above    *)
(* the prefix; what it lists at key k depends on the height of the block.  *)
(* The prefix is that of the names lo .. hi.                               *)
KeysFrom(keys, lo) ==
  LET first == IF FindKey(keys, lo) = 0 THEN 1 ELSE FindKey(keys, lo)
  IN SubSeq(keys, first, Len(keys))

(* Mutant: a block of children is skipped if its key is below the prefix.  *)
ListedBehind(list, height, k, lo, hi) ==
  IF k.name < lo \/ k.name > hi THEN <<>>
  ELSE IF height = 0 THEN <<k.name>> ELSE list[k.data]

Listed(list, height, k, lo, hi) ==
  IF k.name > hi \/ (height = 0 /\ k.name < lo) THEN <<>>
  ELSE IF height = 0 THEN <<k.name>> ELSE list[k.data]

Traverse(t, lo, hi) ==
  LET list[l \in Locs(t)] ==
        FoldLeft(LAMBDA names, k :
                   names \o Listed(list, t.nodes[l].height, k, lo, hi),
                 <<>>, KeysFrom(t.nodes[l].keys, lo))
  IN list[t.root]
=============================================================================
