------------------------------ MODULE TreeCalls ------------------------------
(***************************************************************************)
(* What the calls of the tree and of the files (tree.c, file.c) do to the  *)
(* block layer, each from its first pin to its last: which blocks are      *)
(* pinned, allocated, freed and fetched, and in which order.  The tree is  *)
(* a root, or a root above some leaves; its keys are left to BTree.        *)
(* Two new blocks stay unpinned while others are allocated or freed, and   *)
(* their locations are read from their slots only afterwards: a data block *)
(* whose key makes the leaf split, and a new root; and the halves of a     *)
(* split are pinned only when both are allocated.  Pins that a function    *)
(* takes on a block that its caller has pinned are left out.               *)
(***************************************************************************)
EXTENDS BlockCache

CONSTANTS
  MaxLeaves,   (* bound: leaves under the root                             *)
  MaxCalls     (* bound: calls made                                        *)

VARIABLES
  root,        (* fs->root_location                                        *)
  calls        (* calls made so far                                        *)

callVars == <<vars, root, calls>>

Leaves == {l \in Locations : owned[l] = "B_TREE"} \ {root}
Tree == Leaves \cup {root}
TreeLeaves == IF Leaves = {} THEN {root} ELSE Leaves
DataBlocks == {l \in Locations : owned[l] = "B_DATA"}

-----------------------------------------------------------------------------
(* The steps of a call.                                                    *)

MarkDirty(f, s) == [f EXCEPT !.dirty = f.dirty \cup {s}]

(* get_block, the caller's pin, and the pin of search_tree.                *)
Enter(f, l) ==
  LET Pinned(r) == [slot |-> r.slot, fs |-> Pin(Pin(Need(r), r.slot), r.slot)]
  IN Pinned(GetBlock(f, l))

Child(top, leaf) ==
  LET Reached(low) == [fs |-> low.fs, top |-> top.slot, leaf |-> low.slot]
  IN Reached(IF leaf = root THEN top ELSE Enter(top.fs, leaf))

(* Mutant: the superblock is not pinned.                                   *)
DescendUnpinned(leaf) == Child(Enter(fs, root), leaf)

(* search and search_tree, down to the callback at the leaf.               *)
Descend(leaf) == Child(Enter(Pin(fs, fs.superslot), root), leaf)

(* The unpins on the way back: when the callback has returned, when the    *)
(* parent has dealt with what became of the leaf, and at the end of search. *)
FromLeaf(f, at) == Unpin(f, at.leaf)
FromParent(f, at) == IF at.leaf = at.top THEN f ELSE Unpin(Unpin(f, at.leaf), at.top)
FromRoot(f, at) == Unpin(Unpin(f, at.top), f.superslot)

(* split_block: both halves are allocated, then both are pinned.           *)
Halves(f) ==
  LET Both(a, b) == [fs |-> Pin(Pin(b.fs, a.slot), b.slot), a |-> a.slot, b |-> b.slot]
      Second(a) == Both(a, AllocateBlock(a.fs, "B_TREE", 0))
  IN Second(AllocateBlock(f, "B_TREE", 0))

(* Mutant: the second half stays pinned.                                   *)
HangHalvesPinned(h, at) ==
  LET g == Unpin(MarkDirty(FromLeaf(h.fs, at), at.top), h.a)
  IN [fs |-> FromParent(DeallocateBlock(g, "B_TREE", g.loc[at.leaf]), at), root |-> root]

(* The split of a leaf under the root: the root gets the halves' keys.     *)
HangHalves(h, at) ==
  LET g == Unpin(Unpin(MarkDirty(FromLeaf(h.fs, at), at.top), h.a), h.b)
  IN [fs |-> FromParent(DeallocateBlock(g, "B_TREE", g.loc[at.leaf]), at), root |-> root]

(* The split of the root: a new one is made above the halves, and its      *)
(* location is taken from its slot when the old root has been freed.       *)
RootAbove(h, at) ==
  LET FreeOld(g) == DeallocateBlock(g, "B_TREE", g.loc[at.top])
      Located(f, n) == [fs |-> f, root |-> f.loc[n.slot]]
      Above(n) == Located(FreeOld(Unpin(Unpin(n.fs, h.a), h.b)), n)
  IN Above(AllocateBlock(FromLeaf(h.fs, at), "B_TREE", 0))

(* merge_blocks: one block in place of a leaf and its neighbour.           *)
MergeBlocks(n) ==
  LET Pinned(m) == [fs |-> Pin(m.fs, m.slot), slot |-> m.slot]
  IN Pinned(AllocateBlock(Pin(Need(n), n.slot), "B_TREE", 0))

FreeMerged(m, n, at) ==
  DeallocateBlock(DeallocateBlock(m.fs, "B_TREE", m.fs.loc[n.slot]),
                  "B_TREE", m.fs.loc[at.leaf])

(* search_tree puts the merged block into the parent.                      *)
HangMerged(f, m, n, at) ==
  FromParent(Unpin(MarkDirty(Unpin(f, m.slot), at.top), n.slot), at)

(* Two leaves too full to be merged.                                       *)
LookBeside(n) == Unpin(Pin(Need(n), n.slot), n.slot)

(* traverse: a clone of the block, pinned while it is read.                *)
Traverse(f, l) ==
  LET Pinned(c) == [slot |-> c.slot, fs |-> Pin(c.fs, c.slot)]
      Cloned(r) == Pinned(CloneBlock(Need(r), r.slot))
  IN Cloned(GetBlock(f, l))

-----------------------------------------------------------------------------
(* The calls.                                                              *)

(* The cache has SpareSlots slots to reuse; and the bound MaxBlocks lets n  *)
(* blocks be allocated, none of them before the target.                    *)
Ready(n, target) ==
  LET free == {l \in Locations : /\ 0 < l /\ l >= target /\ l < fs.num_blocks
                                 /\ Group(l) = Group(target)
                                 /\ owned[l] = "none"
                                 /\ \A g \in Groups : fs.super.bitmaps[g] # l}
      grown == n - Cardinality(free)
  IN /\ Running /\ calls < MaxCalls /\ Cardinality(Reusable(fs)) >= SpareSlots
     /\ grown <= 0 \/ CanGrow(grown)

(* The blocks of the tree are those of T; error() ends the process instead. *)
Leaving(f, data, T, newRoot) ==
  /\ Returns(f, [l \in Locations |-> CASE l \in T -> "B_TREE" [] l \in data -> "B_DATA"
                                       [] OTHER -> "none"], hold)
  /\ root' = IF f.fault THEN root ELSE newRoot
  /\ calls' = calls + 1

(* fetch_key, or get_file_data_block of a block that the file has, which   *)
(* the caller then reads, or writes and marks dirty.                       *)
Fetch(leaf) ==
  LET at == Descend(leaf)
      f == FromRoot(FromParent(FromLeaf(at.fs, at), at), at)
  IN /\ Ready(0, 0)
     /\ \/ Leaving(f, DataBlocks, Tree, root)
        \/ \E l \in DataBlocks :
             LET r == GetBlock(f, l)
             IN \/ Leaving(r.fs, DataBlocks, Tree, root)
                \/ Leaving(MarkDirty(r.fs, r.slot), DataBlocks, Tree, root)

(* insert_key, update_key or replace_key from a callback at the leaf, from *)
(* the state f; a leaf that has no room is split.                          *)
Stay(f, at) == FromParent(FromLeaf(MarkDirty(f, at.leaf), at), at)

SplitLeaf(h, at) == IF at.leaf = at.top THEN RootAbove(h, at) ELSE HangHalves(h, at)

(* The blocks of the tree after a split, from the slots of the halves.     *)
AfterSplit(h, leaf, newRoot) ==
  (Tree \ {leaf}) \cup {h.fs.loc[h.a], h.fs.loc[h.b], newRoot}

AddKey(leaf) ==
  \E at \in {Descend(leaf)} :
    \/ /\ Ready(0, 0)
       /\ Leaving(FromRoot(Stay(at.fs, at), at), DataBlocks, Tree, root)
    \/ /\ Ready(3, 0) /\ Cardinality(Leaves) < MaxLeaves
       /\ \E h \in {Halves(at.fs)} : \E cut \in {SplitLeaf(h, at)} :
            Leaving(FromRoot(cut.fs, at), DataBlocks, AfterSplit(h, leaf, cut.root), cut.root)

(* get_file_data_block of a block that the file does not have.  The block's *)
(* location is taken from its slot after its key has been inserted.        *)
Written(f, l) ==
  LET Write(r) == MarkDirty(Need(r), r.slot)
  IN Write(GetBlock(f, l))

Append(leaf, target) ==
  /\ target = 0 \/ owned[target] = "B_DATA"
  /\ \E at \in {Descend(leaf)} : \E d \in {AllocateBlock(at.fs, "B_DATA", target)} :
       \/ /\ Ready(1, target)
          /\ Leaving(Written(FromRoot(Stay(d.fs, at), at), d.fs.loc[d.slot]),
                     DataBlocks \cup {d.fs.loc[d.slot]}, Tree, root)
       \/ /\ Ready(4, target) /\ Cardinality(Leaves) < MaxLeaves
          /\ \E h \in {Halves(d.fs)} : \E cut \in {SplitLeaf(h, at)} :
               Leaving(Written(FromRoot(cut.fs, at), h.fs.loc[d.slot]),
                       DataBlocks \cup {h.fs.loc[d.slot]},
                       AfterSplit(h, leaf, cut.root), cut.root)

(* The end of search: a leaf that is alone takes the place of the root.   *)
WithMerged(f, at, data, leaves) ==
  \/ /\ Cardinality(leaves) > 1
     /\ Leaving(FromRoot(f, at), data, leaves \cup {root}, root)
  \/ \E l \in leaves :
       /\ leaves = {l}
       /\ Leaving(FromRoot(DeallocateBlock(f, "B_TREE", f.loc[at.top]), at), data, leaves, l)

(* delete_key from a callback at the leaf, for an extent after its blocks  *)
(* have been freed (reduce_file_callback); the leaf may then be merged.    *)
Cut(f, B) == IF B = {} THEN f ELSE DeallocateBlock(f, "B_DATA", CHOOSE l \in B : TRUE)

Remove(leaf) ==
  \E B \in {{}} \cup {{l} : l \in DataBlocks}, at \in {Descend(leaf)} :
    \E f \in {FromLeaf(MarkDirty(Cut(at.fs, B), at.leaf), at)} :
      \/ /\ Ready(0, 0)
         /\ Leaving(FromRoot(FromParent(f, at), at), DataBlocks \ B, Tree, root)
      \/ \E n \in {GetBlock(f, l) : l \in TreeLeaves \ {leaf}} :
           \/ /\ Ready(0, 0)
              /\ Leaving(FromRoot(FromParent(LookBeside(n), at), at), DataBlocks \ B, Tree, root)
           \/ /\ Ready(1, 0)
              /\ \E m \in {MergeBlocks(n)} :
                   WithMerged(HangMerged(FreeMerged(m, n, at), m, n, at), at, DataBlocks \ B,
                              (Leaves \ {leaf, n.fs.loc[n.slot]}) \cup {m.fs.loc[m.slot]})

(* fs_list_files: a clone of the root is read, and a clone of each leaf.   *)
List ==
  LET left(at) == Unpin(at.fs, at.slot)
      leaf(l, f) == left(Traverse(f, l))
      top == Traverse(fs, root)
      f == FoldFunctionOnSet(leaf, top.fs, [l \in Locations |-> l], Leaves)
  IN Ready(0, 0) /\ Leaving(Unpin(f, top.slot), DataBlocks, Tree, root)

CallInit == Init /\ root = 2 /\ calls = 0

CallNext ==
  \/ (Flush \/ Close \/ Open) /\ UNCHANGED <<root, calls>>
  \/ List
  \/ \E leaf \in TreeLeaves :
       \/ Fetch(leaf) \/ AddKey(leaf) \/ Remove(leaf)
       \/ \E target \in Locations : Append(leaf, target)

CallSpec == CallInit /\ [][CallNext]_callVars

-----------------------------------------------------------------------------
(* Properties.                                                             *)

(* Every call unpins what it has pinned, through splits, new roots and     *)
(* merges: between calls the superblock's pin is the only one, or the      *)
(* close would stop with an error and slots would be lost to the cache.    *)
CallsUnpin ==
  fs.open /\ ~fs.fault =>
    /\ fs.total_pins = 1
    /\ \A s \in Slots : fs.pins[s] = IF s = fs.superslot THEN 1 ELSE 0
=============================================================================
