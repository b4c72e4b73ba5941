# Verification of ejrh/ejrh

The repository is a collection of independent programs. This directory holds
TLA+ models of the ones with a core logic of their own, TLC configurations that
check the models on small instances, and proofs, checked by TLAPS, for all
instances. Line references are to the files under `src/`.

## 1. The system and its parts

### fs: a file system in a file (C)

| Part | State | Operations |
|---|---|---|
| block layer, `fs/block.c` | cache of slots (location, buffer, flags, pins), hash, LRU array, file | `get_block`, `pin`, `unpin`, `clone_block`, `allocate_block`, `deallocate_block`, `bitmap_set`, `flush_block` |
| mount, `fs/fs.c` | superblock (bitmap locations, counts, root, next label), handles | `create_fs`, `open_fs`, `flush_fs`, `close_fs`, `find_free_handle_slot` |
| B-tree, `fs/tree.c` | blocks of sorted keys below one root | `search`, `insert_key`, `split_block`, `merge_blocks`, `traverse` |
| files, `fs/file.c` | keys for attributes, extents and directory entries of a label | `create_file`, `create_link`, `get_file_data_block`, `reduce_file`, `delete_link` |
| operations, `fs/operations.c` | handle: label, size, modified flag | open, read, write, truncate, link, delete, close |
| drivers, `fs/linux/main.c`, `fs/win/main.c` | the mounted file systems; a timer | FUSE and Dokan callbacks; `catch_alarm` flushes every 2 s |
| `fs/special.c` | none | debug files, read only |

A driver calls the operations, which call files, which search the tree with a
callback that may change it; the tree gets, pins, clones and allocates blocks.
The timer signal runs `flush_fs` in the middle of all that. What is hard: a
block is a pointer to a cache slot, valid only while pinned; an allocation may
evict what is not pinned, flush, or allocate a bitmap block first; the bitmaps
are blocks of the same cache; there is no journal. What makes it correct:

- block layer: a pinned block stays where it is, reads see the last write,
  nothing is lost by eviction or by closing, bitmaps and counts are exact, no
  call stops the program, pins balance;
- tree: an ordered map, with separators in order and every block reachable
  once; files: extents cover the size, links name existing labels; operations:
  the bytes read are the bytes last written; timer: a flush never makes the
  cache and the file disagree.

### match: a price-time matching engine (C)

`match/engine.c` keeps an array of order structs with a free list, a node per
price with the queue of its orders, a skip list of the nodes in use, pointers to
the best bid and ask, and a hash map from ids to orders. `limit` trades with
what it crosses, calling `execution` for each party, then queues the rest;
`cancel` takes an order out. It is sequential; what is hard is that five
structures share links (`next_in_bin` serves the free list and the bins) and
must agree after every sequence of calls, with every skip list height. It is
correct if it trades best price first and oldest first, conserves sizes, finds
every resting order by id, and neither leaks structs nor loops.

### svnindex: a Subversion indexer (C, PostgreSQL)

`svnindex/index.c` replays each revision through an editor and writes it with
`database.c`, one transaction per revision, from the youngest revision in the
database on. Hard: two indexers at once, errors and cancellation between and
inside transactions, deletions held back to become replacements, and records
that start as copies of a predecessor's, so that one wrong record spreads to
later revisions. Correct if the database holds a prefix of the revisions, each
once and complete, and reading a revision's tree from the records gives the
repository's.

### theorem: term rewriting (C)

`rule.c` matches the pattern of a rule at a point of a statement, binding names in
a table of bounded size, and builds a new statement with the rule's replacement
at that point; `grammar.y` makes the trees of both. Nothing runs concurrently and
nothing is kept: what is hard is the shape of the trees (a negation has one child,
a pattern may repeat a name) and what sequences of rules lead to. Correct if a
match is a substitution and, as theorem.html asks, the output follows from the
input.

### Tools and games

`utils/replay.py` replays commits with a pool of fetching threads and a commit
in two calls; `utils/viewer.py` shares an image cache between the window and a
preloading thread; `games/rankoids/rankoids_ai` searches a game with a
transposition table. The other games, `simulation/galaxy`, `music` and
`modelling` are sequential computations, numerics, sounds and scenes.

`PROJECT.json` lists each component with its status and each hazard at its line.

## 2. What is modelled

| Module | Models | Extends, instantiates |
|---|---|---|
| `BlockStore` | what the block layer promises | |
| `BlockCache` | `block.c`, mount part of `fs.c` | refines `BlockStore` |
| `TreeCalls` | the pins, allocations and frees of whole calls of `tree.c` and `file.c` | `BlockCache` |
| `KeyMap` | what the tree promises for keys and for a file's blocks | |
| `BTree` | `tree.c`, operators on a tree | |
| `Extents` | the keys of a file's blocks in the tree, `file.c` | `BTree`; refines `KeyMap` |
| `Files` | `file.c`, `operations.c`, calls of `linux/main.c` | over a map of keys |
| `OrderBook` | what `engine.h` promises | |
| `MatchEngine` | `match/engine.c` | refines `OrderBook` |
| `SvnTree` | trees, the editor of `index.c`, `schema-svn.sql` | |
| `SvnIndex` | the programs that index | `SvnTree`; refines `IndexLog` |
| `IndexLog` | what svnindex promises | |
| `Rewrite` | `rule.c`, with its trees and tables, of `theorem` | |
| `BlockCacheProofs`, `BlockContentProofs` | theorems about `BlockCache` | the second the first |
| `TreeProofs`, `ExtentsProofs` | theorems about `BTree` and `Extents` | the second the first |
| `FilesKeyProofs`, `FilesProofs` | theorems about `Files` | the second the first |
| `EngineProofs` | theorems about `MatchEngine` | |
| `SvnIndexProofs` | theorems about `SvnIndex` and `SvnTree` | |

### The block layer

**`BlockStore`** is what the layer promises its clients: a set of live blocks
with a current and a saved content; writes change the current one, allocation
adds a zeroed block, a flush saves all.

**`BlockCache`** is `block.c` with the mount code of `fs.c`. The record `fs` is
`struct FS`; the file is the function `fs.file`. Each C function is an operator
from one such record to the next (`FindFreeSlot`, `ReadBlock`, `TakeBlock`,
`BitmapSet`, ...), so nested calls - an allocation that reads a bitmap that
evicts a block - are composed as in the code. The actions are the ways in which
the tree and the operations use them: a block of the tree is got and pinned, changed
and marked dirty while pinned, released, cloned and pinned, or allocated and pinned
(`AllocateAndPin`, as in `merge_blocks`); a data block is never pinned, but read
(`ReadData`), changed (`WriteData`) or its location noted (`AllocateData`) before anything
else is asked of the layer; blocks are freed; and there are the timer's flush, close and
open. `fault` is set where the code calls `error()`, in `pin` too, when a block has
more than `MAX_PINS` pins. `owned` and `hold` are
history variables: who owns a block, and what each holder of a pin was given.
A block's contents are one value, or the set of bits of a bitmap. The hash
buckets are the set of hashed slots; the LRU array is the ranks of the slots.

**`TreeCalls`** has what whole calls do to that layer, from their first pin to their
last, each one step: a lookup or the read or write of a data block (`Fetch`), a key put
into a leaf with or without a split (`AddKey`), a data block added, its key inserted and
only then its location read from the slot (`Append`), a cut with or without a merge
(`Remove`), a listing by clones (`List`). The tree is a root, or a root above leaves, and
its keys are left out: whether a leaf splits or merges is a choice. Three kinds of new block
are not pinned at once: the halves of a split, the data block whose key makes the leaf split, and a new root.
Pins that a function takes on a block which its caller holds are left out, since they
come and go while the block is pinned anyway.

### The tree and a file's blocks

**`BTree`** is `tree.c`: a record of the root, the blocks and the `error()` that
stopped the program, and an operator for each function. What the functions pass
up in an `EFFECT` is the second field of their result. Names are numbers in
`COMPARE_FUNCTION`'s order, each with a length, and a block has the code's
arithmetic of free space, so splits happen for want of bytes and not of slots;
`split_index` halves the bytes. Blocks stay where they are while the tree holds
them: that is the subject of `BlockCache`. `search` is `Search`, from the leaf the
callback has changed up to the root (`Settle` at each height, `NewRoot` at the
top). The functions stop at an `error()`: when there is no block left (`Store`), no
room after a split or in a new root, a key twice or a key missing.

**`Extents`** puts one file's extents into that tree, with other keys beside
them. An extent's name carries its first and last block (`Extent`), and blocks
are looked up by the greatest name not above "num-99999999" (`SearchName`). The
actions are `add_labelled_key` and `delete_labelled_key` (`KeyOp`), a read or
write of a block (`GetFileDataBlock`), `fs_truncate` (`Truncate`) and each pass of
the loop of `reduce_file` (`Reduce`). Before the first key of a leaf the code
reads memory that is not a key (`get_key` with the position -1): the type is a byte of
the free space, and the name the string at the offset that the last two types make when read as
one number, 0x0505 in a leaf of extents. Live keys found there are greater than the name
that is searched, as all keys of the leaf are, and neither hold the block nor end just before it; a stale string at
that very place could be taken for an extent. The model takes it to be none (`KeyAt`).

**`KeyMap`** is what both promise: a map of keys, and a map from block numbers to
locations in which a block keeps its location until it is cut off.

### Files

**`Files`** is the layer above, over the map of keys that the tree promises. A FUSE
call is one action that checks what the driver and the operation check and sets
the handle, and a list of changes of keys (`todo`) which `Step` makes one at a
time, in the code's order. A change is one search of the tree: adding or deleting
a labelled key, mapping a block, one pass of `reduce_file`. Between any two of
them `Crash` may come: the timer flushes (`catch_alarm`) and the program stops, so
that the disk keeps exactly the changes made so far and the handles are gone.
`Read` is a call that changes something too, when it reads a hole. A truncation may
give any size and a write start anywhere; `Sparse` says whether the runs let them go beyond
the end of the file.
(A crash some time after a flush is the same as one at the flush: the calls in
between leave no trace.) `Call`'s guards say what FUSE gives: paths were looked
up before, and a file's last name is not unlinked while it is open, since FUSE
renames it then.

### The matching engine

**`OrderBook`** is what `engine.h` promises: a map from ids to resting orders;
a placed order trades with the first order by price and time, one at a step, and
rests when it crosses nothing.

**`MatchEngine`** is `engine.c`. The record `eng` is its static variables; the
links of the skip list, the queues, the bins and the free list are those of the
structs, so broken links can be expressed. A call of `limit` is a `Limit` step,
a `Consume` step for each pass of the loop of `consume_node` (where `execution`
calls back) and a `Finish` step; `Cancel` is one step. The random heights of
`add_to_list` are a choice. `fault` is set where an assertion fails or a null
pointer is followed; nothing follows a fault.

### svnindex

**`SvnTree`** has three parts. The first is the Subversion library, as far as
`index.c` sees it: a tree, and what a commit's changes do to it (external). The
second is the editor: the order in which paths come (`DriveOrder`), the deleted entries
that a directory remembers (`DeletedEntries`), an addition that takes one of them up and becomes
a replacement (`OpenOrAdd`), those that are left when the directory is closed
(`Unclaimed`, `CloseDirectory`), what an opened path is compared with
(`CompareWith`) and `index_node` (`IndexNode`). The third is the database: records
of nodes with their children, `get_predecessor_id`, `get_parent_id` and
`create_node` of `schema-svn.sql`, and the queries that read a tree back.
`MustDump` stands for the comparison of texts and properties.

**`SvnIndex`** runs several programs on one database: `Start` reads the two youngest
revisions, `CreateRevision` begins a transaction - the primary key makes it wait
for a transaction that holds the revision, and fail if that committed -,
`IndexRevision` replays and commits, `Stop` is a signal, an error or a kill, and
`Commit` a new revision of the repository. **`IndexLog`** is what the README of
svnindex lets one expect: the trees of the first revisions, added one at a time
and never changed.

### The theorem prover

**`Rewrite`** has the functions of `rule.c` as recursive operators on trees
(`MatchRule`, `GenerateReplacementTree`, `GenerateNewTree`, `ApplyRule`), with
`is_same_tree`, `is_same_symbol`, and the table of bindings in the order they were
entered. A pointer to a node is the path to it. A following of a missing child
ends the program (`fault`). `Apply` is one call of `apply_rule`, any rule of the table at
any point, whose result is the next statement; `main.c` makes one such call. The
second half of the module says what a rule means, without a table and without a
walk: `Substitutions` and `Replaced`.

## 3. What is checked

| Run | Instance | Shows |
|---|---|---|
| `cache` | 4 slots, 4 blocks, 1 group, 1 held block, 1 pin on a block, 2 values | `TypeOK`, `CacheCoherent`, `HeldBlocksStay`, `BitmapExact`, `FileCoversBlocks`, `NoError`, `PinsBalance`; implements `BlockStore` (`StoreSpec`) |
| `calls` | 10 slots, 7 to reuse; 9 blocks in 2 groups; 3 leaves, 4 calls | `BitmapExact`: no half, new root or data block is lost before its location is noted; `CallsUnpin`; `NoError` |
| `match` | 2 prices, sizes to 2, 4 orders, 5 structs, 2 bins | `TypeOK`, `QueuesInOrder`, `Cancellable`; implements `OrderBook` (`BookSpec`); `LimitReturns` |
| `match_pool` | 3 prices, 2 levels, 5 orders through 4 structs | `SkipListSound`, `BestPrices`, `PoolConserved`, `NoFault` |
| `extents` | 3 file blocks, 4 other keys, blocks for 3 keys | `TypeOK`, `ReachedOnce`, `KeysFound`, `ListingComplete`, `NoError`; implements `KeyMap` (`MapSpec`) |
| `files` | 2 names, a directory, files of 2 blocks, 1 handle, 1 crash | `TypeOK`, `LinkCounts`, `SizeCoversBlocks`, `NothingLeft`, `NoDangling`, `FreshLabels`, `NoError`, `CallsEnd` |
| `svnindex` | 2 directories with an entry each, 4 revisions, 2 programs, 1 stop | `TypeOK`, `NoDuplicateNode`; implements `IndexLog` (`LogSpec`); `ProgramsEnd`, `CatchesUp` |
| `rewrite` | statements of up to 11 symbols over 2 names, the 12 rules without a negation | `ExactRewrites` |
| `match_bins` | 3 structs, 3 bins, 7 orders | violation: `Cancellable` |
| `extents_sparse` | as `extents`, sizes may skip a block | violation: `NoError` |
| `files_two_handles` | as `files`, 2 handles on one file, no crash | violation: `NothingLeft` |
| `svnindex_replace` | as `svnindex`, 1 program, every commit of one path | violation: `ListingsMatch` |

### What the violations show

- `match_bins`: `free_order` does not move the last pointer of a bin when it
  unlinks the last order of several. Later orders of that bin are linked behind
  a freed struct and cannot be cancelled. As `MAP_SIZE` is `MAX_LIVE_ORDERS`,
  it takes 65536 further ids to come back to a bin, which is why tests with few
  orders pass.
- `extents_sparse`: `ftruncate` to a greater size sets the size only. When the file
  is cut or deleted later, `reduce_file` looks for the extent of its last block
  and the program stops.
- `files_two_handles`: one handle writes and another truncates; the size of the
  one closed last is what stays. If it is the smaller, deleting the file leaves
  extents that no name leads to.
- `svnindex_replace`: `index_node` records a replacement without history as a
  change, and the record of a change starts with its predecessor's children: a
  directory replaced by an empty one still lists the old entries, in this and
  all later revisions.

### What the bounds of the passing runs leave out

Where a bound keeps a run from behaviour that fails, the failure was looked at:

- `SpareSlots` (`calls`): with few slots to reuse, `find_free_slot` flushes and hands out the
  slot of a block that has been allocated and not been pinned yet: the first half of a split
  (tree.c:347; both halves are then one block), a data block (file.c:171) or a new
  root. With eight slots and none kept free TLC finds `BitmapExact` of `TreeCalls` violated:
  freeing the old root has to read a bitmap, which gets the new root's slot;
  `fs->root_location` is read from that slot afterwards (tree.c:676), and the next search
  stops at "searching in non-tree block". The longest call, a data block whose key splits the root, allocates four blocks and
  reads or makes two bitmaps; seven slots to reuse are enough for it.
- `MAX_PINS`: in `cache` one pin is the most that a block gets, in `calls` three, far from the code's
  100. Together with `CallsUnpin` that says that the limit would be reached through pins
  that are left behind, and none are.
- `Reserve` (`match`, `match_pool`): one struct stays free. `limits.h:9` allows
  `MAX_LIVE_ORDERS` orders on the book, as many as there are structs. With `Reserve = 0` TLC
  finds `NoFault` violated: the free list has no last element, and the next fill
  or cancel of a resting order follows a null pointer (engine.c:289).
- `OrderBook` leaves the price of a report to the code: it says who trades with whom,
  for how much, in which order. `send_exec` assumes two orders of one price
  (engine.c:329) and reports the incoming order's; `cross` brings it together with
  orders at better prices.
- `MapSize`: a third order in a bin meets the bug of `match_bins`.
- `crashes = 0` in most properties of `Files`: after a crash a link count may be
  wrong, since an entry is saved before its count, and deleting one name can then
  take the file from under the other; a file cut before the crash has a size
  beyond its extents, because key S is written at close only, and deleting it
  stops the program; one that grew has extents beyond its size. What does hold is
  `FreshLabels`, and `NoDangling` at the moment of the crash.
- `Length` and `BlockSize` (`extents`): blocks of 256 bytes, which `MIN_BLOCK_SIZE`
  allows, with names of different lengths can be split into halves of which one
  has still no room, or none has keys (tree.c:280, 435). The drivers use 4096.
- `Ordinary` (`svnindex`): leaves out the commits of `svnindex_replace`, and changes
  inside a directory that the same commit copies: the predecessor is then sought
  at the new path in the previous revision, where there is none
  (schema-svn.sql:397), and properties or children are lost.
- `Distinguished` (`rewrite`): leaves out of `ExactRewrites` the rules that repeat a name
  in their pattern, on statements with two names. `is_same_symbol` compares types
  only, so two names are the same tree: `(q | p) & (p | q)` becomes `q | (p & q)` by the second
  rule of `distrib_or` (axioms.tree:34), which does not follow from it. Such rules are
  checked on the statements with one name, and applied to all.
- `Lattice` (`rewrite`): the rules without a negation, although statements have
  negations. A negation has no left child, neither walk of `rule.c` tests for one
  (rule.c:155, 206), and a rule with a negation stops the program when it is applied.
- `MaxTableSize` (`rewrite`) is not reached: no rule has more than three names.

### Bounds

Block layer: with four slots (superblock, a bitmap, two others) every call
evicts something, so each path of `find_free_slot` is taken; four blocks fill
the file beyond the first allocation; one held block at a time with clones gives
pins of different kinds on one location. `MaxBlocks` bounds the file,
`BitmapSize` is the number of locations one bitmap block covers (in the code, the
bits of a block after its header), made small in `calls` so that two
groups exist, `MaxHeld` the blocks a client holds, `SpareSlots` is the number of
reusable slots a client leaves before it allocates. The code checks none of
this: it relies on a cache much larger than a path of the tree. `MAX_PINS` is
the code's (100, fs-internal.h:29) in `calls`, and 1 in `cache`, whose clients hold
one block. `FirstOrder` is the order in which `create_fs` links the
slots into the LRU list, a constant so that the proofs are about every order.
`MaxLeaves` and `MaxCalls` bound the tree of `TreeCalls`: three leaves under a root are
enough for a split, a merge, and the root made and removed, and four calls
with ten slots and groups of five allocate into a second group.

Tree: three keys to a block make trees of three levels out of seven keys, so
inner blocks split and merge as well; the plain names lie on both sides of the
extents, so that a leaf holds both kinds. `Shape`, the view, forgets where the
tree's blocks lie, which nothing depends on. `MaxNum` bounds the file, `MaxGap`
the blocks a write or truncation may skip.

Files: two names give links, renames and a directory with an entry; files of two
blocks can be cut in the middle of an extent; `Sparse` is whether a truncation may make
a file longer and a write leave a hole: not in the runs, since cutting such a
file stops the program (`extents_sparse`), but in the theorems that do not assume `~Sparse`; `MaxLabel` is enough for a directory
and a file, or three files; one crash, since a second starts from states like
the first's.

Engine: three orders may rest when the fourth arrives, so an order can sweep two
levels and a middle order of a queue be cancelled; in `match_pool` three levels
are in use at once and an inner node is removed, and the fifth order, the lowest
bid, takes a struct that was freed. In `match` each bin receives two orders, so
chains are built and unlinked at both ends. `MaxId` bounds the calls of `limit`;
`MaxPrice` is `MAX_PRICE`.

svnindex: the programs find a history with an import and a copy, and one commit
of two changes follows, of which one at least is a deletion (`Joined`), at any
time; ranges given by `-r` start programs anywhere. Two programs and one stop are
enough for every pair of overlapping transactions.

Deadlock is checked in `rewrite` only: elsewhere a bounded model stops when its
ids, labels or revisions are used up or the program has failed, and the
properties say when it may fail.

### Fairness

`MatchEngine` and `Files`: a call that is running keeps running (weak fairness of the
turns of the loops, and of `Step`), which holds of sequential code; nothing is
assumed of the client, who need not call. `SvnIndex`: a program that has started
keeps running (weak fairness of its `Turn`); nobody has to start one. `CatchesUp`
is therefore about the revisions that a program set out to index: they are in the
database in the end, unless a program is stopped or one whose range ends earlier runs
beside it, which can make it fail. No more is true of the
post-commit hook that svnindex's README:69 proposes, which is run once for each commit. Of two hooks
that overlap, the later one may begin when two revisions are to be indexed, wait for the
first one's transaction, and fail when that commits; the first goes only as far as
the revision that was youngest when it began. The last revision then stays out of
the database until the next commit. Where fairness
is stated of `ConsumeTurn`, `FinishTurn` and `Turn`, these are the control part of
the action, which is enough and cheaper to check. No safety property uses it.

## 4. What is proved

### The block layer

`BlockCacheProofs` proves, for any finite set of slots, any number of blocks and
any contents that satisfy `SlotsAssumption`, `BoundsAssumption` and
`ValuesAssumption` of `BlockCache`:

- `TypeCorrect`: `Spec => []TypeOK`
- `CacheIsCoherent`: `Spec => []CacheCoherent`
- `FileCovers`: `Spec => []FileCoversBlocks`, the file is exactly `num_blocks` long

all three from `Invariance`: `Spec => []IInv`. None of the three is inductive
alone. `IInv` is the conjunction of

- the type of `fs` (whose LRU array is a bijection of slots and ranks) and of
  what the clients know (`ClientType`);
- `Coherent`: the hashed slots are the cached slots that are not clones; dirty
  slots are hashed; no location is hashed twice; a clean hashed slot agrees with
  the file; hashed locations and the bitmaps the superblock names are below
  `num_blocks`, which is the file's size;
- `Rooted`, while the file system is open: the superblock is hashed in its slot,
  at location 0, and pinned;
- `OwnedOK` and `HoldOK`, if no call has failed: a client's block lies in the
  file, is not the superblock and has a bitmap; a slot a client holds is cached
  and is not the superblock's;
- `ClosedOK`, when it is closed: nothing is held, and what `fs_open` will read
  is the superblock that was closed.

Without the superblock's pin an eviction could reuse its slot; without the
agreement of clean blocks an eviction could lose a write; without the bijection
`move_block_to_front` could name a slot twice, and type correctness fails;
without `ClosedOK` the step of `fs_open` has nothing to start from.

The argument follows the code. Each function has a lemma: if the record it is
given satisfies the part of `IInv` it relies on, the record it returns does, and
it changes only what is listed. The lemmas of callers cite those of callees:
`FindFreeSlot`, then `ReadBlock` and `GetBlock`, `TakeBlock` and `SettleBlock`,
`BitmapSet`, `AllocateBlock`. The initial state is the longest part, since
`create_fs` runs the allocator on an empty file. `NextPreserves` has one step per
action. TLC also finds `IInv` invariant on the instance of the run `cache`.

`BlockContentProofs` proves the four invariants that are about what the blocks
contain, and the refinement of `BlockStore`, under one more condition on the constants, `Roomy`: a client leaves three
slots to reuse when it allocates (`SpareSlots >= 3`), there are more slots than
pins (`MaxHeld + 1 < CacheSize`; one pin is the superblock's), and no more
blocks are held than `pin` accepts pins of one block (`MaxHeld <= MAX_PINS`).

- `NeverAnError`: `NoError`; `PinsAddUp`: `PinsBalance`
- `HeldBlocksNeverMove`: `HeldBlocksStay`
- `BitmapsExact`: `BitmapExact`
- `CacheImplementsStore`: `StoreSpec`

The code leaves all three parts of `Roomy` to its callers, and none can be dropped. With every
slot pinned a call that has to read a block stops, and so does the pin after the
last that `pin` accepts (block.c:20-23). That the callers in tree.c and file.c give
back the pins they take is what `CallsUnpin` checks in the run `calls`. With two slots to spare, eight
blocks and groups of three (a variant of `cache`), TLC finds `HeldBlocksStay`
violated: a data block near a full group opens a new group, whose
bitmap goes into a third group, and reading that group's bitmap evicts the new
block before its holder pins it. The run `cache` has no spare slots and one
group, where no bitmap is made on the way; the theorem is about any number of groups.

The invariants follow from `ContentsInvariant`: `Spec => []CInv`, where `CInv` says of an
open file system (`Fine`) that

- no call has failed, no pins are negative and what is not cached has none (`Tidy`);
- `total_pins` is the sum of the pins, and at most `MaxHeld + 1` (`Balanced`);
- the bitmaps name distinct blocks, cover all blocks, mark the superblock, their
  own blocks and what is owned, and nothing at or beyond `num_blocks`; the counts
  of the superblock agree with that (`Ledger`);
- the pinned slots are the superblock's and those that clients hold (`PinnedBy`), and
  these have what the clients believe (`InPlace`);

and of a closed one (`Shut`) that nothing is pinned or dirty and the `Ledger` is the
file's. It is inductive together with `IInv`. Here the lemmas say what each function
does to the contents of a location wherever these are, in a slot or in the file
(`Cur`): `Calm` for functions that only read, evict or flush, `TookFresh` for a new block,
`Altered` for a change of one bit. With these, a search of a bitmap that evicts another
bitmap leaves `Marks`, the set of marked locations, as it was, and the ledger needs
no case for where a bitmap is. The sum of the pins is a fold over the slots; that
changing one pin changes it by as much (`SumChange`), and that pins whose
sum is below the number of slots leave a slot free (`FewPinsLeaveRoom`), is proved by taking
a smallest set of slots for which it fails (`SmallestSet`).

For the refinement the same lemmas say what a step does to `Contents` and `OnDisk`,
the store's `current` and `saved` of any state. Getting, cloning, releasing, closing,
opening and flushing are `Still`: a stutter, or a `Sync` when a search for a slot
flushed. `WriteDone`, `AllocateDone` and `FreeDone` are the three changes. The
`Mapped` lemmas say that the mapping of `BlockCache`, which looks bitmaps up in the
hash, is these functions where the cache is coherent.

### The tree and the extents

`TreeProofs` and `ExtentsProofs` prove, for any names, lengths of names, sizes of blocks,
any number of blocks, of blocks of the file and of skipped blocks that satisfy
`NamesAssumption`, `SizesAssumption` and `ExtentsAssumption`:

- `ExtentsTypes`: `Spec => [](NoError => TypeOK)`
- `ParentsUnique`: `Spec => [](NoError => ReachedOnce)`
- `KeysStayFound`: `Spec => [](NoError => KeysFound)`
- `ListingsComplete`: `Spec => [](NoError => ListingComplete)`
- `TreeIsMap`: `Spec /\ []NoError => MapSpec`

`NoError` is a condition here because it is false in general: a search
that runs into an `error()` leaves the tree half changed and the program has stopped.
The run `extents` checks that its instance never does, so that the theorems say something
of all its states; `extents_sparse` and small blocks (section 3) are cases where it
does. Nothing is assumed about how full blocks get, how deep the tree is, or which
separators it has collected.

All five follow from `TreeSound`: `Spec => []Inv`. `Inv` says that the tree is `Sound`
and where the extents of the file end (`ExtentsOK`), unless the program stopped. A sound tree is one
for which there are zones (`Zoned`), a set of names for each block, those for which a
search passes through it:

- the root's zone is everything, and the zone of the child at a key is the part of its
  parent's zone for which `find_key` comes to that key; no zone is empty or has a gap;
- blocks of one height have no name in common, hence one parent and one way down for
  each name, and nothing that cannot be reached;
- a leaf's keys lie in its zone with all names they are searched for. For a plain
  key that is its name; for an extent these are the names from
  `SearchName` of its first block to that of its last, and the extents of a leaf do
  not overlap. That is why it is found by a search for any of its blocks.

The zones are bound by a quantifier in `Sound`, since the tree does not record them, and each step
of a search says what they are next. The separators need not be names of keys that are
there: a zone does not depend on it, which is the point of `KeysFound`. Without the zones no
property is inductive: order within blocks does not say that a subtree
holds what its separators promise, and `ReachedOnce` does not survive `merge_blocks` if
the two children are not neighbours.

`TreeProofs` has the lemmas about one block: what `FindKey` is for sorted keys, what insertion,
removal, `split_index` and `merge_indexes` make of keys, of free space (`FreeSpace` and
`StringSize` are folds; that each is what it was plus or minus one key is shown by taking a
least position where it fails) and of the parts of a zone. `ExtentsProofs` goes
the way of a search. `Settle` and `NewRoot` keep a sound tree and its leaf keys (`Same`), with one
lemma for a split, a merge, an update of a child and a new root; `Up`, the function over the heights, keeps both
(`SearchLeaves`). What the callback did to the leaf is then all that
happened: `InsertLeaf`, `DeleteLeaf`, `ReplaceLeaf` and `UpdateLeaf` say which keys
come and go (`Exchanged`), in the leaf or in the two halves of it. Then the callbacks of `file.c`: the key they are given is the last not
above the name (`KeyHere`), so an extent that could hold the block is the one found
(`HolderFound`), a new extent goes between its neighbours, and the last extent is the one that
`reduce_file` finds (`TailHere`).

A listing is a function over the blocks that glues the lists of the children together.
`ListingExists` shows that there is one, by height, since a block lists what it does whatever
the list of any block that is not its child is (`SameListing`). `ListingLists` shows, again by height, that a block
lists the names of its zone: a leaf has them in order
(`LeafLists`); the children of a block that the loop skips at either end have none
(`InnerLists`), and the names of one child are below those of the next because the
names they are searched for are (`LowOrder`).

For the refinement a step is an exchange of leaf keys (`Swapped`), and `RemoveMaps`, `PutMaps`,
`BlockMaps` and `CutMaps` say what it makes of the two maps that `MapSpec` reads off the
leaves. That the new block is not in use by this file comes from the guard of the model, which stands for the
bitmap (`BlockCacheProofs`); that the file did not have the block already,
that an extent is continued only where its location continues, and that a cut leaves all blocks
below it alone come from `Inv`.

### Files and directories

`FilesKeyProofs` and `FilesProofs` prove every invariant that the runs of
`Files` check, for any number of labels, handles and crashes, any size,
whether or not two handles share a file or a file has holes, from `FilesAssumption`:

- `FilesTypeCorrect`: `TypeOK`, and `LabelsAreFresh`: `FreshLabels`, across crashes;
- `NamesNeverDangle`: `NoDangling`, and `LinksCounted`: `LinkCounts`;
- assuming `~Shared` and `~Sparse`, since with two handles on one file, or a file with
  a hole, they are false (`files_two_handles` and `extents_sparse` show how): `CutsFindExtents`: `NoError`, `SizesCovered`:
  `SizeCoversBlocks`, and `NothingIsLeft`: `NothingLeft`.

A call is a sequence of changes of one key, with a flush or a crash possible
between two, so an invariant on the disk alone cannot do: in the middle of a call
the counts are wrong. `CallInv` (`FilesCalls`: `Spec => []CallInv`) speaks of what
the call has still to do. It says that some map of keys `M` is what the changes
left in `todo` make of the keys on disk (`Leads`), that no name dangles in any map
on the way, and that `M` is a well-formed tree of names: counted links, one name
per directory, each label's keys matching its type, prefixes apart. Starting a
call is then a lemma for each call (its changes lead from one such `M` to
another), a step of a call is the tail of `Leads`, and a theorem about the quiet
states is the case of no changes left, `M` being the disk. For neither `Shared` nor `Sparse` (`Exact`) the
invariant adds that the extents of each file have exactly the blocks below the
size that will hold at the end, and that cutting them finds what it looks for.
`FilesKeyProofs` has the types, and the lemmas about keys, trees and `Leads`.

### The matching engine

`EngineProofs` proves every safety property that the runs of `MatchEngine` check,
and that it implements `OrderBook`, for any number of prices, sizes, ids, levels,
structs and bins that satisfy `EngineBounds` and `NullAssumption`:

- `TypeCorrect`: `TypeOK`, `ListSound`: `SkipListSound`, `BestSound`: `BestPrices`,
  `QueuesSound`: `QueuesInOrder`, `PoolSound`: `PoolConserved`, `CancelSound`:
  `Cancellable`, and `EngineImplementsBook`: `BookSpec`, each in the form
  `Spec /\ []OwnBin => ...`;
- `NeverFaults`: `NoFault`, if also `Reserve >= 1`;
- `SmallIdsShareNoBin`: `Spec => []OwnBin` if `MaxId < MapSize`, and with it
  `SoundBeforeWrap`: all of the above but types, of `Spec` alone.

`OwnBin` says that when an order arrives no resting order is in the bin that its
id hashes to. It cannot be left out: two orders in a bin are what the bug
of `free_order` needs, and the run `match_bins` shows `Cancellable` violated. In the
code it is a condition on the age of the book: the order that got its id `MAP_SIZE`
(65536) calls of `limit` ago, or a multiple of that, has traded or was cancelled. Likewise
`Reserve >= 1` is needed, because `free_order` follows a null pointer when every struct
is in use; the other theorems hold for `Reserve = 0`, where the fault is a state in
which the program has stopped. The run `match` has two orders in a bin and is
therefore about behaviours the theorems leave out, and the other way round.

`EInv` is inductive relative to `OwnBin`. It is

- `Ordered`: types; `Listed`, each level is a sorted list in both directions of nodes in use,
  all of them on level 0, and each level is part of the one below; `Sided`, the best prices and an
  uncrossed book; `Queued`, each price's queue, whose first order is the oldest;
  `Sequenced`, ids unique and below `next_id`;
- `Mapped`: a bin is empty or has one order, whose link is null;
- `Pool`: a sequence `fl` of distinct structs, exactly those without an order, that the
  free list follows, and its length `F`;
- how much room there is: `F > Reserve` during a call of `limit`, `F >= Reserve` while an
  order rests (`Spare`).

`fl` and `F` are bound by a quantifier in the invariant (`Sound`): only one sequence fits the links, and the
proofs update it as `allocate_order` and `free_order` do. None of the parts is
inductive alone: unlinking from the skip list needs the queue of the node to be empty,
`consume_node` needs the order's bin to find the struct it frees, the free list
needs that no resting order is in it, and moving `best_bid` to the removed node's
neighbour needs that bids lie below asks.

The argument follows the code again. `EngineProofs` begins with what `find_place`
returns: for each level the last node at or below the price. That is a statement
about a recursive function, obtained without an induction theorem from the fact
that a set of numbers has a least element (`LeastNatural`), applied to the nodes or
levels of which it is false. `ListInsert` and `ListRemove` are then about
all levels at once. Then come the queues, the bins and the pool,
then the functions in pairs as the calls use them: `OrderLeaves` (`free_order` and
`remove_order`), `OrderEnters` (`queue` with `add_to_list` and `allocate_order`),
`OrderTrades` (a partial fill), then a lemma for each action. For the refinement,
`TradeBook`, `RestBook` and `CancelBook` say what each does to the map from ids to
orders, and `ConsumeMaps` that the first order of the best node is the one that
`OrderBook` names: `BestPrices` gives the price, `QueuesInOrder` the age.

### svnindex

`SvnIndexProofs` proves the invariants that the run of `SvnIndex` checks, and the two properties
that the safety of `LogSpec` rests on, for any finite set of paths with all their prefixes, any number of
programs, revisions, changes in a commit and stops, and for all commits, also the ones the
index gets wrong (`AnyCommit`), from `PathsAssumption` and `SvnIndexAssumption`:

- `RecordsWellFormed`: `TypeOK`, and `NodesAreUnique`: `NoDuplicateNode`;
- `RevisionsInOrder`: `InOrder`, and `RecordsAreFinal`: `RecordsStay`.

`InOrder` and `RecordsStay` can be added to `MCSvnIndex.cfg`; TLC finds no violation of either.
`LogSpec` says of the trees read back what they say of revisions and records.

`IInv` (`IndexInvariant`: `Spec => []IInv`) has a part for each actor.

- The repository: every revision is a `GoodCommit`, whose tree has a directory above each of its
  paths (`GoodTree`) and holds at each changed path what the change says
  (`ChangeHeld`). Copies are the hard case: what `Graft` puts below a path is a
  branch because the path of an entry and the path of its directory are moved
  alike (`RebaseFront`).
- The database: for some `n` the revisions `0..n-1` are there, with well-formed records
  (`RowOK`), none with a twin (`NoTwins`).
- The programs: one in a transaction holds revision `n`, and no other is in one
  (`OpenOK`). That is where `Accepted` and `Free` are both needed: two programs
  that hold different revisions are excluded by the order, two that hold the
  same one by the key.

A unit of work is a transaction, and what happens in it is a loop over the changed
paths. `Indexed` is its invariant: each record lies above a path that was done, records
above a changed path are of directories, and there are no twins. It
holds from one call of `index_node` to the next (`IndexNodeIndexes`) because no path comes
after one that lies below it or is the same (`DriveOrderDescends`). That is a fact about
the editor and the place where a deletion could come wrong: a directory reports the
deletions of its entries after all that is below it, so they must be leaves
(`DeletesAreLeaves`), which `ChangeHeld` gives, since nothing can lie in a directory that
the commit's tree does not have. A replacement with history makes two records of one
path, which differ in their action.

The functions of `SvnTree` are recursive: over the length of a path, over the
children of a path, over the list of changes. `Iterates` shows, from the fact that a set of
numbers has a least element, that a recursion over `0..N` whose steps lead from one
given set to the next has a value, and that its values lie in these sets; the sets then say
what the loop preserves. What the values are, and so that a tree can be read back from the records,
is not proved.

### Not proved

Only model-checked: the refinement of `IndexLog`, the
steps that `TreeCalls` adds, and `Rewrite`. That no call stops the program (`NoError` of
`Extents`) depends on sizes and on how writes skip blocks, and is a condition of the theorems about the tree.
Liveness (`LimitReturns`, `CallsEnd`, `ProgramsEnd`, `CatchesUp`) and `ENABLED` are beyond the prover, and so is
in general what a recursive definition computes: `TreeAt` of `SvnTree` returns a tree
built commit by commit. It is a recursive function, not a `RECURSIVE` operator, so that what does not depend on
its value, or follows from what each step preserves (as in `Search` and `Traverse`), can be proved. `Rewrite` is all recursion over trees, uses `RECURSIVE`
operators, and stays with TLC.

## 5. What is not modelled

Component by component in `PROJECT.json`. In short:

- `match/score_feed.h`, 35,768 of the repository's 46,731 lines, is data for a
  benchmark; the other lines of `match/` outside `engine.c` drive an engine or are
  another contestant's. Formatting, logging and debug output are left out
  everywhere.
- fs: the Windows driver forwards to the same operations, and most of it is
  compiled out; `special.c` only reads. I/O errors stop the
  program. Two threads in FUSE, a signal inside one change of a key, and a crash
  in the middle of a flush: there is no lock and no journal, so no property of
  the cache or the tree survives them, and a model would only say so.
- fs, in `Files`: directories are made in the root only, and names are two.
- svnindex: file contents (`svn.content` is not defined in the schema, so storing
  them always fails and is rolled back), changed line counts, output of
  differences. The loop of `get_children` (schema-svn.sql:238-249) ends at
  `array_upper` of the directory's array. What that is when the last child has been
  taken out belongs to the database's `intarray`: where the emptied array keeps
  its dimension, with an upper bound of 0, the loop ends at once, which is what the
  model takes; where it has none, the bound is null, the comparison never
  true, and the loop endless.
- match: the symbol and trader strings, which nothing reads.
- `theorem`: the parser, and so precedence and the lexer's names; quantifiers are
  in the trees but in no rule or statement of the run; the first of two rules of one
  name is the only one `table_lookup` finds, the run takes each by its place.
- the games: sequential, pure computations whose interest is in large data;
  `replay.py` and `viewer.py`: the hazards and components name the races and crash points,
  and no invariant of theirs holds through them.
- numerics, sound, scenes, windows and other people's or generated code.

## 6. Plan

What is left, most important first:

1. Theorems: sizes of blocks and names for which `Extents` never fails.
2. `Replay`: a pool of fetching threads, a commit in two calls and a crash.
