----------------------------- MODULE BlockCache -----------------------------
(***************************************************************************)
(* The block layer of fs/ (block.c and the cache part of fs.c): a          *)
(* write-back cache of CacheSize slots over the backing file, an LRU list, *)
(* a hash index, pins, copy-on-demand clones, and the allocation bitmaps,  *)
(* which are themselves blocks read and written through the cache.         *)
(*                                                                         *)
(* Every C function takes FS *fs; here every function is an operator on    *)
(* the record fs, and a function that also returns a BLOCK * yields        *)
(* [fs |-> .., slot |-> ..].  A slot is the BLOCK struct itself: what a    *)
(* client holds is a pointer to a slot, not to a location, so a slot that  *)
(* is reused under a client shows up as the wrong location.                *)
(***************************************************************************)
EXTENDS Integers, FiniteSets, Functions

CONSTANTS
  Slots,       (* the cache_size BLOCK structs of fs->cache                *)
  MaxBlocks,   (* bound on fs->num_blocks                                  *)
  BitmapSize,  (* fs->bitmap_size: locations covered by one bitmap block   *)
  MaxHeld,     (* bound on the pins a client holds at once                 *)
  SpareSlots,  (* reusable slots assumed before an allocation (0: none)    *)
  MAX_PINS,    (* pins that pin() accepts on one block                     *)
  FirstOrder,  (* the LRU order in which the slots of a new cache are linked *)
  Values,      (* contents of a client's block                             *)
  Zero,        (* the contents memset(buffer, 0) leaves                    *)
  NULL         (* the null BLOCK pointer                                   *)

CacheSize == Cardinality(Slots)
Locations == 0 .. MaxBlocks - 1
Groups == {l \div BitmapSize : l \in Locations}
Types == {"B_SUPER", "B_DATA", "B_TREE", "B_FREE", "B_BITMAP"}
ClientTypes == {"B_DATA", "B_TREE"}

ASSUME SlotsAssumption ==
  IsFiniteSet(Slots) /\ Cardinality(Slots) >= 4 /\ NULL \notin Slots

(* The orders of the slots in the LRU list, from the front.                *)
Orders == {r \in [Slots -> 1 .. CacheSize] :
             \A s, t \in Slots : r[s] = r[t] => s = t}

ASSUME OrderAssumption == FirstOrder \in Orders
ASSUME BoundsAssumption ==
  /\ MaxBlocks \in Nat /\ MaxBlocks >= 3
  /\ BitmapSize \in Nat /\ BitmapSize >= 3
  /\ MaxHeld \in Nat /\ SpareSlots \in Nat
  /\ MAX_PINS \in Nat /\ MAX_PINS >= 1
ASSUME ValuesAssumption == Zero \in Values

VARIABLES
  fs,      (* struct FS and the file behind it                             *)
  owned,   (* type of the client's block at each location, or "none"       *)
  hold     (* what the client believes about each slot it has pinned       *)

vars == <<fs, owned, hold>>

(* A buffer holds client data or the bits of one bitmap group.             *)
Content == [data : Values, bits : SUBSET (0 .. BitmapSize - 1)]
ZeroContent == [data |-> Zero, bits |-> {}]

(* The superblock, which stays pinned: pointers to the bitmap blocks (0 is *)
(* none yet) and the per-type counts.                                      *)
Super == [bitmaps : [Groups -> Locations], counts : [Types -> Int]]

Group(l) == l \div BitmapSize
Offset(l) == l % BitmapSize

-----------------------------------------------------------------------------
(* The cache.                                                              *)

(* Mutant: the block is moved without the others making room for it.       *)
MoveToFrontNoShift(f, s) == [f EXCEPT !.rank = [f.rank EXCEPT ![s] = 1]]

MoveToFront(f, s) ==
  [f EXCEPT !.rank = [t \in Slots |->
     IF t = s THEN 1 ELSE IF f.rank[t] < f.rank[s] THEN f.rank[t] + 1
                                                   ELSE f.rank[t]]]

(* flush_block on every slot of S; the superblock's buffer is f.super.     *)
FlushBlocks(f, S) ==
  LET W == S \cap f.cached \cap f.dirty
      B == W \ {f.superslot}
      At(l) == {s \in B : f.loc[s] = l}
      Ends == {f.loc[s] + 1 : s \in W} \cup {f.filesize}
  IN [f EXCEPT
        !.file = [l \in Locations |->
           IF At(l) = {} THEN f.file[l] ELSE f.buf[CHOOSE s \in At(l) : TRUE]],
        !.filesize = CHOOSE n \in Ends : \A m \in Ends : m <= n,
        !.savedsuper = IF f.superslot \in W THEN f.super ELSE f.savedsuper,
        !.dirty = f.dirty \ W]

FlushFs(f) ==
  LET g == [f EXCEPT !.dirty = f.dirty \cup {f.superslot}]
  IN FlushBlocks(g, Slots)

(* Mutant: the dirty flag is not looked at.                                *)
ReusableDirty(f) == {s \in Slots : s \notin f.cached \/ f.pins[s] = 0}

(* Mutant: the pins are not looked at.                                     *)
ReusablePinned(f) == {s \in Slots : s \notin f.cached \/ s \notin f.dirty}

Reusable(f) ==
  {s \in Slots : s \notin f.cached \/ (s \notin f.dirty /\ f.pins[s] = 0)}

(* The first reusable slot from the tail of the LRU list, flushing the     *)
(* whole cache when there is none.  The slot keeps its place in the list.  *)
FindFreeSlot(f) ==
  LET Give(g) ==
        LET s == CHOOSE x \in Reusable(g) :
                          \A y \in Reusable(g) : g.rank[y] <= g.rank[x]
        IN IF Reusable(g) = {}
           THEN [fs |-> [g EXCEPT !.fault = TRUE], slot |-> NULL]
           ELSE [slot |-> s,
                 fs |-> [g EXCEPT !.cached = g.cached \cup {s},
                                  !.dirty  = g.dirty \ {s},
                                  !.clone  = g.clone \ {s},
                                  !.hashed = g.hashed \ {s},
                                  !.pins   = [g.pins EXCEPT ![s] = 0]]]
  IN Give(IF Reusable(f) = {} THEN FlushFs(f) ELSE f)

ReadBlock(f, l) ==
  LET Fill(r) ==
        LET s == r.slot
            g == r.fs
        IN IF s = NULL THEN r
           ELSE IF l >= g.filesize
           THEN [fs |-> [g EXCEPT !.cached = g.cached \ {s}], slot |-> NULL]
           ELSE [slot |-> s,
                 fs |-> [g EXCEPT !.buf = [g.buf EXCEPT ![s] = g.file[l]],
                                  !.loc = [g.loc EXCEPT ![s] = l],
                                  !.hashed = g.hashed \cup {s}]]
  IN Fill(FindFreeSlot(f))

Hits(f, l) == {s \in f.hashed : s \in f.cached \ f.clone /\ f.loc[s] = l}

GetBlock(f, l) ==
  LET Front(r) == IF r.slot = NULL THEN r
                  ELSE [fs |-> MoveToFront(r.fs, r.slot), slot |-> r.slot]
  IN Front(IF Hits(f, l) # {}
           THEN [fs |-> f, slot |-> CHOOSE s \in Hits(f, l) : TRUE]
           ELSE ReadBlock(f, l))

(* The state after a call that must yield a block: following a null BLOCK  *)
(* pointer, like error(), ends the process.                                *)
Need(r) == IF r.slot = NULL THEN [r.fs EXCEPT !.fault = TRUE] ELSE r.fs

Pin(f, s) ==
  [f EXCEPT !.pins = [f.pins EXCEPT ![s] = @ + 1], !.total_pins = @ + 1,
            !.fault = @ \/ f.pins[s] >= MAX_PINS]

Unpin(f, s) ==
  [f EXCEPT !.pins = [f.pins EXCEPT ![s] = @ - 1], !.total_pins = @ - 1,
            !.fault = @ \/ f.pins[s] = 0]

(* Mutant: the slot that becomes a clone stays in the index.               *)
CloneBlockHashed(f, s) ==
  IF f.pins[s] = 0 /\ s \notin f.dirty
  THEN [slot |-> s, fs |-> [f EXCEPT !.clone = f.clone \cup {s}]]
  ELSE LET r == FindFreeSlot(f)
       IN [slot |-> r.slot,
           fs |-> [r.fs EXCEPT
                     !.buf = [r.fs.buf EXCEPT ![r.slot] = r.fs.buf[s]],
                     !.loc = [r.fs.loc EXCEPT ![r.slot] = r.fs.loc[s]],
                     !.clone = r.fs.clone \cup {r.slot}]]

(* A clean unpinned slot is turned into the clone itself; otherwise the    *)
(* contents are copied to another slot.                                    *)
CloneBlock(f, s) ==
  LET Copy(r) ==
        IF r.slot = NULL THEN r
        ELSE [slot |-> r.slot,
              fs |-> [r.fs EXCEPT
                        !.buf = [r.fs.buf EXCEPT ![r.slot] = r.fs.buf[s]],
                        !.loc = [r.fs.loc EXCEPT ![r.slot] = r.fs.loc[s]],
                        !.clone = r.fs.clone \cup {r.slot}]]
  IN IF f.pins[s] = 0 /\ s \notin f.dirty
     THEN [slot |-> s, fs |-> [f EXCEPT !.clone  = f.clone \cup {s},
                                        !.hashed = f.hashed \ {s}]]
     ELSE Copy(FindFreeSlot(f))

-----------------------------------------------------------------------------
(* Allocation.                                                             *)

(* Mutant: the search also tries num_blocks itself.                        *)
BitmapSearchPastEnd(f, target) ==
  LET b == f.super.bitmaps[Group(target)]
      r == GetBlock(f, b)
      Free == {l \in target .. f.num_blocks :
                 /\ Group(l) = Group(target)
                 /\ Offset(l) \notin r.fs.buf[r.slot].bits}
  IN IF b = 0 THEN [fs |-> f, addr |-> 0]
     ELSE [fs |-> r.fs,
           addr |-> IF Free = {} THEN 0
                    ELSE CHOOSE l \in Free : \A m \in Free : l <= m]

(* The first free location of the target's own group, from the target on;  *)
(* 0 when the group has no bitmap or no free location below num_blocks.    *)
BitmapSearch(f, target) ==
  LET b == f.super.bitmaps[Group(target)]
      Search(r) ==
        LET Free == {l \in target .. f.num_blocks - 1 :
                       /\ Group(l) = Group(target)
                       /\ Offset(l) \notin r.fs.buf[r.slot].bits}
        IN [fs |-> Need(r),
            addr |-> IF r.slot = NULL \/ Free = {} THEN 0
                     ELSE CHOOSE l \in Free : \A m \in Free : l <= m]
  IN IF b = 0 THEN [fs |-> f, addr |-> 0] ELSE Search(GetBlock(f, b))

(* Mutant: the new block is left to the next flush.                        *)
SettleBlockLazy(f, s) == [f EXCEPT !.hashed = f.hashed \cup {s}]

(* Mutant: the new block is not marked dirty again.                        *)
SettleBlockClean(f, s) ==
  LET g == FlushBlocks(f, {s})
  IN [g EXCEPT !.hashed = g.hashed \cup {s}]

(* The end of taking a block: it is written at once, then marked dirty     *)
(* again and entered in the index.                                         *)
SettleBlock(f, s) ==
  LET g == FlushBlocks(f, {s})
  IN [g EXCEPT !.dirty = g.dirty \cup {s}, !.hashed = g.hashed \cup {s}]

(* allocate_block up to, and without, its final bitmap_set.                *)
TakeBlock(f, type, target) ==
  LET Fill(found, r) ==
        LET reuse == found.addr # 0
            s == r.slot
            addr == IF reuse THEN found.addr ELSE r.fs.num_blocks
            g == [r.fs EXCEPT
                    !.num_blocks = IF reuse THEN @ ELSE @ + 1,
                    !.hashed = r.fs.hashed \ {s},
                    !.dirty  = r.fs.dirty \cup {s},
                    !.loc    = [r.fs.loc EXCEPT ![s] = addr],
                    !.buf    = [r.fs.buf EXCEPT ![s] = ZeroContent],
                    !.pins   = [r.fs.pins EXCEPT ![s] = 0],
                    !.superslot = IF type = "B_SUPER" THEN s ELSE @,
                    !.super.counts = [t \in Types |->
                       @[t] + (IF t = type THEN 1 ELSE 0)
                            - (IF reuse /\ t = "B_FREE" THEN 1 ELSE 0)]]
        IN IF s = NULL THEN [fs |-> Need(r), slot |-> NULL, addr |-> 0]
           ELSE [slot |-> s, addr |-> addr, fs |-> SettleBlock(g, s)]
      Slot(found) ==
        Fill(found, IF found.addr # 0 THEN GetBlock(found.fs, found.addr)
                                      ELSE FindFreeSlot(found.fs))
  IN Slot(IF type = "B_SUPER" THEN [fs |-> f, addr |-> 0]
                              ELSE BitmapSearch(f, target))

(* Set or clear the bit of l in the buffer that slot s holds; it is an     *)
(* error when the bit already has that value.                              *)
ToggleBit(f, s, l, allocated) ==
  LET bits == f.buf[s].bits
  IN [f EXCEPT !.buf = [f.buf EXCEPT ![s].bits =
                          IF allocated THEN bits \cup {Offset(l)}
                                       ELSE bits \ {Offset(l)}],
               !.dirty = f.dirty \cup {s},
               !.fault = @ \/ (Offset(l) \in bits) = allocated]

BitmapSetIn(f, l, allocated) ==
  LET Toggle(r) == IF r.slot = NULL THEN Need(r)
                   ELSE ToggleBit(r.fs, r.slot, l, allocated)
  IN Toggle(GetBlock(f, f.super.bitmaps[Group(l)]))

(* bitmap_set; the first use of a group allocates the group's bitmap and   *)
(* sets the bitmap block's own bit.                                        *)
BitmapSet(f, l, allocated) ==
  LET Toggle(h, s) ==
        ToggleBit([h EXCEPT !.dirty = h.dirty \cup {h.superslot}], s, l, allocated)
      Enter(t) ==
        LET g == [t.fs EXCEPT !.super.bitmaps = [@ EXCEPT ![Group(l)] = t.addr]]
        IN IF t.slot = NULL THEN t.fs
           ELSE Toggle(BitmapSetIn(g, t.addr, TRUE), t.slot)
  IN IF f.super.bitmaps[Group(l)] # 0 THEN BitmapSetIn(f, l, allocated)
     ELSE Enter(TakeBlock(f, "B_BITMAP", 0))

AllocateBlock(f, type, target) ==
  LET Mark(t) ==
        IF t.slot = NULL THEN t
        ELSE [slot |-> t.slot, addr |-> t.addr, fs |-> BitmapSet(t.fs, t.addr, TRUE)]
  IN Mark(TakeBlock(f, type, target))

(* Mutant: the block is counted as free but its bit stays set.             *)
DeallocateBlockCountOnly(f, type, l) ==
  [f EXCEPT !.super.counts = [t \in Types |->
     @[t] + (IF t = "B_FREE" THEN 1 ELSE 0) - (IF t = type THEN 1 ELSE 0)]]

DeallocateBlock(f, type, l) ==
  LET g == [f EXCEPT
              !.super.counts = [t \in Types |->
                 @[t] + (IF t = "B_FREE" THEN 1 ELSE 0) - (IF t = type THEN 1 ELSE 0)],
              !.fault = @ \/ l < 1 \/ l >= f.num_blocks]
  IN BitmapSet(g, l, FALSE)

-----------------------------------------------------------------------------
(* Creating, closing and opening a file system.                            *)

BlankCache(f) ==
  [f EXCEPT !.loc = [s \in Slots |-> 0], !.buf = [s \in Slots |-> ZeroContent],
            !.pins = [s \in Slots |-> 0], !.rank = FirstOrder,
            !.cached = {}, !.dirty = {}, !.clone = {}, !.hashed = {}]

EmptyFile ==
  BlankCache([loc |-> {}, buf |-> {}, pins |-> {}, rank |-> {},
              cached |-> {}, dirty |-> {}, clone |-> {}, hashed |-> {},
              file |-> [l \in Locations |-> ZeroContent], filesize |-> 0,
              num_blocks |-> 0, superslot |-> NULL, total_pins |-> 0,
              super |-> [bitmaps |-> [g \in Groups |-> 0],
                         counts |-> [t \in Types |-> 0]],
              savedsuper |-> [bitmaps |-> [g \in Groups |-> 0],
                              counts |-> [t \in Types |-> 0]],
              open |-> TRUE, fault |-> FALSE])

(* initialise_fs on an empty file: superblock 0, its bitmap 1, root 2.     *)
CreateFs ==
  LET e == GetBlock(EmptyFile, 0).fs
      b == AllocateBlock(e, "B_SUPER", 0).fs
      r == AllocateBlock(b, "B_TREE", 0).fs
  IN Pin([r EXCEPT !.total_pins = 0], r.superslot)

(* initialise_fs on a file that has a superblock.                          *)
OpenFs(f) ==
  LET r == GetBlock(BlankCache(f), 0)
  IN Pin([r.fs EXCEPT !.superslot = r.slot, !.super = f.savedsuper,
                      !.num_blocks = r.fs.filesize, !.total_pins = 0,
                      !.open = TRUE], r.slot)

CloseFs(f) ==
  LET g == Unpin(FlushFs(f), f.superslot)
  IN [g EXCEPT !.open = FALSE, !.fault = @ \/ g.total_pins # 0]

-----------------------------------------------------------------------------
(* The clients: tree.c and file.c, as far as the block layer sees them.    *)

(* What a client takes a slot it has pinned to be: the location it asked   *)
(* for and, for a clone, the contents it cloned.                           *)
View == [loc : Locations, snap : Values]
Held == {s \in Slots : hold[s] # {}}
HeldLocs == {h.loc : h \in UNION {hold[s] : s \in Slots}}

Running == fs.open /\ ~fs.fault

(* The bound MaxHeld on the pins held besides the superblock's.            *)
CanHold == fs.total_pins <= MaxHeld

(* The bound MaxBlocks: room for n blocks and for the bitmaps not made yet. *)
CanGrow(n) ==
  fs.num_blocks + n + Cardinality({g \in Groups : fs.super.bitmaps[g] = 0}) <= MaxBlocks

Init ==
  /\ fs = CreateFs
  /\ owned = [l \in Locations |-> IF l = 2 THEN "B_TREE" ELSE "none"]
  /\ hold = [s \in Slots |-> {}]

(* A call ends in the state f; error() kills the process instead of        *)
(* returning, and the clients learn nothing.                               *)
Returns(f, newOwned, newHold) ==
  /\ fs' = f
  /\ owned' = IF f.fault THEN owned ELSE newOwned
  /\ hold' = IF f.fault THEN hold ELSE newHold

Holding(s, l, v) == [hold EXCEPT ![s] = @ \cup {[loc |-> l, snap |-> v]}]

(* get_block followed at once by pin: the blocks of the tree.              *)
GetAndPin(l) ==
  LET r == GetBlock(fs, l)
  IN /\ Running /\ CanHold /\ owned[l] = "B_TREE"
     /\ Returns(Pin(Need(r), r.slot), owned, Holding(r.slot, l, Zero))

ReleaseBlock(s) ==
  /\ Running /\ s \in Held
  /\ Returns(Unpin(fs, s), owned,
             [hold EXCEPT ![s] = IF fs.pins[s] > 1 THEN @ ELSE {}])

(* A client changes the contents of a slot and marks it dirty.             *)
SetData(f, s, v) ==
  [f EXCEPT !.buf = [f.buf EXCEPT ![s].data = v], !.dirty = f.dirty \cup {s}]

(* A block of the tree is changed while it is pinned.                      *)
WriteBlock(s, v) ==
  /\ Running /\ s \in Held \ fs.clone
  /\ \A h \in hold[s] : owned[h.loc] # "none"
  /\ fs' = SetData(fs, s, v)
  /\ UNCHANGED <<owned, hold>>

(* traverse: get_block, clone_block, pin.                                  *)
CloneAndPin(l) ==
  LET g == GetBlock(fs, l)
      r == IF g.slot = NULL THEN g ELSE CloneBlock(g.fs, g.slot)
  IN /\ Running /\ CanHold /\ owned[l] = "B_TREE"
     /\ Returns(Pin(Need(r), r.slot), owned,
                Holding(r.slot, l, g.fs.buf[g.slot].data))

(* Data blocks are never pinned: what get_file_data_block returns is read, *)
(* or changed and marked dirty, before the next call of the block layer.   *)
ReadData(l) ==
  /\ Running /\ owned[l] = "B_DATA"
  /\ Returns(Need(GetBlock(fs, l)), owned, hold)

WriteData(l, v) ==
  LET r == GetBlock(fs, l)
  IN /\ Running /\ owned[l] = "B_DATA"
     /\ Returns(IF r.slot = NULL THEN Need(r) ELSE SetData(r.fs, r.slot, v),
                owned, hold)

(* A block that was freed while pinned is unpinned before the next         *)
(* allocation.                                                             *)
CanAllocate ==
  /\ Running
  /\ \A l \in HeldLocs : owned[l] # "none"
  /\ Cardinality(Reusable(fs)) >= SpareSlots

(* The bound MaxBlocks lets a block be allocated for the target.           *)
Room(target) == CanGrow(1) \/ BitmapSearch(fs, target).addr # 0

(* allocate_block followed at once by pin, for the tree.                   *)
AllocateAndPin ==
  LET r == AllocateBlock(fs, "B_TREE", 0)
  IN /\ CanAllocate /\ CanHold /\ Room(0)
     /\ Returns(Pin(r.fs, r.slot), [owned EXCEPT ![r.addr] = "B_TREE"],
                Holding(r.slot, r.addr, Zero))

(* A data block, next to its predecessor in the file if it has one; when   *)
(* its key fits in the leaf, nothing comes between this and the reading of *)
(* its location.                                                           *)
AllocateData(target) ==
  LET r == AllocateBlock(fs, "B_DATA", target)
  IN /\ CanAllocate /\ Room(target)
     /\ target = 0 \/ owned[target] = "B_DATA"
     /\ Returns(r.fs, [owned EXCEPT ![r.addr] = "B_DATA"], hold)

FreeBlock(l) ==
  /\ Running /\ owned[l] # "none"
  /\ Returns(DeallocateBlock(fs, owned[l], l), [owned EXCEPT ![l] = "none"], hold)

Flush ==
  /\ Running
  /\ fs' = FlushFs(fs)
  /\ UNCHANGED <<owned, hold>>

Close ==
  /\ Running /\ Held = {}
  /\ fs' = CloseFs(fs)
  /\ UNCHANGED <<owned, hold>>

Open ==
  /\ ~fs.open /\ ~fs.fault
  /\ fs' = OpenFs(fs)
  /\ UNCHANGED <<owned, hold>>

Next ==
  \/ Flush \/ Close \/ Open \/ AllocateAndPin
  \/ \E l \in Locations :
       \/ GetAndPin(l) \/ CloneAndPin(l) \/ FreeBlock(l)
       \/ ReadData(l) \/ AllocateData(l) \/ \E v \in Values : WriteData(l, v)
  \/ \E s \in Slots : ReleaseBlock(s) \/ \E v \in Values : WriteBlock(s, v)

Spec == Init /\ [][Next]_vars

-----------------------------------------------------------------------------
(* Properties.                                                             *)

(* The state has the types of struct FS, and the LRU list holds each slot  *)
(* once.                                                                   *)
TypeOK ==
  /\ fs.loc \in [Slots -> Locations] /\ fs.buf \in [Slots -> Content]
  /\ fs.pins \in [Slots -> Int] /\ fs.rank \in Orders
  /\ fs.cached \subseteq Slots /\ fs.dirty \subseteq Slots
  /\ fs.clone \subseteq Slots /\ fs.hashed \subseteq Slots
  /\ fs.file \in [Locations -> Content]
  /\ fs.filesize \in Nat /\ fs.num_blocks \in Nat /\ fs.total_pins \in Int
  /\ fs.super \in Super /\ fs.savedsuper \in Super
  /\ fs.superslot \in Slots /\ fs.open \in BOOLEAN /\ fs.fault \in BOOLEAN
  /\ owned \in [Locations -> ClientTypes \cup {"none"}]
  /\ hold \in [Slots -> SUBSET View]

(* The hash index never names two slots for one location, never names a    *)
(* clone or an empty slot, and finds every slot with unsaved contents;     *)
(* and a slot it names that is not dirty agrees with the file, so evicting *)
(* it loses nothing (find_free_slot drops clean slots without writing).    *)
CacheCoherent ==
  /\ \A s, t \in fs.hashed : fs.loc[s] = fs.loc[t] => s = t
  /\ fs.hashed \subseteq fs.cached \ fs.clone
  /\ fs.open => fs.dirty \subseteq fs.hashed
  /\ \A s \in fs.hashed \ (fs.dirty \cup {fs.superslot}) :
        fs.buf[s] = fs.file[fs.loc[s]]

(* A pinned block is never moved or reused under its holder: the slot      *)
(* still holds the location that was asked for, found through the index if *)
(* it is the block itself and with its original contents if it is a clone. *)
HeldBlocksStay ==
  \A s \in Slots : \A h \in hold[s] :
    /\ fs.loc[s] = h.loc
    /\ s \in fs.clone => fs.buf[s].data = h.snap
    /\ s \notin fs.clone => s \in fs.hashed

(* What a reader of location l finds: the cached block or the file.        *)
CurrentContent(l) ==
  IF Hits(fs, l) # {} THEN fs.buf[CHOOSE s \in Hits(fs, l) : TRUE] ELSE fs.file[l]

BitmapBlocks == {fs.super.bitmaps[g] : g \in Groups} \ {0}

MarkedUsed(l) ==
  LET b == fs.super.bitmaps[Group(l)]
  IN b # 0 /\ Offset(l) \in CurrentContent(b).bits

(* The bitmaps mark exactly the blocks in use: the superblock, the bitmap  *)
(* blocks and what clients own; and the superblock counts them by type.    *)
BitmapExact ==
  /\ \A l \in Locations : MarkedUsed(l) <=>
        (l \in {0} \cup BitmapBlocks \/ owned[l] # "none")
  /\ \A t \in ClientTypes :
        fs.super.counts[t] = Cardinality({l \in Locations : owned[l] = t})
  /\ fs.super.counts["B_FREE"] =
        Cardinality({l \in 0 .. fs.num_blocks - 1 : ~MarkedUsed(l)})

(* Every allocated location has been written to the file, so num_blocks    *)
(* can be recovered from the size of the file when it is opened again.     *)
FileCoversBlocks == fs.filesize = fs.num_blocks

(* error() is not reached: no slot exhaustion, no bit toggled twice, no    *)
(* unbalanced unpin, no pins left at close.                                *)
NoError == ~fs.fault

(* total_pins is the sum of the pins of the slots, so that the check made  *)
(* at close tells the truth.                                               *)
PinsBalance == fs.total_pins = SumFunction(fs.pins)

LiveBlocks == {l \in Locations : MarkedUsed(l)} \ ({0} \cup BitmapBlocks)

Store == INSTANCE BlockStore WITH
  current <- [l \in LiveBlocks |-> CurrentContent(l).data],
  saved <- [l \in LiveBlocks |-> fs.file[l].data]

(* The cache implements the block store.                                   *)
StoreSpec == Store!Spec
=============================================================================
