----------------------------- MODULE BlockStore -----------------------------
(***************************************************************************)
(* What the block layer of fs/ promises the tree and file layers: blocks   *)
(* are allocated zeroed at a location nobody uses, written and freed one   *)
(* at a time, and the copy on disk changes only by a flush of everything   *)
(* or by the allocation of the block itself.  The cache, its eviction      *)
(* order, its pins and its bitmaps are invisible here.                     *)
(***************************************************************************)
CONSTANTS
  Locations,   (* addresses of the blocks that clients may own             *)
  Values,      (* what a block can contain                                 *)
  Zero         (* the contents of a freshly allocated block                *)

VARIABLES
  current,     (* the contents a client reads, a function on the live      *)
               (* locations                                                *)
  saved        (* the contents of the same locations on disk               *)

vars == <<current, saved>>

Live == DOMAIN current

Init == \E L \in SUBSET Locations :
  /\ current = [l \in L |-> Zero]
  /\ saved = current

(* Any operation may run out of clean slots, which flushes everything.     *)
Disk == {saved, current}

Sync == saved' = current /\ UNCHANGED current

(* The contents c, and a new block at l.                                   *)
Extended(c, l) == [m \in Live \cup {l} |-> IF m = l THEN Zero ELSE c[m]]

Allocate(l) ==
  /\ l \notin Live
  /\ current' = Extended(current, l)
  /\ \E d \in Disk : saved' = Extended(d, l)

Write(l, v) ==
  /\ l \in Live
  /\ current' = [current EXCEPT ![l] = v]
  /\ saved' \in Disk

Free(l) ==
  /\ l \in Live
  /\ current' = [m \in Live \ {l} |-> current[m]]
  /\ \E d \in Disk : saved' = [m \in Live \ {l} |-> d[m]]

Next ==
  \/ Sync
  \/ \E l \in Locations : Allocate(l) \/ Free(l) \/ \E v \in Values : Write(l, v)

Spec == Init /\ [][Next]_vars
=============================================================================
