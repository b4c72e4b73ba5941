------------------------------- MODULE KeyMap -------------------------------
(***************************************************************************)
(* What the tree promises file.c: a map from key names to data, and, for   *)
(* the extents of one file, a map from block numbers to locations.         *)
(***************************************************************************)
EXTENDS Integers

CONSTANTS
  Names,      (* the names of plain keys                                   *)
  Data,       (* what a plain key points to                                *)
  Nums,       (* block numbers within a file                               *)
  DataBlocks  (* locations of data blocks                                  *)

VARIABLES
  keys,       (* the data of each key present                              *)
  blocks      (* the location of each block of the file                    *)

vars == <<keys, blocks>>

Init == keys = <<>> /\ blocks = <<>>

Put(n, d) ==
  /\ keys' = [m \in DOMAIN keys \cup {n} |-> IF m = n THEN d ELSE keys[m]]
  /\ UNCHANGED blocks

Remove(n) ==
  /\ n \in DOMAIN keys
  /\ keys' = [m \in DOMAIN keys \ {n} |-> keys[m]]
  /\ UNCHANGED blocks

(* A block that has a location keeps it; a new one gets one of its own.    *)
Extend(num, l) ==
  /\ num \notin DOMAIN blocks
  /\ \A m \in DOMAIN blocks : blocks[m] # l
  /\ blocks' = [m \in DOMAIN blocks \cup {num} |->
                  IF m = num THEN l ELSE blocks[m]]
  /\ UNCHANGED keys

(* Only blocks from some number on are given up.                           *)
Cut(num) ==
  /\ blocks' = [m \in {k \in DOMAIN blocks : k < num} |-> blocks[m]]
  /\ UNCHANGED keys

Next ==
  \/ \E n \in Names : Remove(n) \/ \E d \in Data : Put(n, d)
  \/ \E num \in Nums : Cut(num) \/ \E l \in DataBlocks : Extend(num, l)

Spec == Init /\ [][Next]_vars
=============================================================================
