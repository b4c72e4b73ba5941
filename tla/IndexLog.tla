------------------------------ MODULE IndexLog -------------------------------
(***************************************************************************)
(* What svnindex promises: the index is a log of the repository.  It holds *)
(* the trees of the first revisions, each as the repository has it, and    *)
(* what it says of a revision never changes.                               *)
(***************************************************************************)
EXTENDS Integers, FiniteSets

VARIABLES
  trees,    \* the tree of every revision of the repository
  log       \* the tree of every revision the index can answer for

vars == <<trees, log>>

Init == /\ DOMAIN trees = 0..(Cardinality(DOMAIN trees) - 1)
        /\ DOMAIN log = {}

Extends(new, old, rev) ==
  /\ DOMAIN new = 0..rev
  /\ DOMAIN old = 0..(rev - 1)
  /\ \A r \in DOMAIN old : new[r] = old[r]

Commit == /\ \E rev \in DOMAIN trees : Extends(trees', trees, rev + 1)
          /\ UNCHANGED log

Record == \E rev \in DOMAIN trees :
            /\ Extends(log', log, rev)
            /\ log'[rev] = trees[rev]
            /\ UNCHANGED trees

Next == Commit \/ Record

Spec == Init /\ [][Next]_vars
=============================================================================
