------------------------------ MODULE MCExtents ------------------------------
EXTENDS Extents

MCAllNames == {0} \cup Names \cup (XBase .. XBase + (MaxNum + 2) * (MaxNum + 2))

(* "", plain names of one length, extents of another.                      *)
MCLength == [n \in MCAllNames |->
               IF n = 0 THEN 0 ELSE IF n \in Names THEN 15 ELSE 21]

(* Where the blocks of the tree are does not matter, only their number.    *)
Shape ==
  LET shape[l \in Locs(tree)] ==
        [i \in DOMAIN tree.nodes[l].keys |->
           LET k == tree.nodes[l].keys[i]
           IN <<k.name, IF tree.nodes[l].height = 0 THEN k.data
                        ELSE shape[k.data]>>]
  IN <<shape[tree.root], Cardinality(Locs(tree)), tree.fault, size, reducing>>
=============================================================================
