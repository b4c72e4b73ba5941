---------------------------- MODULE MCMatchEngine ----------------------------
EXTENDS MatchEngine

\* No order is for nothing, and the last one, for which a struct is used again,
\* is the lowest bid.
PoolNext ==
  \/ Consume \/ Finish
  \/ \E o \in Order :
       /\ o.size > 0
       /\ eng.nextId < MaxId \/ (o.side = "bid" /\ o.price = 1)
       /\ Limit(o)
  \/ \E id \in 1 .. MaxId : Cancel(id)

PoolSpec == Init /\ [][PoolNext]_vars
=============================================================================
