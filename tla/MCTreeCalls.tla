---------------------------- MODULE MCTreeCalls ----------------------------
EXTENDS TreeCalls

\* The cache array is linked in order.
TenSlots == 1 .. 10
TenInOrder == [s \in TenSlots |-> s]
=============================================================================
