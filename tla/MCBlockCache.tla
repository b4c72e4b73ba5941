---------------------------- MODULE MCBlockCache ----------------------------
EXTENDS BlockCache

\* The cache array is linked in order.
FourSlots == 1 .. 4
ArrayOrder == [s \in FourSlots |-> s]
=============================================================================
