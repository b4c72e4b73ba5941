------------------------------- MODULE MCFiles -------------------------------
EXTENDS Files

=============================================================================
