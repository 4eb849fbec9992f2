-------------------------- MODULE MCLedgerAppend ---------------------------
EXTENDS LedgerAppend, TLC
Symmetry == Permutations(Callers) \cup Permutations(Transitions)
=============================================================================
