------------------------ MODULE MCSystemdActivation ------------------------
EXTENDS SystemdActivation, TLC

Symmetry == Permutations(Releases) \cup Permutations(Runs)
=============================================================================
