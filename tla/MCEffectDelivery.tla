-------------------------- MODULE MCEffectDelivery --------------------------
EXTENDS EffectDelivery, TLC

Symmetry == Permutations(Callers) \cup Permutations(Effects)
=============================================================================
