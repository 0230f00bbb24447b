-------------------------- MODULE MCTurnAdmission --------------------------
EXTENDS TurnAdmission, TLC

Symmetry == Permutations(Turn)
=============================================================================
