-------------------------- MODULE MCSleepScheduler --------------------------
(* Finite instance of SleepScheduler.                                        *)
EXTENDS SleepScheduler, TLC

Symmetry == Permutations(Task) \cup Permutations(Turn)
=============================================================================
