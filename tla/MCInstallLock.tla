---------------------------- MODULE MCInstallLock ----------------------------
EXTENDS InstallLock, TLC

Symmetry == Permutations(Serve) \cup Permutations(Writer) \cup Permutations(Update)
=============================================================================
