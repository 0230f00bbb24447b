---------------------------- MODULE MCChatWriter ----------------------------
EXTENDS ChatWriter, TLC

\* The files are interchangeable.
Symmetry == Permutations(File)
=============================================================================
