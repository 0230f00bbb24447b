-------------------------- MODULE MCGenerationGate --------------------------
(* Finite instance of GenerationGate.                                        *)
EXTENDS GenerationGate
=============================================================================
