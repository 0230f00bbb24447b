-------------------------- MODULE MCEmbedScheduler --------------------------
(* Finite instance of EmbedScheduler: the capacity the process runs with,   *)
(* one caller more, requests of up to two chunks.                           *)
EXTENDS EmbedScheduler
=============================================================================
