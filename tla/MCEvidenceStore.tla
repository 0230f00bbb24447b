--------------------------- MODULE MCEvidenceStore ---------------------------
(* Finite instances of EvidenceStore: one record is enough, as no operation  *)
(* relates two of them.                                                      *)
EXTENDS EvidenceStore
=============================================================================
