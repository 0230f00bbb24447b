---------------------------- MODULE SessionArchive ----------------------------
(***************************************************************************)
(* What a reader of the chat history may count on (the contract of         *)
(* backend/free/history/history_manager.py with the writer thread): a      *)
(* conversation grows at its end, folding its log into its file is         *)
(* invisible, and a crash takes away at most an end that was not yet on    *)
(* the disk.  A write that fails and a deletion end the promise.           *)
(* HistoryLog implements this.                                             *)
(***************************************************************************)
EXTENDS Naturals, Sequences

CONSTANT Turn

VARIABLES
  archive,   \* the turns a reader sees
  safe,      \* how many of them no crash can take away
  void       \* the promise is over

vars == <<archive, safe, void>>

Init == archive = << >> /\ safe = 0 /\ void = FALSE

\* New turns are written.
Grow ==
  /\ archive' \in Seq(Turn)
  /\ \E n \in 1 .. Len(archive') :
        SubSeq(archive', 1, Len(archive') - n) = archive
  /\ safe' = safe

\* Turns reach the disk.
Harden ==
  /\ archive' = archive
  /\ safe' \in safe .. Len(archive)

\* A crash: an end that was not safe is gone.
Lose ==
  /\ \E n \in safe .. Len(archive) : archive' = SubSeq(archive, 1, n)
  /\ safe' = safe

Next ==
  \/ ~ void /\ ~ void' /\ (Grow \/ Harden \/ Lose)
  \/ void'    \* for good

Spec == Init /\ [][Next]_vars
=============================================================================
