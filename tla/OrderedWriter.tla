---------------------------- MODULE OrderedWriter ----------------------------
(***************************************************************************)
(* What the chat path relies on when it hands a write to the writer thread *)
(* (the contract at the head of backend/io/writer_thread.py): writes take  *)
(* effect one at a time in the order they were handed over, none is left   *)
(* out, and at the end of a turn everything appended before is on the disk *)
(* or its format has been reported degraded.  A stop() that gives up ends  *)
(* the promise.  ChatWriter implements this.                               *)
(***************************************************************************)
EXTENDS Naturals, Sequences

CONSTANT Op    \* the operations: records with a kind and a file

VARIABLES
  ops,       \* operations handed over, in order
  applied,   \* positions in ops, in the order they took effect
  durable,   \* positions known to be on the disk
  bad,       \* positions given up: their format is degraded
  void       \* the promise is over

vars == <<ops, applied, durable, bad, void>>

Init == ops = << >> /\ applied = << >> /\ durable = {} /\ bad = {} /\ void = FALSE

\* The fate of a position never changes once it is known.
FateGrows == durable \subseteq durable' /\ bad \subseteq bad'

\* Once the position i has taken effect, its turn is over: every append up to
\* i has met its fate.
TurnOver(i) ==
  \A j \in 1 .. i : ops'[j].kind = "append" => j \in durable' \cup bad'

\* An operation is queued.
Accept(op) ==
  /\ ops' = Append(ops, op)
  /\ UNCHANGED <<applied, durable, bad>>

\* The next operation takes effect, or fails and is given up.
Apply(i) ==
  /\ i = Len(applied) + 1
  /\ applied' = Append(applied, i)
  /\ FateGrows
  /\ ops'[i].kind \in {"sync", "barrier", "stop"} => TurnOver(i)

\* The oldest queued operation takes effect, or, when nothing is queued, a new
\* one takes effect in its caller's thread.
ApplyNext ==
  \/ /\ Len(applied) < Len(ops)
     /\ UNCHANGED ops
     /\ Apply(Len(applied) + 1)
  \/ /\ Len(applied) = Len(ops)
     /\ \E op \in Op : ops' = Append(ops, op)
     /\ Apply(Len(applied) + 1)

\* Appends are synchronised between two operations.
Harden ==
  /\ FateGrows
  /\ UNCHANGED <<ops, applied>>

Work == (\E op \in Op : Accept(op)) \/ ApplyNext \/ Harden

Next ==
  \/ ~ void /\ ~ void' /\ Work
  \/ void'    \* for good

Spec == Init /\ [][Next]_vars
=============================================================================
