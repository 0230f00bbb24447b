--------------------------- MODULE EmbedScheduler ---------------------------
(***************************************************************************)
(* The arbiter of the embedding server (backend/free/rag/embed_scheduler). *)
(* Callers of four priority levels share Capacity places on the server;    *)
(* one place is kept for level 0 (the dialogue), and a level starts only   *)
(* while no higher level waits.  Bulk callers send their texts in chunks   *)
(* and pass through the arbiter once per chunk.                            *)
(*                                                                         *)
(* The arbiter is an asyncio.Condition whose lock is never held across an  *)
(* await, so everything between two awaits of one task is one step here.   *)
(***************************************************************************)
EXTENDS Naturals, FiniteSets

CONSTANTS Caller,       \* the tasks that embed text
          Capacity,     \* simultaneous calls on the server
          MaxChunks,    \* bound: chunks of one bulk request
          MaxRequests   \* bound: requests issued in one behaviour

ASSUME CallerAssumption == IsFiniteSet(Caller)
ASSUME CapacityAssumption == Capacity \in Nat \ {0}
ASSUME BoundAssumption == MaxChunks \in Nat \ {0} /\ MaxRequests \in Nat

P0 == 0
P2 == 2
P3 == 3
Levels == 0 .. 3

VARIABLES
  inflight,     \* _inflight: calls on the server
  waiting,      \* _waiting: callers queued, per level
  userActive,   \* what the probe _user_active answers
  pc,           \* where each caller's task is suspended
  prio,         \* level of each caller's request
  chunks,       \* chunks of the request still to send, the current one included
  requests      \* requests issued so far (bounded by MaxRequests)

vars == <<inflight, waiting, userActive, pc, prio, chunks, requests>>

\* "parked": in the condition's queue.  "woken": notified, not resumed yet.
\* "pausing": the sleep after a P3 chunk while the user is active.
States == {"idle", "parked", "woken", "running", "pausing"}

TypeOK ==
  /\ inflight \in Nat
  /\ waiting \in [Levels -> Nat]
  /\ userActive \in BOOLEAN
  /\ pc \in [Caller -> States]
  /\ prio \in [Caller -> Levels]
  /\ chunks \in [Caller -> 0 .. MaxChunks]
  /\ requests \in 0 .. MaxRequests

Init ==
  /\ inflight = 0
  /\ waiting = [l \in Levels |-> 0]
  /\ userActive \in BOOLEAN
  /\ pc = [c \in Caller |-> "idle"]
  /\ prio = [c \in Caller |-> P0]
  /\ chunks = [c \in Caller |-> 0]
  /\ requests = 0

-----------------------------------------------------------------------------

\* Fault: the place kept for the dialogue is open to every level.
Reserve_KeepsNone(p) == 0

Reserve(p) == IF p = P0 \/ Capacity <= 1 THEN 0 ELSE 1

\* _may_start, for given counters.
Admits(p, busy, queued) ==
  /\ \A l \in Levels : l < p => queued[l] = 0
  /\ busy + Reserve(p) < Capacity

MayStart(p) == Admits(p, inflight, waiting)

\* notify_all: every parked caller will look again.
Notified == [c \in Caller |-> IF pc[c] = "parked" THEN "woken" ELSE pc[c]]

Queued(p) == [waiting EXCEPT ![p] = @ + 1]
Dequeued(p) == [waiting EXCEPT ![p] = @ - 1]

\* The head of run(): join the queue of level p and start at once if the
\* counters allow it, park otherwise.  busy and where are the in-flight count
\* and the program counters at that moment.
JoinQueue(c, p, busy, where) ==
  \/ /\ Admits(p, busy, Queued(p))
     /\ inflight' = busy + 1
     /\ waiting' = waiting
     /\ pc' = [where EXCEPT ![c] = "running"]
  \/ /\ ~ Admits(p, busy, Queued(p))
     /\ inflight' = busy
     /\ waiting' = Queued(p)
     /\ pc' = [where EXCEPT ![c] = "parked"]

\* ScheduledEmbeddingBackend.embed: a request of n chunks (only P2 and P3
\* split theirs) enters the arbiter with its first chunk.
Request(c, p, n) ==
  /\ pc[c] = "idle"
  /\ requests < MaxRequests
  /\ p < P2 => n = 1
  /\ prio' = [prio EXCEPT ![c] = p]
  /\ chunks' = [chunks EXCEPT ![c] = n]
  /\ requests' = requests + 1
  /\ JoinQueue(c, p, inflight, pc)
  /\ UNCHANGED userActive

\* A notified caller resumes inside wait_for and re-evaluates the predicate.
Wake(c) ==
  /\ pc[c] = "woken"
  /\ \/ /\ MayStart(prio[c])
        /\ waiting' = Dequeued(prio[c])
        /\ inflight' = inflight + 1
        /\ pc' = [pc EXCEPT ![c] = "running"]
     \/ /\ ~ MayStart(prio[c])
        /\ pc' = [pc EXCEPT ![c] = "parked"]
        /\ UNCHANGED <<inflight, waiting>>
  /\ UNCHANGED <<userActive, prio, chunks, requests>>

\* Fault: a call that ends wakes nobody.
AfterChunk_Silent(c, left) ==
  /\ chunks' = [chunks EXCEPT ![c] = left]
  /\ \/ /\ prio[c] = P3 /\ userActive
        /\ inflight' = inflight - 1
        /\ pc' = [pc EXCEPT ![c] = "pausing"]
        /\ UNCHANGED waiting
     \/ /\ ~ (prio[c] = P3 /\ userActive)
        /\ left > 0
        /\ JoinQueue(c, prio[c], inflight - 1, pc)
     \/ /\ ~ (prio[c] = P3 /\ userActive)
        /\ left = 0
        /\ inflight' = inflight - 1
        /\ pc' = [pc EXCEPT ![c] = "idle"]
        /\ UNCHANGED waiting

\* What a caller does once its chunk is off the server: sleep if it is bulk
\* and the user is active, send the next chunk in the same step, or be done.
AfterChunk(c, left) ==
  /\ chunks' = [chunks EXCEPT ![c] = left]
  /\ \/ /\ prio[c] = P3 /\ userActive
        /\ inflight' = inflight - 1
        /\ pc' = [Notified EXCEPT ![c] = "pausing"]
        /\ UNCHANGED waiting
     \/ /\ ~ (prio[c] = P3 /\ userActive)
        /\ left > 0
        /\ JoinQueue(c, prio[c], inflight - 1, Notified)
     \/ /\ ~ (prio[c] = P3 /\ userActive)
        /\ left = 0
        /\ inflight' = inflight - 1
        /\ pc' = [Notified EXCEPT ![c] = "idle"]
        /\ UNCHANGED waiting

\* call() returned.
Finish(c) ==
  /\ pc[c] = "running"
  /\ AfterChunk(c, chunks[c] - 1)
  /\ UNCHANGED <<userActive, prio, requests>>

\* Fault: the release is not in a finally block, and a call that raises keeps
\* its place.
Fail_KeepsPlace(c) ==
  /\ pc[c] = "running"
  /\ pc' = [Notified EXCEPT ![c] = "idle"]
  /\ chunks' = [chunks EXCEPT ![c] = 0]
  /\ UNCHANGED <<inflight, waiting, userActive, prio, requests>>

\* call() raised, or its task was cancelled on the server: the same cleanup,
\* and the remaining chunks are abandoned.
Fail(c) ==
  /\ pc[c] = "running"
  /\ AfterChunk(c, 0)
  /\ UNCHANGED <<userActive, prio, requests>>

\* The pause of a P3 chunk is over: the next chunk, or the end.
EndPause(c) ==
  /\ pc[c] = "pausing"
  /\ \/ /\ chunks[c] > 0
        /\ JoinQueue(c, prio[c], inflight, pc)
     \/ /\ chunks[c] = 0
        /\ pc' = [pc EXCEPT ![c] = "idle"]
        /\ UNCHANGED <<inflight, waiting>>
  /\ UNCHANGED <<userActive, prio, chunks, requests>>

\* Fault: a cancelled caller leaves the queue without waking the others.
CancelWait_Silent(c) ==
  /\ pc[c] \in {"parked", "woken"}
  /\ waiting' = Dequeued(prio[c])
  /\ pc' = [pc EXCEPT ![c] = "idle"]
  /\ chunks' = [chunks EXCEPT ![c] = 0]
  /\ UNCHANGED <<inflight, userActive, prio, requests>>

\* A queued caller is cancelled: it leaves the queue and wakes the others.
CancelWait(c) ==
  /\ pc[c] \in {"parked", "woken"}
  /\ waiting' = Dequeued(prio[c])
  /\ pc' = [Notified EXCEPT ![c] = "idle"]
  /\ chunks' = [chunks EXCEPT ![c] = 0]
  /\ UNCHANGED <<inflight, userActive, prio, requests>>

\* A pausing caller is cancelled.
CancelPause(c) ==
  /\ pc[c] = "pausing"
  /\ pc' = [pc EXCEPT ![c] = "idle"]
  /\ chunks' = [chunks EXCEPT ![c] = 0]
  /\ UNCHANGED <<inflight, waiting, userActive, prio, requests>>

\* The user comes or goes.
UserActivity ==
  /\ userActive' = ~ userActive
  /\ UNCHANGED <<inflight, waiting, pc, prio, chunks, requests>>

Next ==
  \/ \E c \in Caller : \/ \E p \in Levels, n \in 1 .. MaxChunks : Request(c, p, n)
                       \/ Wake(c) \/ Finish(c) \/ Fail(c) \/ EndPause(c)
                       \/ CancelWait(c) \/ CancelPause(c)
  \/ UserActivity

Spec == Init /\ [][Next]_vars

\* The event loop runs every ready task, the server answers or fails, and a
\* sleep ends.  Cancellations and the user owe nothing.
Fairness == \A c \in Caller : /\ WF_vars(Wake(c))
                              /\ WF_vars(Finish(c) \/ Fail(c))
                              /\ WF_vars(EndPause(c))

FairSpec == Spec /\ Fairness

-----------------------------------------------------------------------------
Waiting(l) == {c \in Caller : pc[c] \in {"parked", "woken"} /\ prio[c] = l}
Running == {c \in Caller : pc[c] = "running"}
LowRunning == {c \in Running : prio[c] # P0}

\* The counters the admission test reads are exactly the callers behind them,
\* whichever way a caller left: served, failed, cancelled while queued or
\* while on the server.  A leak of one would close a place for ever.
CountersExact ==
  /\ inflight = Cardinality(Running)
  /\ \A l \in Levels : waiting[l] = Cardinality(Waiting(l))

\* A caller that sleeps in the queue could not start: whoever made its start
\* possible has woken it.  Starting a call notifies nobody, so this depends
\* on a start never opening the way to another level, which is true of the
\* capacity the process uses (2).
NoLostWakeup == \A c \in Caller : pc[c] = "parked" => ~ MayStart(prio[c])

\* A dialogue query never queues behind background work alone: while one is
\* parked, another dialogue query is on the server.
DialogueWaitsOnlyForDialogue ==
  \A c \in Caller : pc[c] = "parked" /\ prio[c] = P0 =>
                      \E d \in Running : prio[d] = P0

\* Once no more requests arrive, every request leaves the arbiter, at any
\* level: nobody sleeps on a condition that nobody will signal.
EveryRequestEnds == \A c \in Caller : pc[c] # "idle" ~> pc[c] = "idle"
=============================================================================
