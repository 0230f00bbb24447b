---------------------------- MODULE TurnAdmission ----------------------------
(***************************************************************************)
(* The life of a chat turn: its admission, its stream, its agent, its      *)
(* client going away, and a shutdown (backend/free/api/chat:               *)
(* turn_admission.py, chat_stream_meta.py, cancel_scope of                 *)
(* chat_stream_common.py; api/system/shutdown.py).                         *)
(*                                                                         *)
(* One event loop: everything between two awaits of a task is one step.    *)
(* Done callbacks of a task are scheduled together when it ends, so they   *)
(* run as one step, in the order of their registration.                    *)
(* Abstracted: the frames of an answer and what is recorded of it.         *)
(***************************************************************************)
EXTENDS Naturals

CONSTANTS Turn,     \* requests; each arrives at most once
          Session,  \* sessions with an id
          NoId      \* the session of a request without an id

ASSUME SessionsAssumption == NoId \notin Session

VARIABLES
  at,         \* where each turn is
  lease,      \* its lease of the generation gate
  session,    \* session_id of its request
  creates,    \* turns in create mode
  ledger,     \* _ACTIVE: admitted turns
  agent,      \* the turn's agent task
  staged,     \* turns whose agent has a production stage
  callbacks,  \* what the end of the agent task is to call
  dropping,   \* turns whose _drop has been scheduled
  keys,       \* _cancel_flags: turns with a cancel key
  flagged,    \* those whose flag is up
  detached,   \* turns left to their agent (history)
  unreachable, \* those of them whose key was not retained (history)
  records,    \* how often each turn has been recorded
  shutdown    \* how far a shutdown is

turnVars == <<at, lease, session, creates, agent, staged, detached, unreachable, records>>
vars == <<at, lease, session, creates, ledger, agent, staged, callbacks, dropping,
          keys, flagged, detached, unreachable, records, shutdown>>

\* "handler": being prepared.  "handed": the response is returned, its stream
\* has not started.  "stream": its generator runs.  "tail": the turn is
\* recorded, the last frames are to be sent.  "unwinding": the outer generator
\* is closed, the inner one not yet.
Places == {"none", "refused", "handler", "handed", "stream", "tail", "unwinding", "over"}

TypeOK ==
  /\ at \in [Turn -> Places]
  /\ lease \in [Turn -> {"none", "held", "handed", "expired", "released"}]
  /\ session \in [Turn -> Session \cup {NoId}]
  /\ agent \in [Turn -> {"none", "working", "cancelling", "answered", "failed", "cancelled"}]
  /\ creates \cup ledger \cup staged \cup dropping \cup keys \cup detached \cup unreachable
       \subseteq Turn
  /\ flagged \subseteq keys
  /\ callbacks \in [Turn -> SUBSET {"free key", "record", "drop"}]
  /\ records \in [Turn -> {0, 1}]
  /\ shutdown \in {"no", "asked", "cancelled", "finished"}

Init ==
  /\ at = [t \in Turn |-> "none"] /\ lease = [t \in Turn |-> "none"]
  /\ session = [t \in Turn |-> NoId] /\ creates = {} /\ ledger = {}
  /\ agent = [t \in Turn |-> "none"] /\ staged = {}
  /\ callbacks = [t \in Turn |-> {}] /\ dropping = {}
  /\ keys = {} /\ flagged = {} /\ detached = {} /\ unreachable = {}
  /\ records = [t \in Turn |-> 0] /\ shutdown = "no"

-----------------------------------------------------------------------------

\* The agent task exists and is not done.
Alive(t) == agent[t] \in {"working", "cancelling"}

\* try_admit: what a request meets in the ledger.
Busy(s, create) ==
  \/ s # NoId /\ \E t \in ledger : session[t] = s
  \/ create /\ ledger \cap creates # {}

\* Fault: the end of the lease is the end of the admission.
Release_AtOnce(t, todo) ==
  /\ ledger' = ledger \ {t}
  /\ callbacks' = [callbacks EXCEPT ![t] = todo]

\* TurnAdmission.release, once: with the agent alive it waits for its end.
\* todo: the callbacks registered before.
Release(t, todo) ==
  IF Alive(t) THEN /\ ledger' = ledger
                   /\ callbacks' = [callbacks EXCEPT ![t] = todo \cup {"drop"}]
              ELSE /\ ledger' = ledger \ {t}
                   /\ callbacks' = [callbacks EXCEPT ![t] = todo]

\* The request arrives, once the shutdown gate has let it through.
Arrive(t, s, create) ==
  /\ at[t] = "none" /\ shutdown = "no"
  /\ session' = [session EXCEPT ![t] = s]
  /\ creates' = IF create THEN creates \cup {t} ELSE creates
  /\ \/ /\ Busy(s, create)
        /\ at' = [at EXCEPT ![t] = "refused"]
        /\ lease' = [lease EXCEPT ![t] = "released"]
        /\ ledger' = ledger
     \/ /\ ~ Busy(s, create)
        /\ at' = [at EXCEPT ![t] = "handler"]
        /\ lease' = [lease EXCEPT ![t] = "held"]
        /\ ledger' = ledger \cup {t}
  /\ UNCHANGED <<agent, staged, callbacks, dropping, keys, flagged, detached, records,
                 unreachable, shutdown>>

\* The handler returns without a stream.
HandlerReturns(t) ==
  /\ at[t] = "handler"
  /\ at' = [at EXCEPT ![t] = "over"]
  /\ lease' = [lease EXCEPT ![t] = "released"]
  /\ Release(t, callbacks[t])
  /\ UNCHANGED <<session, creates, agent, staged, dropping, keys, flagged, detached,
                 records, unreachable, shutdown>>

\* It returns a stream, and the lease with it.
HandOver(t) ==
  /\ at[t] = "handler"
  /\ at' = [at EXCEPT ![t] = "handed"]
  /\ lease' = [lease EXCEPT ![t] = "handed"]
  /\ UNCHANGED <<session, creates, ledger, agent, staged, callbacks, dropping, keys,
                 flagged, detached, records, unreachable, shutdown>>

\* The stream has not started in time.
Expire(t) ==
  /\ at[t] = "handed" /\ lease[t] = "handed"
  /\ lease' = [lease EXCEPT ![t] = "expired"]
  /\ Release(t, callbacks[t])
  /\ UNCHANGED <<at, session, creates, agent, staged, dropping, keys, flagged, detached,
                 records, unreachable, shutdown>>

\* The generator starts, driven by the response or collected by the handler,
\* and enters cancel_scope.
StreamStarts(t) ==
  /\ at[t] \in {"handler", "handed"}
  /\ at' = [at EXCEPT ![t] = "stream"]
  /\ keys' = keys \cup {t}
  /\ UNCHANGED <<lease, session, creates, ledger, agent, staged, callbacks, dropping,
                 flagged, detached, records, unreachable, shutdown>>

\* The meta-cognitive layer starts its agent.
AgentStarts(t, s) ==
  /\ at[t] = "stream" /\ agent[t] = "none" /\ (s => t \in creates)
  /\ agent' = [agent EXCEPT ![t] = "working"]
  /\ staged' = IF s THEN staged \cup {t} ELSE staged
  /\ UNCHANGED <<at, lease, session, creates, ledger, callbacks, dropping, keys, flagged,
                 detached, records, unreachable, shutdown>>

AgentEnds(t, result) ==
  /\ \/ agent[t] = "working" /\ result \in {"answered", "failed"}
     \/ agent[t] = "cancelling" /\ result = "cancelled"
  /\ agent' = [agent EXCEPT ![t] = result]
  /\ UNCHANGED <<at, lease, session, creates, ledger, staged, callbacks, dropping, keys,
                 flagged, detached, records, unreachable, shutdown>>

\* _drain_meta_cognitive_steps meets the flag.
CancelSeen(t) ==
  /\ at[t] = "stream" /\ t \in flagged /\ agent[t] = "working"
  /\ agent' = [agent EXCEPT ![t] = "cancelling"]
  /\ UNCHANGED <<at, lease, session, creates, ledger, staged, callbacks, dropping, keys,
                 flagged, detached, records, unreachable, shutdown>>

\* The turn is recorded, as answered, cancelled or failed.
Finalize(t) ==
  /\ at[t] = "stream" /\ ~ Alive(t)
  /\ at' = [at EXCEPT ![t] = "tail"]
  /\ records' = [records EXCEPT ![t] = @ + 1]
  /\ UNCHANGED <<lease, session, creates, ledger, agent, staged, callbacks, dropping,
                 keys, flagged, detached, unreachable, shutdown>>

\* What the lease's callback does; nothing, if the lease has expired.
LeaseEnds(t, todo) ==
  \/ /\ lease[t] \in {"held", "handed"}
     /\ lease' = [lease EXCEPT ![t] = "released"]
     /\ Release(t, todo)
  \/ /\ lease[t] \notin {"held", "handed"}
     /\ lease' = lease /\ ledger' = ledger
     /\ callbacks' = [callbacks EXCEPT ![t] = todo]

\* cancel_scope is left.
FreeKey(t) == keys' = keys \ {t} /\ flagged' = flagged \ {t}

StreamEnds(t) ==
  /\ at[t] = "tail"
  /\ at' = [at EXCEPT ![t] = "over"]
  /\ FreeKey(t)
  /\ LeaseEnds(t, callbacks[t])
  /\ UNCHANGED <<session, creates, agent, staged, dropping, detached, records,
                 unreachable, shutdown>>

\* _should_detach_on_disconnect.
Detaches(t) == Alive(t) /\ t \in staged /\ t \notin flagged

\* Fault: the key of a detached turn is not retained.
InnerFinally_FreesKey(t) ==
  \/ /\ Detaches(t)
     /\ detached' = detached \cup {t}
     /\ FreeKey(t)
     /\ agent' = agent
  \/ /\ ~ Detaches(t)
     /\ detached' = detached
     /\ FreeKey(t)
     /\ agent' = IF Alive(t) THEN [agent EXCEPT ![t] = "cancelling"] ELSE agent

\* The finally of stream_meta_cognitive, then that of its cancel_scope.
InnerFinally(t) ==
  \/ /\ Detaches(t)
     /\ detached' = detached \cup {t}
     /\ UNCHANGED <<keys, flagged, agent>>
  \/ /\ ~ Detaches(t)
     /\ detached' = detached
     /\ FreeKey(t)
     /\ agent' = IF Alive(t) THEN [agent EXCEPT ![t] = "cancelling"] ELSE agent

\* Fault: nothing records what a detached agent answers.
Registered_NoRecord(t) == callbacks[t] \cup (IF Detaches(t) THEN {"free key"} ELSE {})

\* Callbacks on the agent's end once InnerFinally has run: retain_cancel_scope
\* and _run_on_done register theirs.
Registered(t) == callbacks[t] \cup (IF Detaches(t) THEN {"free key", "record"} ELSE {})

\* The client goes away while the generators wait: they unwind from the inside.
DisconnectInside(t) ==
  /\ at[t] \in {"stream", "tail"} /\ lease[t] # "held"
  /\ at' = [at EXCEPT ![t] = "over"]
  /\ InnerFinally(t)
  /\ LeaseEnds(t, Registered(t))
  /\ UNCHANGED <<session, creates, staged, dropping, records, unreachable, shutdown>>

\* Fault: the lease is released when the stream is exhausted only.
DisconnectOutside_KeepsLease(t) ==
  /\ at[t] \in {"stream", "tail"} /\ lease[t] # "held"
  /\ at' = [at EXCEPT ![t] = "unwinding"]
  /\ UNCHANGED <<session, creates, agent, staged, dropping, keys, flagged, detached,
                 records, unreachable, shutdown, lease, ledger, callbacks>>

\* It goes away while a frame is sent: the outer generator is closed first, and
\* the lease released; the inner one is closed by the loop.
DisconnectOutside(t) ==
  /\ at[t] \in {"stream", "tail"} /\ lease[t] # "held"
  /\ at' = [at EXCEPT ![t] = "unwinding"]
  /\ LeaseEnds(t, callbacks[t])
  /\ UNCHANGED <<session, creates, agent, staged, dropping, keys, flagged, detached,
                 records, unreachable, shutdown>>

\* The loop closes the inner generator in the Context of another task, where
\* _cancel_key falls back to the session id: the flag is not met, and
\* cancel_scope takes the turn's key away even when its agent is left to go on.
InnerCloses(t) ==
  /\ at[t] = "unwinding"
  /\ at' = [at EXCEPT ![t] = "over"]
  /\ FreeKey(t)
  /\ \/ /\ Alive(t) /\ t \in staged
        /\ detached' = detached \cup {t} /\ unreachable' = unreachable \cup {t}
        /\ callbacks' = [callbacks EXCEPT ![t] = @ \cup {"record"}]
        /\ agent' = agent
     \/ /\ ~ (Alive(t) /\ t \in staged)
        /\ agent' = IF Alive(t) THEN [agent EXCEPT ![t] = "cancelling"] ELSE agent
        /\ UNCHANGED <<detached, unreachable, callbacks>>
  /\ UNCHANGED <<lease, session, creates, ledger, staged, dropping, records, shutdown>>

\* The done callbacks of the agent task.
RunCallbacks(t) ==
  /\ agent[t] # "none" /\ ~ Alive(t) /\ callbacks[t] # {}
  /\ callbacks' = [callbacks EXCEPT ![t] = {}]
  /\ IF "free key" \in callbacks[t] THEN FreeKey(t) ELSE UNCHANGED <<keys, flagged>>
  /\ records' = IF "record" \in callbacks[t] /\ agent[t] = "answered"
                  THEN [records EXCEPT ![t] = @ + 1] ELSE records
  /\ dropping' = IF "drop" \in callbacks[t] THEN dropping \cup {t} ELSE dropping
  /\ UNCHANGED <<at, lease, session, creates, ledger, agent, staged, detached,
                 unreachable, shutdown>>

\* _drop, scheduled by a callback.
Drop(t) ==
  /\ t \in dropping
  /\ dropping' = dropping \ {t}
  /\ ledger' = ledger \ {t}
  /\ UNCHANGED <<turnVars, callbacks, keys, flagged, shutdown>>

\* /api/chat/cancel.
RequestCancel(t) ==
  /\ t \in keys
  /\ flagged' = flagged \cup {t}
  /\ UNCHANGED <<turnVars, ledger, callbacks, dropping, keys, shutdown>>

-----------------------------------------------------------------------------
\* A shutdown: new turns are refused, those with a key are cancelled and waited
\* for.

AskShutdown ==
  /\ shutdown = "no" /\ shutdown' = "asked"
  /\ UNCHANGED <<turnVars, ledger, callbacks, dropping, keys, flagged>>

CancelAll ==
  /\ shutdown = "asked" /\ shutdown' = "cancelled"
  /\ flagged' = keys
  /\ UNCHANGED <<turnVars, ledger, callbacks, dropping, keys>>

\* _wait_turns_finished finds no key.  (Its deadline ends the program.)
TurnsFinished ==
  /\ shutdown = "cancelled" /\ keys = {} /\ shutdown' = "finished"
  /\ UNCHANGED <<turnVars, ledger, callbacks, dropping, keys, flagged>>

-----------------------------------------------------------------------------

Requested(t) == \E s \in Session \cup {NoId}, c \in BOOLEAN : Arrive(t, s, c)

HandlerStep(t) == HandlerReturns(t) \/ HandOver(t) \/ StreamStarts(t)

StreamStep(t) == Finalize(t) \/ StreamEnds(t) \/ InnerCloses(t)

AgentStep(t) ==
  \/ \E s \in BOOLEAN : AgentStarts(t, s)
  \/ \E r \in {"answered", "failed", "cancelled"} : AgentEnds(t, r)

Next ==
  \/ \E t \in Turn : \/ Requested(t) \/ HandlerStep(t) \/ Expire(t) \/ StreamStep(t)
                     \/ AgentStep(t) \/ CancelSeen(t) \/ DisconnectInside(t)
                     \/ DisconnectOutside(t) \/ RunCallbacks(t) \/ Drop(t) \/ RequestCancel(t)
  \/ AskShutdown \/ CancelAll \/ TurnsFinished

Spec == Init /\ [][Next]_vars

-----------------------------------------------------------------------------

\* The turn's lease expired before its stream started.
Late(t) == lease[t] = "expired"

\* The turn still works: it may generate, or its record is to come.
Working(t) ==
  \/ at[t] \in {"handler", "handed", "stream", "tail"}
  \/ Alive(t)
  \/ "record" \in callbacks[t]

\* Two turns of one session never work at once, nor two create turns, even
\* when one has lost its client and its agent goes on, and in whatever order
\* its generators are closed.  A stream that starts after its lease has expired
\* is the exception.
Exclusive ==
  \A t, u \in Turn : t # u /\ Working(t) /\ Working(u) /\ ~ Late(t) /\ ~ Late(u) =>
     /\ session[t] # session[u] \/ session[t] = NoId
     /\ ~ ({t, u} \subseteq creates)

\* An agent that works can be cancelled, with its client or without, as
\* retain_cancel_scope promises: in whatever order the agent starts, the flag
\* is raised, the client goes away and the scope is left.  The exception is the
\* agent detached by a generator that the loop closes: its key is lost.
CancelReaches ==
  \A t \in Turn : agent[t] = "working" /\ t \notin unreachable => t \in keys

\* A turn is recorded when its stream reaches its end or its detached agent
\* answers, and never twice, whether the client goes away before, between or after.
RecordedOnce ==
  \A t \in Turn :
     /\ records[t] <= 1
     /\ at[t] = "tail" => records[t] = 1
     /\ t \in detached /\ agent[t] = "answered" /\ callbacks[t] = {} => records[t] = 1

\* Before the program goes on to end, the turns it cancelled have ended: no
\* agent works and no record is to come, but for the same exception.
ShutdownWaits ==
  [][TurnsFinished => \A t \in Turn \ unreachable :
                        agent[t] # "working" /\ "record" \notin callbacks[t]]_vars

\* Whoever is in the ledger has somebody to take it out: a lease that its
\* handler, its stream or its timer will end, or a callback of its agent.  A
\* turn left there would block its session, or every create, for ever.
LedgerBacked ==
  \A t \in ledger :
     \/ lease[t] \in {"held", "handed"} /\ at[t] \in {"handler", "handed", "stream", "tail"}
     \/ agent[t] # "none" /\ "drop" \in callbacks[t]
     \/ t \in dropping
=============================================================================
