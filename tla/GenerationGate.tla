--------------------------- MODULE GenerationGate ---------------------------
(***************************************************************************)
(* Background generations beside chat turns on one GPU                     *)
(* (backend/free/llm/generation_gate.py and aux_client.py).  A turn holds  *)
(* a lease from its request to the end of its answer.  A background        *)
(* generation waits until no lease and no chat generation is left, takes   *)
(* the lock of its slot and runs; a request that arrives later cuts it     *)
(* off, unless it was claimed to run to completion.                        *)
(*                                                                         *)
(* One event loop: everything between two awaits of a task is one step.    *)
(* Abstracted: one background slot (locks of different slots do not meet), *)
(* the time limits (a wait may end by its limit at any moment), and what   *)
(* is learnt from a duration (samples says under which conditions).        *)
(***************************************************************************)
EXTENDS Naturals, Sequences, FiniteSets, SequencesExt

CONSTANTS Task,            \* background tasks, each with one generation at a time
          MaxTurns,        \* bound: chat requests
          MaxGenerations,  \* bound: generations of the chat turns
          MaxCalls,        \* bound: generations asked for by the background
          MaxRebinds,      \* bound: switches of the model
          MaxPreemptions   \* _YIELD_MAX_PREEMPTIONS

ASSUME BoundsAssumption ==
  {MaxTurns, MaxGenerations, MaxCalls, MaxRebinds, MaxPreemptions} \subseteq Nat
ASSUME SetsAssumption == IsFiniteSet(Task)

\* A turn is known by the number of its request.
Turn == 1 .. MaxTurns

VARIABLES
  \* the gate
  active,       \* _active: leases and chat generations under way
  activations,  \* _activations
  requests,     \* _requests
  \* the turns
  lease,        \* where each turn and its lease are
  generating,   \* turns with a generation on the chat slot
  generations,  \* generations of turns so far
  \* the background
  pc,           \* where each task is suspended
  kind,         \* what it asked for
  token,        \* what it read before it asked for the lock
  since,        \* request_token() at its dispatch
  yields,       \* may a request cut it off?
  tries,        \* times it has been cut off since it asked (probes)
  calls,        \* generations asked for so far
  \* the slot
  model,        \* rebinds so far: which client and which locks are in use
  askedOf,      \* the model whose lock the task queued for
  line,         \* per model: who holds and waits for the slot's lock, in order
  \* what happened so far
  met,          \* tasks whose generation met a chat in flight
  samples       \* durations learnt from: measured "alone", or beside a chat

gateVars == <<active, activations, requests>>
turnVars == <<lease, generating, generations>>
waitVars == <<pc, kind, token, since, yields, tries, calls, askedOf, line>>
vars == <<active, activations, requests, lease, generating, generations,
          pc, kind, token, since, yields, tries, calls, model, askedOf, line,
          met, samples>>

\* "held": in the handler.  "handed": the response stream is to release it, or
\* the timer.  "streaming": the stream runs, the timer is off.  "expired": the
\* timer released it.  "late": its stream has started all the same.
LeaseStates == {"none", "held", "handed", "streaming", "expired", "late", "over"}

\* "aux": AuxClient.generate for a deferrable purpose.  "claim": the same in a
\* section of run_to_completion with calls left.  "urgent": for any other
\* purpose.  "probe": run_yielding_to_chat, beside the slot's lock.
Kinds == {"aux", "claim", "urgent", "probe"}

\* "waiting": for the idle event.  "woken": it was set.  "queued": for the lock.
TaskStates == {"idle", "waiting", "woken", "queued", "running"}

\* idle_found, idle_token and the count of gate_token (whose other half is
\* found, read in the same step).
Token == [found : BOOLEAN, asked : Nat, seen : Nat]

NoToken == [found |-> FALSE, asked |-> 0, seen |-> 0]

TypeOK ==
  /\ active \in Nat /\ activations \in Nat /\ requests \in 0 .. MaxTurns
  /\ generations \in Nat /\ calls \in Nat
  /\ lease \in [Turn -> LeaseStates]
  /\ generating \subseteq Turn
  /\ pc \in [Task -> TaskStates] /\ kind \in [Task -> Kinds]
  /\ token \in [Task -> Token] /\ since \in [Task -> 0 .. requests]
  /\ yields \in [Task -> BOOLEAN]
  /\ tries \in [Task -> 0 .. MaxPreemptions]
  /\ model \in 0 .. MaxRebinds /\ askedOf \in [Task -> 0 .. model]
  /\ line \in [0 .. MaxRebinds -> Seq(Task)]
  /\ met \subseteq Task
  /\ samples \subseteq {"alone", "met"}

Init ==
  /\ active = 0 /\ activations = 0 /\ requests = 0
  /\ lease = [t \in Turn |-> "none"]
  /\ generating = {} /\ generations = 0
  /\ pc = [a \in Task |-> "idle"] /\ kind = [a \in Task |-> "aux"]
  /\ token = [a \in Task |-> NoToken]
  /\ since = [a \in Task |-> 0] /\ yields = [a \in Task |-> TRUE]
  /\ tries = [a \in Task |-> 0] /\ calls = 0
  /\ model = 0 /\ askedOf = [a \in Task |-> 0]
  /\ line = [m \in 0 .. MaxRebinds |-> << >>]
  /\ met = {} /\ samples = {}

-----------------------------------------------------------------------------
\* The gate and the turns.

Idle == active = 0

\* Tasks between their token and the end of their generation.
Measuring == {a \in Task : pc[a] \in {"queued", "running"}}

\* _acquire.
Acquire ==
  /\ active' = active + 1
  /\ activations' = activations + 1
  /\ met' = met \cup Measuring
  /\ UNCHANGED pc

\* Fault: the count is looked at before it is lowered.
Release_ChecksBefore ==
  /\ active' = IF active = 0 THEN 0 ELSE active - 1
  /\ pc' = IF active = 0
             THEN [a \in Task |-> IF pc[a] = "waiting" THEN "woken" ELSE pc[a]]
             ELSE pc
  /\ UNCHANGED <<activations, met>>

\* _release: the event is set once nothing is left, and its waiters resume
\* later, whatever has happened by then.
Release ==
  /\ active' = IF active = 0 THEN 0 ELSE active - 1
  /\ pc' = IF active <= 1
             THEN [a \in Task |-> IF pc[a] = "waiting" THEN "woken" ELSE pc[a]]
             ELSE pc
  /\ UNCHANGED <<activations, met>>

taskVars == <<kind, token, since, yields, tries, calls, askedOf, line>>

\* begin_chat_turn: the request is announced and the lease taken.
Begin(t) ==
  /\ t = requests + 1
  /\ requests' = t
  /\ lease' = [lease EXCEPT ![t] = "held"]
  /\ Acquire
  /\ UNCHANGED <<generating, generations, taskVars, model, samples>>

\* The lease moves without being released.
Move(t, from, to) ==
  /\ lease[t] = from
  /\ lease' = [lease EXCEPT ![t] = to]
  /\ UNCHANGED <<gateVars, generating, generations, waitVars, model, met, samples>>

HandOver(t) == Move(t, "held", "handed")

\* A stream may start after the timer has released its lease.
StreamStarts(t) == Move(t, "handed", "streaming") \/ Move(t, "expired", "late")

\* The handler returns without a stream, the stream ends, or the timer expires.
Released(t, from, to) ==
  /\ lease[t] = from
  /\ lease' = [lease EXCEPT ![t] = to]
  /\ Release
  /\ UNCHANGED <<requests, generating, generations, taskVars, model, samples>>

\* Fault: release() is not idempotent.
TurnEnds_ReleasesAgain(t) ==
  Released(t, "held", "over") \/ Released(t, "streaming", "over") \/ Released(t, "late", "over")

\* A second release does nothing.
TurnEnds(t) ==
  Released(t, "held", "over") \/ Released(t, "streaming", "over") \/ Move(t, "late", "over")

Expire(t) == Released(t, "handed", "expired")

\* chat_generation and gate_stream: nested in the lease, or after it in a turn
\* whose agent goes on without its client.
GenerationStarts(t) ==
  /\ lease[t] \in {"held", "streaming", "late", "over"} /\ t \notin generating
  /\ generations < MaxGenerations
  /\ generating' = generating \cup {t}
  /\ generations' = generations + 1
  /\ Acquire
  /\ UNCHANGED <<requests, lease, taskVars, model, samples>>

GenerationEnds(t) ==
  /\ t \in generating
  /\ generating' = generating \ {t}
  /\ Release
  /\ UNCHANGED <<requests, lease, generations, taskVars, model, samples>>

-----------------------------------------------------------------------------
\* The background.

\* Fault: a claim needs only the idle window that was found before the lock.
Claimable_WhenAsked(tk) == tk.found

\* The conditions under which a generation is claimed at its dispatch.
Claimable(tk) == tk.found /\ Idle /\ requests = tk.asked

\* _run_preemptible, or the plain call, once the lock is held.
Dispatch(a, tk) ==
  /\ pc' = [pc EXCEPT ![a] = "running"]
  /\ since' = [since EXCEPT ![a] = requests]
  /\ yields' = [yields EXCEPT ![a] =
                  \/ kind'[a] = "aux"
                  \/ kind'[a] = "claim" /\ ~ Claimable(tk)
                  \/ kind'[a] = "probe" /\ tries'[a] < MaxPreemptions]

\* Past the wait: the tokens are read, and the lock is taken if nobody has it.
Proceed(a) ==
  LET tk == [found |-> Idle, asked |-> requests, seen |-> activations]
      free == line[model] = << >>
  IN /\ token' = [token EXCEPT ![a] = tk]
     /\ met' = IF Idle THEN met \ {a} ELSE met \cup {a}
     /\ \/ /\ kind'[a] = "probe"
           /\ Dispatch(a, tk)
           /\ UNCHANGED <<askedOf, line>>
        \/ /\ kind'[a] # "probe"
           /\ askedOf' = [askedOf EXCEPT ![a] = model]
           /\ line' = [line EXCEPT ![model] = Append(@, a)]
           /\ IF free THEN Dispatch(a, tk)
                      ELSE /\ pc' = [pc EXCEPT ![a] = "queued"]
                           /\ UNCHANGED <<since, yields>>

\* wait_for_idle: nothing to wait for, or the event is waited for.
WaitForIdle(a) ==
  \/ /\ Idle \/ kind'[a] = "urgent"
     /\ Proceed(a)
  \/ /\ ~ Idle /\ kind'[a] # "urgent"
     /\ pc' = [pc EXCEPT ![a] = "waiting"]
     /\ UNCHANGED <<token, since, yields, askedOf, line, met>>

\* A background task asks for a generation.
Ask(a, k) ==
  /\ pc[a] = "idle" /\ calls < MaxCalls
  /\ calls' = calls + 1
  /\ kind' = [kind EXCEPT ![a] = k]
  /\ UNCHANGED <<gateVars, turnVars, tries, model, samples>>
  /\ WaitForIdle(a)

\* The wait is over because the event was set.
Resume(a) ==
  /\ pc[a] = "woken"
  /\ kind' = kind /\ tries' = tries
  /\ Proceed(a)
  /\ UNCHANGED <<gateVars, turnVars, calls, model, samples>>

\* Fault: the wait for an idle window has no limit.
GiveUpWaiting_Never(a) == FALSE /\ UNCHANGED vars

\* The wait is over because its limit has passed.
GiveUpWaiting(a) ==
  /\ pc[a] = "waiting"
  /\ kind' = kind /\ tries' = tries
  /\ Proceed(a)
  /\ UNCHANGED <<gateVars, turnVars, calls, model, samples>>

\* The lock is handed to the first in line.
TakeLock(a) ==
  /\ pc[a] = "queued" /\ Head(line[askedOf[a]]) = a
  /\ kind' = kind /\ tries' = tries
  /\ Dispatch(a, token[a])
  /\ UNCHANGED <<gateVars, turnVars, token, calls, model, askedOf, line, met, samples>>

\* The line once a has left it; nobody is in it twice.
Without(s, a) ==
  LET places == {i \in DOMAIN s : s[i] = a}
  IN  IF places = {} THEN s ELSE RemoveAt(s, CHOOSE i \in places : TRUE)

\* The call of task a is over; its lock goes to the next in line.
Over(a) ==
  /\ pc' = [pc EXCEPT ![a] = "idle"]
  /\ line' = [m \in DOMAIN line |-> Without(line[m], a)]
  /\ kind' = [kind EXCEPT ![a] = "aux"]
  /\ token' = [token EXCEPT ![a] = NoToken]
  /\ since' = [since EXCEPT ![a] = 0]
  /\ yields' = [yields EXCEPT ![a] = TRUE]
  /\ tries' = [tries EXCEPT ![a] = 0]
  /\ askedOf' = [askedOf EXCEPT ![a] = 0]
  /\ met' = met \ {a}

\* Fault: only a chat that is there at the end counts.
Contended_AtTheEnd(a) == ~ Idle

\* was_contended_since.
Contended(a) == ~ token[a].found \/ activations # token[a].seen

\* The generation ends: answered or timed out, in which case its duration is
\* learnt from unless it was contended, or with another error.
Finish(a, learns) ==
  /\ pc[a] = "running"
  /\ Over(a)
  /\ samples' = IF learns /\ kind[a] # "probe" /\ ~ Contended(a)
                  THEN samples \cup {IF a \in met THEN "met" ELSE "alone"}
                  ELSE samples
  /\ UNCHANGED <<gateVars, turnVars, calls, model>>

\* A request has arrived since the dispatch: the generation is cut off.  The
\* caller of the auxiliary client is told so; a probe tries again by itself.
Preempt(a) ==
  /\ pc[a] = "running" /\ yields[a] /\ requests # since[a]
  /\ \/ /\ kind[a] = "probe"
        /\ kind' = kind
        /\ tries' = [tries EXCEPT ![a] = @ + 1]
        /\ WaitForIdle(a)
     \/ /\ kind[a] # "probe"
        /\ Over(a)
  /\ UNCHANGED <<gateVars, turnVars, calls, model, samples>>

\* The background task is cancelled, wherever it is.
Cancel(a) ==
  /\ pc[a] # "idle"
  /\ Over(a)
  /\ UNCHANGED <<gateVars, turnVars, calls, model, samples>>

\* rebind: another client, and locks of its own.  (With nobody at the lock it
\* changes nothing here.)
Rebind ==
  /\ model < MaxRebinds /\ line[model] # << >>
  /\ model' = model + 1
  /\ UNCHANGED <<gateVars, turnVars, waitVars, met, samples>>

TurnStep(t) ==
  \/ Begin(t) \/ HandOver(t) \/ StreamStarts(t) \/ TurnEnds(t) \/ Expire(t)
  \/ GenerationStarts(t) \/ GenerationEnds(t)

TaskStep(a) ==
  \/ \E k \in Kinds : Ask(a, k)
  \/ Resume(a) \/ GiveUpWaiting(a) \/ TakeLock(a)
  \/ \E learns \in BOOLEAN : Finish(a, learns)
  \/ Preempt(a) \/ Cancel(a)

Next == (\E t \in Turn : TurnStep(t)) \/ (\E a \in Task : TaskStep(a)) \/ Rebind

Spec == Init /\ [][Next]_vars

\* Ready tasks resume, limits pass, the server answers or times out: a task that
\* can go on does.  Turns may last for ever.
GoesOn(a) ==
  \/ Resume(a) \/ GiveUpWaiting(a) \/ TakeLock(a) \/ Preempt(a)
  \/ \E learns \in BOOLEAN : Finish(a, learns)

Fairness == \A a \in Task : WF_vars(GoesOn(a))

FairSpec == Spec /\ Fairness

-----------------------------------------------------------------------------

\* Turns the background has to make room for.
Live == {t \in Turn : lease[t] \in {"held", "handed", "streaming"}}

\* The gate counts the leases not released and the generations under way,
\* whichever of its handler, its stream and its timer ends a lease, and in
\* whatever order.  A lease lost would hold the background back for ever; one
\* released twice would open the gate beside another turn.
GateExact == active = Cardinality(Live) + Cardinality(generating)

\* A generation that cannot be cut off because it was claimed, and a deferrable
\* one that found the gate idle and its lock free, run beside no turn but those
\* that arrived later, even if the lock was waited for in between.
StartsBesideNoTurn ==
  \A a \in Task :
     /\ pc[a] = "running"
     /\ \/ kind[a] = "claim" /\ ~ yields[a]
        \/ kind[a] # "urgent" /\ token[a].found /\ token[a].asked = since[a]
     => \A t \in Live : t > since[a]

\* Durations measured beside a chat are not learnt from, whether the chat was
\* there first, came during the generation or had gone before its end.
LearnsAlone == samples \subseteq {"alone"}

\* Nobody waits for what is there: not for the idle event while the gate is
\* idle, nor for a lock that nobody holds or is about to take.
NobodyForgotten ==
  \A a \in Task :
     /\ pc[a] = "waiting" => ~ Idle
     /\ pc[a] = "queued" => /\ line[askedOf[a]] # << >>
                            /\ pc[Head(line[askedOf[a]])] \in {"running", "queued"}

\* A background generation ends, or is cut off, even if a turn never does.
BackgroundGoesOn == \A a \in Task : pc[a] # "idle" ~> pc[a] = "idle"
=============================================================================
