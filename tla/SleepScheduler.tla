--------------------------- MODULE SleepScheduler ---------------------------
(***************************************************************************)
(* The sleep-time scheduler (backend/free/memory/scheduler.py) with the    *)
(* parties it must keep apart: chat turns, the Light and Full cycles of    *)
(* the sleep-time worker, the resident Level 1 learning loop, a caller of  *)
(* the manual Full, and the shutdown of the process.                       *)
(*                                                                         *)
(* All of it runs on one asyncio loop: what one task does between two      *)
(* awaits is one step.  A Full is a task (_schedule_full) that waits for   *)
(* the conversation to go idle, looks at everybody else, and either ends,  *)
(* reschedules itself, waits for the generation in flight, or runs.        *)
(*                                                                         *)
(* Time is abstract: a wait may end at any moment, so what only shortens   *)
(* it (_full_wait_seconds, _full_immediate, _full_wake) is left out.       *)
(***************************************************************************)
EXTENDS Naturals, FiniteSets

CONSTANTS Task,        \* slots for _schedule_full tasks
          Turn,        \* chat turns that can be in progress together
          NoTask,      \* the value None of _full_task
          MaxInputs,   \* bound: user inputs in one behaviour
          MaxCalls,    \* bound: calls of run_full_now and Level 1 requests
          TurnsMayFail \* whether a turn can end without a response

ASSUME NoTaskAssumption == NoTask \notin Task
ASSUME BoundsAssumption == /\ MaxInputs \in Nat /\ MaxCalls \in Nat
                           /\ TurnsMayFail \in BOOLEAN

VARIABLES
  \* the chat side
  turn,           \* stage of each chat turn
  inputs,         \* user inputs so far (bounded by MaxInputs)
  quiet,          \* 0: input within active_minutes, 1: not, 2: Level 1 idle
  \* SleepTimeScheduler
  tpc,            \* where each Full task is suspended
  tcancel,        \* Task.cancel() was called on it
  fullTask,       \* _full_task
  requested,      \* _full_requested
  overdue,        \* full_max_defer_minutes elapsed since _last_full_run
  forcedRun,      \* _full_forced_run
  fullRunning,    \* _full_running
  verifyWaiting,  \* _verification_waiting
  summaryWaiting, \* _summary_waiting
  rerequested,    \* _corrections_rerequested
  armPosted,      \* call_soon(_arm_pending_full) is in the loop's queue
  \* SleepTimeWorker
  light,          \* the Light task that has not got the cycle lock yet
  owner,          \* holder of the worker's cycle lock
  wcancel,        \* the worker's _cancelled
  \* LearningScheduler, as the loop sees it
  l1Running,      \* running
  l1Work,         \* what the loop would find: a session or request, or experience
  l1Yield,        \* the yield event
  calls,          \* manual calls and Level 1 requests so far (MaxCalls)
  \* the manual Full
  manual,         \* the caller of run_full_now
  report,         \* what the last call returned
  ranSince,       \* how a Full that ended since that call ended
  phase           \* of the process

chatVars == <<turn, inputs, quiet>>
flagVars == <<verifyWaiting, summaryWaiting, rerequested, armPosted>>
workVars == <<light, owner, wcancel>>
l1Vars == <<l1Running, l1Work, l1Yield>>
manualVars == <<manual, report, ranSince>>
fullVars == <<tpc, tcancel, fullTask, requested, overdue, forcedRun, fullRunning>>
\* what the start of a Full changes, besides the task itself
runVars == <<requested, overdue, forcedRun, fullRunning, owner, wcancel>>
vars == <<chatVars, fullVars, flagVars, workVars, l1Vars, manualVars, calls, phase>>

TurnStates == {"none", "preparing", "starting", "generating", "answered", "detached"}
\* "new": created, its first step not taken.  "idle": _wait_full_idle.
\* "genwait": polling for the end of the generation.  "lock": in run_full,
\* before the cycle lock.  "cycle": running the steps of the Full.
TaskStates == {"free", "new", "idle", "genwait", "lock", "cycle"}
\* "new": its first step not taken.  "behind": queued on the cycle lock after
\* a Full that has been given it, "next": that Full is through.
LightStates == {"none", "new", "behind", "next"}
Owners == {"none", "light", "full", "shutdown"}
Reports == {"none", "completed", "already_running", "deferred", "cancelled", "skipped", "unavailable"}

ChatTypes ==
  /\ turn \in [Turn -> TurnStates] /\ inputs \in 0 .. MaxInputs /\ quiet \in 0 .. 2
  /\ calls \in 0 .. MaxCalls

TaskTypes ==
  /\ tpc \in [Task -> TaskStates] /\ tcancel \in [Task -> BOOLEAN]
  /\ fullTask \in Task \cup {NoTask}

FlagTypes ==
  /\ requested \in BOOLEAN /\ overdue \in BOOLEAN
  /\ forcedRun \in BOOLEAN /\ fullRunning \in BOOLEAN
  /\ verifyWaiting \in BOOLEAN /\ summaryWaiting \in BOOLEAN
  /\ rerequested \in BOOLEAN /\ armPosted \in BOOLEAN

WorkTypes ==
  /\ light \in LightStates /\ owner \in Owners /\ wcancel \in BOOLEAN
  /\ l1Running \in BOOLEAN /\ l1Yield \in BOOLEAN
  /\ l1Work \in {"none", "queued", "experience"}

AnswerTypes ==
  /\ manual \in {"none", "waiting", "joined"} /\ report \in Reports
  /\ ranSince \in {"none", "ended", "failed"}
  /\ phase \in {"up", "stopping", "settled", "timedout"}

TypeOK == ChatTypes /\ TaskTypes /\ FlagTypes /\ WorkTypes /\ AnswerTypes

Init ==
  /\ turn = [u \in Turn |-> "none"] /\ inputs = 0 /\ quiet = 1
  /\ tpc = [t \in Task |-> "free"] /\ tcancel = [t \in Task |-> FALSE]
  /\ fullTask = NoTask
  /\ requested = FALSE /\ overdue = FALSE /\ forcedRun = FALSE /\ fullRunning = FALSE
  /\ verifyWaiting = FALSE /\ summaryWaiting = FALSE /\ rerequested = FALSE /\ armPosted = FALSE
  /\ light = "none" /\ owner = "none" /\ wcancel = FALSE
  /\ l1Running = FALSE /\ l1Work \in {"none", "queued"} /\ l1Yield = FALSE
  /\ calls = 0 /\ manual = "none" /\ report = "none" /\ ranSince = "none"
  /\ phase = "up"

-----------------------------------------------------------------------------
InFlight == \E u \in Turn : turn[u] \in {"generating", "answered"}
UserActive == InFlight \/ quiet = 0
DeferExpired == requested \/ overdue

\* The Full that on_user_input and on_response_sent leave alone.
Exempt == forcedRun \/ requested \/ DeferExpired

Executing(t) == tpc[t] \in {"lock", "cycle"}
Pending(t) == tpc[t] \in {"new", "idle", "genwait"}

\* asyncio.create_task(self._schedule_full()), in an unused slot.
Spawn(n, cancels) ==
  /\ tpc' = [tpc EXCEPT ![n] = "new"]
  /\ tcancel' = [cancels EXCEPT ![n] = FALSE]
  /\ fullTask' = n

\* Task t ends; a done task in _full_task counts as no task.
Ends(t) ==
  /\ tpc' = [tpc EXCEPT ![t] = "free"]
  /\ tcancel' = [tcancel EXCEPT ![t] = FALSE]
  /\ fullTask' = IF fullTask = t THEN NoTask ELSE fullTask

\* _resolve_full_completion: the waiting caller of run_full_now returns.
Resolve(outcome) ==
  /\ \/ manual = "waiting" /\ report' = outcome
     \/ manual = "joined" /\ report' = "already_running"
     \/ manual = "none" /\ UNCHANGED report
  /\ manual' = "none"

-----------------------------------------------------------------------------
(* Chat turns *)

\* Fault: on_user_input cancels the worker whatever it is running.
OnUserInput_CancelsForced(u) ==
  /\ phase = "up" /\ turn[u] = "none" /\ inputs < MaxInputs
  /\ turn' = [turn EXCEPT ![u] = "preparing"]
  /\ inputs' = inputs + 1 /\ quiet' = 0
  /\ wcancel' = TRUE
  /\ light' = "none"
  /\ \/ /\ fullTask # NoTask /\ ~ Exempt
        /\ tcancel' = [tcancel EXCEPT ![fullTask] = TRUE] /\ fullTask' = NoTask
     \/ /\ fullTask = NoTask \/ Exempt
        /\ UNCHANGED <<tcancel, fullTask>>
  /\ l1Yield' = TRUE
  /\ UNCHANGED <<tpc, requested, overdue, forcedRun, fullRunning, flagVars, owner,
                 l1Running, l1Work, manualVars, calls, phase>>

\* on_user_input: cancels the worker and the Full task unless exempt, the
\* Light task always, and asks Level 1 to yield.
OnUserInput(u) ==
  /\ phase = "up" \* requests are refused during shutdown
  /\ turn[u] = "none" /\ inputs < MaxInputs
  /\ turn' = [turn EXCEPT ![u] = "preparing"]
  /\ inputs' = inputs + 1
  /\ quiet' = 0
  /\ wcancel' = (wcancel \/ ~ forcedRun)
  /\ light' = "none"
  /\ \/ /\ fullTask # NoTask /\ ~ Exempt
        /\ tcancel' = [tcancel EXCEPT ![fullTask] = TRUE]
        /\ fullTask' = NoTask
     \/ /\ fullTask = NoTask \/ Exempt
        /\ UNCHANGED <<tcancel, fullTask>>
  /\ l1Yield' = TRUE
  /\ UNCHANGED <<tpc, requested, overdue, forcedRun, fullRunning, flagVars, owner,
                 l1Running, l1Work, manualVars, calls, phase>>

\* on_llm_start: the previous Light task is replaced by a new one.
OnLlmStart(u) ==
  /\ turn[u] = "preparing"
  /\ turn' = [turn EXCEPT ![u] = "starting"]
  /\ light' = IF phase = "up" THEN "new" ELSE light
  /\ UNCHANGED <<inputs, quiet, fullVars, flagVars, owner, wcancel, l1Vars, manualVars, calls, phase>>

\* chat_in_flight() is entered: in_flight_chat_count goes up.
BeginGeneration(u) ==
  /\ turn[u] = "starting"
  /\ turn' = [turn EXCEPT ![u] = "generating"]
  /\ UNCHANGED <<inputs, quiet, fullVars, flagVars, workVars, l1Vars, manualVars, calls, phase>>

\* Fault: on_response_sent spares only the Full that is already running.
RespondWith_SparesRunningOnly(u, correction, n) ==
  LET req == requested \/ (correction /\ phase = "up")
      keep == fullTask # NoTask /\ forcedRun
  IN /\ turn[u] \in {"generating", "detached"}
     /\ turn' = [turn EXCEPT ![u] = IF @ = "generating" THEN "answered" ELSE "none"]
     /\ requested' = req
     /\ \/ (phase # "up" \/ keep) /\ UNCHANGED <<tpc, tcancel, fullTask>>
        \/ /\ phase = "up" /\ ~ keep /\ tpc[n] = "free"
           /\ Spawn(n, IF fullTask = NoTask THEN tcancel ELSE [tcancel EXCEPT ![fullTask] = TRUE])
     /\ UNCHANGED <<inputs, quiet, overdue, forcedRun, fullRunning, flagVars, workVars,
                    l1Vars, manualVars, calls, phase>>

\* _schedule_sleep_time: request_full_soon if the turn corrected a value,
\* then on_response_sent, which replaces the Full task unless exempt.
RespondWith(u, correction, n) ==
  LET req == requested \/ (correction /\ phase = "up")
      keep == fullTask # NoTask /\ (forcedRun \/ req \/ overdue)
  IN /\ turn[u] \in {"generating", "detached"}
     /\ turn' = [turn EXCEPT ![u] = IF @ = "generating" THEN "answered" ELSE "none"]
     /\ requested' = req
     /\ \/ /\ phase # "up" \/ keep
           /\ UNCHANGED <<tpc, tcancel, fullTask>>
        \/ /\ phase = "up" /\ ~ keep
           /\ tpc[n] = "free"
           /\ Spawn(n, IF fullTask = NoTask THEN tcancel ELSE [tcancel EXCEPT ![fullTask] = TRUE])
     /\ l1Work' \in {l1Work, IF l1Work = "none" THEN "experience" ELSE l1Work}
     /\ UNCHANGED <<inputs, quiet, overdue, forcedRun, fullRunning, flagVars, workVars,
                    l1Running, l1Yield, manualVars, calls, phase>>

OnResponseSent(u) == \E correction \in BOOLEAN, n \in Task : RespondWith(u, correction, n)

\* chat_in_flight() is left.  A stream that is cut off leaves it first and is
\* recorded later by its detached task, or never.
EndGeneration(u) ==
  /\ \/ /\ turn[u] = "answered" /\ turn' = [turn EXCEPT ![u] = "none"]
     \/ /\ turn[u] = "generating" /\ turn' = [turn EXCEPT ![u] = "detached"]
     \/ /\ TurnsMayFail
        /\ turn[u] \in {"preparing", "starting", "generating", "detached"}
        /\ turn' = [turn EXCEPT ![u] = "none"]
  /\ UNCHANGED <<inputs, quiet, fullVars, flagVars, workVars, l1Vars, manualVars, calls, phase>>

\* The clock: active_minutes, then level1_idle_minutes, without input.
QuietPasses ==
  /\ quiet < 2
  /\ quiet' = quiet + 1
  /\ UNCHANGED <<turn, inputs, fullVars, flagVars, workVars, l1Vars, manualVars, calls, phase>>

\* The clock: full_max_defer_minutes since the last Full.
BecomesOverdue ==
  /\ ~ overdue
  /\ overdue' = TRUE
  /\ UNCHANGED <<chatVars, tpc, tcancel, fullTask, requested, forcedRun, fullRunning,
                 flagVars, workVars, l1Vars, manualVars, calls, phase>>

-----------------------------------------------------------------------------
(* Trigger A: the Light cycle *)

\* run_light: skipped if a cycle holds the lock.  Between the release of the
\* lock and the resumption of a Full that waits for it the lock looks free,
\* and the Light queues behind that Full.
LightBegins ==
  /\ light = "new"
  /\ \/ /\ owner # "none"
        /\ light' = "none"
        /\ UNCHANGED <<owner, wcancel>>
     \/ /\ owner = "none" /\ \A t \in Task : tpc[t] # "lock"
        /\ light' = "none" /\ owner' = "light" /\ wcancel' = FALSE
     \/ /\ owner = "none" /\ \E t \in Task : tpc[t] = "lock"
        /\ light' = "behind"
        /\ UNCHANGED <<owner, wcancel>>
  /\ UNCHANGED <<chatVars, fullVars, flagVars, l1Vars, manualVars, calls, phase>>

\* A queued Light gets the lock.
LightProceeds ==
  /\ light = "next" /\ owner = "none"
  /\ light' = "none" /\ owner' = "light" /\ wcancel' = FALSE
  /\ UNCHANGED <<chatVars, fullVars, flagVars, l1Vars, manualVars, calls, phase>>

\* The Light ends, or was cancelled and its thread has returned.
LightEnds ==
  /\ owner = "light"
  /\ owner' = "none"
  /\ UNCHANGED <<chatVars, fullVars, flagVars, light, wcancel, l1Vars, manualVars, calls, phase>>

-----------------------------------------------------------------------------
(* Trigger B: the Full cycle *)

\* First step of the task: it enters _wait_full_idle.
StartWait(t) ==
  /\ tpc[t] = "new" /\ ~ tcancel[t]
  /\ tpc' = [tpc EXCEPT ![t] = "idle"]
  /\ UNCHANGED <<chatVars, tcancel, fullTask, requested, overdue, forcedRun, fullRunning,
                 flagVars, workVars, l1Vars, manualVars, calls, phase>>

\* Fault: a skipped task tells the manual caller that the Full completed.
Skip_ReportsCompleted(t) ==
  Ends(t) /\ Resolve("completed") /\ UNCHANGED runVars

\* Fault: a skipped task ends without answering the manual caller.
Skip_Silent(t) ==
  Ends(t) /\ UNCHANGED <<manual, report, runVars>>

\* The task ends without running a Full.
Skip(t) ==
  /\ Ends(t)
  /\ Resolve("skipped")
  /\ UNCHANGED runVars

\* The task ends and has created its successor (which takes over its slot).
Reschedule(t) ==
  /\ Spawn(t, tcancel)
  /\ UNCHANGED <<runVars, manual, report>>

\* run_full takes the cycle lock and forgets an earlier cancellation.
TakeLock(t) ==
  /\ tpc' = [tpc EXCEPT ![t] = "cycle"]
  /\ owner' = "full"
  /\ wcancel' = FALSE

\* The lock is free and nobody is queued on it: no await in run_full.
LockAvailable == owner = "none" /\ light # "next"

\* The execution phase begins.  Whether this run was forced is recorded
\* before the state that says so is cleared.
StartFull(t) ==
  /\ \/ LockAvailable /\ TakeLock(t)
     \/ /\ ~ LockAvailable
        /\ tpc' = [tpc EXCEPT ![t] = "lock"]
        /\ UNCHANGED <<owner, wcancel>>
  /\ fullRunning' = TRUE
  /\ forcedRun' = DeferExpired
  /\ requested' = FALSE
  /\ overdue' = FALSE
  /\ UNCHANGED <<tcancel, fullTask, manual, report>>

\* From the end of the waiting for a generation to the start, without an await.
\* (LiveTaskIsTracked makes the second look at fullRunning redundant.)
Decide(t) ==
  LET spared == UserActive /\ ~ DeferExpired
  IN \/ spared /\ ~ verifyWaiting /\ Skip(t)
     \/ (IF spared THEN verifyWaiting ELSE fullRunning) /\ Reschedule(t)
     \/ ~ spared /\ ~ fullRunning /\ StartFull(t)

\* Fault: the task does not look at Level 1 after its idle wait.
IdleWaitOver_IgnoresLevel1(t) ==
  /\ tpc[t] = "idle" /\ ~ tcancel[t] /\ phase = "up"
  /\ \/ fullRunning /\ Reschedule(t)
     \/ ~ fullRunning /\ ~ InFlight /\ Decide(t)
  /\ UNCHANGED <<chatVars, flagVars, light, l1Vars, ranSince, calls, phase>>

\* Fault: a task that finds the slot occupied ends instead of rescheduling.
IdleWaitOver_DropsOut(t) ==
  /\ tpc[t] = "idle" /\ ~ tcancel[t] /\ phase = "up"
  /\ \/ (fullRunning \/ l1Running) /\ Skip(t)
     \/ ~ (fullRunning \/ l1Running) /\ ~ InFlight /\ Decide(t)
  /\ UNCHANGED <<chatVars, flagVars, light, l1Vars, ranSince, calls, phase>>

\* The idle wait is over: no worker any more, a Full or Level 1 running, a
\* generation in flight, and the user's activity, in this order.
IdleWaitOver(t) ==
  LET occupied == fullRunning \/ l1Running
  IN /\ tpc[t] = "idle" /\ ~ tcancel[t]
     /\ \/ /\ phase # "up" \/ (~ occupied /\ InFlight /\ ~ DeferExpired)
           /\ Skip(t)
        \/ /\ phase = "up" /\ occupied
           /\ Reschedule(t)
        \/ /\ phase = "up" /\ ~ occupied /\ InFlight /\ DeferExpired
           /\ tpc' = [tpc EXCEPT ![t] = "genwait"]
           /\ UNCHANGED <<tcancel, fullTask, runVars, manual, report>>
        \/ /\ phase = "up" /\ ~ occupied /\ ~ InFlight
           /\ Decide(t)
     /\ UNCHANGED <<chatVars, flagVars, light, l1Vars, ranSince, calls, phase>>

\* A poll finds the generation finished.
GenerationOver(t) ==
  /\ tpc[t] = "genwait" /\ ~ tcancel[t] /\ ~ InFlight
  /\ Decide(t)
  /\ UNCHANGED <<chatVars, flagVars, light, l1Vars, ranSince, calls, phase>>

\* _FULL_INFLIGHT_WAIT_SEC elapsed and it is still going.
GiveUp(t) ==
  /\ tpc[t] = "genwait" /\ ~ tcancel[t] /\ InFlight
  /\ Skip(t)
  /\ UNCHANGED <<chatVars, flagVars, light, l1Vars, ranSince, calls, phase>>

\* A Light that had queued behind a Full is the next one.
LightMovesUp == light' = IF light = "behind" THEN "next" ELSE light

\* A Full that waited for the cycle lock gets it.
CycleBegins(t) ==
  /\ tpc[t] = "lock" /\ ~ tcancel[t] /\ LockAvailable
  /\ TakeLock(t)
  /\ LightMovesUp
  /\ UNCHANGED <<chatVars, tcancel, fullTask, requested, overdue, forcedRun, fullRunning,
                 flagVars, l1Vars, manualVars, calls, phase>>

\* _rerequest_for_unverified_corrections and _rearm_for_paused_summary: what
\* the result says of the corrections ("nokeys": nothing, a run cut short),
\* and whether summaries are left.
AfterRun(corrections, left) ==
  LET again == corrections \in {"unverified", "deferred"}
      up == phase = "up"
  IN /\ \/ corrections = "nokeys" /\ UNCHANGED <<verifyWaiting, rerequested>>
        \/ corrections = "verified" /\ verifyWaiting' = FALSE /\ rerequested' = FALSE
        \/ again /\ verifyWaiting' = TRUE /\ rerequested' = TRUE
     /\ requested' = (requested \/ (again /\ ~ rerequested /\ up))
     /\ summaryWaiting' = (left /\ up)
     /\ armPosted' = \/ armPosted
                     \/ again /\ (~ rerequested \/ corrections = "deferred")
                     \/ left /\ up

\* The finally block of a task that had entered its execution phase.
Leave(t, outcome) ==
  /\ fullRunning' = FALSE
  /\ forcedRun' = FALSE
  /\ Resolve(outcome)
  /\ Ends(t)

\* The Full ends: run to the end, or cut short by the worker's flag.
FullEnds(t) ==
  /\ tpc[t] = "cycle" /\ ~ tcancel[t]
  /\ \E corrections \in {"nokeys", "verified", "unverified", "deferred"}, left \in BOOLEAN :
        AfterRun(corrections, left)
  /\ Leave(t, "completed")
  /\ owner' = "none"
  /\ ranSince' = "ended"
  /\ UNCHANGED <<chatVars, overdue, light, wcancel, l1Vars, calls, phase>>

\* The Full raised.
FullFails(t) ==
  /\ tpc[t] = "cycle" /\ ~ tcancel[t]
  /\ Leave(t, "completed")
  /\ owner' = "none"
  /\ ranSince' = IF ranSince = "none" THEN "failed" ELSE ranSince
  /\ UNCHANGED <<chatVars, requested, overdue, flagVars, light, wcancel, l1Vars, calls, phase>>

\* Fault: the finally block lowers the flags for any task, run or not.
TaskCancelled_LowersFlags(t) ==
  /\ tcancel[t] /\ tpc[t] # "free" /\ Leave(t, "cancelled")
  /\ owner' = IF tpc[t] = "cycle" THEN "none" ELSE owner
  /\ UNCHANGED <<chatVars, requested, overdue, flagVars, light, wcancel, l1Vars,
                 ranSince, calls, phase>>

\* A cancelled task gets its CancelledError: before its first step nothing of
\* it runs, in the execution phase it gives up the lock once its thread is back.
TaskCancelled(t) ==
  /\ tcancel[t]
  /\ \/ /\ tpc[t] = "new" /\ Ends(t)
        /\ UNCHANGED <<forcedRun, fullRunning, workVars, manual, report>>
     \/ /\ tpc[t] \in {"idle", "genwait"} /\ Ends(t) /\ Resolve("cancelled")
        /\ UNCHANGED <<forcedRun, fullRunning, workVars>>
     \/ /\ tpc[t] = "lock" /\ Leave(t, "cancelled") /\ LightMovesUp
        /\ UNCHANGED <<owner, wcancel>>
     \/ /\ tpc[t] = "cycle" /\ Leave(t, "cancelled") /\ owner' = "none"
        /\ UNCHANGED <<light, wcancel>>
  /\ UNCHANGED <<chatVars, requested, overdue, flagVars, l1Vars, ranSince, calls, phase>>

\* The posted _arm_pending_full runs.
ArmPendingFull ==
  /\ armPosted
  /\ armPosted' = FALSE
  /\ LET wanted == phase = "up" /\ (requested \/ verifyWaiting \/ summaryWaiting) /\ fullTask = NoTask
     IN \/ /\ wanted
           /\ \E n \in Task : tpc[n] = "free" /\ Spawn(n, tcancel)
        \/ /\ ~ wanted
           /\ UNCHANGED <<tpc, tcancel, fullTask>>
  /\ UNCHANGED <<chatVars, requested, overdue, forcedRun, fullRunning, verifyWaiting,
                 summaryWaiting, rerequested, workVars, l1Vars, manualVars, calls, phase>>

-----------------------------------------------------------------------------
(* The manual Full *)

\* run_full_now: join a running Full, or request one and see to its task.
RunFullNow ==
  /\ manual = "none" /\ calls < MaxCalls
  /\ calls' = calls + 1
  /\ ranSince' = "none"
  /\ \/ /\ phase # "up"
        /\ report' = "unavailable"
        /\ UNCHANGED <<manual, tpc, tcancel, fullTask, requested>>
     \/ /\ phase = "up" /\ fullRunning
        /\ manual' = "joined" /\ report' = "none"
        /\ UNCHANGED <<tpc, tcancel, fullTask, requested>>
     \/ /\ phase = "up" /\ ~ fullRunning
        /\ manual' = "waiting" /\ report' = "none"
        /\ requested' = TRUE
        /\ \/ /\ fullTask = NoTask
              /\ \E n \in Task : tpc[n] = "free" /\ Spawn(n, tcancel)
           \/ /\ fullTask # NoTask
              /\ UNCHANGED <<tpc, tcancel, fullTask>>
  /\ UNCHANGED <<chatVars, overdue, forcedRun, fullRunning, flagVars, workVars, l1Vars, phase>>

\* _MANUAL_FULL_WAIT_SEC elapsed: the caller leaves, the request stays.
ManualTimeout ==
  /\ manual # "none"
  /\ manual' = "none"
  /\ report' = "deferred"
  /\ UNCHANGED <<chatVars, fullVars, flagVars, workVars, l1Vars, ranSince, calls, phase>>

-----------------------------------------------------------------------------
(* Trigger C: the Level 1 loop *)

\* A tick of _schedule_level1_loop that starts or resumes a session.
Level1Starts ==
  /\ ~ l1Running /\ ~ fullRunning /\ ~ UserActive
  /\ l1Work = "queued" \/ (l1Work = "experience" /\ quiet = 2)
  /\ l1Running' = TRUE
  /\ l1Work' = "none"
  /\ l1Yield' = FALSE
  /\ UNCHANGED <<chatVars, fullVars, flagVars, workVars, manualVars, calls, phase>>

\* run_or_resume_level1 returns: done, or yielded with its session saved.
Level1Ends ==
  /\ l1Running
  /\ l1Running' = FALSE
  /\ l1Work' \in {l1Work, IF l1Yield THEN "queued" ELSE l1Work}
  /\ UNCHANGED <<chatVars, fullVars, flagVars, workVars, l1Yield, manualVars, calls, phase>>

\* A priority request is pushed (manual trigger, change of locale).
PushRequest ==
  /\ calls < MaxCalls
  /\ calls' = calls + 1
  /\ l1Work' = "queued"
  /\ UNCHANGED <<chatVars, fullVars, flagVars, workVars, l1Running, l1Yield, manualVars, phase>>

-----------------------------------------------------------------------------
(* Shutdown *)

\* shutdown(): the worker is detached, the tracked tasks are cancelled.
Shutdown ==
  /\ phase = "up"
  /\ phase' = "stopping"
  /\ wcancel' = TRUE
  /\ light' = "none"
  /\ tcancel' = IF fullTask = NoTask THEN tcancel ELSE [tcancel EXCEPT ![fullTask] = TRUE]
  /\ UNCHANGED <<chatVars, tpc, fullTask, requested, overdue, forcedRun, fullRunning, flagVars,
                 owner, l1Vars, manualVars, calls>>

\* Fault: shutdown does not wait for the cycle lock.
Settled_WithoutLock ==
  /\ phase = "stopping" /\ fullTask = NoTask
  /\ phase' = "settled"
  /\ UNCHANGED <<chatVars, fullVars, flagVars, workVars, l1Vars, manualVars, calls>>

\* The tracked tasks are done and quiesce() has the cycle lock, for good.
Settled ==
  /\ phase = "stopping" /\ fullTask = NoTask /\ owner = "none"
  /\ phase' = "settled"
  /\ owner' = "shutdown"
  /\ UNCHANGED <<chatVars, fullVars, flagVars, light, wcancel, l1Vars, manualVars, calls>>

\* The timeout of shutdown(): the stores are closed anyway.
ShutdownTimeout ==
  /\ phase = "stopping"
  /\ phase' = "timedout"
  /\ UNCHANGED <<chatVars, fullVars, flagVars, workVars, l1Vars, manualVars, calls>>

-----------------------------------------------------------------------------
TaskStep(t) == \/ StartWait(t) \/ IdleWaitOver(t) \/ GenerationOver(t) \/ GiveUp(t)
               \/ CycleBegins(t) \/ FullEnds(t) \/ FullFails(t) \/ TaskCancelled(t)

TurnStep(u) == \/ OnUserInput(u) \/ OnLlmStart(u) \/ BeginGeneration(u)
               \/ OnResponseSent(u) \/ EndGeneration(u)

Next ==
  \/ \E u \in Turn : TurnStep(u)
  \/ \E t \in Task : TaskStep(t)
  \/ QuietPasses \/ BecomesOverdue
  \/ LightBegins \/ LightProceeds \/ LightEnds \/ ArmPendingFull
  \/ RunFullNow \/ ManualTimeout
  \/ Level1Starts \/ Level1Ends \/ PushRequest
  \/ Shutdown \/ Settled \/ ShutdownTimeout

Spec == Init /\ [][Next]_vars

\* Ready tasks run, timers fire, cycles and sessions end, and turns that have
\* begun go on to their response.  Users, manual calls, the deferral limit and
\* shutdown owe nothing.
Fairness ==
  /\ \A t \in Task : /\ WF_vars(StartWait(t)) /\ WF_vars(IdleWaitOver(t))
                     /\ WF_vars(GenerationOver(t) \/ GiveUp(t))
                     /\ WF_vars(CycleBegins(t)) /\ WF_vars(FullEnds(t) \/ FullFails(t))
                     /\ WF_vars(TaskCancelled(t))
  /\ \A u \in Turn : /\ WF_vars(OnLlmStart(u)) /\ WF_vars(BeginGeneration(u))
                     /\ WF_vars(turn[u] \in {"generating", "detached"} /\ OnResponseSent(u))
                     /\ WF_vars(turn[u] = "answered" /\ EndGeneration(u))
  /\ WF_vars(QuietPasses) /\ WF_vars(LightBegins) /\ WF_vars(LightProceeds) /\ WF_vars(LightEnds)
  /\ WF_vars(ArmPendingFull) /\ WF_vars(Level1Ends)

FairSpec == Spec /\ Fairness

-----------------------------------------------------------------------------
(* Properties *)

\* Two Fulls never run together, not even one that waits for the lock while a
\* cancelled one is still being wound up, and the flag the gates read is up
\* exactly while one runs: a task that skips must not lower it.
FullExclusive ==
  /\ \A s, t \in Task : Executing(s) /\ Executing(t) => s = t
  /\ fullRunning <=> \E t \in Task : Executing(t)

\* Whatever order input, responses, rescheduling, rearming and manual calls
\* come in, the only Full task that is alive and not cancelled is the one in
\* _full_task.  An untracked one would be a second timer, and would escape
\* the cancellations of on_user_input and of shutdown.
LiveTaskIsTracked ==
  \A t \in Task : tpc[t] # "free" /\ ~ tcancel[t] => fullTask = t

\* A forced Full, once started, is neither cancelled nor told to stop by the
\* conversation going on around it (scheduler.py 466-520, 675-722).
ForcedFullUndisturbed ==
  phase = "up" /\ forcedRun =>
    \A t \in Task : Executing(t) => ~ tcancel[t] /\ ~ (tpc[t] = "cycle" /\ wcancel)

\* A Full that is requested or overdue is not cancelled while it waits: the
\* debounce of input and responses spares it.
WaitingFullSpared ==
  [][ (requested \/ overdue \/ forcedRun) /\ phase' = "up"
        => \A t \in Task : tcancel'[t] => tcancel[t] ]_vars

\* A settled shutdown is final: no Full runs, and what is left of the tasks
\* is cancelled and will not start one.
ShutdownIsFinal ==
  phase = "settled" =>
    \A t \in Task : tpc[t] # "cycle" /\ (tpc[t] # "free" => tcancel[t])

\* Full and Level 1 share the background slot and never run together
\* (scheduler.py, the Level 1 gate of _schedule_full and gate (0) of the loop).
NoFullBesideLevel1 == ~ (fullRunning /\ l1Running)

\* The one way they do come together: a Full that had waited for a generation
\* starts without looking at Level 1 again.
OverlapOnlyAfterGenerationWait ==
  [][ NoFullBesideLevel1 /\ ~ NoFullBesideLevel1'
        => \E t \in Task : tpc[t] = "genwait" /\ Executing(t)' ]_vars

\* A manual call is told "completed" only if a Full has run since it was made.
CompletedMeansExecuted == report = "completed" => ranSince # "none"

\* A request that has a task waiting for it is served, or its task gives up in
\* front of a generation (whose response will arm the next one).
ArmedRequestServed ==
  (requested /\ fullTask # NoTask /\ Pending(fullTask))
    ~> (~ requested \/ (fullTask = NoTask /\ InFlight) \/ phase # "up")

\* A manual call is answered without its timeout having to fire: some task
\* always carries its answer.
ManualAnswered == (manual # "none") ~> (manual = "none" \/ phase # "up")
=============================================================================
