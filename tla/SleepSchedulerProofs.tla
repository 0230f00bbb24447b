------------------------ MODULE SleepSchedulerProofs ------------------------
(***************************************************************************)
(* The safety properties of SleepScheduler for any number of tasks, turns, *)
(* inputs and manual calls.                                                *)
(***************************************************************************)
EXTENDS SleepScheduler, TLAPS

\* The task in _full_task is alive.
TrackedIsAlive == fullTask # NoTask => tpc[fullTask] # "free"

\* ... and, before shutdown, not cancelled: whoever cancels it takes it out.
TrackedNotCancelled == phase = "up" /\ fullTask # NoTask => ~ tcancel[fullTask]

\* The mark of a forced Full is lowered with the flag of the running one.
ForcedRuns == forcedRun => fullRunning

\* A task is in its cycle exactly while the Full holds the cycle lock.
LockHeld == owner = "full" <=> \E t \in Task : tpc[t] = "cycle"

\* Shutdown leaves no task alive that is not cancelled.
StoppingCancelsAll == phase # "up" => \A t \in Task : tpc[t] # "free" => tcancel[t]

\* A settled shutdown keeps the cycle lock.
SettledKeepsLock == phase = "settled" => owner = "shutdown"

TaskInv == FullExclusive /\ LiveTaskIsTracked /\ TrackedIsAlive /\ TrackedNotCancelled

RunInv == ForcedRuns /\ ForcedFullUndisturbed /\ LockHeld /\ StoppingCancelsAll /\ SettledKeepsLock

IInv == TypeOK /\ TaskInv /\ RunInv

-----------------------------------------------------------------------------
(* Type correctness *)

LEMMA TypeInit == Init => TypeOK
<1> SUFFICES ASSUME Init
             PROVE  TypeOK
  OBVIOUS
<1>1. ChatTypes
  BY BoundsAssumption DEF Init, ChatTypes, TurnStates
<1>2. TaskTypes /\ FlagTypes
  BY DEF Init, TaskTypes, FlagTypes, TaskStates
<1>3. WorkTypes
  BY DEF Init, WorkTypes, LightStates, Owners
<1>4. AnswerTypes
  BY DEF Init, AnswerTypes, Reports
<1> QED BY <1>1, <1>2, <1>3, <1>4 DEF TypeOK

\* What Decide leads to is well typed.
LEMMA DecideTypes ==
  ASSUME TypeOK, NEW t \in Task, Decide(t)
  PROVE  /\ tpc' \in [Task -> TaskStates] /\ tcancel' \in [Task -> BOOLEAN]
         /\ fullTask' \in Task \cup {NoTask}
         /\ requested' \in BOOLEAN /\ overdue' \in BOOLEAN
         /\ forcedRun' \in BOOLEAN /\ fullRunning' \in BOOLEAN
         /\ owner' \in Owners /\ wcancel' \in BOOLEAN
         /\ manual' \in {"none", "waiting", "joined"} /\ report' \in Reports
<1>1. CASE Skip(t)
  BY <1>1 DEF TypeOK, TaskTypes, FlagTypes, WorkTypes, AnswerTypes, Skip, Ends, Resolve, runVars, TaskStates, Reports
<1>2. CASE Reschedule(t)
  BY <1>2 DEF TypeOK, TaskTypes, FlagTypes, WorkTypes, AnswerTypes, Reschedule, Spawn, runVars, TaskStates
<1>3. CASE StartFull(t)
  BY <1>3 DEF TypeOK, TaskTypes, FlagTypes, WorkTypes, AnswerTypes, StartFull, TakeLock, DeferExpired, TaskStates, Owners
<1> QED BY <1>1, <1>2, <1>3 DEF Decide

LEMMA TypeStep == TypeOK /\ [Next]_vars => TypeOK'
<1> SUFFICES ASSUME TypeOK, [Next]_vars
             PROVE  TypeOK'
  OBVIOUS
<1> USE DEF TypeOK, ChatTypes, TaskTypes, FlagTypes, WorkTypes, AnswerTypes,
            chatVars, fullVars, flagVars, workVars, l1Vars, manualVars
<1>1. ASSUME NEW u \in Turn, OnUserInput(u)
      PROVE  TypeOK'
  <2>1. ChatTypes'
    BY <1>1, BoundsAssumption DEF OnUserInput, LightStates, TurnStates
  <2>2. TaskTypes'
    BY <1>1 DEF OnUserInput, LightStates, TurnStates
  <2>3. FlagTypes'
    BY <1>1 DEF OnUserInput, LightStates, TurnStates
  <2>4. WorkTypes'
    BY <1>1 DEF OnUserInput, LightStates, TurnStates
  <2>5. AnswerTypes'
    BY <1>1 DEF OnUserInput, LightStates, TurnStates
  <2> QED BY <2>1, <2>2, <2>3, <2>4, <2>5
<1>2. ASSUME NEW u \in Turn, OnLlmStart(u)
      PROVE  TypeOK'
  <2>1. ChatTypes'
    BY <1>2 DEF OnLlmStart, TurnStates, LightStates
  <2>2. TaskTypes'
    BY <1>2 DEF OnLlmStart, TurnStates, LightStates
  <2>3. FlagTypes'
    BY <1>2 DEF OnLlmStart, TurnStates, LightStates
  <2>4. WorkTypes'
    BY <1>2 DEF OnLlmStart, TurnStates, LightStates
  <2>5. AnswerTypes'
    BY <1>2 DEF OnLlmStart, TurnStates, LightStates
  <2> QED BY <2>1, <2>2, <2>3, <2>4, <2>5
<1>3. ASSUME NEW u \in Turn, BeginGeneration(u)
      PROVE  TypeOK'
  <2>1. ChatTypes'
    BY <1>3 DEF BeginGeneration, TurnStates
  <2>2. TaskTypes'
    BY <1>3 DEF BeginGeneration, TurnStates
  <2>3. FlagTypes'
    BY <1>3 DEF BeginGeneration, TurnStates
  <2>4. WorkTypes'
    BY <1>3 DEF BeginGeneration, TurnStates
  <2>5. AnswerTypes'
    BY <1>3 DEF BeginGeneration, TurnStates
  <2> QED BY <2>1, <2>2, <2>3, <2>4, <2>5
<1>4. ASSUME NEW u \in Turn, OnResponseSent(u)
      PROVE  TypeOK'
  <2>1. ChatTypes'
    BY <1>4 DEF OnResponseSent, RespondWith, Spawn, TurnStates, TaskStates
  <2>2. TaskTypes'
    BY <1>4 DEF OnResponseSent, RespondWith, Spawn, TurnStates, TaskStates
  <2>3. FlagTypes'
    BY <1>4 DEF OnResponseSent, RespondWith, Spawn, TurnStates, TaskStates
  <2>4. WorkTypes'
    BY <1>4 DEF OnResponseSent, RespondWith, Spawn, TurnStates, TaskStates
  <2>5. AnswerTypes'
    BY <1>4 DEF OnResponseSent, RespondWith, Spawn, TurnStates, TaskStates
  <2> QED BY <2>1, <2>2, <2>3, <2>4, <2>5
<1>5. ASSUME NEW u \in Turn, EndGeneration(u)
      PROVE  TypeOK'
  <2>1. ChatTypes'
    BY <1>5 DEF EndGeneration, TurnStates
  <2>2. TaskTypes'
    BY <1>5 DEF EndGeneration, TurnStates
  <2>3. FlagTypes'
    BY <1>5 DEF EndGeneration, TurnStates
  <2>4. WorkTypes'
    BY <1>5 DEF EndGeneration, TurnStates
  <2>5. AnswerTypes'
    BY <1>5 DEF EndGeneration, TurnStates
  <2> QED BY <2>1, <2>2, <2>3, <2>4, <2>5
<1>6. ASSUME NEW t \in Task, StartWait(t)
      PROVE  TypeOK'
  <2>1. ChatTypes'
    BY <1>6 DEF StartWait, TaskStates
  <2>2. TaskTypes'
    BY <1>6 DEF StartWait, TaskStates
  <2>3. FlagTypes'
    BY <1>6 DEF StartWait, TaskStates
  <2>4. WorkTypes'
    BY <1>6 DEF StartWait, TaskStates
  <2>5. AnswerTypes'
    BY <1>6 DEF StartWait, TaskStates
  <2> QED BY <2>1, <2>2, <2>3, <2>4, <2>5
<1>7. ASSUME NEW t \in Task, IdleWaitOver(t)
      PROVE  TypeOK'
  <2>1. CASE Skip(t)
    BY <1>7, <2>1 DEF IdleWaitOver, Skip, Ends, Resolve, runVars, TaskStates, Reports
  <2>2. CASE Reschedule(t)
    BY <1>7, <2>2 DEF IdleWaitOver, Reschedule, Spawn, runVars, TaskStates
  <2>3. CASE /\ tpc' = [tpc EXCEPT ![t] = "genwait"]
             /\ UNCHANGED <<tcancel, fullTask, runVars, manual, report>>
    BY <1>7, <2>3 DEF IdleWaitOver, runVars, TaskStates
  <2>4. CASE Decide(t)
    BY <1>7, <2>4, DecideTypes DEF IdleWaitOver
  <2> QED BY <1>7, <2>1, <2>2, <2>3, <2>4 DEF IdleWaitOver
<1>8. ASSUME NEW t \in Task, GenerationOver(t)
      PROVE  TypeOK'
  <2>1. ChatTypes'
    BY <1>8, DecideTypes DEF GenerationOver
  <2>2. TaskTypes'
    BY <1>8, DecideTypes DEF GenerationOver
  <2>3. FlagTypes'
    BY <1>8, DecideTypes DEF GenerationOver
  <2>4. WorkTypes'
    BY <1>8, DecideTypes DEF GenerationOver
  <2>5. AnswerTypes'
    BY <1>8, DecideTypes DEF GenerationOver
  <2> QED BY <2>1, <2>2, <2>3, <2>4, <2>5
<1>9. ASSUME NEW t \in Task, GiveUp(t)
      PROVE  TypeOK'
  <2>1. ChatTypes'
    BY <1>9 DEF GiveUp, Skip, Ends, Resolve, runVars, TaskStates, Reports
  <2>2. TaskTypes'
    BY <1>9 DEF GiveUp, Skip, Ends, Resolve, runVars, TaskStates, Reports
  <2>3. FlagTypes'
    BY <1>9 DEF GiveUp, Skip, Ends, Resolve, runVars, TaskStates, Reports
  <2>4. WorkTypes'
    BY <1>9 DEF GiveUp, Skip, Ends, Resolve, runVars, TaskStates, Reports
  <2>5. AnswerTypes'
    BY <1>9 DEF GiveUp, Skip, Ends, Resolve, runVars, TaskStates, Reports
  <2> QED BY <2>1, <2>2, <2>3, <2>4, <2>5
<1>10. ASSUME NEW t \in Task, CycleBegins(t)
       PROVE  TypeOK'
  <2>1. ChatTypes'
    BY <1>10 DEF CycleBegins, TakeLock, LightMovesUp, TaskStates, LightStates, Owners
  <2>2. TaskTypes'
    BY <1>10 DEF CycleBegins, TakeLock, LightMovesUp, TaskStates, LightStates, Owners
  <2>3. FlagTypes'
    BY <1>10 DEF CycleBegins, TakeLock, LightMovesUp, TaskStates, LightStates, Owners
  <2>4. WorkTypes'
    BY <1>10 DEF CycleBegins, TakeLock, LightMovesUp, TaskStates, LightStates, Owners
  <2>5. AnswerTypes'
    BY <1>10 DEF CycleBegins, TakeLock, LightMovesUp, TaskStates, LightStates, Owners
  <2> QED BY <2>1, <2>2, <2>3, <2>4, <2>5
<1>11. ASSUME NEW t \in Task, FullEnds(t)
       PROVE  TypeOK'
  <2>1. ChatTypes'
    BY <1>11 DEF FullEnds, AfterRun, Leave, Ends, Resolve, TaskStates, Owners, Reports
  <2>2. TaskTypes'
    BY <1>11 DEF FullEnds, AfterRun, Leave, Ends, Resolve, TaskStates, Owners, Reports
  <2>3. FlagTypes'
    <3>1. PICK corrections \in {"nokeys", "verified", "unverified", "deferred"}, left \in BOOLEAN :
             AfterRun(corrections, left)
      BY <1>11 DEF FullEnds
    <3>2. forcedRun' \in BOOLEAN /\ fullRunning' \in BOOLEAN /\ overdue' \in BOOLEAN
      BY <1>11 DEF FullEnds, Leave
    <3>3. verifyWaiting' \in BOOLEAN /\ rerequested' \in BOOLEAN
      BY <3>1 DEF AfterRun
    <3>4. requested' \in BOOLEAN /\ summaryWaiting' \in BOOLEAN
      BY <3>1 DEF AfterRun
    <3>5. armPosted' \in BOOLEAN
      BY <3>1 DEF AfterRun
    <3> QED BY <3>2, <3>3, <3>4, <3>5
  <2>4. WorkTypes'
    BY <1>11 DEF FullEnds, AfterRun, Leave, Ends, Resolve, TaskStates, Owners, Reports
  <2>5. AnswerTypes'
    BY <1>11 DEF FullEnds, AfterRun, Leave, Ends, Resolve, TaskStates, Owners, Reports
  <2> QED BY <2>1, <2>2, <2>3, <2>4, <2>5
<1>12. ASSUME NEW t \in Task, FullFails(t)
       PROVE  TypeOK'
  <2>1. ChatTypes'
    BY <1>12 DEF FullFails, Leave, Ends, Resolve, TaskStates, Owners, Reports
  <2>2. TaskTypes'
    BY <1>12 DEF FullFails, Leave, Ends, Resolve, TaskStates, Owners, Reports
  <2>3. FlagTypes'
    BY <1>12 DEF FullFails, Leave, Ends, Resolve, TaskStates, Owners, Reports
  <2>4. WorkTypes'
    BY <1>12 DEF FullFails, Leave, Ends, Resolve, TaskStates, Owners, Reports
  <2>5. AnswerTypes'
    BY <1>12 DEF FullFails, Leave, Ends, Resolve, TaskStates, Owners, Reports
  <2> QED BY <2>1, <2>2, <2>3, <2>4, <2>5
<1>13. ASSUME NEW t \in Task, TaskCancelled(t)
       PROVE  TypeOK'
  <2>1. ChatTypes'
    BY <1>13 DEF TaskCancelled, Leave, LightMovesUp, Ends, Resolve, TaskStates, LightStates, Owners, Reports
  <2>2. TaskTypes'
    BY <1>13 DEF TaskCancelled, Leave, LightMovesUp, Ends, Resolve, TaskStates, LightStates, Owners, Reports
  <2>3. FlagTypes'
    BY <1>13 DEF TaskCancelled, Leave, LightMovesUp, Ends, Resolve, TaskStates, LightStates, Owners, Reports
  <2>4. WorkTypes'
    BY <1>13 DEF TaskCancelled, Leave, LightMovesUp, Ends, Resolve, TaskStates, LightStates, Owners, Reports
  <2>5. AnswerTypes'
    BY <1>13 DEF TaskCancelled, Leave, LightMovesUp, Ends, Resolve, TaskStates, LightStates, Owners, Reports
  <2> QED BY <2>1, <2>2, <2>3, <2>4, <2>5
<1>14. CASE QuietPasses
  <2>1. ChatTypes'
    BY <1>14 DEF QuietPasses
  <2>2. TaskTypes'
    BY <1>14 DEF QuietPasses
  <2>3. FlagTypes'
    BY <1>14 DEF QuietPasses
  <2>4. WorkTypes'
    BY <1>14 DEF QuietPasses
  <2>5. AnswerTypes'
    BY <1>14 DEF QuietPasses
  <2> QED BY <2>1, <2>2, <2>3, <2>4, <2>5
<1>15. CASE BecomesOverdue
  <2>1. ChatTypes'
    BY <1>15 DEF BecomesOverdue
  <2>2. TaskTypes'
    BY <1>15 DEF BecomesOverdue
  <2>3. FlagTypes'
    BY <1>15 DEF BecomesOverdue
  <2>4. WorkTypes'
    BY <1>15 DEF BecomesOverdue
  <2>5. AnswerTypes'
    BY <1>15 DEF BecomesOverdue
  <2> QED BY <2>1, <2>2, <2>3, <2>4, <2>5
<1>16. CASE LightBegins \/ LightProceeds \/ LightEnds
  <2>1. ChatTypes'
    BY <1>16 DEF LightBegins, LightProceeds, LightEnds, LightStates, Owners
  <2>2. TaskTypes'
    BY <1>16 DEF LightBegins, LightProceeds, LightEnds, LightStates, Owners
  <2>3. FlagTypes'
    BY <1>16 DEF LightBegins, LightProceeds, LightEnds, LightStates, Owners
  <2>4. WorkTypes'
    BY <1>16 DEF LightBegins, LightProceeds, LightEnds, LightStates, Owners
  <2>5. AnswerTypes'
    BY <1>16 DEF LightBegins, LightProceeds, LightEnds, LightStates, Owners
  <2> QED BY <2>1, <2>2, <2>3, <2>4, <2>5
<1>17. CASE ArmPendingFull
  <2>1. ChatTypes'
    BY <1>17 DEF ArmPendingFull, Spawn, TaskStates
  <2>2. TaskTypes'
    BY <1>17 DEF ArmPendingFull, Spawn, TaskStates
  <2>3. FlagTypes'
    BY <1>17 DEF ArmPendingFull, Spawn, TaskStates
  <2>4. WorkTypes'
    BY <1>17 DEF ArmPendingFull, Spawn, TaskStates
  <2>5. AnswerTypes'
    BY <1>17 DEF ArmPendingFull, Spawn, TaskStates
  <2> QED BY <2>1, <2>2, <2>3, <2>4, <2>5
<1>18. CASE RunFullNow
  <2>1. ChatTypes'
    BY <1>18, BoundsAssumption DEF RunFullNow, Spawn, TaskStates, Reports
  <2>2. TaskTypes'
    BY <1>18 DEF RunFullNow, Spawn, TaskStates, Reports
  <2>3. FlagTypes'
    BY <1>18 DEF RunFullNow, Spawn, TaskStates, Reports
  <2>4. WorkTypes'
    BY <1>18 DEF RunFullNow, Spawn, TaskStates, Reports
  <2>5. AnswerTypes'
    BY <1>18 DEF RunFullNow, Spawn, TaskStates, Reports
  <2> QED BY <2>1, <2>2, <2>3, <2>4, <2>5
<1>19. CASE ManualTimeout
  <2>1. ChatTypes'
    BY <1>19 DEF ManualTimeout, Reports
  <2>2. TaskTypes'
    BY <1>19 DEF ManualTimeout, Reports
  <2>3. FlagTypes'
    BY <1>19 DEF ManualTimeout, Reports
  <2>4. WorkTypes'
    BY <1>19 DEF ManualTimeout, Reports
  <2>5. AnswerTypes'
    BY <1>19 DEF ManualTimeout, Reports
  <2> QED BY <2>1, <2>2, <2>3, <2>4, <2>5
<1>20. CASE Level1Starts \/ Level1Ends \/ PushRequest
  <2>1. ChatTypes'
    BY <1>20, BoundsAssumption DEF Level1Starts, Level1Ends, PushRequest
  <2>2. TaskTypes'
    BY <1>20 DEF Level1Starts, Level1Ends, PushRequest
  <2>3. FlagTypes'
    BY <1>20 DEF Level1Starts, Level1Ends, PushRequest
  <2>4. WorkTypes'
    BY <1>20 DEF Level1Starts, Level1Ends, PushRequest
  <2>5. AnswerTypes'
    BY <1>20 DEF Level1Starts, Level1Ends, PushRequest
  <2> QED BY <2>1, <2>2, <2>3, <2>4, <2>5
<1>21. CASE Shutdown \/ Settled \/ ShutdownTimeout
  <2>1. ChatTypes'
    BY <1>21 DEF Shutdown, Settled, ShutdownTimeout, LightStates, Owners
  <2>2. TaskTypes'
    BY <1>21 DEF Shutdown, Settled, ShutdownTimeout, LightStates, Owners
  <2>3. FlagTypes'
    BY <1>21 DEF Shutdown, Settled, ShutdownTimeout, LightStates, Owners
  <2>4. WorkTypes'
    BY <1>21 DEF Shutdown, Settled, ShutdownTimeout, LightStates, Owners
  <2>5. AnswerTypes'
    BY <1>21 DEF Shutdown, Settled, ShutdownTimeout, LightStates, Owners
  <2> QED BY <2>1, <2>2, <2>3, <2>4, <2>5
<1>22. CASE UNCHANGED vars
  BY <1>22 DEF vars
<1> QED
  BY <1>1, <1>2, <1>3, <1>4, <1>5, <1>6, <1>7, <1>8, <1>9, <1>10, <1>11, <1>12, <1>13, <1>14, <1>15, <1>16, <1>17, <1>18, <1>19, <1>20, <1>21, <1>22
     DEF Next, TurnStep, TaskStep

\* Every variable keeps its type, whatever the constants.
THEOREM TypeCorrect == Spec => []TypeOK
BY TypeInit, TypeStep, PTL DEF Spec

-----------------------------------------------------------------------------
(* The inductive invariant *)

\* What a step leaves of the two invariants when it touches no Full task.
LEMMA FrameKeeps ==
  ASSUME IInv, UNCHANGED <<tpc, tcancel, fullTask, forcedRun, fullRunning, owner, wcancel, phase>>
  PROVE  TaskInv' /\ RunInv'
BY DEF IInv, TaskInv, FullExclusive, LiveTaskIsTracked, TrackedIsAlive, TrackedNotCancelled,
       RunInv, ForcedRuns, ForcedFullUndisturbed, LockHeld, StoppingCancelsAll, SettledKeepsLock,
       Executing

\* A task that is not running a Full ends.
LEMMA EndsKeeps ==
  ASSUME IInv, NEW t \in Task, ~ Executing(t), Ends(t),
         UNCHANGED <<forcedRun, fullRunning, owner, wcancel, phase>>
  PROVE  TaskInv' /\ RunInv'
<1>1. \A s \in Task : /\ Executing(s)' <=> Executing(s)
                      /\ tpc'[s] = "cycle" <=> tpc[s] = "cycle"
                      /\ tpc'[s] # "free" => tpc'[s] = tpc[s] /\ tcancel'[s] = tcancel[s] /\ s # t
  BY DEF IInv, TypeOK, TaskTypes, Ends, Executing
<1>2. TaskInv'
  BY <1>1 DEF IInv, TaskInv, TypeOK, TaskTypes, Ends,
              FullExclusive, LiveTaskIsTracked, TrackedIsAlive, TrackedNotCancelled
<1>3. RunInv'
  BY <1>1 DEF IInv, RunInv, ForcedRuns, ForcedFullUndisturbed, LockHeld,
              StoppingCancelsAll, SettledKeepsLock, Executing
<1> QED BY <1>2, <1>3

\* A new task, in a slot that runs no Full, when every other task is or gets
\* cancelled and no forced Full is among them.
LEMMA SpawnKeeps ==
  ASSUME IInv, phase = "up", NEW n \in Task, ~ Executing(n),
         NEW cancels \in [Task -> BOOLEAN], Spawn(n, cancels),
         \A s \in Task : tpc[s] # "free" /\ s # n => cancels[s],
         \A s \in Task : forcedRun /\ Executing(s) => cancels[s] = tcancel[s],
         UNCHANGED <<forcedRun, fullRunning, owner, wcancel, phase>>
  PROVE  TaskInv' /\ RunInv'
<1>1. \A s \in Task : /\ Executing(s)' <=> Executing(s)
                      /\ tpc'[s] = "cycle" <=> tpc[s] = "cycle"
                      /\ s # n => tpc'[s] = tpc[s] /\ tcancel'[s] = cancels[s]
  BY DEF IInv, TypeOK, TaskTypes, Spawn, Executing
<1>2. fullTask' = n /\ tpc'[n] = "new" /\ ~ tcancel'[n] /\ n # NoTask
  BY NoTaskAssumption DEF IInv, TypeOK, TaskTypes, Spawn
<1>3. TaskInv'
  BY <1>1, <1>2 DEF IInv, TaskInv,
                    FullExclusive, LiveTaskIsTracked, TrackedIsAlive, TrackedNotCancelled
<1>4. RunInv'
  BY <1>1, <1>2 DEF IInv, RunInv, ForcedRuns, ForcedFullUndisturbed, LockHeld,
                    StoppingCancelsAll, SettledKeepsLock, Executing
<1> QED BY <1>3, <1>4

\* While a task lives that is not cancelled, the process is up, the task is
\* the tracked one, and every other one is cancelled.
LEMMA LiveTask ==
  ASSUME IInv, NEW t \in Task, tpc[t] # "free", ~ tcancel[t]
  PROVE  /\ phase = "up" /\ fullTask = t
         /\ \A s \in Task : tpc[s] # "free" /\ s # t => tcancel[s]
BY DEF IInv, TaskInv, RunInv, StoppingCancelsAll, LiveTaskIsTracked

\* A waiting task ends, reschedules itself, or starts the Full.
LEMMA DecideKeeps ==
  ASSUME IInv, NEW t \in Task, Pending(t), ~ tcancel[t],
         Skip(t) \/ Reschedule(t) \/ (~ fullRunning /\ StartFull(t)), phase' = phase
  PROVE  TaskInv' /\ RunInv'
<1>1. ~ Executing(t) /\ tpc[t] # "free"
  BY DEF Pending, Executing
<1>2. CASE Skip(t)
  BY <1>1, <1>2, EndsKeeps DEF Skip, runVars
<1>3. CASE Reschedule(t)
  <2>1. tcancel \in [Task -> BOOLEAN]
    BY DEF IInv, TypeOK, TaskTypes
  <2> QED BY <1>1, <1>3, <2>1, LiveTask, SpawnKeeps DEF Reschedule, runVars
<1>4. CASE ~ fullRunning /\ StartFull(t)
  <2>1. \/ tpc' = [tpc EXCEPT ![t] = "cycle"] /\ owner' = "full" /\ wcancel' = FALSE
        \/ tpc' = [tpc EXCEPT ![t] = "lock"] /\ UNCHANGED <<owner, wcancel>>
    BY <1>4 DEF StartFull, TakeLock
  <2>2. /\ fullRunning' = TRUE /\ tcancel' = tcancel /\ fullTask' = fullTask
        /\ phase = "up" /\ fullTask = t
    BY <1>1, <1>4, LiveTask DEF StartFull
  <2>3. \A s \in Task : ~ Executing(s)
    BY <1>4 DEF IInv, TaskInv, FullExclusive
  <2>4. \A s \in Task : /\ Executing(s)' <=> s = t
                        /\ tpc'[s] = "cycle" <=> s = t /\ owner' = "full"
                        /\ s # t => tpc'[s] = tpc[s]
    <3>1. tpc \in [Task -> TaskStates]
      BY DEF IInv, TypeOK, TaskTypes
    <3>2. owner # "full"
      BY <2>3 DEF IInv, RunInv, LockHeld, Executing
    <3> QED BY <2>1, <2>3, <3>1, <3>2 DEF Executing
  <2>5. TaskInv'
    BY <1>1, <2>2, <2>4 DEF IInv, TaskInv, FullExclusive, LiveTaskIsTracked,
                            TrackedIsAlive, TrackedNotCancelled, Executing
  <2>6. tpc'[t] = "cycle" => ~ wcancel'
    BY <2>1, <2>3, <2>4 DEF IInv, RunInv, LockHeld, Executing
  <2>7. RunInv'
    BY <2>2, <2>4, <2>6 DEF RunInv, ForcedRuns, ForcedFullUndisturbed, LockHeld,
                            StoppingCancelsAll, SettledKeepsLock
  <2> QED BY <2>5, <2>7
<1> QED BY <1>2, <1>3, <1>4

\* The Full of task t is over, in whatever way.
LEMMA LeaveKeeps ==
  ASSUME IInv, NEW t \in Task, Executing(t),
         fullRunning' = FALSE, forcedRun' = FALSE, Ends(t),
         owner' = IF tpc[t] = "cycle" THEN "none" ELSE owner,
         UNCHANGED phase
  PROVE  TaskInv' /\ RunInv'
<1>1. \A s \in Task : /\ ~ Executing(s)' /\ tpc'[s] # "cycle"
                      /\ tpc'[s] # "free" => tpc'[s] = tpc[s] /\ tcancel'[s] = tcancel[s] /\ s # t
  BY DEF IInv, TypeOK, TaskTypes, TaskInv, FullExclusive, Ends, Executing
<1>2. TaskInv'
  BY <1>1 DEF IInv, TypeOK, TaskTypes, TaskInv, FullExclusive, LiveTaskIsTracked,
              TrackedIsAlive, TrackedNotCancelled, Ends
<1>3. owner' # "full" /\ (phase' = "settled" => owner' = "shutdown")
  <2>1. \A s \in Task : tpc[s] = "cycle" => s = t
    BY DEF IInv, TaskInv, FullExclusive, Executing
  <2> QED BY <2>1 DEF IInv, RunInv, LockHeld, SettledKeepsLock
<1>4. RunInv'
  BY <1>1, <1>3 DEF IInv, RunInv, ForcedRuns, ForcedFullUndisturbed, LockHeld,
                    StoppingCancelsAll, SettledKeepsLock
<1> QED BY <1>2, <1>4

LEMMA InvInit == Init => IInv
<1> SUFFICES ASSUME Init
             PROVE  IInv
  OBVIOUS
<1>1. TypeOK
  BY TypeInit
<1>2. TaskInv
  BY DEF Init, TaskInv, FullExclusive, LiveTaskIsTracked, TrackedIsAlive, TrackedNotCancelled,
         Executing
<1>3. RunInv
  BY DEF Init, RunInv, ForcedRuns, ForcedFullUndisturbed, LockHeld, StoppingCancelsAll,
         SettledKeepsLock
<1> QED BY <1>1, <1>2, <1>3 DEF IInv

LEMMA InvStep == IInv /\ [Next]_vars => IInv'
<1> SUFFICES ASSUME IInv, [Next]_vars
             PROVE  TaskInv' /\ RunInv'
  BY TypeStep DEF IInv
<1>a. /\ tpc \in [Task -> TaskStates] /\ tcancel \in [Task -> BOOLEAN]
      /\ fullTask \in Task \cup {NoTask}
  BY DEF IInv, TypeOK, TaskTypes
<1> USE DEF fullVars, workVars
<1>1. ASSUME NEW u \in Turn, OnUserInput(u)
      PROVE  TaskInv' /\ RunInv'
  <2>1. UNCHANGED <<tpc, forcedRun, fullRunning, owner, phase>> /\ phase = "up"
    BY <1>1 DEF OnUserInput
  <2>2. \A s \in Task : Executing(s)' <=> Executing(s)
    BY <2>1 DEF Executing
  <2>3. CASE /\ fullTask # NoTask /\ ~ Exempt
             /\ tcancel' = [tcancel EXCEPT ![fullTask] = TRUE] /\ fullTask' = NoTask
    <3>1. ~ forcedRun
      BY <2>3 DEF Exempt
    <3>2. TaskInv'
      BY <1>a, <2>1, <2>2, <2>3 DEF IInv, TaskInv, FullExclusive, LiveTaskIsTracked,
                                    TrackedIsAlive, TrackedNotCancelled
    <3> QED BY <2>1, <2>2, <3>1, <3>2 DEF IInv, RunInv, ForcedRuns, ForcedFullUndisturbed,
                                          LockHeld, StoppingCancelsAll, SettledKeepsLock
  <2>4. CASE UNCHANGED <<tcancel, fullTask>>
    <3>1. TaskInv'
      BY <2>1, <2>2, <2>4 DEF IInv, TaskInv, FullExclusive, LiveTaskIsTracked,
                              TrackedIsAlive, TrackedNotCancelled
    <3>2. forcedRun => wcancel' = wcancel
      BY <1>1 DEF OnUserInput, IInv, TypeOK, WorkTypes
    <3> QED BY <2>1, <2>2, <2>4, <3>1, <3>2 DEF IInv, RunInv, ForcedRuns, ForcedFullUndisturbed,
                                                LockHeld, StoppingCancelsAll, SettledKeepsLock
  <2> QED BY <1>1, <2>3, <2>4 DEF OnUserInput
<1>2. ASSUME NEW u \in Turn, OnLlmStart(u) \/ BeginGeneration(u) \/ EndGeneration(u)
      PROVE  TaskInv' /\ RunInv'
  BY <1>2, FrameKeeps DEF OnLlmStart, BeginGeneration, EndGeneration
<1>3. ASSUME NEW u \in Turn, OnResponseSent(u)
      PROVE  TaskInv' /\ RunInv'
  <2>1. PICK correction \in BOOLEAN, n \in Task : RespondWith(u, correction, n)
    BY <1>3 DEF OnResponseSent
  <2>2. UNCHANGED <<forcedRun, fullRunning, owner, wcancel, phase>>
    BY <2>1 DEF RespondWith
  <2>3. CASE UNCHANGED <<tpc, tcancel, fullTask>>
    BY <2>2, <2>3, FrameKeeps
  <2> DEFINE cancels == IF fullTask = NoTask THEN tcancel ELSE [tcancel EXCEPT ![fullTask] = TRUE]
  <2>4. CASE /\ phase = "up" /\ tpc[n] = "free" /\ Spawn(n, cancels)
             /\ ~ (fullTask # NoTask /\ forcedRun)
    <3>1. cancels \in [Task -> BOOLEAN] /\ ~ Executing(n)
      BY <1>a, <2>4 DEF Executing
    <3>2. \A s \in Task : tpc[s] # "free" => cancels[s]
      BY <1>a, NoTaskAssumption DEF IInv, TaskInv, LiveTaskIsTracked
    <3>3. \A s \in Task : forcedRun /\ Executing(s) => cancels[s] = tcancel[s]
      BY <1>a, <2>4
    <3> QED BY <2>2, <2>4, <3>1, <3>2, <3>3, SpawnKeeps
  <2> QED BY <2>1, <2>3, <2>4 DEF RespondWith
<1>4. ASSUME NEW t \in Task, StartWait(t)
      PROVE  TaskInv' /\ RunInv'
  <2>1. /\ tpc' = [tpc EXCEPT ![t] = "idle"] /\ tpc[t] = "new"
        /\ UNCHANGED <<tcancel, fullTask, forcedRun, fullRunning, owner, wcancel, phase>>
    BY <1>4 DEF StartWait
  <2>2. \A s \in Task : /\ Executing(s)' <=> Executing(s)
                        /\ tpc'[s] = "cycle" <=> tpc[s] = "cycle"
                        /\ tpc'[s] = "free" <=> tpc[s] = "free"
    BY <1>a, <2>1 DEF Executing
  <2>3. TaskInv'
    BY <1>a, <2>1, <2>2 DEF IInv, TaskInv, FullExclusive, LiveTaskIsTracked,
                            TrackedIsAlive, TrackedNotCancelled
  <2> QED BY <2>1, <2>2, <2>3 DEF IInv, RunInv, ForcedRuns, ForcedFullUndisturbed,
                                  LockHeld, StoppingCancelsAll, SettledKeepsLock
<1>5. ASSUME NEW t \in Task, IdleWaitOver(t)
      PROVE  TaskInv' /\ RunInv'
  <2>1. Pending(t) /\ ~ tcancel[t] /\ phase' = phase
    BY <1>5 DEF IdleWaitOver, Pending
  <2>2. CASE Skip(t) \/ Reschedule(t) \/ Decide(t)
    <3>1. Skip(t) \/ Reschedule(t) \/ (~ fullRunning /\ StartFull(t))
      BY <2>2 DEF Decide
    <3> QED BY <2>1, <3>1, DecideKeeps
  <2>3. CASE /\ tpc' = [tpc EXCEPT ![t] = "genwait"]
             /\ UNCHANGED <<tcancel, fullTask, runVars>>
    <3>1. \A s \in Task : /\ Executing(s)' <=> Executing(s)
                          /\ tpc'[s] = "cycle" <=> tpc[s] = "cycle"
                          /\ tpc'[s] = "free" <=> tpc[s] = "free"
      BY <1>a, <2>1, <2>3 DEF Executing, Pending
    <3>2. TaskInv'
      BY <1>a, <2>1, <2>3, <3>1 DEF IInv, TaskInv, FullExclusive, LiveTaskIsTracked,
                                    TrackedIsAlive, TrackedNotCancelled, runVars
    <3> QED BY <2>1, <2>3, <3>1, <3>2 DEF IInv, RunInv, ForcedRuns, ForcedFullUndisturbed,
                                          LockHeld, StoppingCancelsAll, SettledKeepsLock, runVars
  <2> QED BY <1>5, <2>2, <2>3 DEF IdleWaitOver
<1>6. ASSUME NEW t \in Task, GenerationOver(t) \/ GiveUp(t)
      PROVE  TaskInv' /\ RunInv'
  <2>1. Pending(t) /\ ~ tcancel[t] /\ phase' = phase
    BY <1>6 DEF GenerationOver, GiveUp, Pending
  <2>2. Skip(t) \/ Reschedule(t) \/ (~ fullRunning /\ StartFull(t))
    BY <1>6 DEF GenerationOver, GiveUp, Decide
  <2> QED BY <2>1, <2>2, DecideKeeps
<1>7. ASSUME NEW t \in Task, CycleBegins(t)
      PROVE  TaskInv' /\ RunInv'
  <2>1. /\ tpc' = [tpc EXCEPT ![t] = "cycle"] /\ tpc[t] = "lock" /\ owner = "none"
        /\ owner' = "full" /\ wcancel' = FALSE
        /\ UNCHANGED <<tcancel, fullTask, forcedRun, fullRunning, phase>>
    BY <1>7 DEF CycleBegins, TakeLock, LockAvailable
  <2>2. \A s \in Task : /\ Executing(s)' <=> Executing(s)
                        /\ tpc'[s] = "cycle" => s = t
                        /\ tpc'[s] = "free" <=> tpc[s] = "free"
    BY <1>a, <2>1 DEF Executing, IInv, RunInv, LockHeld
  <2>3. tpc'[t] = "cycle" /\ phase # "settled"
    BY <1>a, <2>1 DEF IInv, RunInv, SettledKeepsLock
  <2>4. TaskInv'
    BY <1>a, <2>1, <2>2 DEF IInv, TaskInv, FullExclusive, LiveTaskIsTracked,
                            TrackedIsAlive, TrackedNotCancelled
  <2> QED BY <2>1, <2>2, <2>3, <2>4 DEF IInv, RunInv, ForcedRuns, ForcedFullUndisturbed,
                                        LockHeld, StoppingCancelsAll, SettledKeepsLock
<1>8. ASSUME NEW t \in Task, FullEnds(t) \/ FullFails(t)
      PROVE  TaskInv' /\ RunInv'
  BY <1>8, LeaveKeeps DEF FullEnds, FullFails, Leave, Executing
<1>9. ASSUME NEW t \in Task, TaskCancelled(t)
      PROVE  TaskInv' /\ RunInv'
  <2>1. CASE Executing(t)
    BY <1>9, <2>1, LeaveKeeps DEF TaskCancelled, Leave, Executing
  <2>2. CASE ~ Executing(t)
    BY <1>9, <2>2, EndsKeeps DEF TaskCancelled, Executing
  <2> QED BY <2>1, <2>2
<1>10. CASE \/ QuietPasses \/ BecomesOverdue \/ ManualTimeout
            \/ Level1Starts \/ Level1Ends \/ PushRequest
  BY <1>10, FrameKeeps DEF QuietPasses, BecomesOverdue, ManualTimeout,
                           Level1Starts, Level1Ends, PushRequest
<1>11. CASE LightBegins \/ LightProceeds \/ LightEnds
  <2>1. UNCHANGED <<tpc, tcancel, fullTask, forcedRun, fullRunning, phase>>
    BY <1>11 DEF LightBegins, LightProceeds, LightEnds
  <2>2. \/ UNCHANGED <<owner, wcancel>>
        \/ owner = "none" /\ owner' = "light" /\ wcancel' = FALSE
        \/ owner = "light" /\ owner' = "none" /\ wcancel' = wcancel
    BY <1>11 DEF LightBegins, LightProceeds, LightEnds
  <2>3. TaskInv'
    BY <2>1 DEF IInv, TaskInv, FullExclusive, LiveTaskIsTracked, TrackedIsAlive,
                TrackedNotCancelled, Executing
  <2> QED BY <2>1, <2>2, <2>3 DEF IInv, RunInv, ForcedRuns, ForcedFullUndisturbed, LockHeld,
                                  StoppingCancelsAll, SettledKeepsLock, Executing
<1>12. CASE ArmPendingFull
  <2>1. UNCHANGED <<forcedRun, fullRunning, owner, wcancel, phase>>
    BY <1>12 DEF ArmPendingFull
  <2>2. CASE UNCHANGED <<tpc, tcancel, fullTask>>
    BY <2>1, <2>2, FrameKeeps
  <2>3. CASE /\ phase = "up" /\ fullTask = NoTask
             /\ \E n \in Task : tpc[n] = "free" /\ Spawn(n, tcancel)
    <3>1. \A s \in Task : tpc[s] # "free" => tcancel[s]
      BY <2>3, NoTaskAssumption DEF IInv, TaskInv, LiveTaskIsTracked
    <3> QED BY <1>a, <2>1, <2>3, <3>1, SpawnKeeps DEF Executing
  <2> QED BY <1>12, <2>2, <2>3 DEF ArmPendingFull
<1>13. CASE RunFullNow
  <2>1. UNCHANGED <<forcedRun, fullRunning, owner, wcancel, phase>>
    BY <1>13 DEF RunFullNow
  <2>2. CASE UNCHANGED <<tpc, tcancel, fullTask>>
    BY <2>1, <2>2, FrameKeeps
  <2>3. CASE /\ phase = "up" /\ fullTask = NoTask
             /\ \E n \in Task : tpc[n] = "free" /\ Spawn(n, tcancel)
    <3>1. \A s \in Task : tpc[s] # "free" => tcancel[s]
      BY <2>3, NoTaskAssumption DEF IInv, TaskInv, LiveTaskIsTracked
    <3> QED BY <1>a, <2>1, <2>3, <3>1, SpawnKeeps DEF Executing
  <2> QED BY <1>13, <2>2, <2>3 DEF RunFullNow
<1>14. CASE Shutdown
  <2>1. /\ UNCHANGED <<tpc, fullTask, forcedRun, fullRunning, owner>>
        /\ phase' = "stopping"
        /\ tcancel' = IF fullTask = NoTask THEN tcancel ELSE [tcancel EXCEPT ![fullTask] = TRUE]
    BY <1>14 DEF Shutdown
  <2>2. \A s \in Task : tpc[s] # "free" => tcancel'[s]
    BY <1>a, <2>1, NoTaskAssumption DEF IInv, TaskInv, LiveTaskIsTracked
  <2>3. TaskInv'
    BY <2>1, <2>2 DEF IInv, TaskInv, FullExclusive, LiveTaskIsTracked, TrackedIsAlive,
                      TrackedNotCancelled, Executing
  <2> QED BY <2>1, <2>2, <2>3 DEF IInv, RunInv, ForcedRuns, ForcedFullUndisturbed, LockHeld,
                                  StoppingCancelsAll, SettledKeepsLock
<1>15. CASE Settled \/ ShutdownTimeout
  <2>1. /\ UNCHANGED <<tpc, tcancel, fullTask, forcedRun, fullRunning, wcancel>>
        /\ phase = "stopping" /\ phase' \in {"settled", "timedout"}
        /\ \/ phase' = "settled" /\ owner = "none" /\ owner' = "shutdown"
           \/ phase' = "timedout" /\ owner' = owner
    BY <1>15 DEF Settled, ShutdownTimeout
  <2>2. TaskInv'
    BY <2>1 DEF IInv, TaskInv, FullExclusive, LiveTaskIsTracked, TrackedIsAlive,
                TrackedNotCancelled, Executing
  <2> QED BY <2>1, <2>2 DEF IInv, RunInv, ForcedRuns, ForcedFullUndisturbed, LockHeld,
                            StoppingCancelsAll, SettledKeepsLock
<1>16. CASE UNCHANGED vars
  BY <1>16, FrameKeeps DEF vars
<1> QED
  BY <1>1, <1>2, <1>3, <1>4, <1>5, <1>6, <1>7, <1>8, <1>9, <1>10, <1>11, <1>12, <1>13,
     <1>14, <1>15, <1>16
     DEF Next, TurnStep, TaskStep

LEMMA InvariantHolds == Spec => []IInv
BY InvInit, InvStep, PTL DEF Spec

-----------------------------------------------------------------------------
(* The properties *)

\* One Full at a time, and the flag says when.
THEOREM OneFullAtATime == Spec => []FullExclusive
<1>1. IInv => FullExclusive
  BY DEF IInv, TaskInv
<1> QED BY <1>1, InvariantHolds, PTL

\* No timer of a Full escapes _full_task.
THEOREM NoTaskEscapes == Spec => []LiveTaskIsTracked
<1>1. IInv => LiveTaskIsTracked
  BY DEF IInv, TaskInv
<1> QED BY <1>1, InvariantHolds, PTL

\* The conversation leaves a forced Full alone.
THEOREM ForcedFullRunsOn == Spec => []ForcedFullUndisturbed
<1>1. IInv => ForcedFullUndisturbed
  BY DEF IInv, RunInv
<1> QED BY <1>1, InvariantHolds, PTL

\* After a settled shutdown no Full runs or will run.
THEOREM SettledIsFinal == Spec => []ShutdownIsFinal
<1>1. IInv => ShutdownIsFinal
  BY DEF IInv, RunInv, LockHeld, StoppingCancelsAll, SettledKeepsLock, ShutdownIsFinal
<1> QED BY <1>1, InvariantHolds, PTL

\* The debounce of inputs and responses never cancels a Full that is
\* requested, overdue or forced.
THEOREM DebounceSpares == Spec => WaitingFullSpared
<1>1. IInv /\ [Next]_vars => [(requested \/ overdue \/ forcedRun) /\ phase' = "up"
                                => \A t \in Task : tcancel'[t] => tcancel[t] ]_vars
  <2> SUFFICES ASSUME IInv, Next, requested \/ overdue \/ forcedRun, phase' = "up",
                      NEW s \in Task, tcancel'[s]
               PROVE  tcancel[s]
    OBVIOUS
  <2>a. tcancel \in [Task -> BOOLEAN] /\ fullTask \in Task \cup {NoTask}
    BY DEF IInv, TypeOK, TaskTypes
  <2> USE DEF fullVars, workVars
  <2>1. ASSUME NEW u \in Turn, OnUserInput(u)
        PROVE  tcancel[s]
    BY <2>1 DEF OnUserInput, Exempt, DeferExpired
  <2>2. ASSUME NEW u \in Turn, OnResponseSent(u)
        PROVE  tcancel[s]
    BY <2>2, <2>a DEF OnResponseSent, RespondWith, Spawn
  <2>3. ASSUME NEW u \in Turn, OnLlmStart(u) \/ BeginGeneration(u) \/ EndGeneration(u)
        PROVE  tcancel[s]
    BY <2>3 DEF OnLlmStart, BeginGeneration, EndGeneration
  <2>4. ASSUME NEW t \in Task, IdleWaitOver(t) \/ GenerationOver(t) \/ GiveUp(t)
        PROVE  tcancel[s]
    BY <2>4, <2>a DEF IdleWaitOver, GenerationOver, GiveUp, Decide, Skip, Reschedule, StartFull,
                      Ends, Spawn
  <2>5. ASSUME NEW t \in Task, StartWait(t) \/ CycleBegins(t)
        PROVE  tcancel[s]
    BY <2>5 DEF StartWait, CycleBegins
  <2>6. ASSUME NEW t \in Task, FullEnds(t) \/ FullFails(t) \/ TaskCancelled(t)
        PROVE  tcancel[s]
    BY <2>6, <2>a DEF FullEnds, FullFails, TaskCancelled, Leave, Ends
  <2>7. CASE ArmPendingFull \/ RunFullNow
    BY <2>7, <2>a DEF ArmPendingFull, RunFullNow, Spawn
  <2>8. CASE \/ QuietPasses \/ BecomesOverdue \/ ManualTimeout
             \/ LightBegins \/ LightProceeds \/ LightEnds
             \/ Level1Starts \/ Level1Ends \/ PushRequest
             \/ Shutdown \/ Settled \/ ShutdownTimeout
    BY <2>8 DEF QuietPasses, BecomesOverdue, ManualTimeout, LightBegins, LightProceeds, LightEnds,
                Level1Starts, Level1Ends, PushRequest, Shutdown, Settled, ShutdownTimeout
  <2> QED BY <2>1, <2>2, <2>3, <2>4, <2>5, <2>6, <2>7, <2>8 DEF Next, TurnStep, TaskStep
<1> QED BY <1>1, InvariantHolds, PTL DEF Spec, WaitingFullSpared

\* A Full and a Level 1 session come together only through a task that had
\* waited for a generation.
THEOREM OverlapHasOneCause == Spec => OverlapOnlyAfterGenerationWait
<1>1. IInv /\ [Next]_vars => [NoFullBesideLevel1 /\ ~ NoFullBesideLevel1'
                                => \E t \in Task : tpc[t] = "genwait" /\ Executing(t)' ]_vars
  <2> SUFFICES ASSUME IInv, Next, NoFullBesideLevel1, ~ NoFullBesideLevel1'
               PROVE  \E t \in Task : tpc[t] = "genwait" /\ Executing(t)'
    OBVIOUS
  <2>a. tpc \in [Task -> TaskStates]
    BY DEF IInv, TypeOK, TaskTypes
  <2>b. fullRunning' /\ l1Running' /\ ~ (fullRunning /\ l1Running)
    BY DEF NoFullBesideLevel1
  <2> USE DEF fullVars, l1Vars
  <2>1. ASSUME NEW u \in Turn, TurnStep(u)
        PROVE  FALSE
    BY <2>1, <2>b DEF TurnStep, OnUserInput, OnLlmStart, BeginGeneration, OnResponseSent,
                      RespondWith, EndGeneration
  <2>2. ASSUME NEW t \in Task, StartWait(t) \/ GiveUp(t) \/ CycleBegins(t)
                                \/ FullEnds(t) \/ FullFails(t) \/ TaskCancelled(t)
        PROVE  FALSE
    BY <2>2, <2>b DEF StartWait, GiveUp, Skip, runVars, CycleBegins, FullEnds, FullFails,
                      TaskCancelled, Leave
  <2>3. ASSUME NEW t \in Task, IdleWaitOver(t)
        PROVE  FALSE
    BY <2>3, <2>b DEF IdleWaitOver, Decide, Skip, Reschedule, StartFull, runVars
  <2>4. ASSUME NEW t \in Task, GenerationOver(t)
        PROVE  \E s \in Task : tpc[s] = "genwait" /\ Executing(s)'
    <3>1. StartFull(t)
      BY <2>4, <2>b DEF GenerationOver, Decide, Skip, Reschedule, runVars
    <3>2. Executing(t)'
      BY <2>a, <3>1 DEF StartFull, TakeLock, Executing
    <3> QED BY <2>4, <3>2 DEF GenerationOver
  <2>5. CASE \/ QuietPasses \/ BecomesOverdue \/ LightBegins \/ LightProceeds \/ LightEnds
             \/ ArmPendingFull \/ RunFullNow \/ ManualTimeout
             \/ Level1Starts \/ Level1Ends \/ PushRequest
             \/ Shutdown \/ Settled \/ ShutdownTimeout
    BY <2>5, <2>b DEF QuietPasses, BecomesOverdue, LightBegins, LightProceeds, LightEnds,
                      ArmPendingFull, RunFullNow, ManualTimeout, Level1Starts, Level1Ends,
                      PushRequest, Shutdown, Settled, ShutdownTimeout
  <2> QED BY <2>1, <2>2, <2>3, <2>4, <2>5 DEF Next, TaskStep
<1> QED BY <1>1, InvariantHolds, PTL DEF Spec, OverlapOnlyAfterGenerationWait

\* A manual call is told that the Full completed only if one has run since:
\* a skipped, replaced or cancelled task never says so.
THEOREM CompletedIsTrue == Spec => []CompletedMeansExecuted
<1>1. Init => CompletedMeansExecuted
  BY DEF Init, CompletedMeansExecuted
<1>2. CompletedMeansExecuted /\ [Next]_vars => CompletedMeansExecuted'
  <2> SUFFICES ASSUME CompletedMeansExecuted, [Next]_vars, report' = "completed"
               PROVE  ranSince' # "none"
    BY DEF CompletedMeansExecuted
  <2> USE DEF CompletedMeansExecuted, manualVars
  <2>1. ASSUME NEW u \in Turn, TurnStep(u)
        PROVE  ranSince' # "none"
    BY <2>1 DEF TurnStep, OnUserInput, OnLlmStart, BeginGeneration, OnResponseSent,
                RespondWith, EndGeneration
  <2>2. ASSUME NEW t \in Task, FullEnds(t) \/ FullFails(t)
        PROVE  ranSince' # "none"
    BY <2>2 DEF FullEnds, FullFails
  <2>3. ASSUME NEW t \in Task, IdleWaitOver(t) \/ GenerationOver(t) \/ GiveUp(t)
        PROVE  ranSince' # "none"
    BY <2>3 DEF IdleWaitOver, GenerationOver, GiveUp, Decide, Skip, Reschedule, StartFull, Resolve
  <2>4. ASSUME NEW t \in Task, StartWait(t) \/ CycleBegins(t) \/ TaskCancelled(t)
        PROVE  ranSince' # "none"
    BY <2>4 DEF StartWait, CycleBegins, TaskCancelled, Leave, Resolve
  <2>5. CASE RunFullNow \/ ManualTimeout
    BY <2>5 DEF RunFullNow, ManualTimeout
  <2>6. CASE \/ QuietPasses \/ BecomesOverdue \/ LightBegins \/ LightProceeds \/ LightEnds
             \/ ArmPendingFull \/ Level1Starts \/ Level1Ends \/ PushRequest
             \/ Shutdown \/ Settled \/ ShutdownTimeout \/ UNCHANGED vars
    BY <2>6 DEF QuietPasses, BecomesOverdue, LightBegins, LightProceeds, LightEnds,
                ArmPendingFull, Level1Starts, Level1Ends, PushRequest,
                Shutdown, Settled, ShutdownTimeout, vars
  <2> QED BY <2>1, <2>2, <2>3, <2>4, <2>5, <2>6 DEF Next, TaskStep
<1> QED BY <1>1, <1>2, PTL DEF Spec
=============================================================================
