------------------------ MODULE GenerationGateProofs ------------------------
(***************************************************************************)
(* The gate, for any number of tasks, turns, generations and switches of   *)
(* the model.  Three arguments: the count is exact because every lease and *)
(* every generation is given back once (CountInv); what a task read before *)
(* it asked for the lock still tells, whenever it runs, which turns were   *)
(* there before it (TokenInv); and whoever is in a line waits or runs, so  *)
(* that its lock will be given on (LineInv).                               *)
(***************************************************************************)
EXTENDS GenerationGate, FiniteSetTheorems, SequenceTheorems, TLAPS

\* The gate counts the leases that are not released and the generations; no
\* lease is there before its request.
CountInv ==
  /\ GateExact
  /\ \A t \in Turn : t > requests => lease[t] = "none"

\* What a task has read is no later than now.  A chat met since is a chat that
\* was there or one that the count shows; if none was there, the turns that are
\* there now came later.
TokenInv(a) ==
  /\ token[a].seen <= activations /\ token[a].asked <= requests
  /\ a \in Measuring /\ a \in met => ~ token[a].found \/ token[a].seen < activations
  /\ a \in Measuring /\ token[a].found => \A t \in Live : t > token[a].asked

\* Who is not to be cut off was claimed in the window its token tells of, or has
\* been cut off often enough.
RunInv(a) ==
  /\ pc[a] = "running" /\ kind[a] = "claim" /\ ~ yields[a] =>
       token[a].found /\ token[a].asked = since[a]
  /\ pc[a] = "running" /\ kind[a] = "probe" /\ yields[a] => tries[a] < MaxPreemptions

WaitInv(a) ==
  /\ pc[a] = "waiting" => ~ Idle
  /\ pc[a] = "queued" => \E i \in 1 .. Len(line[askedOf[a]]) : line[askedOf[a]][i] = a

TaskInv(a) == TokenInv(a) /\ RunInv(a) /\ WaitInv(a)

\* Who is in a line asked for that lock, waits for it or holds it, and is there once.
LineInv ==
  \A m \in 0 .. MaxRebinds :
     /\ \A i \in 1 .. Len(line[m]) : /\ pc[line[m][i]] \in {"queued", "running"}
                                     /\ kind[line[m][i]] # "probe"
                                     /\ askedOf[line[m][i]] = m
     /\ \A i, j \in 1 .. Len(line[m]) : line[m][i] = line[m][j] => i = j

IInv == TypeOK /\ CountInv /\ (\A a \in Task : TaskInv(a)) /\ LineInv /\ LearnsAlone
-----------------------------------------------------------------------------
(* Lines *)

\* Who leaves a line is not in it any more; everybody else stays, once.
LEMMA WithoutProperties ==
  ASSUME NEW s \in Seq(Task), NEW a \in Task,
         \A i, j \in 1 .. Len(s) : s[i] = s[j] => i = j
  PROVE  /\ Without(s, a) \in Seq(Task)
         /\ \A i \in 1 .. Len(Without(s, a)) :
              Without(s, a)[i] # a /\ \E j \in 1 .. Len(s) : Without(s, a)[i] = s[j]
         /\ \A j \in 1 .. Len(s) : s[j] # a =>
              \E i \in 1 .. Len(Without(s, a)) : Without(s, a)[i] = s[j]
         /\ \A i, j \in 1 .. Len(Without(s, a)) : Without(s, a)[i] = Without(s, a)[j] => i = j
<1> DEFINE places == {i \in DOMAIN s : s[i] = a}
<1>1. CASE places = {}
  BY <1>1 DEF Without
<1>2. CASE places # {}
  <2> DEFINE k == CHOOSE i \in places : TRUE
  <2>1. k \in 1 .. Len(s) /\ s[k] = a
    BY <1>2
  <2>2. Without(s, a) = SubSeq(s, 1, k - 1) \o SubSeq(s, k + 1, Len(s))
    BY <1>2 DEF Without, RemoveAt
  <2> HIDE DEF k
  <2> DEFINE w == Without(s, a)
  <2>3. /\ SubSeq(s, 1, k - 1) \in Seq(Task) /\ Len(SubSeq(s, 1, k - 1)) = k - 1
        /\ \A i \in 1 .. k - 1 : SubSeq(s, 1, k - 1)[i] = s[i]
    BY <2>1
  <2>4. /\ SubSeq(s, k + 1, Len(s)) \in Seq(Task) /\ Len(SubSeq(s, k + 1, Len(s))) = Len(s) - k
        /\ \A i \in 1 .. Len(s) - k : SubSeq(s, k + 1, Len(s))[i] = s[k + i]
    BY <2>1
  <2>5. /\ w \in Seq(Task) /\ Len(w) = Len(s) - 1
        /\ \A i \in 1 .. Len(s) - 1 : w[i] = IF i < k THEN s[i] ELSE s[i + 1]
    <3> DEFINE before == SubSeq(s, 1, k - 1)
               after == SubSeq(s, k + 1, Len(s))
    <3>1. w = before \o after
      BY <2>2
    <3>2. before \in Seq(Task) /\ after \in Seq(Task) /\ Len(before) = k - 1 /\ Len(after) = Len(s) - k
      BY <2>3, <2>4
    <3>3. \A i \in 1 .. k - 1 : before[i] = s[i]
      BY <2>3
    <3>4. \A i \in 1 .. Len(s) - k : after[i] = s[k + i]
      BY <2>4
    <3> HIDE DEF before, after, w
    <3>5. w \in Seq(Task) /\ Len(w) = Len(s) - 1
      BY <2>1, <3>1, <3>2
    <3>6. ASSUME NEW i \in 1 .. Len(s) - 1 PROVE w[i] = IF i < k THEN s[i] ELSE s[i + 1]
      <4>1. CASE i < k
        BY <2>1, <3>1, <3>2, <3>3, <4>1
      <4>2. CASE i >= k
        <5>1. w[i] = after[i - (k - 1)] /\ i - (k - 1) \in 1 .. Len(s) - k
          BY <2>1, <3>1, <3>2, <4>2, SMTT(20)
        <5> QED
          BY <2>1, <3>4, <4>2, <5>1
      <4> QED
        BY <2>1, <4>1, <4>2
    <3> QED
      BY <3>5, <3>6
  <2> HIDE DEF w
  <2>6. \A i \in 1 .. Len(w) : w[i] # a /\ \E j \in 1 .. Len(s) : w[i] = s[j]
    BY <2>1, <2>5, SMTT(20)
  <2>7. ASSUME NEW j \in 1 .. Len(s), s[j] # a
        PROVE  \E i \in 1 .. Len(w) : w[i] = s[j]
    <3>1. CASE j < k
      BY <2>1, <2>5, <3>1
    <3>2. CASE j > k
      <4>1. j - 1 \in 1 .. Len(w) /\ w[j - 1] = s[j]
        BY <2>1, <2>5, <3>2
      <4> QED
        BY <4>1
    <3> QED
      BY <2>1, <2>7, <3>1, <3>2
  <2>8. \A i, j \in 1 .. Len(w) : w[i] = w[j] => i = j
    BY <2>1, <2>5
  <2> QED
    BY <2>5, <2>6, <2>7, <2>8 DEF w
<1> QED
  BY <1>1, <1>2

-----------------------------------------------------------------------------
(* The count *)

LEMMA Finite ==
  ASSUME TypeOK
  PROVE  /\ IsFiniteSet(Live) /\ Cardinality(Live) \in Nat
         /\ IsFiniteSet(generating) /\ Cardinality(generating) \in Nat
<1>1. IsFiniteSet(Turn)
  BY BoundsAssumption, FS_Interval DEF Turn
<1>2. Live \in SUBSET Turn /\ generating \in SUBSET Turn
  BY DEF TypeOK, Live
<1>3. IsFiniteSet(Live) /\ IsFiniteSet(generating)
  BY <1>1, <1>2, FS_Subset
<1> QED
  BY <1>3, FS_CardinalityType

\* Where the gate is idle, no turn is there.
LEMMA IdleIsEmpty ==
  ASSUME TypeOK, GateExact, Idle
  PROVE  Live = {}
<1>1. Cardinality(Live) = 0
  BY Finite DEF Idle, GateExact
<1> QED
  BY <1>1, Finite, FS_EmptySet

\* The leases in turns' hands after a step of turn t.
LEMMA LiveMoves ==
  ASSUME TypeOK, NEW t \in Turn, NEW to \in LeaseStates, lease' = [lease EXCEPT ![t] = to]
  PROVE  /\ lease' \in [Turn -> LeaseStates] /\ lease'[t] = to
         /\ \A u \in Turn : u # t => lease'[u] = lease[u]
         /\ Live' = IF to \in {"held", "handed", "streaming"} THEN Live \cup {t} ELSE Live \ {t}
<1>1. /\ lease' \in [Turn -> LeaseStates] /\ lease'[t] = to
      /\ \A u \in Turn : u # t => lease'[u] = lease[u]
  BY DEF TypeOK
<1> QED
  BY <1>1 DEF Live

LEMMA InLine ==
  ASSUME TypeOK, NEW m \in 0 .. MaxRebinds, NEW i \in 1 .. Len(line[m])
  PROVE  line[m][i] \in Task
<1>1. line[m] \in Seq(Task)
  BY DEF TypeOK
<1> QED
  BY <1>1, ElementOfSeq

\* A chat comes: the tasks that measure meet it.
LEMMA AcquireKeepsTasks ==
  ASSUME TypeOK, \A a \in Task : TaskInv(a), LineInv, Acquire, UNCHANGED <<taskVars, model>>,
         requests' \in {requests, requests + 1}, Live' \subseteq Live \cup {requests'},
         requests' = requests => Live' = Live
  PROVE  (\A a \in Task : TaskInv(a)') /\ LineInv'
<1> USE DEF Acquire, taskVars, TypeOK
<1>1. ASSUME NEW a \in Task PROVE TokenInv(a)'
  <2>1. TokenInv(a) /\ token'[a] = token[a] /\ (a \in Measuring' <=> a \in Measuring)
    BY DEF TaskInv, Measuring
  <2>2. token[a].asked \in Nat /\ token[a].seen \in Nat /\ requests \in Nat /\ activations \in Nat
    BY DEF Token
  <2>3. a \in Measuring' /\ token'[a].found => \A t \in Live' : t > token'[a].asked
    BY <2>1, <2>2 DEF TokenInv
  <2> QED
    BY <2>1, <2>2, <2>3 DEF TokenInv
<1>2. ASSUME NEW a \in Task PROVE RunInv(a)'
  BY DEF TaskInv, RunInv
<1>3. ASSUME NEW a \in Task PROVE WaitInv(a)'
  BY DEF TaskInv, WaitInv, Idle
<1>4. LineInv'
  BY DEF LineInv
<1> QED
  BY <1>1, <1>2, <1>3, <1>4 DEF TaskInv

\* A chat goes: with the last one the waiting tasks are woken.
LEMMA ReleaseKeepsTasks ==
  ASSUME TypeOK, \A a \in Task : TaskInv(a), LineInv, Release, UNCHANGED <<taskVars, model, requests>>,
         Live' \subseteq Live
  PROVE  /\ (\A a \in Task : TaskInv(a)') /\ LineInv'
         /\ pc' \in [Task -> TaskStates] /\ active' \in Nat
<1> USE DEF Release, taskVars, TypeOK, TaskStates
<1>1. pc' \in [Task -> TaskStates] /\ active' \in Nat
  OBVIOUS
<1>2. \A a \in Task : /\ pc'[a] = pc[a] \/ (pc[a] = "waiting" /\ pc'[a] = "woken")
                      /\ pc'[a] = "waiting" => active' # 0
  OBVIOUS
<1>3. ASSUME NEW a \in Task PROVE TokenInv(a)'
  <2>1. TokenInv(a) /\ (a \in Measuring' <=> a \in Measuring)
    BY <1>2 DEF TaskInv, Measuring
  <2> QED
    BY <2>1 DEF TokenInv
<1>4. ASSUME NEW a \in Task PROVE RunInv(a)'
  BY <1>2 DEF TaskInv, RunInv
<1>5. ASSUME NEW a \in Task PROVE WaitInv(a)'
  <2>1. pc'[a] = "waiting" => ~ Idle'
    BY <1>2 DEF Idle
  <2>2. pc'[a] = "queued" => pc[a] = "queued"
    BY <1>2
  <2> QED
    BY <2>1, <2>2 DEF TaskInv, WaitInv
<1>6. LineInv'
  BY <1>2, InLine, SMTT(20) DEF LineInv
<1> QED
  BY <1>1, <1>3, <1>4, <1>5, <1>6 DEF TaskInv

\* A lease goes over to another hand, or the step is none of the gate's.
LEMMA QuietKeepsTasks ==
  ASSUME TypeOK, \A a \in Task : TaskInv(a), LineInv,
         UNCHANGED <<gateVars, waitVars, model, met>>, Live' \subseteq Live
  PROVE  (\A a \in Task : TaskInv(a)') /\ LineInv'
<1> USE DEF gateVars, waitVars
<1>1. ASSUME NEW a \in Task PROVE TokenInv(a)'
  BY DEF TaskInv, TokenInv, Measuring
<1>2. ASSUME NEW a \in Task PROVE RunInv(a)' /\ WaitInv(a)'
  BY DEF TaskInv, RunInv, WaitInv, Idle
<1>3. LineInv'
  BY DEF LineInv
<1> QED
  BY <1>1, <1>2, <1>3 DEF TaskInv

-----------------------------------------------------------------------------
(* The turns *)

\* What a step has to show; the tasks' durations are learnt from in Finish only.
Kept == TypeOK' /\ CountInv' /\ (\A a \in Task : TaskInv(a)') /\ LineInv' /\ samples' = samples

LEMMA BeginKeeps ==
  ASSUME IInv, NEW t \in Turn, Begin(t)
  PROVE  Kept
<1> USE DEF IInv
<1>1. /\ t = requests + 1 /\ requests' = t /\ lease' = [lease EXCEPT ![t] = "held"]
      /\ Acquire /\ UNCHANGED <<generating, generations, taskVars, model, samples>>
  BY DEF Begin
<1>2. /\ lease' \in [Turn -> LeaseStates] /\ lease'[t] = "held"
      /\ \A u \in Turn : u # t => lease'[u] = lease[u]
      /\ Live' = Live \cup {t}
  BY <1>1, LiveMoves DEF LeaseStates
<1>3. t \in Nat /\ requests \in Nat /\ t <= MaxTurns
  BY BoundsAssumption DEF Turn, TypeOK
<1>4. TypeOK'
  BY <1>1, <1>2, <1>3, BoundsAssumption DEF TypeOK, Acquire, Measuring, taskVars
<1>5. t \notin Live
  BY <1>1, <1>3 DEF CountInv, Live
<1>6. GateExact'
  <2>1. Cardinality(Live \cup {t}) = Cardinality(Live) + 1
    BY <1>5, Finite, FS_AddElement
  <2> QED
    BY <1>1, <1>2, <2>1, Finite DEF GateExact, CountInv, Acquire, TypeOK
<1>7. CountInv'
  BY <1>1, <1>2, <1>3, <1>6 DEF CountInv, Turn
<1>8. (\A a \in Task : TaskInv(a)') /\ LineInv'
  BY <1>1, <1>2, <1>3, AcquireKeepsTasks
<1> QED
  BY <1>1, <1>4, <1>7, <1>8 DEF Kept

LEMMA MoveKeeps ==
  ASSUME IInv, NEW t \in Turn, NEW from, NEW to, Move(t, from, to),
         <<from, to>> \in {<<"held", "handed">>, <<"handed", "streaming">>,
                            <<"expired", "late">>, <<"late", "over">>}
  PROVE  Kept
<1> USE DEF IInv
<1>1. /\ lease[t] = from /\ lease' = [lease EXCEPT ![t] = to] /\ to \in LeaseStates
      /\ UNCHANGED <<gateVars, generating, generations, waitVars, model, met, samples>>
  BY DEF Move, LeaseStates
<1>2. /\ lease' \in [Turn -> LeaseStates] /\ lease'[t] = to
      /\ \A u \in Turn : u # t => lease'[u] = lease[u]
      /\ Live' = Live
  BY <1>1, LiveMoves DEF Live
<1>3. TypeOK'
  BY <1>1, <1>2 DEF TypeOK, gateVars, waitVars
<1>4. CountInv'
  BY <1>1, <1>2 DEF CountInv, GateExact, gateVars
<1>5. (\A a \in Task : TaskInv(a)') /\ LineInv'
  BY <1>1, <1>2, QuietKeepsTasks
<1> QED
  BY <1>1, <1>3, <1>4, <1>5 DEF Kept

\* A lease that is released was counted.
LEMMA ReleasedKeeps ==
  ASSUME IInv, NEW t \in Turn, NEW from, NEW to, Released(t, from, to),
         <<from, to>> \in {<<"held", "over">>, <<"streaming", "over">>, <<"handed", "expired">>}
  PROVE  Kept
<1> USE DEF IInv
<1>1. /\ lease[t] = from /\ lease' = [lease EXCEPT ![t] = to] /\ to \in LeaseStates
      /\ Release /\ UNCHANGED <<requests, generating, generations, taskVars, model, samples>>
  BY DEF Released, LeaseStates
<1>2. /\ lease' \in [Turn -> LeaseStates] /\ lease'[t] = to
      /\ \A u \in Turn : u # t => lease'[u] = lease[u]
      /\ Live' = Live \ {t} /\ t \in Live
  BY <1>1, LiveMoves DEF Live
<1>3. /\ (\A a \in Task : TaskInv(a)') /\ LineInv'
      /\ pc' \in [Task -> TaskStates] /\ active' \in Nat
  BY <1>1, <1>2, ReleaseKeepsTasks
<1>4. TypeOK'
  BY <1>1, <1>2, <1>3 DEF TypeOK, Release, taskVars
<1>5. GateExact'
  <2>1. Cardinality(Live \ {t}) = Cardinality(Live) - 1
    BY <1>2, Finite, FS_RemoveElement
  <2>2. Cardinality(Live) # 0
    BY <1>2, Finite, FS_EmptySet
  <2>3. active' = IF active = 0 THEN 0 ELSE active - 1
    BY <1>1 DEF Release
  <2>4. active = Cardinality(Live) + Cardinality(generating)
    BY DEF CountInv, GateExact
  <2>5. active' = active - 1
    BY <2>2, <2>3, <2>4, Finite
  <2>6. active' = Cardinality(Live \ {t}) + Cardinality(generating)
    BY <2>1, <2>4, <2>5, Finite
  <2> QED
    BY <1>1, <1>2, <2>6 DEF GateExact
<1>6. CountInv'
  BY <1>1, <1>2, <1>5 DEF CountInv
<1> QED
  BY <1>1, <1>3, <1>4, <1>6 DEF Kept

LEMMA GenerationStartsKeeps ==
  ASSUME IInv, NEW t \in Turn, GenerationStarts(t)
  PROVE  Kept
<1> USE DEF IInv
<1>1. /\ t \notin generating /\ generating' = generating \cup {t} /\ generations' = generations + 1
      /\ Acquire /\ UNCHANGED <<requests, lease, taskVars, model, samples>>
  BY DEF GenerationStarts
<1>2. Live' = Live
  BY <1>1 DEF Live
<1>3. TypeOK'
  BY <1>1 DEF TypeOK, Acquire, Measuring, taskVars
<1>4. GateExact'
  <2>1. Cardinality(generating \cup {t}) = Cardinality(generating) + 1
    BY <1>1, Finite, FS_AddElement
  <2> QED
    BY <1>1, <1>2, <2>1, Finite DEF GateExact, CountInv, Acquire, TypeOK
<1>5. CountInv'
  BY <1>1, <1>4 DEF CountInv
<1>6. (\A a \in Task : TaskInv(a)') /\ LineInv'
  BY <1>1, <1>2, AcquireKeepsTasks
<1> QED
  BY <1>1, <1>3, <1>5, <1>6 DEF Kept

LEMMA GenerationEndsKeeps ==
  ASSUME IInv, NEW t \in Turn, GenerationEnds(t)
  PROVE  Kept
<1> USE DEF IInv
<1>1. /\ t \in generating /\ generating' = generating \ {t}
      /\ Release /\ UNCHANGED <<requests, lease, generations, taskVars, model, samples>>
  BY DEF GenerationEnds
<1>2. Live' = Live
  BY <1>1 DEF Live
<1>3. /\ (\A a \in Task : TaskInv(a)') /\ LineInv'
      /\ pc' \in [Task -> TaskStates] /\ active' \in Nat
  BY <1>1, <1>2, ReleaseKeepsTasks
<1>4. TypeOK'
  BY <1>1, <1>3 DEF TypeOK, Release, taskVars
<1>5. GateExact'
  <2>1. Cardinality(generating \ {t}) = Cardinality(generating) - 1
    BY <1>1, Finite, FS_RemoveElement
  <2>2. Cardinality(generating) # 0
    BY <1>1, Finite, FS_EmptySet
  <2>3. active' = IF active = 0 THEN 0 ELSE active - 1
    BY <1>1 DEF Release
  <2>4. active = Cardinality(Live) + Cardinality(generating)
    BY DEF CountInv, GateExact
  <2>5. active' = active - 1
    BY <2>2, <2>3, <2>4, Finite
  <2>6. active' = Cardinality(Live) + Cardinality(generating \ {t})
    BY <2>1, <2>4, <2>5, Finite
  <2> QED
    BY <1>1, <1>2, <2>6 DEF GateExact
<1>6. CountInv'
  BY <1>1, <1>5 DEF CountInv
<1> QED
  BY <1>1, <1>3, <1>4, <1>6 DEF Kept

LEMMA TurnStepKeeps ==
  ASSUME IInv, NEW t \in Turn, TurnStep(t)
  PROVE  Kept
<1>1. CASE Begin(t) \/ GenerationStarts(t) \/ GenerationEnds(t)
  BY <1>1, BeginKeeps, GenerationStartsKeeps, GenerationEndsKeeps
<1>2. CASE HandOver(t)
  BY <1>2, MoveKeeps DEF HandOver
<1>3. CASE StreamStarts(t)
  BY <1>3, MoveKeeps DEF StreamStarts
<1>4. CASE TurnEnds(t)
  BY <1>4, MoveKeeps, ReleasedKeeps DEF TurnEnds
<1>5. CASE Expire(t)
  BY <1>5, ReleasedKeeps DEF Expire
<1> QED
  BY <1>1, <1>2, <1>3, <1>4, <1>5 DEF TurnStep

-----------------------------------------------------------------------------
(* The tasks *)

\* A step of one task leaves the others as they are, and in their places.
Same(u) ==
  /\ pc'[u] = pc[u] /\ kind'[u] = kind[u] /\ token'[u] = token[u] /\ since'[u] = since[u]
  /\ yields'[u] = yields[u] /\ tries'[u] = tries[u] /\ askedOf'[u] = askedOf[u]
  /\ u \in met' <=> u \in met

\* Whoever else is in a line stays in it, and only a may come in.
LineMoves(a) ==
  \A m \in 0 .. MaxRebinds :
     /\ \A j \in 1 .. Len(line[m]) : line[m][j] # a =>
          \E i \in 1 .. Len(line'[m]) : line'[m][i] = line[m][j]
     /\ \A i \in 1 .. Len(line'[m]) : line'[m][i] # a =>
          \E j \in 1 .. Len(line[m]) : line'[m][i] = line[m][j]
     /\ \A i, j \in 1 .. Len(line'[m]) : line'[m][i] = line'[m][j] => i = j

\* How task a is in the lines after its step.
Placed(a) ==
  /\ \A m \in 0 .. MaxRebinds : \A i \in 1 .. Len(line'[m]) : line'[m][i] = a =>
       pc'[a] \in {"queued", "running"} /\ kind'[a] # "probe" /\ askedOf'[a] = m
  /\ TaskInv(a)'

NotInLine(a) == \A m \in 0 .. MaxRebinds : \A i \in 1 .. Len(line[m]) : line[m][i] # a

Others(a) == (\A u \in Task \ {a} : Same(u)) /\ LineMoves(a)

LEMMA OthersKeep ==
  ASSUME TypeOK, TypeOK', NEW a \in Task, UNCHANGED <<gateVars, turnVars>>, Others(a), Placed(a),
         \A u \in Task : TaskInv(u), LineInv
  PROVE  (\A u \in Task : TaskInv(u)') /\ LineInv'
<1> USE DEF gateVars, turnVars
<1>1. Live' = Live
  BY DEF Live
<1>2. ASSUME NEW u \in Task, u # a PROVE TaskInv(u)'
  <2>1. TaskInv(u) /\ Same(u)
    BY <1>2 DEF Others
  <2>2. TokenInv(u)'
    BY <1>1, <2>1 DEF TaskInv, TokenInv, Same, Measuring
  <2>3. RunInv(u)'
    BY <2>1 DEF TaskInv, RunInv, Same
  <2>4. WaitInv(u)'
    <3>1. pc'[u] = "waiting" => ~ Idle'
      BY <2>1 DEF TaskInv, WaitInv, Same, Idle
    <3>2. ASSUME pc'[u] = "queued"
          PROVE  \E i \in 1 .. Len(line'[askedOf'[u]]) : line'[askedOf'[u]][i] = u
      <4>1. askedOf[u] \in 0 .. MaxRebinds /\ askedOf'[u] = askedOf[u] /\ pc[u] = "queued"
        BY <2>1, <3>2, BoundsAssumption, SMTT(20) DEF TypeOK, Same
      <4>2. PICK j \in 1 .. Len(line[askedOf[u]]) : line[askedOf[u]][j] = u
        BY <2>1, <4>1 DEF TaskInv, WaitInv
      <4> QED
        BY <1>2, <4>1, <4>2 DEF Others, LineMoves
    <3> QED
      BY <3>1, <3>2 DEF WaitInv
  <2> QED
    BY <2>2, <2>3, <2>4 DEF TaskInv
<1>3. LineInv'
  <2>1. ASSUME NEW m \in 0 .. MaxRebinds, NEW i \in 1 .. Len(line'[m])
        PROVE  /\ pc'[line'[m][i]] \in {"queued", "running"} /\ kind'[line'[m][i]] # "probe"
               /\ askedOf'[line'[m][i]] = m
    <3>1. CASE line'[m][i] = a
      BY <3>1 DEF Placed
    <3>2. CASE line'[m][i] # a
      <4>1. PICK j \in 1 .. Len(line[m]) : line'[m][i] = line[m][j]
        BY <3>2 DEF Others, LineMoves
      <4>2. line[m][j] \in Task \ {a}
        BY <3>2, <4>1, InLine
      <4>3. Same(line[m][j])
        BY <4>2 DEF Others
      <4> QED
        BY <4>1, <4>3 DEF LineInv, Same
    <3> QED
      BY <3>1, <3>2
  <2> QED
    BY <2>1 DEF LineInv, Others, LineMoves
<1> QED
  BY <1>2, <1>3 DEF Placed

\* At its dispatch a task that was claimed has found what its token tells of.
LEMMA DispatchEffect ==
  ASSUME TypeOK, NEW a \in Task, NEW tk \in Token, Dispatch(a, tk), UNCHANGED <<gateVars, model>>,
         kind'[a] \in Kinds, tries'[a] \in 0 .. MaxPreemptions
  PROVE  /\ pc' \in [Task -> TaskStates] /\ since' \in [Task -> 0 .. requests'] /\ yields' \in [Task -> BOOLEAN]
         /\ \A u \in Task \ {a} : pc'[u] = pc[u] /\ since'[u] = since[u] /\ yields'[u] = yields[u]
         /\ pc'[a] = "running" /\ since'[a] = requests
         /\ kind'[a] = "claim" /\ ~ yields'[a] => tk.found /\ requests = tk.asked
         /\ kind'[a] = "probe" /\ yields'[a] => tries'[a] < MaxPreemptions
<1> DEFINE cut == \/ kind'[a] = "aux"
                  \/ kind'[a] = "claim" /\ ~ Claimable(tk)
                  \/ kind'[a] = "probe" /\ tries'[a] < MaxPreemptions
<1>1. /\ pc' = [pc EXCEPT ![a] = "running"] /\ since' = [since EXCEPT ![a] = requests]
      /\ yields' = [yields EXCEPT ![a] = cut]
  BY DEF Dispatch
<1>2. cut \in BOOLEAN
  OBVIOUS
<1> HIDE DEF cut
<1>3. /\ pc' \in [Task -> TaskStates] /\ since' \in [Task -> 0 .. requests'] /\ yields' \in [Task -> BOOLEAN]
      /\ \A u \in Task \ {a} : pc'[u] = pc[u] /\ since'[u] = since[u] /\ yields'[u] = yields[u]
      /\ pc'[a] = "running" /\ since'[a] = requests /\ yields'[a] = cut
  BY <1>1, <1>2 DEF TypeOK, TaskStates, gateVars
<1> QED
  BY <1>3 DEF cut, Claimable

\* Who has a token, and is not in a line yet.
LEMMA ProceedKeeps ==
  ASSUME IInv, NEW a \in Task, Proceed(a), NotInLine(a),
         UNCHANGED <<gateVars, turnVars, model, samples>>,
         kind' \in [Task -> Kinds], tries' \in [Task -> 0 .. MaxPreemptions], calls' \in Nat,
         \A u \in Task \ {a} : kind'[u] = kind[u] /\ tries'[u] = tries[u]
  PROVE  Kept
<1> DEFINE tk == [found |-> Idle, asked |-> requests, seen |-> activations]
<1> USE DEF IInv, gateVars, turnVars
<1>1. /\ token' = [token EXCEPT ![a] = tk]
      /\ met' = IF Idle THEN met \ {a} ELSE met \cup {a}
      /\ \/ kind'[a] = "probe" /\ Dispatch(a, tk) /\ UNCHANGED <<askedOf, line>>
         \/ /\ kind'[a] # "probe"
            /\ askedOf' = [askedOf EXCEPT ![a] = model]
            /\ line' = [line EXCEPT ![model] = Append(@, a)]
            /\ \/ Dispatch(a, tk)
               \/ pc' = [pc EXCEPT ![a] = "queued"] /\ UNCHANGED <<since, yields>>
  BY DEF Proceed
<1>2. /\ tk \in Token /\ tk.asked = requests /\ tk.seen = activations /\ (tk.found <=> Idle)
      /\ kind'[a] \in Kinds /\ tries'[a] \in 0 .. MaxPreemptions
  <2>1. Idle \in BOOLEAN /\ requests \in Nat /\ activations \in Nat
    BY BoundsAssumption DEF TypeOK, Idle
  <2>2. kind'[a] \in Kinds /\ tries'[a] \in 0 .. MaxPreemptions
    OBVIOUS
  <2>3. tk \in Token
    BY <2>1, Zenon DEF Token
  <2> QED
    BY <2>1, <2>2, <2>3
<1> HIDE DEF tk
<1>3. /\ token' \in [Task -> Token] /\ token'[a] = tk /\ met' \subseteq Task
      /\ \A u \in Task \ {a} : token'[u] = token[u] /\ (u \in met' <=> u \in met)
  BY <1>1, <1>2 DEF TypeOK
<1>4. /\ pc' \in [Task -> TaskStates] /\ since' \in [Task -> 0 .. requests'] /\ yields' \in [Task -> BOOLEAN]
      /\ \A u \in Task \ {a} : pc'[u] = pc[u] /\ since'[u] = since[u] /\ yields'[u] = yields[u]
      /\ pc'[a] \in {"queued", "running"}
      /\ pc'[a] = "running" => since'[a] = requests
      /\ pc'[a] = "running" /\ kind'[a] = "claim" /\ ~ yields'[a] => tk.found /\ requests = tk.asked
      /\ pc'[a] = "running" /\ kind'[a] = "probe" /\ yields'[a] => tries'[a] < MaxPreemptions
  <2>1. CASE Dispatch(a, tk)
    BY <1>2, <2>1, DispatchEffect
  <2>2. CASE pc' = [pc EXCEPT ![a] = "queued"] /\ UNCHANGED <<since, yields>>
    BY <2>2 DEF TypeOK, TaskStates
  <2> QED
    BY <1>1, <2>1, <2>2
<1>5. /\ askedOf' \in [Task -> 0 .. model'] /\ line' \in [0 .. MaxRebinds -> Seq(Task)]
      /\ \A u \in Task \ {a} : askedOf'[u] = askedOf[u]
      /\ pc'[a] = "queued" =>
           askedOf'[a] = model /\ Len(line'[model]) = Len(line[model]) + 1 /\ line'[model][Len(line'[model])] = a
      /\ \A m \in 0 .. MaxRebinds : \A i \in 1 .. Len(line'[m]) : line'[m][i] = a =>
           kind'[a] # "probe" /\ askedOf'[a] = m
      /\ LineMoves(a)
  <2>1. CASE kind'[a] = "probe" /\ Dispatch(a, tk) /\ UNCHANGED <<askedOf, line>>
    <3>1. pc'[a] = "running"
      BY <1>2, <2>1, DispatchEffect
    <3>2. LineMoves(a)
      BY <2>1 DEF LineMoves, LineInv
    <3> QED
      BY <2>1, <3>1, <3>2 DEF TypeOK, NotInLine
  <2>2. CASE /\ kind'[a] # "probe"
             /\ askedOf' = [askedOf EXCEPT ![a] = model]
             /\ line' = [line EXCEPT ![model] = Append(@, a)]
    <3>1. /\ model \in 0 .. MaxRebinds /\ model \in 0 .. model /\ line[model] \in Seq(Task)
      <4>1. model \in 0 .. MaxRebinds /\ line \in [0 .. MaxRebinds -> Seq(Task)]
        BY DEF TypeOK
      <4>2. line[model] \in Seq(Task)
        BY <4>1
      <4> QED
        BY <4>1, <4>2, BoundsAssumption
    <3>2. /\ Append(line[model], a) \in Seq(Task) /\ Len(Append(line[model], a)) = Len(line[model]) + 1
          /\ Append(line[model], a)[Len(line[model]) + 1] = a
          /\ \A i \in 1 .. Len(line[model]) : Append(line[model], a)[i] = line[model][i]
          /\ Len(line[model]) \in Nat
      BY <3>1
    <3>3. /\ askedOf' \in [Task -> 0 .. model'] /\ line' \in [0 .. MaxRebinds -> Seq(Task)]
          /\ \A u \in Task \ {a} : askedOf'[u] = askedOf[u]
          /\ askedOf'[a] = model /\ line'[model] = Append(line[model], a)
          /\ \A m \in 0 .. MaxRebinds : m # model => line'[m] = line[m]
      BY <2>2, <3>1, <3>2 DEF TypeOK
    <3>4. \A m \in 0 .. MaxRebinds : \A i \in 1 .. Len(line'[m]) : line'[m][i] = a => m = model
      BY <3>3 DEF NotInLine
    <3>5. ASSUME NEW m \in 0 .. MaxRebinds
          PROVE  /\ \A j \in 1 .. Len(line[m]) : line[m][j] # a =>
                      \E i \in 1 .. Len(line'[m]) : line'[m][i] = line[m][j]
                 /\ \A i \in 1 .. Len(line'[m]) : line'[m][i] # a =>
                      \E j \in 1 .. Len(line[m]) : line'[m][i] = line[m][j]
                 /\ \A i, j \in 1 .. Len(line'[m]) : line'[m][i] = line'[m][j] => i = j
      <4>1. /\ \A i, j \in 1 .. Len(line[m]) : line[m][i] = line[m][j] => i = j
            /\ \A i \in 1 .. Len(line[m]) : line[m][i] # a
        BY DEF LineInv, NotInLine
      <4>2. CASE m # model
        <5>1. line'[m] = line[m]
          BY <3>3, <4>2
        <5> QED
          BY <4>1, <5>1
      <4>3. CASE m = model
        <5>1. /\ Len(line'[m]) = Len(line[m]) + 1 /\ line'[m][Len(line[m]) + 1] = a
              /\ \A i \in 1 .. Len(line[m]) : line'[m][i] = line[m][i]
              /\ Len(line[m]) \in Nat
          BY <3>2, <3>3, <4>3
        <5>2. ASSUME NEW j \in 1 .. Len(line[m])
              PROVE  \E i \in 1 .. Len(line'[m]) : line'[m][i] = line[m][j]
          <6>1. j \in 1 .. Len(line'[m]) /\ line'[m][j] = line[m][j]
            BY <5>1
          <6> QED
            BY <6>1
        <5>3. ASSUME NEW i \in 1 .. Len(line'[m]), line'[m][i] # a
              PROVE  \E j \in 1 .. Len(line[m]) : line'[m][i] = line[m][j]
          <6>1. i \in 1 .. Len(line[m]) /\ line'[m][i] = line[m][i]
            BY <5>1, <5>3
          <6> QED
            BY <6>1
        <5>4. ASSUME NEW i \in 1 .. Len(line'[m]), NEW j \in 1 .. Len(line'[m]), line'[m][i] = line'[m][j]
              PROVE  i = j
          <6> DEFINE n == Len(line[m])
                     s == line[m]
                     w == line'[m]
          <6>1. /\ n \in Nat /\ i \in 1 .. n + 1 /\ j \in 1 .. n + 1 /\ w[n + 1] = a /\ w[i] = w[j]
                /\ \A k \in 1 .. n : w[k] = s[k] /\ s[k] # a
                /\ \A k, l \in 1 .. n : s[k] = s[l] => k = l
            BY <4>1, <5>1, <5>4
          <6> HIDE DEF n, s, w
          <6>2. CASE i \in 1 .. n /\ j \in 1 .. n
            <7>1. s[i] = s[j]
              BY <6>1, <6>2
            <7> QED
              BY <6>1, <6>2, <7>1
          <6>3. CASE i = n + 1 /\ j \in 1 .. n
            <7>1. s[j] = a
              BY <6>1, <6>3
            <7> QED
              BY <6>1, <6>3, <7>1
          <6>4. CASE i \in 1 .. n /\ j = n + 1
            <7>1. s[i] = a
              BY <6>1, <6>4
            <7> QED
              BY <6>1, <6>4, <7>1
          <6> QED
            BY <6>1, <6>2, <6>3, <6>4
        <5> QED
          BY <5>2, <5>3, <5>4
      <4> QED
        BY <4>2, <4>3
    <3>6. LineMoves(a)
      BY <3>5 DEF LineMoves
    <3> QED
      BY <2>2, <3>2, <3>3, <3>4, <3>6
  <2> QED
    BY <1>1, <2>1, <2>2
<1>6. TypeOK'
  BY <1>3, <1>4, <1>5 DEF TypeOK
<1>7. Others(a)
  BY <1>3, <1>4, <1>5 DEF Others, Same
<1>8. TokenInv(a)'
  <2>1. token'[a].seen = activations' /\ token'[a].asked = requests'
    BY <1>2, <1>3
  <2>2. a \in met' => ~ token'[a].found
    BY <1>1, <1>2, <1>3
  <2>3. token'[a].found => Live' = {}
    BY <1>2, <1>3, IdleIsEmpty DEF CountInv, Live
  <2> QED
    BY <2>1, <2>2, <2>3 DEF TokenInv, TypeOK
<1>9. RunInv(a)'
  BY <1>2, <1>3, <1>4 DEF RunInv
<1>10. WaitInv(a)'
  <2>1. ASSUME pc'[a] = "queued"
        PROVE  \E i \in 1 .. Len(line'[askedOf'[a]]) : line'[askedOf'[a]][i] = a
    <3>1. line[model] \in Seq(Task)
      BY DEF TypeOK
    <3>2. Len(line[model]) \in Nat
      BY <3>1
    <3> QED
      BY <1>5, <2>1, <3>2
  <2> QED
    BY <1>4, <2>1 DEF WaitInv
<1>11. Placed(a)
  BY <1>4, <1>5, <1>8, <1>9, <1>10 DEF Placed, TaskInv
<1>12. (\A u \in Task : TaskInv(u)') /\ LineInv'
  BY <1>6, <1>7, <1>11, OthersKeep
<1>13. CountInv'
  BY DEF CountInv, GateExact, Live
<1> QED
  BY <1>6, <1>12, <1>13 DEF Kept

\* Who waits for the idle event, or goes on at once, is in no line yet.
LEMMA WaitForIdleKeeps ==
  ASSUME IInv, NEW a \in Task, WaitForIdle(a), NotInLine(a),
         UNCHANGED <<gateVars, turnVars, model, samples>>,
         kind' \in [Task -> Kinds], tries' \in [Task -> 0 .. MaxPreemptions], calls' \in Nat,
         \A u \in Task \ {a} : kind'[u] = kind[u] /\ tries'[u] = tries[u]
  PROVE  Kept
<1> USE DEF IInv
<1>1. CASE Proceed(a)
  BY <1>1, ProceedKeeps
<1>2. CASE /\ ~ Idle /\ pc' = [pc EXCEPT ![a] = "waiting"]
           /\ UNCHANGED <<token, since, yields, askedOf, line, met>>
  <2>1. /\ pc' \in [Task -> TaskStates] /\ pc'[a] = "waiting"
        /\ \A u \in Task \ {a} : pc'[u] = pc[u]
    BY <1>2 DEF TypeOK, TaskStates
  <2>2. TypeOK'
    BY <1>2, <2>1 DEF TypeOK, gateVars, turnVars
  <2>3. Others(a)
    BY <1>2, <2>1 DEF Others, Same, LineMoves, LineInv
  <2>4. TaskInv(a)'
    BY <1>2, <2>1 DEF TaskInv, TokenInv, RunInv, WaitInv, Measuring, gateVars, Idle
  <2>5. Placed(a)
    BY <1>2, <2>4 DEF Placed, NotInLine
  <2>6. (\A u \in Task : TaskInv(u)') /\ LineInv'
    BY <2>2, <2>3, <2>5, OthersKeep
  <2>7. CountInv'
    BY DEF CountInv, GateExact, Live, gateVars, turnVars
  <2> QED
    BY <2>2, <2>6, <2>7 DEF Kept
<1> QED
  BY <1>1, <1>2 DEF WaitForIdle

\* Who is at neither a lock nor a generation is in no line.
LEMMA NotThere ==
  ASSUME IInv, NEW a \in Task, pc[a] \notin {"queued", "running"} \/ kind[a] = "probe"
  PROVE  NotInLine(a)
BY DEF NotInLine, IInv, LineInv

\* The call of a task is over, however it ends: it leaves its line.
LEMMA OverKeeps ==
  ASSUME IInv, NEW a \in Task, Over(a), UNCHANGED <<gateVars, turnVars, calls, model>>,
         samples' \subseteq {"alone", "met"}
  PROVE  TypeOK' /\ CountInv' /\ (\A u \in Task : TaskInv(u)') /\ LineInv'
<1> USE DEF IInv, gateVars, turnVars
<1>1. /\ pc' = [pc EXCEPT ![a] = "idle"] /\ line' = [m \in DOMAIN line |-> Without(line[m], a)]
      /\ kind' = [kind EXCEPT ![a] = "aux"] /\ token' = [token EXCEPT ![a] = NoToken]
      /\ since' = [since EXCEPT ![a] = 0] /\ yields' = [yields EXCEPT ![a] = TRUE]
      /\ tries' = [tries EXCEPT ![a] = 0] /\ askedOf' = [askedOf EXCEPT ![a] = 0] /\ met' = met \ {a}
  BY DEF Over
<1>2. 0 \in 0 .. requests /\ 0 \in 0 .. MaxPreemptions /\ 0 \in 0 .. model /\ NoToken \in Token
  BY BoundsAssumption DEF TypeOK, Token, NoToken
<1>3. /\ pc' \in [Task -> TaskStates] /\ kind' \in [Task -> Kinds] /\ token' \in [Task -> Token]
      /\ since' \in [Task -> 0 .. requests'] /\ yields' \in [Task -> BOOLEAN]
      /\ tries' \in [Task -> 0 .. MaxPreemptions] /\ askedOf' \in [Task -> 0 .. model']
      /\ met' \subseteq Task
  BY <1>1, <1>2 DEF TypeOK, TaskStates, Kinds
<1>4. \A u \in Task \ {a} : Same(u)
  BY <1>1 DEF TypeOK, Same
<1>5. /\ line' \in [0 .. MaxRebinds -> Seq(Task)] /\ LineMoves(a)
      /\ \A m \in 0 .. MaxRebinds : \A i \in 1 .. Len(line'[m]) : line'[m][i] # a
  <2>1. \A m \in 0 .. MaxRebinds : line'[m] = Without(line[m], a)
    BY <1>1 DEF TypeOK
  <2>2. ASSUME NEW m \in 0 .. MaxRebinds
        PROVE  /\ line'[m] \in Seq(Task)
               /\ \A i \in 1 .. Len(line'[m]) :
                    line'[m][i] # a /\ \E j \in 1 .. Len(line[m]) : line'[m][i] = line[m][j]
               /\ \A j \in 1 .. Len(line[m]) : line[m][j] # a =>
                    \E i \in 1 .. Len(line'[m]) : line'[m][i] = line[m][j]
               /\ \A i, j \in 1 .. Len(line'[m]) : line'[m][i] = line'[m][j] => i = j
    <3>1. line[m] \in Seq(Task) /\ \A i, j \in 1 .. Len(line[m]) : line[m][i] = line[m][j] => i = j
      BY DEF TypeOK, LineInv
    <3> DEFINE s == line[m]
    <3>2. s \in Seq(Task) /\ \A i, j \in 1 .. Len(s) : s[i] = s[j] => i = j
      BY <3>1
    <3> HIDE DEF s
    <3>3. /\ Without(s, a) \in Seq(Task)
          /\ \A i \in 1 .. Len(Without(s, a)) :
               Without(s, a)[i] # a /\ \E j \in 1 .. Len(s) : Without(s, a)[i] = s[j]
          /\ \A j \in 1 .. Len(s) : s[j] # a =>
               \E i \in 1 .. Len(Without(s, a)) : Without(s, a)[i] = s[j]
          /\ \A i, j \in 1 .. Len(Without(s, a)) : Without(s, a)[i] = Without(s, a)[j] => i = j
      BY <3>2, WithoutProperties
    <3>4. line'[m] = Without(s, a) /\ line[m] = s
      BY <2>1 DEF s
    <3> DEFINE w == Without(s, a)
    <3> HIDE DEF w
    <3>5. line'[m] = w
      BY <3>4 DEF w
    <3> QED
      BY <3>3, <3>4, <3>5 DEF w
  <2> QED
    BY <1>1, <2>2 DEF TypeOK, LineMoves
<1>6. TypeOK'
  BY <1>3, <1>5 DEF TypeOK
<1>7. /\ pc'[a] = "idle" /\ token'[a] = NoToken
  BY <1>1 DEF TypeOK
<1>8. TaskInv(a)'
  BY <1>6, <1>7 DEF TaskInv, TokenInv, RunInv, WaitInv, Measuring, NoToken, TypeOK
<1>9. Others(a) /\ Placed(a)
  BY <1>4, <1>5, <1>8 DEF Others, Placed
<1>10. (\A u \in Task : TaskInv(u)') /\ LineInv'
  BY <1>6, <1>9, OthersKeep
<1>11. CountInv'
  BY DEF CountInv, GateExact, Live
<1> QED
  BY <1>6, <1>10, <1>11

LEMMA AskKeeps ==
  ASSUME IInv, NEW a \in Task, NEW k \in Kinds, Ask(a, k)
  PROVE  Kept
<1>1. /\ pc[a] = "idle" /\ kind' = [kind EXCEPT ![a] = k] /\ calls' = calls + 1
      /\ UNCHANGED <<gateVars, turnVars, tries, model, samples>> /\ WaitForIdle(a)
  BY DEF Ask
<1>2. /\ kind' \in [Task -> Kinds] /\ tries' \in [Task -> 0 .. MaxPreemptions] /\ calls' \in Nat
      /\ \A u \in Task \ {a} : kind'[u] = kind[u] /\ tries'[u] = tries[u]
  BY <1>1 DEF IInv, TypeOK
<1> QED
  BY <1>1, <1>2, NotThere, WaitForIdleKeeps

LEMMA WaitEndsKeeps ==
  ASSUME IInv, NEW a \in Task, Resume(a) \/ GiveUpWaiting(a)
  PROVE  Kept
<1>1. /\ pc[a] \in {"woken", "waiting"} /\ kind' = kind /\ tries' = tries /\ calls' = calls /\ Proceed(a)
      /\ UNCHANGED <<gateVars, turnVars, model, samples>>
  BY DEF Resume, GiveUpWaiting
<1>2. kind' \in [Task -> Kinds] /\ tries' \in [Task -> 0 .. MaxPreemptions] /\ calls' \in Nat
  BY <1>1 DEF IInv, TypeOK
<1> QED
  BY <1>1, <1>2, NotThere, ProceedKeeps

\* The lock comes to the task while the token is the one it read before.
LEMMA TakeLockKeeps ==
  ASSUME IInv, NEW a \in Task, TakeLock(a)
  PROVE  Kept
<1> USE DEF IInv, gateVars, turnVars
<1>1. /\ pc[a] = "queued" /\ kind' = kind /\ tries' = tries /\ Dispatch(a, token[a])
      /\ UNCHANGED <<gateVars, turnVars, token, calls, model, askedOf, line, met, samples>>
  BY DEF TakeLock
<1>2. token[a] \in Token /\ kind'[a] \in Kinds /\ tries'[a] \in 0 .. MaxPreemptions
  BY <1>1 DEF TypeOK
<1>3. /\ pc' \in [Task -> TaskStates] /\ since' \in [Task -> 0 .. requests'] /\ yields' \in [Task -> BOOLEAN]
      /\ \A u \in Task \ {a} : pc'[u] = pc[u] /\ since'[u] = since[u] /\ yields'[u] = yields[u]
      /\ pc'[a] = "running" /\ since'[a] = requests
      /\ kind'[a] = "claim" /\ ~ yields'[a] => token[a].found /\ requests = token[a].asked
      /\ kind'[a] = "probe" /\ yields'[a] => tries'[a] < MaxPreemptions
  BY <1>1, <1>2, DispatchEffect
<1>4. TypeOK'
  BY <1>1, <1>3 DEF TypeOK
<1>5. Others(a)
  BY <1>1, <1>3 DEF Others, Same, LineMoves, LineInv
<1>6. TaskInv(a)'
  <2>1. TokenInv(a)'
    BY <1>1 DEF TaskInv, TokenInv, Measuring, Live
  <2> QED
    BY <1>1, <1>3, <2>1 DEF TaskInv, RunInv, WaitInv
<1>7. Placed(a)
  BY <1>1, <1>3, <1>6 DEF Placed, LineInv
<1>8. (\A u \in Task : TaskInv(u)') /\ LineInv'
  BY <1>1, <1>4, <1>5, <1>7, OthersKeep
<1>9. CountInv'
  BY <1>1 DEF CountInv, GateExact, Live
<1> QED
  BY <1>1, <1>4, <1>8, <1>9 DEF Kept

\* What is learnt was measured from one idle gate to the next, with no chat between.
LEMMA FinishKeeps ==
  ASSUME IInv, NEW a \in Task, NEW learns \in BOOLEAN, Finish(a, learns)
  PROVE  IInv'
<1>1. /\ pc[a] = "running" /\ Over(a) /\ UNCHANGED <<gateVars, turnVars, calls, model>>
      /\ samples' = IF learns /\ kind[a] # "probe" /\ ~ Contended(a)
                      THEN samples \cup {IF a \in met THEN "met" ELSE "alone"}
                      ELSE samples
  BY DEF Finish
<1>2. ASSUME ~ Contended(a) PROVE a \notin met
  <2>1. token[a].found /\ activations = token[a].seen
    BY <1>2 DEF Contended
  <2>2. a \in Measuring /\ TokenInv(a) /\ activations \in Nat
    BY <1>1 DEF Measuring, IInv, TaskInv, TypeOK
  <2> QED
    BY <2>1, <2>2 DEF TokenInv
<1>3. samples' \subseteq {"alone"}
  BY <1>1, <1>2 DEF IInv, LearnsAlone
<1>4. TypeOK' /\ CountInv' /\ (\A u \in Task : TaskInv(u)') /\ LineInv'
  BY <1>1, <1>3, OverKeeps
<1> QED
  BY <1>3, <1>4 DEF IInv, LearnsAlone

LEMMA PreemptKeeps ==
  ASSUME IInv, NEW a \in Task, Preempt(a)
  PROVE  Kept
<1>1. /\ pc[a] = "running" /\ yields[a] /\ UNCHANGED <<gateVars, turnVars, calls, model, samples>>
      /\ \/ kind[a] = "probe" /\ kind' = kind /\ tries' = [tries EXCEPT ![a] = @ + 1] /\ WaitForIdle(a)
         \/ Over(a)
  BY DEF Preempt
<1>2. CASE Over(a)
  BY <1>1, <1>2, OverKeeps DEF IInv, Kept, TypeOK
<1>3. CASE kind[a] = "probe" /\ kind' = kind /\ tries' = [tries EXCEPT ![a] = @ + 1] /\ WaitForIdle(a)
  <2>1. tries[a] \in 0 .. MaxPreemptions /\ tries[a] < MaxPreemptions /\ MaxPreemptions \in Nat
    BY <1>1, <1>3, BoundsAssumption DEF IInv, TypeOK, TaskInv, RunInv
  <2>2. tries[a] + 1 \in 0 .. MaxPreemptions
    BY <2>1
  <2>3. /\ kind' \in [Task -> Kinds] /\ tries' \in [Task -> 0 .. MaxPreemptions] /\ calls' \in Nat
        /\ \A u \in Task \ {a} : kind'[u] = kind[u] /\ tries'[u] = tries[u]
    BY <1>1, <1>3, <2>2 DEF IInv, TypeOK
  <2> QED
    BY <1>1, <1>3, <2>3, NotThere, WaitForIdleKeeps
<1> QED
  BY <1>1, <1>2, <1>3

LEMMA CancelKeeps ==
  ASSUME IInv, NEW a \in Task, Cancel(a)
  PROVE  Kept
<1>1. Over(a) /\ UNCHANGED <<gateVars, turnVars, calls, model, samples>>
  BY DEF Cancel
<1> QED
  BY <1>1, OverKeeps DEF IInv, Kept, TypeOK

\* The tasks at the old model's lock keep their line.
LEMMA RebindKeeps ==
  ASSUME IInv, Rebind
  PROVE  Kept
<1> USE DEF IInv, gateVars, turnVars, waitVars
<1>1. model < MaxRebinds /\ model' = model + 1 /\ UNCHANGED <<gateVars, turnVars, waitVars, met, samples>>
  BY DEF Rebind
<1>2. model' \in 0 .. MaxRebinds /\ \A u \in Task : askedOf'[u] \in 0 .. model'
  BY <1>1, BoundsAssumption DEF TypeOK
<1>3. askedOf' \in [Task -> 0 .. model']
  BY <1>1, <1>2 DEF TypeOK
<1>4. TypeOK'
  BY <1>1, <1>2, <1>3 DEF TypeOK
<1>5. Live' = Live
  BY <1>1 DEF Live
<1>6. CountInv'
  BY <1>1, <1>5 DEF CountInv, GateExact
<1>7. ASSUME NEW u \in Task PROVE TaskInv(u)'
  BY <1>1, <1>5 DEF TaskInv, TokenInv, RunInv, WaitInv, Measuring, Idle
<1>8. LineInv'
  BY <1>1 DEF LineInv
<1> QED
  BY <1>1, <1>4, <1>6, <1>7, <1>8 DEF Kept

-----------------------------------------------------------------------------
(* The invariant *)

LEMMA InitHolds ==
  ASSUME Init
  PROVE  IInv
<1> USE BoundsAssumption DEF Init
<1>1. TypeOK
  <2>1. /\ 0 \in 0 .. MaxTurns /\ 0 \in 0 .. requests /\ 0 \in 0 .. MaxPreemptions
        /\ 0 \in 0 .. MaxRebinds /\ 0 \in 0 .. model /\ NoToken \in Token /\ << >> \in Seq(Task)
    BY DEF Token, NoToken
  <2> QED
    BY <2>1 DEF TypeOK, LeaseStates, TaskStates, Kinds
<1>2. CountInv
  <2>1. Live = {} /\ generating = {}
    BY DEF Live
  <2> QED
    BY <2>1, FS_EmptySet DEF CountInv, GateExact
<1>3. ASSUME NEW a \in Task PROVE TaskInv(a)
  BY DEF TaskInv, TokenInv, RunInv, WaitInv, Measuring, NoToken
<1>4. LineInv
  BY DEF LineInv
<1> QED
  BY <1>1, <1>2, <1>3, <1>4 DEF IInv, LearnsAlone

LEMMA StepHolds ==
  ASSUME IInv, [Next]_vars
  PROVE  IInv'
<1>1. ASSUME Kept PROVE IInv'
  BY <1>1 DEF IInv, Kept, LearnsAlone
<1>2. ASSUME NEW t \in Turn, TurnStep(t) PROVE IInv'
  BY <1>1, <1>2, TurnStepKeeps
<1>3. ASSUME NEW a \in Task, TaskStep(a) PROVE IInv'
  <2>1. CASE \E k \in Kinds : Ask(a, k)
    BY <1>1, <2>1, AskKeeps
  <2>2. CASE Resume(a) \/ GiveUpWaiting(a)
    BY <1>1, <2>2, WaitEndsKeeps
  <2>3. CASE TakeLock(a)
    BY <1>1, <2>3, TakeLockKeeps
  <2>4. CASE \E learns \in BOOLEAN : Finish(a, learns)
    BY <2>4, FinishKeeps
  <2>5. CASE Preempt(a)
    BY <1>1, <2>5, PreemptKeeps
  <2>6. CASE Cancel(a)
    BY <1>1, <2>6, CancelKeeps
  <2> QED
    BY <1>3, <2>1, <2>2, <2>3, <2>4, <2>5, <2>6 DEF TaskStep
<1>4. CASE Rebind
  BY <1>1, <1>4, RebindKeeps
<1>5. CASE UNCHANGED vars
  <2>1. /\ UNCHANGED <<gateVars, waitVars, model, met>> /\ Live' = Live
        /\ UNCHANGED <<lease, generating, generations, samples>>
    BY <1>5 DEF vars, gateVars, waitVars, Live
  <2>2. TypeOK' /\ CountInv'
    BY <2>1 DEF IInv, TypeOK, CountInv, GateExact, gateVars, waitVars
  <2>3. (\A a \in Task : TaskInv(a)') /\ LineInv'
    BY <2>1, QuietKeepsTasks DEF IInv
  <2> QED
    BY <1>1, <2>1, <2>2, <2>3 DEF Kept
<1> QED
  BY <1>2, <1>3, <1>4, <1>5 DEF Next

LEMMA IInvHolds == Spec => []IInv
<1>1. Init => IInv
  BY InitHolds
<1>2. IInv /\ [Next]_vars => IInv'
  BY StepHolds
<1> QED
  BY <1>1, <1>2, PTL DEF Spec

-----------------------------------------------------------------------------
(* The theorems *)

\* The state of generation_gate.py and aux_client.py stays in its range; in
\* particular _active never falls below zero, and run_yielding_to_chat is not
\* cut off more than _YIELD_MAX_PREEMPTIONS times.
THEOREM GateTyped == FairSpec => []TypeOK
<1>1. IInv => TypeOK
  BY DEF IInv
<1> QED
  BY <1>1, IInvHolds, PTL DEF FairSpec

\* _active is the number of leases not released and of chat generations under
\* way, however handler, stream and timer of a turn end its lease.
THEOREM GateCountsExactly == FairSpec => []GateExact
<1>1. IInv => GateExact
  BY DEF IInv, CountInv
<1> QED
  BY <1>1, IInvHolds, PTL DEF FairSpec

\* A generation that was claimed to run to completion, and one that found the
\* gate idle and was dispatched at the request count of its token, run beside no
\* turn but those that came after its dispatch.
THEOREM BackgroundMakesRoom == FairSpec => []StartsBesideNoTurn
<1>1. ASSUME IInv PROVE StartsBesideNoTurn
  <2>1. ASSUME NEW a \in Task, pc[a] = "running",
               \/ kind[a] = "claim" /\ ~ yields[a]
               \/ kind[a] # "urgent" /\ token[a].found /\ token[a].asked = since[a],
               NEW t \in Live
        PROVE  t > since[a]
    <3>1. TokenInv(a) /\ RunInv(a)
      BY <1>1 DEF IInv, TaskInv
    <3>2. token[a].found /\ token[a].asked = since[a]
      BY <2>1, <3>1 DEF RunInv
    <3>3. a \in Measuring
      BY <2>1 DEF Measuring
    <3> QED
      BY <3>1, <3>2, <3>3 DEF TokenInv
  <2> QED
    BY <2>1 DEF StartsBesideNoTurn
<1> QED
  BY <1>1, IInvHolds, PTL DEF FairSpec

\* was_contended_since keeps every duration that a chat has stretched, even for
\* a moment, away from what the auxiliary client learns.
THEOREM OnlyQuietIsLearnt == FairSpec => []LearnsAlone
<1>1. IInv => LearnsAlone
  BY DEF IInv
<1> QED
  BY <1>1, IInvHolds, PTL DEF FairSpec

\* No wake-up is lost: who waits for the idle event waits for somebody, and the
\* lock a task is queued for is held, or about to be taken, by the first in line.
THEOREM WakeUpsAreKept == FairSpec => []NobodyForgotten
<1>1. ASSUME IInv PROVE NobodyForgotten
  <2>1. ASSUME NEW a \in Task, pc[a] = "queued"
        PROVE  /\ line[askedOf[a]] # << >>
               /\ pc[Head(line[askedOf[a]])] \in {"running", "queued"}
    <3> DEFINE s == line[askedOf[a]]
    <3>1. askedOf[a] \in 0 .. MaxRebinds
      BY <1>1, BoundsAssumption DEF IInv, TypeOK
    <3>2. s \in Seq(Task)
      BY <1>1, <3>1 DEF IInv, TypeOK
    <3>3. \E i \in 1 .. Len(s) : s[i] = a
      BY <1>1, <2>1 DEF IInv, TaskInv, WaitInv
    <3>4. s # << >> /\ Head(s) = s[1] /\ 1 \in 1 .. Len(s)
      BY <3>2, <3>3
    <3>5. pc[s[1]] \in {"queued", "running"}
      BY <1>1, <3>1, <3>4 DEF IInv, LineInv
    <3> QED
      BY <3>4, <3>5
  <2>2. \A a \in Task : pc[a] = "waiting" => ~ Idle
    BY <1>1 DEF IInv, TaskInv, WaitInv
  <2> QED
    BY <2>1, <2>2 DEF NobodyForgotten
<1> QED
  BY <1>1, IInvHolds, PTL DEF FairSpec
=============================================================================
