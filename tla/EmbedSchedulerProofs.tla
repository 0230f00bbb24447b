------------------------ MODULE EmbedSchedulerProofs ------------------------
(***************************************************************************)
(* The safety properties of EmbedScheduler for any finite set of callers   *)
(* and any bounds.  The two about waiting rest on the capacity of the      *)
(* process, 2: with a larger one a start could open the way to another     *)
(* level without waking it.                                                *)
(***************************************************************************)
EXTENDS EmbedScheduler, FiniteSetTheorems, TLAPS

Busy(where) == {d \in Caller : where[d] = "running"}
InQueue(where, level, l) == {d \in Caller : where[d] \in {"parked", "woken"} /\ level[d] = l}

\* A caller that is queued or on the server still has a chunk to send.
ChunkPending == \A c \in Caller : pc[c] \in {"parked", "woken", "running"} => chunks[c] >= 1

\* Background work never takes the last place.
ReserveKept == Capacity > 1 => Cardinality(LowRunning) < Capacity

CountInv == TypeOK /\ ChunkPending /\ CountersExact

IInv == CountInv /\ NoLostWakeup /\ ReserveKept

-----------------------------------------------------------------------------
\* Every set of callers is finite.
LEMMA CallersFinite ==
  ASSUME NEW S, S \subseteq Caller
  PROVE  IsFiniteSet(S) /\ Cardinality(S) \in Nat
BY CallerAssumption, FS_Subset, FS_CardinalityType

\* Adding a caller to a set of callers that lacks it counts one more.
LEMMA OneMore ==
  ASSUME NEW S, S \subseteq Caller, NEW c \in Caller, c \notin S
  PROVE  Cardinality(S \cup {c}) = Cardinality(S) + 1
BY CallersFinite, FS_AddElement

\* Removing a member counts one less, and there was one to remove.
LEMMA OneLess ==
  ASSUME NEW S, S \subseteq Caller, NEW c \in S
  PROVE  Cardinality(S \ {c}) = Cardinality(S) - 1 /\ Cardinality(S) >= 1
<1>1. IsFiniteSet(S \ {c}) /\ Cardinality(S \ {c}) = Cardinality(S) - 1
  BY CallersFinite, FS_RemoveElement
<1>2. Cardinality(S \ {c}) \in Nat /\ Cardinality(S) \in Nat
  BY CallersFinite
<1> QED BY <1>1, <1>2

\* Waking every parked caller moves nobody off the server or out of the queue.
LEMMA NotifiedCounts ==
  ASSUME TypeOK
  PROVE  /\ Notified \in [Caller -> States]
         /\ Busy(Notified) = Busy(pc)
         /\ \A l \in Levels : InQueue(Notified, prio, l) = InQueue(pc, prio, l)
         /\ \A c \in Caller : Notified[c] # "parked"
         /\ \A c \in Caller : pc[c] # "parked" => Notified[c] = pc[c]
BY DEF TypeOK, Notified, Busy, InQueue, States

\* JoinQueue keeps both counters exact when the caller was in neither set
\* and busy counts the others on the server.
LEMMA JoinCounts ==
  ASSUME TypeOK,
         NEW c \in Caller, NEW p \in Levels, NEW busy \in Nat,
         NEW where \in [Caller -> States],
         prio' \in [Caller -> Levels], prio'[c] = p,
         busy = Cardinality(Busy(where) \ {c}),
         \A l \in Levels : waiting[l] = Cardinality(InQueue(where, prio', l) \ {c}),
         JoinQueue(c, p, busy, where)
  PROVE  /\ inflight' \in Nat /\ waiting' \in [Levels -> Nat]
         /\ pc' \in [Caller -> States]
         /\ CountersExact'
<1> DEFINE R == Busy(where) \ {c}
           Q(l) == InQueue(where, prio', l) \ {c}
<1>0. /\ R \subseteq Caller /\ c \notin R
      /\ \A l \in Levels : Q(l) \subseteq Caller /\ c \notin Q(l)
  BY DEF Busy, InQueue
<1>1. CASE Admits(p, busy, Queued(p))
  <2>1. /\ inflight' = busy + 1 /\ waiting' = waiting
        /\ pc' = [where EXCEPT ![c] = "running"]
    BY <1>1 DEF JoinQueue
  <2>2. Running' = R \cup {c}
    BY <2>1 DEF Running, Busy
  <2>3. \A l \in Levels : Waiting(l)' = Q(l)
    BY <2>1 DEF Waiting, InQueue
  <2>4. inflight' = Cardinality(Running')
    BY <1>0, <2>1, <2>2, OneMore
  <2>5. \A l \in Levels : waiting'[l] = Cardinality(Waiting(l)')
    BY <2>1, <2>3
  <2>6. pc' \in [Caller -> States]
    BY <2>1 DEF States
  <2> QED BY <2>1, <2>4, <2>5, <2>6 DEF CountersExact, TypeOK
<1>2. CASE ~ Admits(p, busy, Queued(p))
  <2>1. /\ inflight' = busy /\ waiting' = Queued(p)
        /\ pc' = [where EXCEPT ![c] = "parked"]
    BY <1>2 DEF JoinQueue
  <2>2. Running' = R
    BY <2>1 DEF Running, Busy
  <2>3. \A l \in Levels : Waiting(l)' = IF l = p THEN Q(l) \cup {c} ELSE Q(l)
    BY <2>1 DEF Waiting, InQueue
  <2>4. \A l \in Levels : Cardinality(Q(l) \cup {c}) = Cardinality(Q(l)) + 1
    BY <1>0, OneMore
  <2>5. \A l \in Levels : waiting'[l] = IF l = p THEN waiting[l] + 1 ELSE waiting[l]
    BY <2>1 DEF Queued, TypeOK
  <2>6. \A l \in Levels : waiting'[l] = Cardinality(Waiting(l)')
    BY <2>3, <2>4, <2>5
  <2>7. pc' \in [Caller -> States] /\ waiting' \in [Levels -> Nat]
    BY <2>1 DEF States, Queued, TypeOK
  <2> QED BY <2>1, <2>2, <2>6, <2>7 DEF CountersExact
<1> QED BY <1>1, <1>2

\* A chunk leaves the server: counted exactly in all three continuations.
LEMMA AfterChunkCounts ==
  ASSUME CountInv, NEW c \in Caller, pc[c] = "running",
         NEW left \in 0 .. MaxChunks, AfterChunk(c, left), prio' = prio
  PROVE  /\ inflight' \in Nat /\ waiting' \in [Levels -> Nat]
         /\ pc' \in [Caller -> States]
         /\ CountersExact'
<1> USE DEF CountInv
<1>0. /\ Busy(pc) = Running /\ \A l \in Levels : InQueue(pc, prio, l) = Waiting(l)
  BY DEF Busy, InQueue, Running, Waiting
<1>1. /\ c \in Running /\ Running \subseteq Caller
      /\ \A l \in Levels : c \notin Waiting(l)
  BY DEF Running, Waiting
<1>2. /\ Cardinality(Running \ {c}) = inflight - 1 /\ inflight - 1 \in Nat
  <2>1. Cardinality(Running \ {c}) = Cardinality(Running) - 1 /\ Cardinality(Running) >= 1
    BY <1>1, OneLess
  <2>2. inflight = Cardinality(Running) /\ inflight \in Nat
    BY DEF CountersExact, TypeOK
  <2> QED BY <2>1, <2>2
<1>3. CASE inflight' = inflight - 1 /\ UNCHANGED waiting
           /\ (pc' = [Notified EXCEPT ![c] = "pausing"] \/ pc' = [Notified EXCEPT ![c] = "idle"])
  <2>1. Running' = Running \ {c} /\ \A l \in Levels : Waiting(l)' = Waiting(l)
    BY <1>0, <1>1, <1>3, NotifiedCounts DEF Running, Waiting, Busy, InQueue
  <2> QED BY <1>2, <1>3, <2>1, NotifiedCounts DEF CountersExact, TypeOK, States
<1>4. CASE JoinQueue(c, prio[c], inflight - 1, Notified)
  <2>1. prio[c] \in Levels /\ prio' \in [Caller -> Levels]
    BY DEF TypeOK
  <2>2. inflight - 1 = Cardinality(Busy(Notified) \ {c})
    BY <1>0, <1>2, NotifiedCounts
  <2>3. \A l \in Levels : waiting[l] = Cardinality(InQueue(Notified, prio', l) \ {c})
    <3>1. \A l \in Levels : InQueue(Notified, prio', l) \ {c} = Waiting(l)
      BY <1>0, <1>1, NotifiedCounts
    <3> QED BY <3>1 DEF CountersExact
  <2> QED BY <1>2, <1>4, <2>1, <2>2, <2>3, NotifiedCounts, JoinCounts
<1> QED BY <1>3, <1>4 DEF AfterChunk

-----------------------------------------------------------------------------
LEMMA CountInit == Init => CountInv
<1> SUFFICES ASSUME Init PROVE CountInv OBVIOUS
<1>1. TypeOK
  BY BoundAssumption DEF Init, TypeOK, States, Levels, P0
<1>2. Running = {} /\ \A l \in Levels : Waiting(l) = {}
  BY DEF Init, Running, Waiting
<1>3. CountersExact
  BY <1>2, FS_EmptySet DEF CountersExact, Init
<1> QED BY <1>1, <1>3 DEF CountInv, ChunkPending, Init

LEMMA CountStep == CountInv /\ [Next]_vars => CountInv'
<1> SUFFICES ASSUME CountInv, [Next]_vars PROVE CountInv' OBVIOUS
<1>a. TypeOK /\ ChunkPending /\ CountersExact
  BY DEF CountInv
<1>b. /\ Busy(pc) = Running /\ \A l \in Levels : InQueue(pc, prio, l) = Waiting(l)
  BY DEF Busy, InQueue, Running, Waiting
<1>1. ASSUME NEW c \in Caller, NEW p \in Levels, NEW n \in 1 .. MaxChunks, Request(c, p, n)
      PROVE  CountInv'
  <2>1. /\ pc[c] = "idle" /\ prio' = [prio EXCEPT ![c] = p]
        /\ chunks' = [chunks EXCEPT ![c] = n] /\ requests' = requests + 1
        /\ requests < MaxRequests
        /\ JoinQueue(c, p, inflight, pc) /\ userActive' = userActive
    BY <1>1 DEF Request
  <2>2. /\ prio' \in [Caller -> Levels] /\ prio'[c] = p
        /\ chunks' \in [Caller -> 0 .. MaxChunks] /\ requests' \in 0 .. MaxRequests
    BY <1>a, <2>1, BoundAssumption DEF TypeOK
  <2>3. /\ Busy(pc) \ {c} = Running
        /\ \A l \in Levels : InQueue(pc, prio', l) \ {c} = Waiting(l)
    BY <1>a, <2>1 DEF Busy, InQueue, Running, Waiting, TypeOK
  <2>4. /\ inflight' \in Nat /\ waiting' \in [Levels -> Nat] /\ pc' \in [Caller -> States]
        /\ CountersExact'
    <3>1. /\ inflight \in Nat /\ pc \in [Caller -> States]
          /\ inflight = Cardinality(Busy(pc) \ {c})
          /\ \A l \in Levels : waiting[l] = Cardinality(InQueue(pc, prio', l) \ {c})
      BY <1>a, <2>3 DEF TypeOK, CountersExact
    <3> QED BY <1>a, <2>1, <2>2, <3>1, JoinCounts
  <2>5. ChunkPending'
    <3>1. \A d \in Caller : d # c => pc'[d] = pc[d]
      BY <1>a, <2>1 DEF JoinQueue, TypeOK
    <3> QED BY <1>a, <2>1, <3>1 DEF ChunkPending, TypeOK
  <2> QED BY <1>a, <2>1, <2>2, <2>4, <2>5 DEF CountInv, TypeOK
<1>2. ASSUME NEW c \in Caller, Wake(c)
      PROVE  CountInv'
  <2>1. pc[c] = "woken" /\ UNCHANGED <<userActive, prio, chunks, requests>>
    BY <1>2 DEF Wake
  <2>2. CASE MayStart(prio[c]) /\ waiting' = Dequeued(prio[c])
             /\ inflight' = inflight + 1 /\ pc' = [pc EXCEPT ![c] = "running"]
    <3>1. prio[c] \in Levels /\ c \in Waiting(prio[c]) /\ c \notin Running
      BY <1>a, <2>1 DEF TypeOK, Waiting, Running
    <3>2. Running' = Running \cup {c}
      BY <1>a, <2>1, <2>2 DEF Running, TypeOK
    <3>3. \A l \in Levels : Waiting(l)' = IF l = prio[c] THEN Waiting(l) \ {c} ELSE Waiting(l)
      BY <1>a, <2>1, <2>2 DEF Waiting, TypeOK
    <3>4. inflight' = Cardinality(Running')
      <4>1. Running \subseteq Caller
        BY DEF Running
      <4> QED BY <1>a, <2>2, <3>1, <3>2, <4>1, OneMore DEF CountersExact
    <3>5. /\ Cardinality(Waiting(prio[c]) \ {c}) = waiting[prio[c]] - 1
          /\ waiting[prio[c]] >= 1
      <4>1. Waiting(prio[c]) \subseteq Caller
        BY DEF Waiting
      <4> QED BY <1>a, <3>1, <4>1, OneLess DEF CountersExact
    <3>6. /\ waiting' \in [Levels -> Nat]
          /\ \A l \in Levels : waiting'[l] = IF l = prio[c] THEN waiting[l] - 1 ELSE waiting[l]
      BY <1>a, <2>2, <3>1, <3>5 DEF Dequeued, TypeOK
    <3>7. \A l \in Levels : waiting'[l] = Cardinality(Waiting(l)')
      BY <1>a, <3>3, <3>5, <3>6 DEF CountersExact
    <3>8. TypeOK'
      BY <1>a, <2>1, <2>2, <3>6 DEF TypeOK, States
    <3>9. ChunkPending'
      BY <1>a, <2>1, <2>2 DEF ChunkPending, TypeOK
    <3> QED BY <3>4, <3>7, <3>8, <3>9 DEF CountInv, CountersExact
  <2>3. CASE pc' = [pc EXCEPT ![c] = "parked"] /\ UNCHANGED <<inflight, waiting>>
    <3>1. Running' = Running /\ \A l \in Levels : Waiting(l)' = Waiting(l)
      BY <1>a, <2>1, <2>3 DEF Running, Waiting, TypeOK
    <3>2. TypeOK' /\ ChunkPending'
      BY <1>a, <2>1, <2>3 DEF TypeOK, States, ChunkPending
    <3> QED BY <1>a, <2>3, <3>1, <3>2 DEF CountInv, CountersExact
  <2> QED BY <1>2, <2>2, <2>3 DEF Wake
<1>3. ASSUME NEW c \in Caller, Finish(c) \/ Fail(c)
      PROVE  CountInv'
  <2>1. PICK left \in {0, chunks[c] - 1} :
          /\ pc[c] = "running" /\ AfterChunk(c, left)
          /\ UNCHANGED <<userActive, prio, requests>>
    BY <1>3 DEF Finish, Fail
  <2>2. left \in 0 .. MaxChunks
    BY <1>a, <2>1, BoundAssumption DEF TypeOK, ChunkPending
  <2>3. /\ inflight' \in Nat /\ waiting' \in [Levels -> Nat]
        /\ pc' \in [Caller -> States] /\ CountersExact'
    BY <2>1, <2>2, AfterChunkCounts
  <2>4. chunks' = [chunks EXCEPT ![c] = left]
    BY <2>1 DEF AfterChunk
  <2>5. ChunkPending'
    <3>1. \A d \in Caller : d # c => pc'[d] = Notified[d]
      BY <1>a, <2>1, NotifiedCounts DEF AfterChunk, JoinQueue
    <3>2. \A d \in Caller : Notified[d] \in {"parked", "woken", "running"}
                              => pc[d] \in {"parked", "woken", "running"}
      BY <1>a DEF Notified, TypeOK
    <3>3. pc'[c] \in {"parked", "woken", "running"} => left > 0
      BY <1>a, <2>1, NotifiedCounts DEF AfterChunk
    <3> QED BY <1>a, <2>2, <2>4, <3>1, <3>2, <3>3 DEF ChunkPending, TypeOK
  <2>6. TypeOK'
    BY <1>a, <2>1, <2>2, <2>3, <2>4 DEF TypeOK
  <2> QED BY <2>3, <2>5, <2>6 DEF CountInv
<1>4. ASSUME NEW c \in Caller, EndPause(c)
      PROVE  CountInv'
  <2>1. pc[c] = "pausing" /\ UNCHANGED <<userActive, prio, chunks, requests>>
    BY <1>4 DEF EndPause
  <2>2. CASE chunks[c] > 0 /\ JoinQueue(c, prio[c], inflight, pc)
    <3>1. /\ Busy(pc) \ {c} = Running
          /\ \A l \in Levels : InQueue(pc, prio', l) \ {c} = Waiting(l)
      BY <1>a, <2>1 DEF Busy, InQueue, Running, Waiting, TypeOK
    <3>2. /\ inflight \in Nat /\ pc \in [Caller -> States]
          /\ prio[c] \in Levels /\ prio' \in [Caller -> Levels] /\ prio'[c] = prio[c]
          /\ inflight = Cardinality(Busy(pc) \ {c})
          /\ \A l \in Levels : waiting[l] = Cardinality(InQueue(pc, prio', l) \ {c})
      BY <1>a, <2>1, <3>1 DEF TypeOK, CountersExact
    <3>3. /\ inflight' \in Nat /\ waiting' \in [Levels -> Nat] /\ pc' \in [Caller -> States]
          /\ CountersExact'
      BY <1>a, <2>2, <3>2, JoinCounts
    <3>4. ChunkPending'
      <4>1. \A d \in Caller : d # c => pc'[d] = pc[d]
        BY <1>a, <2>2 DEF JoinQueue, TypeOK
      <4> QED BY <1>a, <2>1, <2>2, <4>1 DEF ChunkPending, TypeOK
    <3> QED BY <1>a, <2>1, <3>3, <3>4 DEF CountInv, TypeOK
  <2>3. CASE pc' = [pc EXCEPT ![c] = "idle"] /\ UNCHANGED <<inflight, waiting>>
    <3>1. Running' = Running /\ \A l \in Levels : Waiting(l)' = Waiting(l)
      BY <1>a, <2>1, <2>3 DEF Running, Waiting, TypeOK
    <3>2. TypeOK' /\ ChunkPending'
      BY <1>a, <2>1, <2>3 DEF TypeOK, States, ChunkPending
    <3> QED BY <1>a, <2>3, <3>1, <3>2 DEF CountInv, CountersExact
  <2> QED BY <1>4, <2>2, <2>3 DEF EndPause
<1>5. ASSUME NEW c \in Caller, CancelWait(c)
      PROVE  CountInv'
  <2>1. /\ pc[c] \in {"parked", "woken"} /\ waiting' = Dequeued(prio[c])
        /\ pc' = [Notified EXCEPT ![c] = "idle"] /\ chunks' = [chunks EXCEPT ![c] = 0]
        /\ UNCHANGED <<inflight, userActive, prio, requests>>
    BY <1>5 DEF CancelWait
  <2>2. prio[c] \in Levels /\ c \in Waiting(prio[c]) /\ c \notin Running
    BY <1>a, <2>1 DEF TypeOK, Waiting, Running
  <2>3. Running' = Running
    BY <1>a, <1>b, <2>1, <2>2, NotifiedCounts DEF Running, Busy
  <2>4. \A l \in Levels : Waiting(l)' = IF l = prio[c] THEN Waiting(l) \ {c} ELSE Waiting(l)
    BY <1>a, <1>b, <2>1, <2>2, NotifiedCounts DEF Waiting, InQueue
  <2>5. /\ Cardinality(Waiting(prio[c]) \ {c}) = waiting[prio[c]] - 1
        /\ waiting[prio[c]] >= 1
    <3>1. Waiting(prio[c]) \subseteq Caller
      BY DEF Waiting
    <3> QED BY <1>a, <2>2, <3>1, OneLess DEF CountersExact
  <2>6. /\ waiting' \in [Levels -> Nat]
        /\ \A l \in Levels : waiting'[l] = IF l = prio[c] THEN waiting[l] - 1 ELSE waiting[l]
    BY <1>a, <2>1, <2>2, <2>5 DEF Dequeued, TypeOK
  <2>7. \A l \in Levels : waiting'[l] = Cardinality(Waiting(l)')
    BY <1>a, <2>4, <2>5, <2>6 DEF CountersExact
  <2>8. TypeOK'
    BY <1>a, <2>1, <2>6, NotifiedCounts, BoundAssumption DEF TypeOK, States
  <2>9. ChunkPending'
    BY <1>a, <2>1 DEF ChunkPending, TypeOK, Notified
  <2> QED BY <1>a, <2>1, <2>3, <2>7, <2>8, <2>9 DEF CountInv, CountersExact
<1>6. ASSUME NEW c \in Caller, CancelPause(c)
      PROVE  CountInv'
  <2>1. Running' = Running /\ \A l \in Levels : Waiting(l)' = Waiting(l)
    BY <1>a, <1>6 DEF Running, Waiting, TypeOK, CancelPause
  <2>2. TypeOK' /\ ChunkPending'
    BY <1>a, <1>6, BoundAssumption DEF TypeOK, States, ChunkPending, CancelPause
  <2> QED BY <1>a, <1>6, <2>1, <2>2 DEF CountInv, CountersExact, CancelPause
<1>7. CASE UserActivity
  <2>1. Running' = Running /\ \A l \in Levels : Waiting(l)' = Waiting(l)
    BY <1>7 DEF Running, Waiting, UserActivity
  <2> QED BY <1>a, <1>7, <2>1 DEF CountInv, CountersExact, TypeOK, ChunkPending, UserActivity
<1>8. CASE UNCHANGED vars
  <2>1. Running' = Running /\ \A l \in Levels : Waiting(l)' = Waiting(l)
    BY <1>8 DEF Running, Waiting, vars
  <2> QED BY <1>a, <1>8, <2>1 DEF CountInv, CountersExact, TypeOK, ChunkPending, vars
<1> QED BY <1>1, <1>2, <1>3, <1>4, <1>5, <1>6, <1>7, <1>8 DEF Next

\* The variables stay in their types.
THEOREM TypeCorrect == Spec => []TypeOK
<1>1. CountInv => TypeOK
  BY DEF CountInv
<1> QED BY CountInit, CountStep, <1>1, PTL DEF Spec

\* The admission counters are never out of step with the callers behind them.
THEOREM CountersAreExact == Spec => []CountersExact
<1>1. CountInv => CountersExact
  BY DEF CountInv
<1> QED BY CountInit, CountStep, <1>1, PTL DEF Spec
-----------------------------------------------------------------------------
\* What keeps parked callers from starting survives more calls on the server
\* and longer queues.
LEMMA StillBlocked ==
  ASSUME NEW p \in Levels, NEW busy \in Nat, NEW busier \in Nat,
         NEW queued \in [Levels -> Nat], NEW longer \in [Levels -> Nat],
         busy <= busier, \A l \in Levels : queued[l] <= longer[l],
         ~ Admits(p, busy, queued)
  PROVE  ~ Admits(p, busier, longer)
BY CapacityAssumption DEF Admits, Reserve, P0, Levels

\* JoinQueue leaves nobody parked that could start, if nobody was.
LEMMA JoinWakes ==
  ASSUME TypeOK, TypeOK', NEW c \in Caller, NEW p \in Levels, NEW busy \in Nat,
         NEW where \in [Caller -> States], prio'[c] = p,
         JoinQueue(c, p, busy, where),
         \A d \in Caller \ {c} : where[d] = "parked" =>
            prio'[d] = prio[d] /\ ~ Admits(prio[d], busy, waiting)
  PROVE  NoLostWakeup'
<1> SUFFICES ASSUME NEW d \in Caller, pc'[d] = "parked"
             PROVE  ~ Admits(prio'[d], inflight', waiting')
  BY DEF NoLostWakeup, MayStart
<1>1. busy <= inflight' /\ \A l \in Levels : waiting[l] <= waiting'[l]
  BY DEF JoinQueue, Queued, TypeOK
<1>2. CASE d # c
  <2>1. where[d] = "parked"
    BY <1>2 DEF JoinQueue
  <2> QED BY <1>1, <1>2, <2>1, StillBlocked DEF TypeOK
<1>3. CASE d = c
  BY <1>3 DEF JoinQueue
<1> QED BY <1>2, <1>3

LEMMA WaitInit == Init => IInv
<1> SUFFICES ASSUME Init PROVE IInv OBVIOUS
<1>1. LowRunning = {}
  BY DEF Init, LowRunning, Running
<1> QED BY <1>1, CountInit, FS_EmptySet, CapacityAssumption DEF IInv, NoLostWakeup, ReserveKept, Init

\* The reserve: background work starts only below Capacity - 1.
LEMMA ReserveStep == IInv /\ [Next]_vars => ReserveKept'
<1> SUFFICES ASSUME IInv, [Next]_vars, Capacity > 1
             PROVE  Cardinality(LowRunning') < Capacity
  BY DEF ReserveKept
<1>a. /\ TypeOK /\ CountersExact /\ TypeOK' /\ CountersExact'
      /\ Cardinality(LowRunning) < Capacity
  BY CountStep DEF IInv, CountInv, ReserveKept
<1>b. CASE LowRunning' \subseteq LowRunning
  <2>1. /\ IsFiniteSet(LowRunning) /\ Cardinality(LowRunning) \in Nat
        /\ Cardinality(LowRunning') \in Nat
    BY CallersFinite DEF LowRunning, Running
  <2>2. Cardinality(LowRunning') <= Cardinality(LowRunning)
    BY <1>b, <2>1, FS_Subset
  <2> QED BY <1>a, <2>1, <2>2, CapacityAssumption
<1>c. CASE inflight' < Capacity
  <2>1. /\ IsFiniteSet(Running') /\ Cardinality(Running') \in Nat
        /\ Cardinality(LowRunning') \in Nat /\ LowRunning' \subseteq Running'
    BY CallersFinite DEF LowRunning, Running
  <2>2. Cardinality(LowRunning') <= Cardinality(Running')
    BY <2>1, FS_Subset
  <2> QED BY <1>a, <1>c, <2>1, <2>2, CapacityAssumption DEF CountersExact
<1>d. ASSUME NEW c \in Caller, NEW busy \in Nat, NEW where \in [Caller -> States],
             JoinQueue(c, prio'[c], busy, where),
             \A d \in Caller : d # c => prio'[d] = prio[d],
             \A d \in Caller : where[d] = "running" => pc[d] = "running"
      PROVE  Cardinality(LowRunning') < Capacity
  <2>1. CASE pc'[c] = "running" /\ prio'[c] # P0
    <3>1. busy + 1 < Capacity
      <4>1. Admits(prio'[c], busy, Queued(prio'[c]))
        BY <1>a, <1>d, <2>1 DEF JoinQueue, TypeOK
      <4> QED BY <4>1, <2>1, CapacityAssumption DEF Admits, Reserve
    <3>2. inflight' = busy + 1
      BY <1>a, <1>d, <2>1 DEF JoinQueue, TypeOK
    <3> QED BY <3>1, <3>2, <1>c
  <2>2. CASE ~ (pc'[c] = "running" /\ prio'[c] # P0)
    <3>1. LowRunning' \subseteq LowRunning
      BY <1>a, <1>d, <2>2 DEF JoinQueue, LowRunning, Running, TypeOK
    <3> QED BY <3>1, <1>b
  <2> QED BY <2>1, <2>2
<1>e. Notified \in [Caller -> States] /\ \A d \in Caller : Notified[d] = "running" => pc[d] = "running"
  BY <1>a DEF Notified, TypeOK, States
<1>1. ASSUME NEW c \in Caller, NEW p \in Levels, NEW n \in 1 .. MaxChunks, Request(c, p, n)
      PROVE  Cardinality(LowRunning') < Capacity
  <2>1. /\ JoinQueue(c, prio'[c], inflight, pc)
        /\ \A d \in Caller : d # c => prio'[d] = prio[d]
        /\ inflight \in Nat /\ pc \in [Caller -> States]
    BY <1>1, <1>a DEF Request, TypeOK
  <2> QED BY <2>1, <1>d
<1>2. ASSUME NEW c \in Caller, Wake(c)
      PROVE  Cardinality(LowRunning') < Capacity
  <2>1. CASE MayStart(prio[c]) /\ inflight' = inflight + 1 /\ prio[c] # P0
    <3>1. inflight' < Capacity
      BY <2>1, <1>a, CapacityAssumption DEF MayStart, Admits, Reserve, TypeOK
    <3> QED BY <3>1, <1>c
  <2>2. CASE prio[c] = P0 \/ pc' = [pc EXCEPT ![c] = "parked"]
    <3>1. LowRunning' \subseteq LowRunning
      BY <1>a, <1>2, <2>2 DEF Wake, LowRunning, Running, TypeOK
    <3> QED BY <3>1, <1>b
  <2> QED BY <1>2, <2>1, <2>2 DEF Wake
<1>3. ASSUME NEW c \in Caller, NEW left, AfterChunk(c, left), prio' = prio, pc[c] = "running"
      PROVE  Cardinality(LowRunning') < Capacity
  <2>1. CASE JoinQueue(c, prio[c], inflight - 1, Notified)
    <3>1. inflight - 1 \in Nat
      <4>1. c \in Running /\ Running \subseteq Caller
        BY <1>3 DEF Running
      <4>2. Cardinality(Running) >= 1
        BY <4>1, OneLess
      <4> QED BY <4>2, <1>a DEF CountersExact, TypeOK
    <3> QED BY <2>1, <3>1, <1>3, <1>d, <1>e
  <2>2. CASE pc' = [Notified EXCEPT ![c] = "pausing"] \/ pc' = [Notified EXCEPT ![c] = "idle"]
    <3>1. LowRunning' \subseteq LowRunning
      BY <1>3, <1>e, <2>2 DEF LowRunning, Running
    <3> QED BY <3>1, <1>b
  <2> QED BY <1>3, <2>1, <2>2 DEF AfterChunk
<1>4. ASSUME NEW c \in Caller, Finish(c) \/ Fail(c)
      PROVE  Cardinality(LowRunning') < Capacity
  BY <1>4, <1>3 DEF Finish, Fail
<1>5. ASSUME NEW c \in Caller, EndPause(c)
      PROVE  Cardinality(LowRunning') < Capacity
  <2>1. CASE JoinQueue(c, prio[c], inflight, pc)
    <3>1. inflight \in Nat /\ pc \in [Caller -> States] /\ prio' = prio
      BY <1>a, <1>5 DEF TypeOK, EndPause
    <3> QED BY <2>1, <3>1, <1>d
  <2>2. CASE pc' = [pc EXCEPT ![c] = "idle"]
    <3>1. LowRunning' \subseteq LowRunning
      BY <1>a, <1>5, <2>2 DEF EndPause, LowRunning, Running, TypeOK
    <3> QED BY <3>1, <1>b
  <2> QED BY <1>5, <2>1, <2>2 DEF EndPause
<1>6. ASSUME NEW c \in Caller, CancelWait(c) \/ CancelPause(c)
      PROVE  Cardinality(LowRunning') < Capacity
  <2>1. LowRunning' \subseteq LowRunning
    BY <1>a, <1>e, <1>6 DEF CancelWait, CancelPause, LowRunning, Running, TypeOK
  <2> QED BY <2>1, <1>b
<1>7. CASE UserActivity \/ UNCHANGED vars
  <2>1. LowRunning' \subseteq LowRunning
    BY <1>7 DEF UserActivity, vars, LowRunning, Running
  <2> QED BY <2>1, <1>b
<1> QED BY <1>1, <1>2, <1>4, <1>5, <1>6, <1>7 DEF Next

\* No wakeup is lost, for a capacity of at most 2.
LEMMA WakeupStep == Capacity <= 2 /\ IInv /\ [Next]_vars => NoLostWakeup'
<1> SUFFICES ASSUME Capacity <= 2, IInv, [Next]_vars PROVE NoLostWakeup' OBVIOUS
<1>a. TypeOK /\ TypeOK' /\ CountersExact /\ NoLostWakeup
  BY CountStep DEF IInv, CountInv
<1>b. /\ Notified \in [Caller -> States]
      /\ \A d \in Caller : Notified[d] # "parked"
  BY <1>a, NotifiedCounts
<1>1. ASSUME NEW c \in Caller, NEW p \in Levels, NEW n \in 1 .. MaxChunks, Request(c, p, n)
      PROVE  NoLostWakeup'
  <2>1. /\ JoinQueue(c, p, inflight, pc) /\ prio'[c] = p
        /\ \A d \in Caller \ {c} : prio'[d] = prio[d]
        /\ inflight \in Nat /\ pc \in [Caller -> States]
    BY <1>1, <1>a DEF Request, TypeOK
  <2>2. \A d \in Caller : pc[d] = "parked" => ~ Admits(prio[d], inflight, waiting)
    BY <1>a DEF NoLostWakeup, MayStart
  <2> QED BY <2>1, <2>2, <1>a, JoinWakes
<1>2. ASSUME NEW c \in Caller, Wake(c)
      PROVE  NoLostWakeup'
  <2>1. CASE MayStart(prio[c]) /\ inflight' = inflight + 1 /\ waiting' = Dequeued(prio[c])
             /\ pc' = [pc EXCEPT ![c] = "running"]
    <3> SUFFICES ASSUME NEW d \in Caller, pc'[d] = "parked"
                 PROVE  ~ Admits(prio'[d], inflight', waiting')
      BY DEF NoLostWakeup, MayStart
    <3>1. pc[d] = "parked" /\ prio' = prio
      BY <1>2, <1>a, <2>1 DEF Wake, TypeOK
    <3>2. ~ Admits(prio[d], inflight, waiting)
      BY <1>a, <3>1 DEF NoLostWakeup, MayStart
    <3>3. inflight < Capacity /\ inflight \in Nat /\ prio[d] \in Levels
      BY <1>a, <2>1, CapacityAssumption DEF MayStart, Admits, Reserve, TypeOK
    <3>4. prio[d] # P0 \/ Capacity = 1
      BY <3>2, <3>3, CapacityAssumption DEF Admits, Reserve, P0, Levels
    <3>5. inflight + 1 + Reserve(prio[d]) >= Capacity
      BY <3>3, <3>4, CapacityAssumption DEF Reserve
    <3>6. Reserve(prio[d]) \in Nat
      BY DEF Reserve
    <3> QED BY <2>1, <3>1, <3>3, <3>5, <3>6, CapacityAssumption DEF Admits
  <2>2. CASE ~ MayStart(prio[c]) /\ pc' = [pc EXCEPT ![c] = "parked"]
             /\ UNCHANGED <<inflight, waiting, prio>>
    BY <1>a, <2>2 DEF NoLostWakeup, MayStart, Admits, TypeOK
  <2> QED BY <1>2, <2>1, <2>2 DEF Wake
<1>3. ASSUME NEW c \in Caller, Finish(c) \/ Fail(c)
      PROVE  NoLostWakeup'
  <2>1. CASE JoinQueue(c, prio[c], inflight - 1, Notified)
    <3>1. inflight - 1 \in Nat
      <4>1. c \in Running /\ Running \subseteq Caller
        BY <1>3 DEF Running, Finish, Fail
      <4>2. Cardinality(Running) >= 1
        BY <4>1, OneLess
      <4> QED BY <4>2, <1>a DEF CountersExact, TypeOK
    <3>2. prio'[c] = prio[c] /\ prio[c] \in Levels
      BY <1>a, <1>3 DEF Finish, Fail, TypeOK
    <3> QED BY <2>1, <3>1, <3>2, <1>a, <1>b, JoinWakes
  <2>2. CASE pc' = [Notified EXCEPT ![c] = "pausing"] \/ pc' = [Notified EXCEPT ![c] = "idle"]
    BY <1>b, <2>2 DEF NoLostWakeup
  <2> QED BY <1>3, <2>1, <2>2 DEF Finish, Fail, AfterChunk
<1>4. ASSUME NEW c \in Caller, EndPause(c)
      PROVE  NoLostWakeup'
  <2>1. CASE JoinQueue(c, prio[c], inflight, pc)
    <3>1. /\ inflight \in Nat /\ pc \in [Caller -> States] /\ prio' = prio
          /\ prio[c] \in Levels
      BY <1>a, <1>4 DEF TypeOK, EndPause
    <3>2. \A d \in Caller : pc[d] = "parked" => ~ Admits(prio[d], inflight, waiting)
      BY <1>a DEF NoLostWakeup, MayStart
    <3> QED BY <2>1, <3>1, <3>2, <1>a, JoinWakes
  <2>2. CASE pc' = [pc EXCEPT ![c] = "idle"] /\ UNCHANGED <<inflight, waiting, prio>>
    BY <1>a, <2>2 DEF NoLostWakeup, MayStart, TypeOK
  <2> QED BY <1>4, <2>1, <2>2 DEF EndPause
<1>5. ASSUME NEW c \in Caller, CancelWait(c)
      PROVE  NoLostWakeup'
  BY <1>5, <1>b DEF CancelWait, NoLostWakeup
<1>6. ASSUME NEW c \in Caller, CancelPause(c)
      PROVE  NoLostWakeup'
  BY <1>6, <1>a DEF CancelPause, NoLostWakeup, MayStart, TypeOK
<1>7. CASE UserActivity \/ UNCHANGED vars
  BY <1>7, <1>a DEF UserActivity, vars, NoLostWakeup, MayStart
<1> QED BY <1>1, <1>2, <1>3, <1>4, <1>5, <1>6, <1>7 DEF Next

LEMMA WaitStep == Capacity <= 2 /\ IInv /\ [Next]_vars => IInv'
BY CountStep, ReserveStep, WakeupStep DEF IInv

\* While a dialogue query is parked the server is full, and background work
\* alone cannot fill it.
LEMMA DialogueFromInv == Capacity = 2 /\ IInv => DialogueWaitsOnlyForDialogue
<1> SUFFICES ASSUME Capacity = 2, IInv, NEW c \in Caller, pc[c] = "parked", prio[c] = P0
             PROVE  \E d \in Running : prio[d] = P0
  BY DEF DialogueWaitsOnlyForDialogue
<1>1. inflight >= Capacity
  BY CapacityAssumption DEF IInv, CountInv, TypeOK, NoLostWakeup, MayStart, Admits, Reserve, P0, Levels
<1>2. Cardinality(LowRunning) < Cardinality(Running)
  <2>1. Cardinality(LowRunning) \in Nat /\ Cardinality(Running) \in Nat
    BY CallersFinite DEF LowRunning, Running
  <2>2. Cardinality(LowRunning) < Capacity /\ inflight = Cardinality(Running)
    BY DEF IInv, ReserveKept, CountInv, CountersExact
  <2> QED BY <1>1, <2>1, <2>2, CapacityAssumption
<1>3. LowRunning # Running
  BY <1>2, CallersFinite DEF LowRunning, Running
<1> QED BY <1>3 DEF LowRunning

\* A parked caller could not start: no wakeup is lost at the capacities where
\* a start never admits another level.
THEOREM NoWakeupIsLost == ASSUME Capacity <= 2 PROVE Spec => []NoLostWakeup
<1>1. IInv /\ [Next]_vars => IInv'
  BY WaitStep
<1>2. IInv => NoLostWakeup
  BY DEF IInv
<1> QED BY WaitInit, <1>1, <1>2, PTL DEF Spec

\* At the capacity of the process a dialogue query waits only for dialogue.
THEOREM DialogueFirst == ASSUME Capacity = 2 PROVE Spec => []DialogueWaitsOnlyForDialogue
<1>1. IInv /\ [Next]_vars => IInv'
  BY WaitStep
<1>2. IInv => DialogueWaitsOnlyForDialogue
  BY DialogueFromInv
<1> QED BY WaitInit, <1>1, <1>2, PTL DEF Spec
=============================================================================
