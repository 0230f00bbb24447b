-------------------------- MODULE ChatWriterProofs --------------------------
(***************************************************************************)
(* Proofs about the writer thread, for any files, any number of operations *)
(* and any limit on handles.                                               *)
(*                                                                         *)
(* Loss is an invariant by itself once positions are known to be within    *)
(* ops (Typed): a synchronisation settles exactly what its files' marks    *)
(* stand for.  Order needs Lined: positions applied, in hand and queued    *)
(* are consecutive, which a stop() that does not give up preserves because *)
(* it holds the mode lock until the thread has ended.                      *)
(***************************************************************************)
EXTENDS ChatWriter, FiniteSetTheorems, TLAPS

QueueTypes ==
  /\ ops \in Seq(Op) /\ Len(ops) <= MaxOps
  /\ queue \in Seq(Position) /\ \A k \in DOMAIN queue : queue[k] <= Len(ops)

ThreadTypes ==
  /\ thread \in {"none", "alive", "dead"} /\ pc \in WriterStates
  /\ hand \in 0 .. MaxOps /\ hand <= Len(ops)
  /\ pc \in {"run", "rest", "finish"} => hand # 0
  /\ pc \in {"rest", "finish"} => ops[hand].kind = "stop"
  /\ stopping \in 0 .. MaxOps /\ gaveUp \in BOOLEAN

FileTypes ==
  /\ handles \subseteq File /\ IsFiniteSet(handles) /\ Cardinality(handles) <= MaxHandles
  /\ unsynced \subseteq File /\ due \subseteq unsynced

FateTypes ==
  /\ applied \in Seq(Position) /\ \A k \in DOMAIN applied : applied[k] <= Len(ops)
  /\ durable \subseteq Position /\ bad \subseteq Position

Typed == QueueTypes /\ ThreadTypes /\ FileTypes /\ FateTypes

Safe == Typed /\ NoSilentLoss

\* What an operation leaves behind fits the operations known afterwards.
Fits(i, op) ==
  /\ op \in Op
  /\ ops' \in Seq(Op) /\ Len(ops) <= Len(ops') /\ Len(ops') <= MaxOps
  /\ \A j \in 1 .. Len(ops) : ops'[j] = ops[j]
  /\ i \in 1 .. Len(ops') /\ ops'[i] = op

\* What holds of the appends before the next operation takes effect.
OldSafe ==
  /\ unsynced' \subseteq File /\ due' \subseteq unsynced'
  /\ durable' \subseteq Position /\ bad' \subseteq Position
  /\ durable \subseteq durable' /\ bad \subseteq bad'
  /\ \A j \in Applied : ops[j].kind = "append" =>
        j \in durable' \cup bad' \/ ops[j].file \in unsynced'

\* Every append that took effect has met its fate.
Settled == \A j \in Applied : ops[j].kind = "append" => j \in durable' \cup bad'

\* What an effect means for the operation at position i itself.
NewSafe(i, op) == op.kind = "append" => i \in durable' \cup bad' \/ op.file \in unsynced'

-----------------------------------------------------------------------------

LEMMA AppliedTyped ==
  ASSUME FateTypes
  PROVE  Applied \subseteq Position /\ \A i \in Applied : i <= Len(ops)
BY DEF FateTypes, Applied

LEMMA AppliedGrows ==
  ASSUME NEW i, FateTypes, applied' = Append(applied, i)
  PROVE  Applied' = Applied \cup {i}
<1>1. /\ Len(applied') = Len(applied) + 1 /\ Len(applied) \in Nat
      /\ DOMAIN applied = 1 .. Len(applied) /\ DOMAIN applied' = 1 .. Len(applied')
      /\ \A k \in 1 .. Len(applied) : applied'[k] = applied[k]
      /\ applied'[Len(applied) + 1] = i
  BY DEF FateTypes
<1>2. Applied' \subseteq Applied \cup {i}
  BY <1>1 DEF Applied
<1>3. Applied \cup {i} \subseteq Applied'
  BY <1>1 DEF Applied
<1> QED
  BY <1>2, <1>3

LEMMA OpKinds ==
  ASSUME NEW op \in Op
  PROVE  /\ op.kind \in {"append", "rewrite", "sync", "barrier", "stop"}
         /\ op.kind \in {"append", "rewrite"} => op.file \in File
BY DEF Op

\* A synchronisation settles the appends of its files, and touches no other.
LEMMA SyncSettles ==
  ASSUME NEW F \in SUBSET unsynced, NEW broken \in SUBSET F,
         NEW good \in SUBSET Position, NEW wrong \in SUBSET Position,
         Safe, SyncFiles(F, broken, good, wrong)
  PROVE  /\ OldSafe
         /\ good \subseteq durable' /\ wrong \subseteq bad'
         /\ F = unsynced => Settled
<1>1. WrittenIn(F \ broken) \subseteq Position /\ WrittenIn(broken) \subseteq Position
  BY AppliedTyped DEF Safe, Typed, WrittenIn, Written
<1>2. \A j \in Applied : ops[j].kind = "append" /\ ops[j].file \in F =>
         j \in durable' \cup bad'
  BY DEF SyncFiles, WrittenIn, Written
<1>3. \A j \in Applied : ops[j].kind = "append" /\ ops[j].file \notin F =>
         j \in durable' \cup bad' \/ ops[j].file \in unsynced'
  BY DEF SyncFiles, Safe, NoSilentLoss
<1>4. F = unsynced => Settled
  BY <1>2 DEF SyncFiles, Safe, NoSilentLoss, Settled
<1> QED
  BY <1>1, <1>2, <1>3, <1>4 DEF SyncFiles, Safe, Typed, FileTypes, FateTypes, OldSafe

-----------------------------------------------------------------------------
\* Handles.

LEMMA HandleDropped ==
  ASSUME FileTypes, NEW F, NEW keep \in BOOLEAN,
         handles' = IF keep THEN handles \ F ELSE {}
  PROVE  handles' \subseteq File /\ IsFiniteSet(handles') /\ Cardinality(handles') <= MaxHandles
<1>1. CASE keep
  <2>1. handles' \subseteq handles
    BY <1>1
  <2>2. IsFiniteSet(handles') /\ Cardinality(handles') <= Cardinality(handles)
    BY <2>1, FS_Subset DEF FileTypes
  <2>3. Cardinality(handles) \in Nat /\ Cardinality(handles') \in Nat
    BY <2>2, FS_CardinalityType DEF FileTypes
  <2> QED
    BY <2>1, <2>2, <2>3, HandlesAssumption DEF FileTypes
<1>2. CASE ~ keep
  BY <1>2, FS_EmptySet, HandlesAssumption
<1> QED
  BY <1>1, <1>2

LEMMA HandleOpened ==
  ASSUME FileTypes, NEW op \in Op, NEW keep \in BOOLEAN, Appended(op, keep)
  PROVE  handles' \subseteq File /\ IsFiniteSet(handles') /\ Cardinality(handles') <= MaxHandles
<1>1. op.file \in File
  BY OpKinds DEF Appended
<1> DEFINE more == handles \cup {op.file}
<1>2. IsFiniteSet(handles) /\ Cardinality(handles) \in Nat
  BY FS_CardinalityType DEF FileTypes
<1>3. IsFiniteSet(more)
  BY <1>2, FS_AddElement
<1>4. Cardinality(more) \in Nat
  BY <1>3, FS_CardinalityType
<1>5. Cardinality(more) <= Cardinality(handles) + 1
  <2>1. Cardinality(more) =
           IF op.file \in handles THEN Cardinality(handles) ELSE Cardinality(handles) + 1
    BY <1>2, FS_AddElement
  <2> QED
    BY <1>2, <2>1
<1>6. more \subseteq File
  BY <1>1 DEF FileTypes
<1>7. CASE keep /\ handles' = more /\ Cardinality(more) <= MaxHandles
  BY <1>3, <1>6, <1>7
<1>8. ASSUME NEW oldest \in handles \ {op.file}, handles' = more \ {oldest}
      PROVE  handles' \subseteq File /\ IsFiniteSet(handles') /\ Cardinality(handles') <= MaxHandles
  <2>1. oldest \in more
    BY <1>8
  <2>2. IsFiniteSet(handles') /\ Cardinality(handles') = Cardinality(more) - 1
    BY <1>3, <1>8, <2>1, FS_RemoveElement
  <2>3. Cardinality(handles) <= MaxHandles
    BY DEF FileTypes
  <2>4. Cardinality(handles') <= MaxHandles
    BY <1>2, <1>4, <1>5, <2>2, <2>3, HandlesAssumption
  <2> QED
    BY <1>6, <1>8, <2>2, <2>4
<1>9. CASE handles' = {}
  BY <1>9, FS_EmptySet, HandlesAssumption
<1> QED
  BY <1>7, <1>8, <1>9 DEF Appended

-----------------------------------------------------------------------------
\* Effects.

LEMMA AppendedSafe ==
  ASSUME Safe, NEW i, NEW op \in Op, NEW keep \in BOOLEAN, Appended(op, keep)
  PROVE  OldSafe /\ NewSafe(i, op)
<1>1. op.file \in File
  BY OpKinds DEF Appended
<1> QED
  BY <1>1 DEF Appended, Safe, Typed, FileTypes, FateTypes, NoSilentLoss, OldSafe, NewSafe

LEMMA AppendFailsSafe ==
  ASSUME Safe, NEW i \in Position, NEW op \in Op, NEW keep \in BOOLEAN, AppendFails(i, op, keep)
  PROVE  OldSafe /\ NewSafe(i, op)
BY DEF AppendFails, Safe, Typed, FileTypes, FateTypes, NoSilentLoss, OldSafe, NewSafe

LEMMA RewrittenSafe ==
  ASSUME Safe, NEW i \in Position, NEW op \in Op, NEW keep \in BOOLEAN, Rewritten(i, op, keep)
  PROVE  OldSafe /\ NewSafe(i, op)
<1> DEFINE F == {op.file} \cap unsynced
<1>1. PICK broken \in SUBSET F :
         SyncFiles(F, broken, {i}, {}) \/ SyncFiles(F, broken, {}, {i})
  BY DEF Rewritten
<1> HIDE DEF F
<1>2. F \in SUBSET unsynced
  BY DEF F
<1>3. {i} \in SUBSET Position /\ {} \in SUBSET Position
  OBVIOUS
<1>4. op.kind # "append"
  BY DEF Rewritten
<1>5. CASE SyncFiles(F, broken, {i}, {})
  BY <1>2, <1>3, <1>4, <1>5, SyncSettles DEF NewSafe
<1>6. CASE SyncFiles(F, broken, {}, {i})
  BY <1>2, <1>3, <1>4, <1>6, SyncSettles DEF NewSafe
<1> QED
  BY <1>1, <1>5, <1>6

LEMMA SyncAllSafe ==
  ASSUME Safe, SyncAll
  PROVE  /\ OldSafe /\ Settled
         /\ handles' \subseteq File /\ IsFiniteSet(handles') /\ Cardinality(handles') <= MaxHandles
<1>1. PICK broken \in SUBSET unsynced :
         /\ SyncFiles(unsynced, broken, {}, {})
         /\ handles' = handles \ broken
  BY DEF SyncAll
<1>2. OldSafe /\ Settled
  <2>1. unsynced \in SUBSET unsynced /\ {} \in SUBSET Position
    OBVIOUS
  <2> QED
    BY <1>1, <2>1, SyncSettles
<1>3. handles' = IF TRUE THEN handles \ broken ELSE {}
  BY <1>1
<1> QED
  BY <1>2, <1>3, HandleDropped DEF Safe, Typed

LEMMA ExecuteSafe ==
  ASSUME Safe, NEW i \in Position, NEW op \in Op, NEW keep \in BOOLEAN,
         Fits(i, op), Execute(i, op, keep)
  PROVE  /\ FileTypes' /\ FateTypes' /\ NoSilentLoss'
         /\ durable \subseteq durable' /\ bad \subseteq bad'
         /\ op.kind \in {"sync", "barrier"} => Settled
<1>1. OldSafe /\ NewSafe(i, op)
  <2>1. CASE op.kind \in {"sync", "barrier"} /\ SyncAll
    BY <2>1, SyncAllSafe DEF NewSafe
  <2> QED
    BY <2>1, AppendedSafe, AppendFailsSafe, RewrittenSafe DEF Execute
<1>2. handles' \subseteq File /\ IsFiniteSet(handles') /\ Cardinality(handles') <= MaxHandles
  <2>1. CASE Appended(op, keep)
    BY <2>1, HandleOpened DEF Safe, Typed
  <2>2. CASE AppendFails(i, op, keep) \/ Rewritten(i, op, keep)
    BY <2>2, HandleDropped DEF Safe, Typed, AppendFails, Rewritten
  <2>3. CASE SyncAll
    BY <2>3, SyncAllSafe
  <2> QED
    BY <2>1, <2>2, <2>3 DEF Execute
<1>3. Applied' = Applied \cup {i}
  BY AppliedGrows DEF Execute, Safe, Typed
<1>4. applied' \in Seq(Position) /\ \A k \in DOMAIN applied' : applied'[k] <= Len(ops')
  <2>1. /\ applied \in Seq(Position) /\ i \in Position /\ applied' = Append(applied, i)
        /\ \A k \in DOMAIN applied : applied[k] <= Len(ops)
    BY DEF Execute, Safe, Typed, FateTypes
  <2>2. Len(ops) \in Nat /\ Len(ops') \in Nat /\ Len(ops) <= Len(ops') /\ i <= Len(ops')
    BY DEF Fits, Safe, Typed, QueueTypes
  <2>3. /\ applied' \in Seq(Position)
        /\ Len(applied') = Len(applied) + 1 /\ Len(applied) \in Nat
        /\ DOMAIN applied = 1 .. Len(applied) /\ DOMAIN applied' = 1 .. Len(applied')
        /\ \A k \in 1 .. Len(applied) : applied'[k] = applied[k] /\ applied[k] \in Position
        /\ applied'[Len(applied) + 1] = i
    BY <2>1
  <2>4. ASSUME NEW k \in DOMAIN applied'
        PROVE  applied'[k] <= Len(ops')
    <3>1. k \in 1 .. Len(applied) \/ k = Len(applied) + 1
      BY <2>3
    <3>2. CASE k \in 1 .. Len(applied)
      BY <2>1, <2>2, <2>3, <3>2 DEF Position
    <3>3. CASE k = Len(applied) + 1
      BY <2>2, <2>3, <3>3
    <3> QED
      BY <3>1, <3>2, <3>3
  <2> QED
    BY <2>3, <2>4
<1>5. NoSilentLoss'
  <2>1. \A j \in Applied : ops'[j] = ops[j]
    BY AppliedTyped DEF Fits, Safe, Typed, QueueTypes, Position
  <2> QED
    BY <1>1, <1>3, <2>1 DEF NoSilentLoss, OldSafe, NewSafe, Fits
<1>6. op.kind \in {"sync", "barrier"} => Settled
  BY SyncAllSafe DEF Execute, Appended, AppendFails, Rewritten
<1> QED
  BY <1>1, <1>2, <1>4, <1>5, <1>6 DEF FileTypes, FateTypes, OldSafe

-----------------------------------------------------------------------------
\* The steps.

\* Positions stay within ops when ops grow.
LEMMA StayWithin ==
  ASSUME NEW s \in Seq(Position), NEW m \in Nat, NEW n \in Nat, m <= n,
         \A k \in DOMAIN s : s[k] <= m
  PROVE  \A k \in DOMAIN s : s[k] <= n
<1>1. \A k \in DOMAIN s : s[k] \in Position
  OBVIOUS
<1> QED
  BY <1>1, BoundAssumption DEF Position

LEMMA OpsGrow ==
  ASSUME QueueTypes, NEW op \in Op, Len(ops) < MaxOps, ops' = Append(ops, op)
  PROVE  /\ Fits(Len(ops) + 1, op)
         /\ Len(ops) \in Nat /\ Len(ops') = Len(ops) + 1 /\ Len(ops) + 1 \in Position
BY BoundAssumption DEF QueueTypes, Fits, Position

LEMMA OpsSame ==
  ASSUME QueueTypes, NEW i \in 1 .. Len(ops), ops' = ops
  PROVE  Fits(i, ops[i]) /\ i \in Position /\ ops[i] \in Op
BY BoundAssumption DEF QueueTypes, Fits, Position

LEMMA NothingTouched ==
  ASSUME Safe, ops' = ops \/ \E op \in Op : Len(ops) < MaxOps /\ ops' = Append(ops, op),
         UNCHANGED <<fileVars, fateVars>>
  PROVE  FileTypes' /\ FateTypes' /\ NoSilentLoss'
<1>1. Len(ops) \in Nat /\ Len(ops') \in Nat /\ Len(ops) <= Len(ops')
  BY DEF Safe, Typed, QueueTypes
<1>2. \A j \in 1 .. Len(ops) : ops'[j] = ops[j]
  BY DEF Safe, Typed, QueueTypes
<1>3. applied' \in Seq(Position) /\ \A k \in DOMAIN applied' : applied'[k] <= Len(ops')
  BY <1>1, StayWithin DEF Safe, Typed, FateTypes, fateVars
<1>4. Applied' = Applied /\ \A i \in Applied : i \in 1 .. Len(ops)
  BY AppliedTyped DEF Safe, Typed, Applied, fateVars, Position
<1>5. NoSilentLoss'
  BY <1>2, <1>4 DEF Safe, NoSilentLoss, fileVars, fateVars
<1> QED
  BY <1>3, <1>5 DEF Safe, Typed, FileTypes, FateTypes, fileVars, fateVars

LEMMA PutSafe ==
  ASSUME Safe, NEW op \in Op, Len(ops) < MaxOps, Put(op), UNCHANGED <<fileVars, fateVars>>
  PROVE  QueueTypes' /\ Len(ops') = Len(ops) + 1 /\ FileTypes' /\ FateTypes' /\ NoSilentLoss'
<1>1. ops' = Append(ops, op) /\ queue' = Append(queue, Len(ops) + 1)
  BY DEF Put
<1>2. Len(ops) \in Nat /\ Len(ops') = Len(ops) + 1 /\ Len(ops) + 1 \in Position
  BY <1>1, OpsGrow DEF Safe, Typed
<1>3. ops' \in Seq(Op) /\ Len(ops') <= MaxOps
  BY <1>1, <1>2, BoundAssumption DEF Safe, Typed, QueueTypes, Position
<1>4. queue' \in Seq(Position) /\ \A k \in DOMAIN queue' : queue'[k] <= Len(ops')
  <2>1. queue \in Seq(Position) /\ \A k \in DOMAIN queue : queue[k] <= Len(ops)
    BY DEF Safe, Typed, QueueTypes
  <2>2. /\ queue' \in Seq(Position)
        /\ Len(queue') = Len(queue) + 1 /\ Len(queue) \in Nat
        /\ DOMAIN queue = 1 .. Len(queue) /\ DOMAIN queue' = 1 .. Len(queue')
        /\ \A k \in 1 .. Len(queue) : queue'[k] = queue[k] /\ queue[k] \in Position
        /\ queue'[Len(queue) + 1] = Len(ops) + 1
    BY <1>1, <1>2, <2>1
  <2>3. ASSUME NEW k \in DOMAIN queue'
        PROVE  queue'[k] <= Len(ops')
    <3>1. CASE k \in 1 .. Len(queue)
      BY <1>2, <2>1, <2>2, <3>1 DEF Position
    <3>2. CASE k = Len(queue) + 1
      BY <1>2, <2>2, <3>2
    <3> QED
      BY <2>2, <3>1, <3>2
  <2> QED
    BY <2>2, <2>3
<1> QED
  BY <1>1, <1>2, <1>3, <1>4, NothingTouched DEF QueueTypes

\* An operation that its caller executes.
LEMMA InPlaceSafe ==
  ASSUME Safe, NEW op \in Op, Len(ops) < MaxOps, ops' = Append(ops, op),
         Execute(Len(ops) + 1, op, FALSE), queue' = queue
  PROVE  /\ QueueTypes' /\ Len(ops') = Len(ops) + 1 /\ FileTypes' /\ FateTypes' /\ NoSilentLoss'
         /\ durable \subseteq durable' /\ bad \subseteq bad'
         /\ op.kind \in {"sync", "barrier"} => Settled
<1>1. /\ Fits(Len(ops) + 1, op)
      /\ Len(ops) \in Nat /\ Len(ops') = Len(ops) + 1 /\ Len(ops) + 1 \in Position
  BY OpsGrow DEF Safe, Typed
<1>2. /\ FileTypes' /\ FateTypes' /\ NoSilentLoss'
      /\ durable \subseteq durable' /\ bad \subseteq bad'
      /\ op.kind \in {"sync", "barrier"} => Settled
  BY <1>1, ExecuteSafe
<1>3. QueueTypes'
  <2>1. Len(ops') \in Nat /\ Len(ops) <= Len(ops')
    BY <1>1
  <2>2. \A k \in DOMAIN queue : queue[k] <= Len(ops')
    BY <1>1, <2>1, StayWithin DEF Safe, Typed, QueueTypes
  <2> QED
    BY <1>1, <2>2 DEF Fits, Safe, Typed, QueueTypes
<1> QED
  BY <1>1, <1>2, <1>3

LEMMA CallerSafe ==
  ASSUME Safe, NEW op \in Op, Submit(op) \/ Drain(op) \/ Stop(op)
  PROVE  Safe'
<1>1. QueueTypes' /\ Len(ops') = Len(ops) + 1 /\ FileTypes' /\ FateTypes' /\ NoSilentLoss'
  BY PutSafe, InPlaceSafe DEF Submit, Drain, Stop
<1>2. ThreadTypes'
  <2>1. UNCHANGED threadVars /\ UNCHANGED gaveUp /\ Len(ops) < MaxOps /\ stopping' \in {stopping, Len(ops) + 1}
    BY DEF Submit, Drain, Stop
  <2>2. Len(ops) \in Nat /\ Len(ops') = Len(ops) + 1
    BY <1>1 DEF Safe, Typed, QueueTypes
  <2>3. hand' <= Len(ops') /\ stopping' \in 0 .. MaxOps
    BY <2>1, <2>2, BoundAssumption DEF Safe, Typed, ThreadTypes, threadVars
  <2>4. ops' = Append(ops, op)
    BY DEF Submit, Drain, Stop, Put
  <2>5. hand # 0 => ops'[hand] = ops[hand]
    BY <2>2, <2>4 DEF Safe, Typed, ThreadTypes, QueueTypes
  <2> QED
    BY <2>1, <2>3, <2>5 DEF Safe, Typed, ThreadTypes, threadVars
<1> QED
  BY <1>1, <1>2 DEF Safe, Typed

\* The steps that only move the thread, the callers or the clock.
LEMMA IdleStepsSafe ==
  ASSUME Safe,
         Start \/ StopReturns \/ StopTimesOut \/ Waited \/ RestIsEmpty
           \/ \E f \in File : SyncDue(f)
  PROVE  Safe'
<1>1. CASE Start \/ StopReturns \/ StopTimesOut \/ Waited \/ RestIsEmpty
  <2>1. QueueTypes'
    BY <1>1 DEF Start, StopReturns, StopTimesOut, Waited, RestIsEmpty, Safe, Typed, QueueTypes, threadVars
  <2>2. hand' = hand /\ stopping' \in {0, stopping} /\ gaveUp' \in {TRUE, gaveUp} /\ ops' = ops
    BY <1>1 DEF Start, StopReturns, StopTimesOut, Waited, RestIsEmpty, threadVars
  <2>3. thread' \in {"none", "alive", "dead"} /\ pc' \in WriterStates
    BY <1>1 DEF Start, StopReturns, StopTimesOut, Waited, RestIsEmpty, Safe, Typed, ThreadTypes,
                threadVars, WriterStates
  <2>4. /\ pc' \in {"run", "rest", "finish"} => hand' # 0
        /\ pc' \in {"rest", "finish"} => ops'[hand'].kind = "stop"
    BY <1>1 DEF Start, StopReturns, StopTimesOut, Waited, RestIsEmpty, Safe, Typed, ThreadTypes, threadVars
  <2>7. gaveUp' \in BOOLEAN
    BY <2>2 DEF Safe, Typed, ThreadTypes
  <2>8. hand' \in 0 .. MaxOps /\ hand' <= Len(ops') /\ stopping' \in 0 .. MaxOps
    BY <2>2, BoundAssumption DEF Safe, Typed, ThreadTypes
  <2>5. ThreadTypes'
    BY <2>3, <2>4, <2>7, <2>8 DEF ThreadTypes
  <2>6. FileTypes' /\ FateTypes' /\ NoSilentLoss'
    BY <1>1, NothingTouched DEF Start, StopReturns, StopTimesOut, Waited, RestIsEmpty
  <2> QED
    BY <2>1, <2>5, <2>6 DEF Safe, Typed
<1>2. CASE \E f \in File : SyncDue(f)
  <2>1. QueueTypes' /\ ThreadTypes'
    BY <1>2 DEF SyncDue, Safe, Typed, QueueTypes, ThreadTypes, threadVars, WriterStates
  <2>2. FileTypes' /\ FateTypes'
    BY <1>2 DEF SyncDue, Safe, Typed, FileTypes, FateTypes, fateVars
  <2>3. NoSilentLoss'
    BY <1>2 DEF SyncDue, Safe, NoSilentLoss, Applied, fateVars
  <2> QED
    BY <2>1, <2>2, <2>3 DEF Safe, Typed
<1> QED
  BY <1>1, <1>2

\* What the thread takes from the queue is an operation it can execute.
LEMMA HeadOfQueue ==
  ASSUME QueueTypes, queue # << >>
  PROVE  /\ Head(queue) \in Position /\ Head(queue) \in 1 .. Len(ops)
         /\ Tail(queue) \in Seq(Position) /\ \A k \in DOMAIN Tail(queue) : Tail(queue)[k] <= Len(ops)
<1>1. /\ Len(queue) \in Nat \ {0} /\ DOMAIN queue = 1 .. Len(queue)
      /\ \A k \in DOMAIN queue : queue[k] \in Position /\ queue[k] <= Len(ops)
      /\ Head(queue) = queue[1]
  BY DEF QueueTypes
<1>2. /\ Tail(queue) \in Seq(Position) /\ DOMAIN Tail(queue) = 1 .. Len(queue) - 1
      /\ \A k \in 1 .. Len(queue) - 1 : Tail(queue)[k] = queue[k + 1]
  BY <1>1 DEF QueueTypes
<1>3. Len(ops) \in Nat
  BY DEF QueueTypes
<1> QED
  BY <1>1, <1>2, <1>3, BoundAssumption DEF Position

LEMMA TakeSafe ==
  ASSUME Safe, Take
  PROVE  Safe'
<1>1. /\ Head(queue) \in 1 .. Len(ops) /\ Head(queue) \in Position
      /\ Tail(queue) \in Seq(Position) /\ \A k \in DOMAIN Tail(queue) : Tail(queue)[k] <= Len(ops)
  BY HeadOfQueue DEF Take, Safe, Typed
<1>2. QueueTypes'
  BY <1>1 DEF Take, Safe, Typed, QueueTypes
<1>3. hand' \in 0 .. MaxOps /\ hand' <= Len(ops') /\ hand' # 0
  BY <1>1, BoundAssumption DEF Take, Position, Safe, Typed, QueueTypes
<1>4. pc' \in WriterStates /\ (pc' \in {"rest", "finish"} => ops'[hand'].kind = "stop")
  BY DEF Take, WriterStates
<1>5. ThreadTypes'
  BY <1>3, <1>4 DEF Take, Safe, Typed, ThreadTypes
<1> QED
  BY <1>2, <1>5, NothingTouched DEF Take, Safe, Typed

LEMMA RunSafe ==
  ASSUME Safe, Run
  PROVE  /\ Safe' /\ durable \subseteq durable' /\ bad \subseteq bad'
         /\ ops[hand].kind \in {"sync", "barrier"} => Settled
<1>1. hand \in 1 .. Len(ops)
  BY DEF Run, Safe, Typed, ThreadTypes, QueueTypes
<1>2. Fits(hand, ops[hand]) /\ hand \in Position /\ ops[hand] \in Op
  BY <1>1, OpsSame DEF Run, Safe, Typed
<1>3. /\ FileTypes' /\ FateTypes' /\ NoSilentLoss'
      /\ durable \subseteq durable' /\ bad \subseteq bad'
      /\ ops[hand].kind \in {"sync", "barrier"} => Settled
  BY <1>2, ExecuteSafe DEF Run
<1>4. QueueTypes'
  BY DEF Run, Safe, Typed, QueueTypes
<1>5. ThreadTypes'
  <2>1. pc' \in {"idle", "get"} /\ hand' = 0 /\ Len(ops') \in Nat
    BY DEF Run, Safe, Typed, QueueTypes
  <2> QED
    BY <2>1, BoundAssumption DEF Run, Safe, Typed, ThreadTypes, WriterStates
<1> QED
  BY <1>3, <1>4, <1>5 DEF Safe, Typed

\* A synchronisation with no operation of its own.
LEMMA BareSyncSafe ==
  ASSUME Safe, OldSafe, UNCHANGED <<ops, applied>>,
         handles' \subseteq File, IsFiniteSet(handles'), Cardinality(handles') <= MaxHandles
  PROVE  FileTypes' /\ FateTypes' /\ NoSilentLoss'
<1>1. NoSilentLoss'
  BY DEF OldSafe, NoSilentLoss, Applied
<1> QED
  BY <1>1 DEF OldSafe, Safe, Typed, FileTypes, FateTypes

LEMMA IdleSafe ==
  ASSUME Safe, Idle
  PROVE  Safe' /\ durable \subseteq durable' /\ bad \subseteq bad'
<1>1. QueueTypes' /\ ThreadTypes'
  BY DEF Idle, Safe, Typed, QueueTypes, ThreadTypes, WriterStates
<1>2. CASE SyncAll
  BY <1>1, <1>2, SyncAllSafe, BareSyncSafe DEF Idle, Safe, Typed, OldSafe
<1>3. CASE UNCHANGED <<fileVars, durable, bad>>
  BY <1>1, <1>3, NothingTouched DEF Idle, fateVars, Safe, Typed
<1> QED
  BY <1>2, <1>3 DEF Idle

LEMMA RunRestSafe ==
  ASSUME Safe, RunRest
  PROVE  Safe'
<1>1. /\ Head(queue) \in 1 .. Len(ops) /\ Head(queue) \in Position
      /\ Tail(queue) \in Seq(Position) /\ \A k \in DOMAIN Tail(queue) : Tail(queue)[k] <= Len(ops)
  BY HeadOfQueue DEF RunRest, Safe, Typed
<1>2. QueueTypes' /\ ThreadTypes'
  BY <1>1 DEF RunRest, Safe, Typed, QueueTypes, ThreadTypes, threadVars
<1>3. CASE Execute(Head(queue), ops[Head(queue)], TRUE)
  <2>1. Fits(Head(queue), ops[Head(queue)]) /\ ops[Head(queue)] \in Op
    BY <1>1, OpsSame DEF RunRest, Safe, Typed
  <2> QED
    BY <1>1, <1>2, <1>3, <2>1, ExecuteSafe DEF Safe, Typed
<1>4. CASE UNCHANGED <<fileVars, fateVars>>
  BY <1>2, <1>4, NothingTouched DEF RunRest, Safe, Typed
<1> QED
  BY <1>3, <1>4 DEF RunRest

LEMMA FinishSafe ==
  ASSUME Safe, Finish
  PROVE  Safe' /\ Settled /\ durable \subseteq durable' /\ bad \subseteq bad'
<1>1. hand \in 1 .. Len(ops) /\ hand \in Position
  BY DEF Finish, Safe, Typed, ThreadTypes, QueueTypes, Position
<1>2. OldSafe /\ Settled
  <2>1. PICK broken \in SUBSET unsynced : SyncFiles(unsynced, broken, {}, {})
    BY DEF Finish
  <2>2. unsynced \in SUBSET unsynced /\ {} \in SUBSET Position
    OBVIOUS
  <2> QED
    BY <2>1, <2>2, SyncSettles
<1>3. QueueTypes'
  BY DEF Finish, Safe, Typed, QueueTypes
<1>4. ThreadTypes'
  <2>1. Len(ops) \in Nat /\ 0 \in 0 .. MaxOps
    BY BoundAssumption DEF Safe, Typed, QueueTypes
  <2> QED
    BY <2>1 DEF Finish, Safe, Typed, ThreadTypes, WriterStates
<1>5. FileTypes'
  BY <1>2, FS_EmptySet, HandlesAssumption DEF Finish, OldSafe, FileTypes
<1>6. FateTypes'
  <2>1. /\ applied \in Seq(Position) /\ hand \in Position /\ applied' = Append(applied, hand)
        /\ \A k \in DOMAIN applied : applied[k] <= Len(ops)
    BY <1>1 DEF Finish, Safe, Typed, FateTypes
  <2>2. \A k \in DOMAIN applied' : applied'[k] <= Len(ops)
    BY <1>1, <2>1
  <2> QED
    BY <1>2, <2>1, <2>2 DEF Finish, OldSafe, FateTypes
<1>7. NoSilentLoss'
  <2>1. Applied' = Applied \cup {hand}
    BY AppliedGrows DEF Finish, Safe, Typed
  <2> QED
    BY <1>2, <2>1 DEF Finish, Safe, Typed, ThreadTypes, NoSilentLoss, Settled
<1> QED
  BY <1>2, <1>3, <1>4, <1>5, <1>6, <1>7 DEF Safe, Typed, OldSafe

LEMMA SafeStep ==
  ASSUME Safe, [Next]_vars
  PROVE  Safe'
<1>1. CASE UNCHANGED vars
  <2>1. UNCHANGED <<fileVars, fateVars>> /\ ops' = ops
    BY <1>1 DEF vars, fileVars, fateVars
  <2>2. QueueTypes' /\ ThreadTypes'
    BY <1>1 DEF vars, Safe, Typed, QueueTypes, ThreadTypes
  <2> QED
    BY <2>1, <2>2, NothingTouched DEF Safe, Typed
<1>2. CASE Writer
  BY <1>2, TakeSafe, RunSafe, IdleStepsSafe, IdleSafe, RunRestSafe, FinishSafe DEF Writer
<1>3. CASE \E op \in Op : Submit(op) \/ Drain(op) \/ Stop(op)
  BY <1>3, CallerSafe
<1> QED
  BY <1>1, <1>2, <1>3, IdleStepsSafe DEF Next

LEMMA InitSafe == Init => Safe
<1> SUFFICES ASSUME Init PROVE Safe
  OBVIOUS
<1>1. QueueTypes
  BY BoundAssumption DEF Init, QueueTypes
<1>2. ThreadTypes
  <2>1. gaveUp \in BOOLEAN
    BY DEF Init
  <2>2. /\ thread \in {"none", "alive", "dead"} /\ pc \in WriterStates
        /\ hand \in 0 .. MaxOps /\ hand <= Len(ops) /\ stopping \in 0 .. MaxOps
        /\ pc \notin {"run", "rest", "finish"}
    BY BoundAssumption DEF Init, WriterStates
  <2> QED
    BY <2>1, <2>2 DEF ThreadTypes
<1>3. FileTypes
  BY FS_EmptySet, HandlesAssumption DEF Init, FileTypes
<1>4. FateTypes
  BY DEF Init, FateTypes
<1>5. NoSilentLoss
  BY DEF Init, NoSilentLoss, Applied
<1> QED
  BY <1>1, <1>2, <1>3, <1>4, <1>5 DEF Safe, Typed

\* The writer's variables keep their types; in particular no more than
\* MaxHandles files are open at once.
THEOREM ChatWriterTyped == Spec => []TypeOK
<1>1. Safe => TypeOK
  BY DEF Safe, Typed, QueueTypes, ThreadTypes, FileTypes, FateTypes, TypeOK
<1> QED
  BY <1>1, InitSafe, SafeStep, PTL DEF Spec

\* However handles are closed, rewrites interleave, fsyncs fail and stop()
\* gives up, an append that took effect is on the disk, or its format is
\* degraded, or its file is still marked for the next fsync.
THEOREM ChatWriterNoSilentLoss == Spec => []NoSilentLoss
<1>1. Safe => NoSilentLoss
  BY DEF Safe
<1> QED
  BY <1>1, InitSafe, SafeStep, PTL DEF Spec

-----------------------------------------------------------------------------
\* Order, when stop() waits as long as it takes.

InHand == IF hand = 0 THEN 0 ELSE 1

\* Where the thread is, and what that says of the queue and the mode lock.
Placed ==
  /\ thread = "alive" <=> pc # "off"
  /\ hand # 0 <=> pc \in {"run", "rest", "finish"}
  /\ thread # "alive" \/ pc \in {"rest", "finish"} => queue = << >>
  /\ thread = "dead" \/ pc \in {"rest", "finish"} => stopping # 0

\* Positions are consecutive: those applied, the one in hand, those queued.
Consecutive ==
  /\ \A k \in 1 .. Len(applied) : applied[k] = k
  /\ hand # 0 => hand = Len(applied) + 1
  /\ \A k \in 1 .. Len(queue) : queue[k] = Len(applied) + InHand + k
  /\ Len(ops) = Len(applied) + InHand + Len(queue)

\* A STOP that has not taken effect is the last operation, and its caller
\* holds the mode lock.
LastStop ==
  \A i \in 1 .. Len(ops) :
     ops[i].kind = "stop" /\ i > Len(applied) => i = Len(ops) /\ stopping = i

Lined == Placed /\ Consecutive /\ LastStop

LEMMA LinedTypes ==
  ASSUME Safe
  PROVE  /\ Len(ops) \in Nat /\ Len(queue) \in Nat /\ Len(applied) \in Nat
         /\ DOMAIN ops = 1 .. Len(ops) /\ DOMAIN queue = 1 .. Len(queue)
         /\ DOMAIN applied = 1 .. Len(applied)
         /\ InHand \in {0, 1} /\ hand \in Nat /\ stopping \in Nat
         /\ ops \in Seq(Op) /\ queue \in Seq(Position) /\ applied \in Seq(Position)
BY BoundAssumption DEF Safe, Typed, QueueTypes, ThreadTypes, FateTypes, InHand

\* An operation joins the queue of a living thread whose lock is free.
LEMMA PutLined ==
  ASSUME Safe, Lined, NEW op \in Op, Put(op), thread = "alive", LockFree,
         UNCHANGED threadVars, UNCHANGED applied,
         stopping' = IF op.kind = "stop" THEN Len(ops) + 1 ELSE stopping
  PROVE  Lined'
<1>1. /\ ops' \in Seq(Op) /\ Len(ops') = Len(ops) + 1 /\ ops'[Len(ops) + 1] = op
      /\ \A j \in 1 .. Len(ops) : ops'[j] = ops[j]
  BY LinedTypes DEF Put
<1>2. /\ Len(queue') = Len(queue) + 1 /\ queue'[Len(queue) + 1] = Len(ops) + 1
      /\ \A j \in 1 .. Len(queue) : queue'[j] = queue[j]
  BY LinedTypes DEF Put
<1>3. Placed'
  BY DEF Lined, Placed, LockFree, threadVars
<1>4. Consecutive'
  <2>1. InHand' = InHand /\ applied' = applied /\ hand' = hand
    BY DEF InHand, threadVars
  <2> DEFINE m == Len(applied) + InHand
  <2>4. /\ m \in Nat /\ Len(ops) = m + Len(queue)
        /\ \A j \in 1 .. Len(queue) : queue[j] = m + j
    BY LinedTypes DEF Lined, Consecutive
  <2>5. Len(applied') + InHand' = m
    BY <2>1
  <2>6. \A k \in 1 .. Len(applied') : applied'[k] = k
    BY <2>1 DEF Lined, Consecutive
  <2>7. hand' # 0 => hand' = Len(applied') + 1
    BY <2>1 DEF Lined, Consecutive
  <2> HIDE DEF m
  <2>2. Len(ops') = m + Len(queue')
    BY <1>1, <1>2, <2>4, LinedTypes
  <2>3. ASSUME NEW k \in 1 .. Len(queue')
        PROVE  queue'[k] = m + k
    <3>1. CASE k \in 1 .. Len(queue)
      BY <1>2, <2>4, <3>1
    <3>2. CASE k = Len(queue) + 1
      BY <1>2, <2>4, <3>2, LinedTypes
    <3> QED
      BY <1>2, <3>1, <3>2, LinedTypes
  <2> QED
    <3>1. \A k \in 1 .. Len(queue') : queue'[k] = Len(applied') + InHand' + k
      BY <2>3, <2>5
    <3>2. Len(ops') = Len(applied') + InHand' + Len(queue')
      BY <2>2, <2>5
    <3> QED
      BY <2>6, <2>7, <3>1, <3>2 DEF Consecutive
<1>5. LastStop'
  <2>1. ASSUME NEW i \in 1 .. Len(ops) PROVE ~ (ops[i].kind = "stop" /\ i > Len(applied))
    <3>1. stopping = 0 /\ i # 0
      BY DEF LockFree
    <3>2. LastStop
      BY DEF Lined
    <3> QED
      BY <3>1, <3>2 DEF LastStop
  <2> QED
    BY <1>1, <2>1, LinedTypes DEF LastStop
<1> QED
  BY <1>3, <1>4, <1>5 DEF Lined

\* An operation executed by its caller: nothing is queued or in hand.
LEMMA InPlaceLined ==
  ASSUME Safe, Lined, NEW op \in Op, op.kind # "stop", thread # "alive",
         ops' = Append(ops, op), applied' = Append(applied, Len(ops) + 1), queue' = queue,
         UNCHANGED threadVars, UNCHANGED stopping
  PROVE  Lined'
<1>1. queue = << >> /\ Len(queue) = 0 /\ hand = 0 /\ InHand = 0 /\ Len(applied) = Len(ops)
  <2>1. queue = << >> /\ hand = 0
    BY DEF Lined, Placed
  <2> QED
    BY <2>1, LinedTypes DEF Lined, Consecutive, InHand
<1>2. /\ Len(ops') = Len(ops) + 1 /\ ops'[Len(ops) + 1] = op
      /\ \A j \in 1 .. Len(ops) : ops'[j] = ops[j]
  BY LinedTypes
<1>3. /\ Len(applied') = Len(ops) + 1 /\ applied'[Len(ops) + 1] = Len(ops) + 1
      /\ \A j \in 1 .. Len(ops) : applied'[j] = applied[j]
  BY <1>1, LinedTypes
<1>4. Placed'
  BY DEF Lined, Placed, threadVars
<1>5. Consecutive'
  <2>1. hand' = 0 /\ InHand' = 0 /\ Len(queue') = 0
    BY <1>1 DEF InHand, threadVars
  <2>2. \A k \in 1 .. Len(applied') : applied'[k] = k
    BY <1>1, <1>3, LinedTypes DEF Lined, Consecutive
  <2> QED
    BY <1>2, <1>3, <2>1, <2>2, LinedTypes DEF Consecutive
<1>6. LastStop'
  BY <1>2, <1>3, LinedTypes DEF LastStop
<1> QED
  BY <1>4, <1>5, <1>6 DEF Lined

LEMMA CallerLined ==
  ASSUME Safe, Lined, NEW op \in Op, Submit(op) \/ Drain(op) \/ Stop(op)
  PROVE  Lined'
<1>1. LockFree => thread # "dead"
  BY DEF Lined, Placed, LockFree
<1>2. CASE Submit(op)
  BY <1>2, PutLined, InPlaceLined DEF Submit, fateVars, Execute
<1>3. CASE Drain(op)
  BY <1>1, <1>3, PutLined, InPlaceLined DEF Drain, fateVars, Execute, Safe, Typed, ThreadTypes
<1>4. CASE Stop(op)
  BY <1>1, <1>4, PutLined DEF Stop, fateVars, Safe, Typed, ThreadTypes
<1> QED
  BY <1>2, <1>3, <1>4

LEMMA TakeLined ==
  ASSUME Safe, Lined, Take
  PROVE  Lined'
<1> DEFINE n == Len(applied)
<1>1. hand = 0 /\ InHand = 0 /\ Len(ops) = n + Len(queue)
  BY LinedTypes DEF Take, Lined, Placed, Consecutive, InHand
<1>2. /\ Len(queue) > 0 /\ Head(queue) = n + 1
      /\ Len(queue') = Len(queue) - 1
      /\ \A k \in 1 .. Len(queue) - 1 : queue'[k] = queue[k + 1]
  BY <1>1, LinedTypes DEF Take, Lined, Consecutive
<1>3. hand' = n + 1 /\ InHand' = 1 /\ applied' = applied /\ ops' = ops
  BY <1>2, LinedTypes DEF Take, InHand, fateVars
<1>4. Consecutive'
  <2>1. ASSUME NEW k \in 1 .. Len(queue')
        PROVE  queue'[k] = n + 1 + k
    <3>1. k + 1 \in 1 .. Len(queue)
      BY <1>2, LinedTypes
    <3>2. queue[k + 1] = n + (k + 1)
      BY <1>1, <3>1, LinedTypes DEF Lined, Consecutive
    <3> QED
      BY <1>2, <3>1, <3>2, LinedTypes
  <2>2. Len(ops') = n + 1 + Len(queue')
    <3>1. n \in Nat /\ Len(queue) \in Nat /\ ops' = ops
      BY <1>3, LinedTypes
    <3> QED
      BY <1>1, <1>2, <3>1
  <2> QED
    BY <1>3, <2>1, <2>2, LinedTypes DEF Lined, Consecutive
<1>5. ops[n + 1].kind = "stop" => queue' = << >> /\ stopping # 0
  <2>1. SUFFICES ASSUME ops[n + 1].kind = "stop"
                 PROVE  queue' = << >> /\ stopping # 0
    OBVIOUS
  <2>2. n + 1 = Len(ops) /\ stopping = n + 1
    BY <1>1, <1>2, <2>1, LinedTypes DEF Lined, LastStop
  <2>3. Len(queue') = 0
    <3>1. n \in Nat /\ Len(queue) \in Nat
      BY LinedTypes
    <3> QED
      BY <1>1, <1>2, <2>2, <3>1
  <2>4. queue' \in Seq(Position)
    BY TakeSafe DEF Safe, Typed, QueueTypes
  <2>5. stopping # 0
    BY <2>2, LinedTypes
  <2> QED
    BY <2>3, <2>4, <2>5
<1>6. Placed'
  BY <1>2, <1>3, <1>5, LinedTypes DEF Take, Lined, Placed
<1>7. LastStop'
  BY <1>3 DEF Take, Lined, LastStop
<1> QED
  BY <1>4, <1>6, <1>7 DEF Lined

LEMMA RunLined ==
  ASSUME Safe, Lined, Run
  PROVE  Lined'
<1> DEFINE n == Len(applied)
<1>1. hand = n + 1 /\ InHand = 1 /\ Len(ops) = n + 1 + Len(queue)
  BY LinedTypes DEF Run, Lined, Placed, Consecutive, InHand
<1>2. /\ Len(applied') = n + 1 /\ applied'[n + 1] = n + 1
      /\ \A k \in 1 .. n : applied'[k] = applied[k]
  BY <1>1, LinedTypes DEF Run, Execute
<1>3. hand' = 0 /\ InHand' = 0 /\ queue' = queue /\ ops' = ops
  BY DEF Run, InHand
<1>4. Consecutive'
  <2>1. n \in Nat /\ Len(queue) \in Nat
    BY LinedTypes
  <2>2. \A k \in 1 .. n + 1 : applied'[k] = k
    BY <1>2, <2>1 DEF Lined, Consecutive
  <2>3. \A k \in 1 .. Len(queue') : queue'[k] = n + 1 + 0 + k
    BY <1>1, <1>3, <2>1 DEF Lined, Consecutive
  <2>4. Len(ops') = n + 1 + 0 + Len(queue')
    BY <1>1, <1>3, <2>1
  <2> QED
    BY <1>2, <1>3, <2>2, <2>3, <2>4 DEF Consecutive
<1>5. Placed'
  BY <1>3 DEF Run, Lined, Placed
<1>6. LastStop'
  <2>1. n \in Nat
    BY LinedTypes
  <2> QED
    BY <1>2, <1>3, <2>1 DEF Run, Lined, LastStop
<1> QED
  BY <1>4, <1>5, <1>6 DEF Lined

LEMMA FinishLined ==
  ASSUME Safe, Lined, Finish
  PROVE  Lined'
<1> DEFINE n == Len(applied)
<1>1. /\ hand = n + 1 /\ InHand = 1 /\ queue = << >> /\ Len(queue) = 0
      /\ Len(ops) = n + 1
  <2>1. hand # 0 /\ queue = << >>
    BY DEF Finish, Lined, Placed
  <2>2. n \in Nat /\ Len(queue) = 0
    BY <2>1, LinedTypes
  <2> QED
    BY <2>1, <2>2 DEF Lined, Consecutive, InHand
<1>2. /\ Len(applied') = n + 1 /\ applied'[n + 1] = n + 1
      /\ \A k \in 1 .. n : applied'[k] = applied[k]
  BY <1>1, LinedTypes DEF Finish
<1>3. hand' = 0 /\ InHand' = 0 /\ queue' = queue /\ ops' = ops
  BY DEF Finish, InHand
<1>4. Consecutive'
  <2>1. n \in Nat
    BY LinedTypes
  <2>2. \A k \in 1 .. n + 1 : applied'[k] = k
    BY <1>2, <2>1 DEF Lined, Consecutive
  <2> QED
    BY <1>1, <1>2, <1>3, <2>1, <2>2 DEF Consecutive
<1>5. Placed'
  BY <1>1, <1>3 DEF Finish, Lined, Placed
<1>6. LastStop'
  <2>1. n \in Nat
    BY LinedTypes
  <2> QED
    BY <1>1, <1>2, <1>3, <2>1 DEF LastStop
<1> QED
  BY <1>4, <1>5, <1>6 DEF Lined

\* The steps that touch neither positions nor operations.
LEMMA OtherLined ==
  ASSUME Safe, Lined, ~ gaveUp',
         Start \/ StopReturns \/ StopTimesOut \/ Waited \/ Idle \/ RunRest \/ RestIsEmpty
           \/ (\E f \in File : SyncDue(f)) \/ UNCHANGED vars
  PROVE  Lined'
<1>1. ~ StopTimesOut /\ ~ RunRest
  BY DEF StopTimesOut, RunRest, Lined, Placed
<1>2. ops' = ops /\ queue' = queue /\ applied' = applied /\ hand' = hand
  BY <1>1 DEF Start, StopReturns, Waited, Idle, RestIsEmpty, SyncDue, vars, fateVars, threadVars
<1>3. Consecutive'
  <2>1. InHand' = InHand
    BY <1>2 DEF InHand
  <2> QED
    BY <1>2, <2>1 DEF Lined, Consecutive
<1>4. CASE StopReturns
  <2>1. thread = "dead" /\ queue = << >> /\ hand = 0 /\ InHand = 0
    BY <1>4 DEF StopReturns, Lined, Placed, InHand
  <2>2. Len(queue) = 0
    BY <2>1
  <2>3. Len(ops) = Len(applied)
    BY <2>1, <2>2, LinedTypes DEF Lined, Consecutive
  <2>4. LastStop'
    <3>1. Len(ops) \in Nat /\ Len(applied) \in Nat
      BY LinedTypes
    <3>2. \A i \in 1 .. Len(ops) : ~ (i > Len(applied))
      BY <2>3, <3>1
    <3>3. \A i \in 1 .. Len(ops') : ~ (i > Len(applied'))
      BY <1>2, <3>2
    <3> QED
      BY <3>3 DEF LastStop
  <2>5. Placed'
    BY <1>2, <1>4, <2>1 DEF StopReturns, Lined, Placed
  <2> QED
    BY <1>3, <2>4, <2>5 DEF Lined
<1>5. CASE ~ StopReturns
  <2>1. stopping' = stopping
    BY <1>1, <1>5 DEF Start, Waited, Idle, RestIsEmpty, SyncDue, vars
  <2>2. LastStop'
    BY <1>2, <2>1 DEF Lined, LastStop
  <2>3. Placed'
    BY <1>1, <1>2, <1>5, <2>1
       DEF Start, Waited, Idle, RestIsEmpty, SyncDue, vars, threadVars, Lined, Placed
  <2> QED
    BY <1>3, <2>2, <2>3 DEF Lined
<1> QED
  BY <1>4, <1>5

LEMMA LinedStep ==
  ASSUME Safe, Lined, ~ gaveUp', [Next]_vars
  PROVE  Lined'
BY CallerLined, TakeLined, RunLined, FinishLined, OtherLined DEF Next, Writer

LEMMA InitLined == Init => Lined
<1> SUFFICES ASSUME Init PROVE Lined
  OBVIOUS
<1>1. Len(ops) = 0 /\ Len(queue) = 0 /\ Len(applied) = 0 /\ hand = 0 /\ InHand = 0
  BY DEF Init, InHand
<1> QED
  BY <1>1 DEF Init, Lined, Placed, Consecutive, LastStop

\* A stop() that gave up stays so.
LEMMA GivenUpForGood ==
  ASSUME Safe, [Next]_vars
  PROVE  gaveUp \in BOOLEAN /\ gaveUp' \in BOOLEAN /\ (gaveUp => gaveUp')
<1>1. gaveUp \in BOOLEAN
  BY DEF Safe, Typed, ThreadTypes
<1>2. gaveUp' = gaveUp \/ gaveUp' = TRUE
  BY DEF Next, Writer, Submit, Drain, Stop, Start, StopReturns, StopTimesOut, Take, Run, Waited,
         Idle, RunRest, RestIsEmpty, Finish, SyncDue, vars
<1> QED
  BY <1>1, <1>2

Order == gaveUp \/ Lined

LEMMA OrderStep ==
  ASSUME Safe, Order, [Next]_vars
  PROVE  Order'
<1>1. CASE gaveUp'
  BY <1>1 DEF Order
<1>2. CASE ~ gaveUp'
  <2>1. Lined
    BY <1>2, GivenUpForGood DEF Order
  <2> QED
    BY <1>2, <2>1, LinedStep DEF Order
<1> QED
  BY <1>1, <1>2

\* Until a stop() gives up, no write is ever in the queue of a thread that has
\* ended: whoever waits for one waits for a thread that will take it.
THEOREM ChatWriterNothingStranded == Spec => []NothingStranded
<1>1. Init => Safe /\ Order
  BY InitSafe, InitLined DEF Order
<1>2. Safe /\ Order /\ [Next]_vars => (Safe /\ Order)'
  BY SafeStep, OrderStep
<1>3. Safe /\ Order => NothingStranded
  BY DEF Order, Lined, Placed, NothingStranded, QueueHasReader
<1> QED
  BY <1>1, <1>2, <1>3, PTL DEF Spec

-----------------------------------------------------------------------------
\* The promise, as long as no stop() has given up.

\* When everything applied has met its fate, the next operation's turn is over.
LEMMA TurnIsOver ==
  ASSUME Safe, Lined, Settled, ops'[Len(applied) + 1].kind # "append",
         \A j \in 1 .. Len(ops) : ops'[j] = ops[j]
  PROVE  Promise!TurnOver(Len(applied) + 1)
<1>1. /\ Len(applied) \in Nat /\ DOMAIN applied = 1 .. Len(applied)
      /\ Len(applied) <= Len(ops) /\ Len(ops) \in Nat
  <2>1. Len(ops) = Len(applied) + InHand + Len(queue)
    BY DEF Lined, Consecutive
  <2> QED
    BY <2>1, LinedTypes
<1>2. SUFFICES ASSUME NEW j \in 1 .. Len(applied) + 1, ops'[j].kind = "append"
               PROVE  j \in durable' \cup bad'
  BY DEF Promise!TurnOver
<1>3. j \in 1 .. Len(applied)
  BY <1>1, <1>2
<1>4. applied[j] = j
  BY <1>3 DEF Lined, Consecutive
<1>5. j \in Applied
  BY <1>1, <1>3, <1>4 DEF Applied
<1>6. ops[j].kind = "append"
  BY <1>1, <1>2, <1>3
<1> QED
  BY <1>5, <1>6 DEF Settled

\* An operation that its caller executes is one the promise applies at once.
LEMMA InPlaceRefines ==
  ASSUME Safe, Lined, NEW op \in Op, op.kind # "stop", Len(ops) < MaxOps, thread # "alive",
         ops' = Append(ops, op), Execute(Len(ops) + 1, op, FALSE), queue' = queue
  PROVE  Promise!ApplyNext
<1>1. Len(applied) = Len(ops) /\ Len(ops) \in Nat
  <2>1. queue = << >> /\ hand = 0
    BY DEF Lined, Placed
  <2>2. Len(queue) = 0 /\ InHand = 0
    BY <2>1 DEF InHand
  <2>3. Len(ops) = Len(applied) + InHand + Len(queue)
    BY DEF Lined, Consecutive
  <2> QED
    BY <2>2, <2>3, LinedTypes
<1>2. ops \in Seq(Op)
  BY LinedTypes
<1>3. ops'[Len(applied) + 1] = op /\ \A j \in 1 .. Len(ops) : ops'[j] = ops[j]
  BY <1>1, <1>2
<1>4. /\ durable \subseteq durable' /\ bad \subseteq bad'
      /\ op.kind \in {"sync", "barrier"} => Settled
  BY InPlaceSafe
<1>5. op.kind \in {"sync", "barrier"} => Promise!TurnOver(Len(applied) + 1)
  BY <1>3, <1>4, TurnIsOver
<1>6. applied' = Append(applied, Len(applied) + 1)
  BY <1>1 DEF Execute
<1> QED
  BY <1>1, <1>3, <1>4, <1>5, <1>6 DEF Promise!ApplyNext, Promise!Apply, Promise!FateGrows

LEMMA CallerRefines ==
  ASSUME Safe, Lined, NEW op \in Op, Submit(op) \/ Drain(op) \/ Stop(op)
  PROVE  Promise!Work
<1>1. CASE Put(op) /\ UNCHANGED <<fileVars, fateVars>>
  BY <1>1 DEF Put, fateVars, Promise!Work, Promise!Accept
<1>2. CASE ~ (Put(op) /\ UNCHANGED <<fileVars, fateVars>>)
  <2>1. /\ op.kind # "stop" /\ Len(ops) < MaxOps /\ thread # "alive"
        /\ ops' = Append(ops, op) /\ Execute(Len(ops) + 1, op, FALSE) /\ queue' = queue
    BY <1>2 DEF Submit, Drain, Stop
  <2> QED
    BY <2>1, InPlaceRefines DEF Promise!Work
<1> QED
  BY <1>1, <1>2

LEMMA RunRefines ==
  ASSUME Safe, Lined, Run
  PROVE  Promise!Work
<1>1. hand = Len(applied) + 1 /\ Len(applied) < Len(ops) /\ Len(applied) \in Nat
  <2>1. hand # 0
    BY DEF Run, Lined, Placed
  <2>2. hand = Len(applied) + 1 /\ Len(ops) = Len(applied) + 1 + Len(queue)
    BY <2>1 DEF Lined, Consecutive, InHand
  <2> QED
    BY <2>2, LinedTypes
<1>2. ops' = ops /\ applied' = Append(applied, Len(applied) + 1)
  BY <1>1 DEF Run, Execute
<1>3. /\ durable \subseteq durable' /\ bad \subseteq bad'
      /\ ops[hand].kind \in {"sync", "barrier"} => Settled
  BY RunSafe
<1>4. ops[hand].kind \in {"append", "rewrite", "sync", "barrier"}
  BY DEF Run, Execute, Appended, AppendFails, Rewritten
<1>5. ops'[Len(applied) + 1].kind \in {"sync", "barrier"} => Promise!TurnOver(Len(applied) + 1)
  <2> SUFFICES ASSUME ops'[Len(applied) + 1].kind \in {"sync", "barrier"}
               PROVE  Promise!TurnOver(Len(applied) + 1)
    OBVIOUS
  <2>1. Settled
    BY <1>1, <1>2, <1>3
  <2>2. ops'[Len(applied) + 1].kind # "append" /\ \A j \in 1 .. Len(ops) : ops'[j] = ops[j]
    BY <1>2
  <2> QED
    BY <2>1, <2>2, TurnIsOver
<1>6. ops'[Len(applied) + 1].kind # "stop"
  BY <1>1, <1>2, <1>4
<1> QED
  BY <1>1, <1>2, <1>3, <1>5, <1>6
     DEF Promise!Work, Promise!ApplyNext, Promise!Apply, Promise!FateGrows

LEMMA FinishRefines ==
  ASSUME Safe, Lined, Finish
  PROVE  Promise!Work
<1>1. hand = Len(applied) + 1 /\ Len(applied) < Len(ops) /\ Len(applied) \in Nat
  <2>1. hand # 0
    BY DEF Finish, Lined, Placed
  <2>2. hand = Len(applied) + 1 /\ Len(ops) = Len(applied) + 1 + Len(queue)
    BY <2>1 DEF Lined, Consecutive, InHand
  <2> QED
    BY <2>2, LinedTypes
<1>2. ops' = ops /\ applied' = Append(applied, Len(applied) + 1)
  BY <1>1 DEF Finish
<1>3. Settled /\ durable \subseteq durable' /\ bad \subseteq bad'
  BY FinishSafe
<1>4. ops[hand].kind = "stop"
  BY DEF Finish, Safe, Typed, ThreadTypes
<1>5. ops'[Len(applied) + 1].kind # "append" /\ \A j \in 1 .. Len(ops) : ops'[j] = ops[j]
  BY <1>1, <1>2, <1>4
<1>6. Promise!TurnOver(Len(applied) + 1)
  BY <1>3, <1>5, TurnIsOver
<1> QED
  BY <1>1, <1>2, <1>3, <1>6 DEF Promise!Work, Promise!ApplyNext, Promise!Apply, Promise!FateGrows

\* The steps in which no operation is handed over or takes effect.
LEMMA OtherRefines ==
  ASSUME Safe, Lined, ~ gaveUp',
         Take \/ Start \/ StopReturns \/ StopTimesOut \/ Waited \/ Idle \/ RunRest \/ RestIsEmpty
           \/ (\E f \in File : SyncDue(f)) \/ UNCHANGED vars
  PROVE  Promise!Work \/ UNCHANGED <<ops, applied, durable, bad>>
<1>1. ~ StopTimesOut /\ ~ RunRest
  BY DEF StopTimesOut, RunRest, Lined, Placed
<1>2. CASE Idle
  <2>1. durable \subseteq durable' /\ bad \subseteq bad'
    BY <1>2, IdleSafe
  <2> QED
    BY <1>2, <2>1 DEF Idle, Promise!Work, Promise!Harden, Promise!FateGrows
<1>3. CASE ~ Idle
  BY <1>1, <1>3
     DEF Take, Start, StopReturns, Waited, RestIsEmpty, SyncDue, vars, fateVars
<1> QED
  BY <1>2, <1>3

\* Until a stop() gives up, the writer keeps its promise, for any files and any
\* limit on handles: writes take effect one at a time in the order they were
\* handed over, none is left out, whether the thread or the caller executes
\* them, and once a sync, a barrier or a stop took effect every append handed
\* over before it is on the disk or reported degraded.
THEOREM ChatWriterKeepsPromise == Spec => KeepsPromise
<1>1. Init => Safe /\ Order
  BY InitSafe, InitLined DEF Order
<1>2. Safe /\ Order /\ [Next]_vars => (Safe /\ Order)'
  BY SafeStep, OrderStep
<1>3. Init => Promise!Init
  BY DEF Init, Promise!Init
<1>4. Safe /\ Order /\ [Next]_vars => [Promise!Next]_(Promise!vars)
  <2> SUFFICES ASSUME Safe, Order, [Next]_vars
               PROVE  [Promise!Next]_(Promise!vars)
    OBVIOUS
  <2>1. CASE gaveUp'
    BY <2>1 DEF Promise!Next
  <2>2. CASE ~ gaveUp'
    <3>1. ~ gaveUp /\ gaveUp' = gaveUp /\ Lined
      BY <2>2, GivenUpForGood DEF Order
    <3>2. Promise!Work \/ UNCHANGED <<ops, applied, durable, bad>>
      BY <2>2, <3>1, CallerRefines, RunRefines, FinishRefines, OtherRefines DEF Next, Writer
    <3> QED
      BY <2>2, <3>1, <3>2 DEF Promise!Next, Promise!vars
  <2> QED
    BY <2>1, <2>2
<1> QED
  BY <1>1, <1>2, <1>3, <1>4, PTL DEF Spec, KeepsPromise, Promise!Spec
=============================================================================
