----------------------------- MODULE ChatWriter -----------------------------
(***************************************************************************)
(* The writer thread of the chat path (backend/io/writer_thread.py): one   *)
(* ordered queue, one thread that writes, marks what it has not fsynced,   *)
(* and synchronises at the end of a turn or when the oldest mark is a      *)
(* second old.  While the thread does not run, the caller executes its own *)
(* operation under the mode lock.                                          *)
(*                                                                         *)
(* Abstracted: what is written (an operation is its position in ops), the  *)
(* read-only refusal (nothing is submitted), the tick functions.           *)
(***************************************************************************)
EXTENDS Naturals, Sequences, FiniteSets

CONSTANTS File,         \* the files written
          MaxOps,       \* bound: operations submitted in one behaviour
          MaxHandles    \* append handles kept open (_MAX_HANDLES)

ASSUME BoundAssumption == MaxOps \in Nat
ASSUME HandlesAssumption == MaxHandles \in Nat \ {0}

NoFile == "no file"

\* "rewrite" stands for replace() and call(): both release the append handle
\* of their file before they write.  "barrier" is drain(), "sync" end_turn().
Op == [kind : {"append", "rewrite"}, file : File]
        \cup [kind : {"sync", "barrier", "stop"}, file : {NoFile}]

VARIABLES
  ops,        \* every operation submitted so far, in the order of submission
  queue,      \* _queue: positions in ops
  thread,     \* _thread: "none", "alive", or "dead" (ended but still referred to)
  pc,         \* where the writer thread is
  hand,       \* the operation it has taken from the queue, 0 if none
  stopping,   \* the STOP whose stop() holds the mode lock, 0 when the lock is free
  gaveUp,     \* a stop() has returned by its timeout
  handles,    \* _handles: files open for appending
  unsynced,   \* _unsynced: files with appends not fsynced
  due,        \* those of them whose first mark is sync_interval old
  applied,    \* positions in the order their effects took place
  durable,    \* appends and rewrites known to be on the disk
  bad         \* operations whose failure marked their format degraded

fileVars == <<handles, unsynced, due>>
fateVars == <<applied, durable, bad>>
threadVars == <<thread, pc, hand>>
vars == <<ops, queue, thread, pc, hand, stopping, gaveUp, handles, unsynced, due, applied, durable, bad>>

\* "get": waiting on the queue.  "run": an operation in hand.  "idle": _idle().
\* "rest": emptying the queue after a STOP.  "finish": the queue was found
\* empty and the last synchronisation is under way.
WriterStates == {"off", "get", "run", "idle", "rest", "finish"}

Position == 1 .. MaxOps

TypeOK ==
  /\ ops \in Seq(Op) /\ Len(ops) <= MaxOps
  /\ queue \in Seq(Position)
  /\ thread \in {"none", "alive", "dead"}
  /\ pc \in WriterStates
  /\ hand \in 0 .. MaxOps
  /\ stopping \in 0 .. MaxOps /\ gaveUp \in BOOLEAN
  /\ handles \subseteq File /\ Cardinality(handles) <= MaxHandles
  /\ unsynced \subseteq File /\ due \subseteq unsynced
  /\ applied \in Seq(Position)
  /\ durable \subseteq Position /\ bad \subseteq Position

Init ==
  /\ ops = << >> /\ queue = << >>
  /\ thread = "none" /\ pc = "off" /\ hand = 0 /\ stopping = 0 /\ gaveUp = FALSE
  /\ handles = {} /\ unsynced = {} /\ due = {}
  /\ applied = << >> /\ durable = {} /\ bad = {}

-----------------------------------------------------------------------------

Applied == {applied[k] : k \in DOMAIN applied}

\* Appends to f that took effect and have not met their fate.
Written(f) ==
  {i \in Applied \ (durable \cup bad) : ops[i].kind = "append" /\ ops[i].file = f}

WrittenIn(F) == UNION {Written(f) : f \in F}

\* _sync_one for every file of F.  fsync fails on those of broken: the mark is
\* gone, the handle is dropped and the format is degraded.  good and wrong are
\* the positions whose fate the operation that synchronises settles itself.
SyncFiles(F, broken, good, wrong) ==
  /\ unsynced' = unsynced \ F
  /\ due' = due \ F
  /\ durable' = durable \cup WrittenIn(F \ broken) \cup good
  /\ bad' = bad \cup WrittenIn(broken) \cup wrong

\* _append: the handle is opened if need be (and the oldest one closed beyond
\* the limit; its mark stays), the line is flushed, the file marked.
Appended(op, keep) ==
  /\ op.kind = "append"
  /\ unsynced' = unsynced \cup {op.file}
  /\ \/ /\ ~ keep
        /\ handles' = {}
     \/ /\ keep
        /\ \/ /\ Cardinality(handles \cup {op.file}) <= MaxHandles
              /\ handles' = handles \cup {op.file}
           \/ /\ Cardinality(handles \cup {op.file}) > MaxHandles
              /\ \E oldest \in handles \ {op.file} :
                    handles' = (handles \cup {op.file}) \ {oldest}
  /\ UNCHANGED <<due, durable, bad>>

\* The open or the write raises: the handle is dropped, so that the next
\* append examines the end of the file again.
AppendFails(i, op, keep) ==
  /\ op.kind = "append"
  /\ bad' = bad \cup {i}
  /\ handles' = IF keep THEN handles \ {op.file} ELSE {}
  /\ UNCHANGED <<unsynced, due, durable>>

\* Fault: the handle is closed before a rewrite without the fsync.
Rewritten_ForgetsMark(i, op, keep) ==
  /\ op.kind = "rewrite"
  /\ unsynced' = unsynced \ {op.file}
  /\ due' = due \ {op.file}
  /\ durable' = durable \cup {i}
  /\ bad' = bad
  /\ handles' = IF keep THEN handles \ {op.file} ELSE {}

\* _replace, or the function of a call: the file's appends are fsynced and its
\* handle closed first; the write itself succeeds or raises.
Rewritten(i, op, keep) ==
  /\ op.kind = "rewrite"
  /\ \E broken \in SUBSET ({op.file} \cap unsynced) :
        \/ SyncFiles({op.file} \cap unsynced, broken, {i}, {})
        \/ SyncFiles({op.file} \cap unsynced, broken, {}, {i})
  /\ handles' = IF keep THEN handles \ {op.file} ELSE {}

\* Fault: the fsync of a turn looks only at the files still open.
SyncAll_OpenFilesOnly ==
  \E broken \in SUBSET (unsynced \cap handles) :
     /\ SyncFiles(unsynced \cap handles, broken, {}, {})
     /\ handles' = handles \ broken

\* _sync_all: every marked file, open or not.
SyncAll ==
  \E broken \in SUBSET unsynced :
     /\ SyncFiles(unsynced, broken, {}, {})
     /\ handles' = handles \ broken

\* _execute of the operation op at position i; keep: the handles survive it.
Execute(i, op, keep) ==
  /\ applied' = Append(applied, i)
  /\ \/ Appended(op, keep) \/ AppendFails(i, op, keep) \/ Rewritten(i, op, keep)
     \/ op.kind \in {"sync", "barrier"} /\ SyncAll

-----------------------------------------------------------------------------
\* The callers.  The mode lock is free in each of these steps.

LockFree == stopping = 0

Put(op) ==
  /\ ops' = Append(ops, op)
  /\ queue' = Append(queue, Len(ops) + 1)

\* Fault: the thread is looked at without the mode lock.
Submit_WithoutModeLock(op) ==
  /\ Len(ops) < MaxOps
  /\ op.kind \in {"append", "rewrite", "sync"}
  /\ \/ /\ thread = "alive"
        /\ Put(op)
        /\ UNCHANGED <<fileVars, fateVars>>
     \/ /\ thread # "alive"
        /\ ops' = Append(ops, op)
        /\ Execute(Len(ops) + 1, op, FALSE)
        /\ UNCHANGED queue
  /\ UNCHANGED <<threadVars, stopping, gaveUp>>

\* _submit (append, replace, call, end_turn): queued if the thread is alive,
\* executed here otherwise.
Submit(op) ==
  /\ LockFree /\ Len(ops) < MaxOps
  /\ op.kind \in {"append", "rewrite", "sync"}
  /\ \/ /\ thread = "alive"
        /\ Put(op)
        /\ UNCHANGED <<fileVars, fateVars>>
     \/ /\ thread # "alive"
        /\ ops' = Append(ops, op)
        /\ Execute(Len(ops) + 1, op, FALSE)
        /\ UNCHANGED queue
  /\ UNCHANGED <<threadVars, stopping, gaveUp>>

\* drain: it looks only at whether there is a thread object, alive or not.
Drain(op) ==
  /\ LockFree /\ Len(ops) < MaxOps
  /\ op.kind = "barrier"
  /\ \/ /\ thread # "none"
        /\ Put(op)
        /\ UNCHANGED <<fileVars, fateVars>>
     \/ /\ thread = "none"
        /\ ops' = Append(ops, op)
        /\ Execute(Len(ops) + 1, op, FALSE)
        /\ UNCHANGED queue
  /\ UNCHANGED <<threadVars, stopping, gaveUp>>

Start ==
  /\ LockFree /\ thread = "none"
  /\ thread' = "alive" /\ pc' = "get"
  /\ UNCHANGED <<ops, queue, hand, stopping, gaveUp, fileVars, fateVars>>

\* stop: queue a STOP and wait for its event with the mode lock held.
Stop(op) ==
  /\ LockFree /\ Len(ops) < MaxOps
  /\ op.kind = "stop" /\ thread # "none"
  /\ Put(op)
  /\ stopping' = Len(ops) + 1
  /\ UNCHANGED <<threadVars, gaveUp, fileVars, fateVars>>

\* The event is set and the thread joined: callers execute in place from here.
StopReturns ==
  /\ stopping # 0 /\ stopping \in Applied /\ thread = "dead"
  /\ thread' = "none" /\ stopping' = 0
  /\ UNCHANGED <<ops, queue, pc, hand, gaveUp, fileVars, fateVars>>

\* The timeout: stop() returns False and leaves the thread where it is.
StopTimesOut ==
  /\ stopping # 0 /\ stopping \notin Applied
  /\ stopping' = 0 /\ gaveUp' = TRUE
  /\ UNCHANGED <<ops, queue, threadVars, fileVars, fateVars>>

-----------------------------------------------------------------------------
\* The writer thread.

\* queue.get returns.
Take ==
  /\ pc = "get" /\ queue # << >>
  /\ hand' = Head(queue) /\ queue' = Tail(queue)
  /\ pc' = IF ops[Head(queue)].kind = "stop" THEN "rest" ELSE "run"
  /\ UNCHANGED <<ops, thread, stopping, gaveUp, fileVars, fateVars>>

\* The operation in hand; if it leaves the queue empty, a look at the clock.
Run ==
  /\ pc = "run"
  /\ Execute(hand, ops[hand], TRUE)
  /\ hand' = 0
  /\ pc' = IF queue = << >> THEN "idle" ELSE "get"
  /\ UNCHANGED <<ops, queue, thread, stopping, gaveUp>>

\* Nothing came for as long as the oldest mark allows.
Waited ==
  /\ pc = "get" /\ queue = << >> /\ due # {}
  /\ pc' = "idle"
  /\ UNCHANGED <<ops, queue, thread, hand, stopping, gaveUp, fileVars, fateVars>>

\* Fault: the clock is looked at and nothing is done.
Idle_OnlyLooks ==
  /\ pc = "idle" /\ pc' = "get"
  /\ UNCHANGED <<ops, queue, thread, hand, stopping, gaveUp, fileVars, fateVars>>

\* _idle: one overdue file synchronises them all.
Idle ==
  /\ pc = "idle" /\ pc' = "get"
  /\ \/ due # {} /\ SyncAll
     \/ due = {} /\ UNCHANGED <<fileVars, durable, bad>>
  /\ UNCHANGED <<ops, queue, thread, hand, stopping, gaveUp, applied>>

\* A second has passed since the first append not synchronised.
SyncDue(f) ==
  /\ f \in unsynced \ due
  /\ due' = due \cup {f}
  /\ UNCHANGED <<ops, queue, threadVars, stopping, gaveUp, handles, unsynced, fateVars>>

\* After a STOP: the operations still queued are executed, a second STOP is
\* thrown away with its event unset.
RunRest ==
  /\ pc = "rest" /\ queue # << >>
  /\ queue' = Tail(queue)
  /\ \/ /\ ops[Head(queue)].kind # "stop"
        /\ Execute(Head(queue), ops[Head(queue)], TRUE)
     \/ /\ ops[Head(queue)].kind = "stop"
        /\ UNCHANGED <<fileVars, fateVars>>
  /\ UNCHANGED <<ops, threadVars, stopping, gaveUp>>

\* get_nowait raises Empty.
RestIsEmpty ==
  /\ pc = "rest" /\ queue = << >> /\ pc' = "finish"
  /\ UNCHANGED <<ops, queue, thread, hand, stopping, gaveUp, fileVars, fateVars>>

\* _finish, the event, and the end of the thread.
Finish ==
  /\ pc = "finish" /\ pc' = "off"
  /\ \E broken \in SUBSET unsynced : SyncFiles(unsynced, broken, {}, {})
  /\ handles' = {}
  /\ applied' = Append(applied, hand)
  /\ hand' = 0 /\ thread' = "dead"
  /\ UNCHANGED <<ops, queue, stopping, gaveUp>>

Writer == Take \/ Run \/ Waited \/ Idle \/ RunRest \/ RestIsEmpty \/ Finish

Next ==
  \/ \E op \in Op : Submit(op) \/ Drain(op) \/ Stop(op)
  \/ Start \/ StopReturns \/ StopTimesOut
  \/ Writer
  \/ \E f \in File : SyncDue(f)

Spec == Init /\ [][Next]_vars

\* The operating system schedules the writer, a wait that is over returns, and
\* time passes.  Nobody has to submit, start or stop anything.
Fairness == WF_vars(Writer) /\ WF_vars(StopReturns) /\ \A f \in File : WF_vars(SyncDue(f))

FairSpec == Spec /\ Fairness

-----------------------------------------------------------------------------

\* No append is lost without a word: once it took effect it is on the disk, or
\* its format is degraded, or its file is still marked for the next fsync,
\* whatever closed the handle in between (a rewrite, the limit on handles, a
\* failed write, an execution in place) and whether or not stop() gave up.
NoSilentLoss ==
  \A i \in Applied : ops[i].kind = "append" =>
     i \in durable \cup bad \/ ops[i].file \in unsynced

\* What is still in the queue has a thread to take it.  A write left behind in
\* the queue of a thread that has ended is never executed, while later writes
\* are, in place: whoever waits for its future waits for ever.
QueueHasReader ==
  thread # "alive" =>
     \A k \in DOMAIN queue : ops[queue[k]].kind \notin {"append", "rewrite", "sync"}

\* So it is as long as no stop() has given up.
NothingStranded == gaveUp \/ QueueHasReader

\* The writer keeps the promise its callers rely on, until a stop() gives up.
Promise == INSTANCE OrderedWriter WITH void <- gaveUp
KeepsPromise == Promise!Spec

\* Every write submitted while the thread runs takes effect, the ones that
\* were queued when stop() was called included, unless a stop() gives up.
EverythingTakesEffect ==
  \A i \in Position : i \in 1 .. Len(ops) ~> i \in Applied \/ gaveUp

\* An append outside a turn does not wait for the end of one: the thread
\* synchronises it by itself once the interval is over.
AppendsReachDisk ==
  \A f \in File : f \in unsynced /\ thread = "alive" ~> f \notin unsynced \/ thread # "alive"
=============================================================================
