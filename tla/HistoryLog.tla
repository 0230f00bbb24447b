----------------------------- MODULE HistoryLog -----------------------------
(***************************************************************************)
(* The life of one session in the chat history: the ledger of the event    *)
(* loop (api/chat/chat_recorder.py), the turn log, the session file and    *)
(* the index of history/history_manager.py, with the crash and the restart *)
(* between any two steps.                                                  *)
(*                                                                         *)
(* The event loop appends to the ledger and queues rows; the writer thread *)
(* executes its queue in order (ChatWriter) and folds the log into the     *)
(* session file.  Rows carry their position seq, and a fold skips the rows *)
(* whose position the file already has.                                    *)
(*                                                                         *)
(* Abstracted: a turn is a number, odd when the user says it; metadata,    *)
(* summaries and compaction are left out; sessions do not share files, so  *)
(* one is modelled.  Assumed: auto-save is on, and the file system keeps   *)
(* the order of renames and unlinks.                                       *)
(***************************************************************************)
EXTENDS Naturals, Sequences, FiniteSets, SequencesExt

CONSTANTS None,         \* no ledger, no file, no entry (a model value)
          MaxTurns,     \* bound: turns said in one behaviour
          MaxCrashes    \* bound: crashes

ASSUME BoundsAssumption == MaxTurns \in Nat /\ MaxCrashes \in Nat
ASSUME NoneAssumption ==
  /\ None \notin Seq(Nat) /\ \A turns \in SUBSET (1 .. MaxTurns) : None # turns
  /\ None \notin Seq([seq : Nat, turn : Nat])
  /\ None \notin [turns : Seq(Nat), persisted : Nat, started : BOOLEAN]
  /\ None \notin [what : {"say", "save"}, file : Seq(Nat) \cup {None}]

VARIABLES
  \* the event loop
  said,       \* turns accumulated so far, over all processes
  ledger,     \* _ledgers[session_id]: turns, persisted, started (started_at is set)
  forgotten,  \* the session is not in _ledgers; ledger is what it was there (history)
  reading,    \* _ensure_session_restored between its two reads: what for, and the file read
  booting,    \* the process has no history manager yet
  misread,    \* it has restored the session from less than there was of it (history)
  \* the writer thread
  queue,      \* operations of this session in the writer's queue
  folding,    \* where the fold is: "no", "merged", "written"
  merged,     \* the session it is about to write, or has written
  deleting,   \* delete_sessions_batch between its two unlinks
  \* the disk, and the index in memory
  json,       \* the session file: the turns, or None
  log,        \* the turn log: rows [seq, turn], or None
  synced,     \* rows of the log that are fsynced
  undo,       \* file and log before the last fold, while a power loss can bring them back
  indexed,    \* turns in the search text of the index entry, None if there is no entry
  \* what happened so far
  kept,       \* turns that have been on the disk, fsynced
  gone,       \* turns the user has deleted, or discarded with a log without a question
  disturbed,  \* a write has failed, or the session was deleted
  crashes

loopVars == <<said, ledger, forgotten, reading, booting, misread>>
foldVars == <<folding, merged, deleting>>
diskVars == <<json, log, synced, undo, indexed>>
pastVars == <<kept, gone, disturbed, crashes>>
vars == <<said, ledger, forgotten, reading, booting, misread, queue, folding, merged,
          deleting, json, log, synced, undo, indexed, kept, gone, disturbed, crashes>>

Turn == 1 .. MaxTurns
Row == [seq : Nat, turn : Turn]

NewLedger == [turns |-> << >>, persisted |-> 0, started |-> FALSE]

FoldOp == [kind |-> "fold"]
SyncOp == [kind |-> "sync"]
DeleteOp == [kind |-> "delete"]
AppendOp(rows, contents) == [kind |-> "append", rows |-> rows, contents |-> contents]

Init ==
  /\ said = 0 /\ ledger = None /\ forgotten = FALSE /\ reading = None
  /\ booting = TRUE /\ misread = FALSE
  /\ queue = << >> /\ folding = "no" /\ merged = << >> /\ deleting = FALSE
  /\ json = None /\ log = None /\ synced = 0 /\ undo = None /\ indexed = None
  /\ kept = {} /\ gone = {} /\ disturbed = FALSE /\ crashes = 0

-----------------------------------------------------------------------------

Turns(file) == IF file = None THEN << >> ELSE file

\* The row is added unless the turns have its position already.
Fold(turns, row) == IF row.seq < Len(turns) THEN turns ELSE Append(turns, row.turn)

\* merge_turn_log: the rows are folded in, one after the other.
Merge(file, rows) ==
  LET upTo[n \in 0 .. Len(Turns(rows))] ==
        IF n = 0 THEN Turns(file) ELSE Fold(upTo[n - 1], rows[n])
  IN  upTo[Len(Turns(rows))]

\* What get_session returns when nothing is under way.
View == Merge(json, log)

-----------------------------------------------------------------------------
\* The event loop.

\* The loop is not inside get_session, nor waiting for a deletion.
Free == reading = None /\ DeleteOp \notin ToSet(queue)

IsAnswer(turn) == turn % 2 = 0

\* _accumulate_turn: a question, or the answer to the last one.
Say(led) ==
  \E turn \in {said + 1, said + 2} \cap Turn :
     /\ IsAnswer(turn) => led.turns # << >> /\ Last(led.turns) = turn - 1
     /\ said' = turn
     /\ ledger' = [led EXCEPT !.turns = Append(@, turn)]
     /\ UNCHANGED queue

\* _submit_history_persist: the rows not handed over yet, the entry of the
\* index, and the end of the turn.
Save(led) ==
  LET new == [i \in 1 .. Len(led.turns) - led.persisted |->
                [seq |-> led.persisted + i - 1, turn |-> led.turns[led.persisted + i]]]
  IN /\ new # << >>
     /\ queue' = queue \o <<AppendOp(new, ToSet(led.turns)), SyncOp>>
     /\ ledger' = [led EXCEPT !.persisted = Len(led.turns), !.started = TRUE]
     /\ UNCHANGED said

Record(what, led) ==
  \/ what = "say" /\ Say(led)
  \/ what = "save" /\ Save(led)

\* Rows of the session wait for the writer.
Unwritten == \E i \in DOMAIN queue : queue[i].kind = "append"

\* accumulate_user_turn and _save_session_to_history: a session the ledger has
\* not started, but the index knows, is read from the disk first.  Before there
\* is a manager a turn is accumulated without that, and a save builds one.
Enter(what) ==
  LET led == IF ledger = None \/ forgotten THEN NewLedger ELSE ledger
  IN /\ Free
     /\ what = "save" => led.turns # << >>
     /\ \/ /\ booting /\ what = "say"
           /\ Say(led)
           /\ UNCHANGED reading
        \/ /\ ~ booting
           /\ led.started \/ indexed = None
           /\ Record(what, led)
           /\ UNCHANGED reading
        \/ /\ ~ booting
           /\ ~ led.started /\ indexed # None
           /\ what = "say" => said + 2 \in Turn
           /\ reading' = [what |-> what, file |-> json]
           /\ ledger' = led
           /\ UNCHANGED <<said, queue>>
     /\ forgotten' = FALSE
     /\ misread' = (misread \/ (forgotten /\ Unwritten))
  /\ UNCHANGED <<booting, foldVars, diskVars, pastVars>>

\* Fault: the restored turns are put after the ledger's.
Restored_PutsLast(led, session) ==
  [turns |-> led.turns \o session, persisted |-> led.persisted + Len(session), started |-> TRUE]

\* The turns found are put before the ledger's, and count as handed over.
Restored(led, session) ==
  [turns |-> session \o led.turns, persisted |-> led.persisted + Len(session), started |-> TRUE]

\* Rows have positions behind the end of the session: rows before them are lost.
Gap(session) == \E i \in DOMAIN Turns(log) : log[i].seq >= Len(session)

\* The second read of get_session, and what the restoration was for.
ReadLog ==
  /\ reading # None
  /\ reading' = None
  /\ LET session == Merge(reading.file, log)
         led == Restored(ledger, session)
     IN /\ \/ Record(reading.what, led)
           \/ reading.what = "save" /\ Len(led.turns) = led.persisted
              /\ ledger' = led /\ UNCHANGED <<said, queue>>
        /\ misread' = (misread \/ reading.file # json \/ Gap(session))
  /\ UNCHANGED <<forgotten, booting, foldVars, diskVars, pastVars>>

\* clear_session_data: pushed out of the registry, or ended, in which case the
\* log is to be folded.  Nothing waits for the rows that are queued, nor for the
\* fold.
Drop(ended) ==
  /\ Free /\ ~ booting /\ ledger # None /\ ~ forgotten
  /\ forgotten' = TRUE
  /\ queue' = IF ended THEN Append(queue, FoldOp) ELSE queue
  /\ UNCHANGED <<said, ledger, reading, booting, misread, foldVars, diskVars, pastVars>>

\* DELETE /api/history: the loop waits for the writer.
Delete ==
  /\ Free /\ ~ booting /\ indexed # None
  /\ queue' = Append(queue, DeleteOp)
  /\ UNCHANGED <<loopVars, foldVars, diskVars, pastVars>>

\* A sleep-time step folds the idle logs, or writes a field of the session.
SleepFold ==
  /\ ~ booting /\ log # None /\ FoldOp \notin ToSet(queue)
  /\ queue' = Append(queue, FoldOp)
  /\ UNCHANGED <<loopVars, foldVars, diskVars, pastVars>>

-----------------------------------------------------------------------------
\* The writer thread.

Next1(kind) == queue # << >> /\ Head(queue).kind = kind
Done == queue' = Tail(queue)

WriteRows(rows) == log' = Turns(log) \o rows

\* The append and the entry of the index.  A write that raises may leave the
\* first rows in the file.
DoAppend ==
  /\ Next1("append")
  /\ \/ WriteRows(Head(queue).rows) /\ UNCHANGED disturbed
     \/ /\ \E n \in 0 .. Len(Head(queue).rows) - 1 : WriteRows(SubSeq(Head(queue).rows, 1, n))
        /\ disturbed' = TRUE
  /\ indexed' = Head(queue).contents
  /\ Done
  /\ UNCHANGED <<loopVars, foldVars, json, synced, undo, kept, gone, crashes>>

TurnsOf(rows) == {rows[i].turn : i \in DOMAIN rows}

\* Fault: the turn ends without the fsync.
DoSync_Skipped ==
  /\ Next1("sync")
  /\ kept' = kept \cup TurnsOf(Turns(log))
  /\ Done
  /\ UNCHANGED <<loopVars, foldVars, diskVars, gone, disturbed, crashes>>

\* The fsync at the end of the turn.  What an unlink removed before it cannot
\* come back after it.
DoSync ==
  /\ Next1("sync")
  /\ synced' = Len(Turns(log))
  /\ kept' = kept \cup TurnsOf(Turns(log))
  /\ undo' = IF log = None THEN undo ELSE None
  /\ Done
  /\ UNCHANGED <<loopVars, foldVars, json, log, indexed, gone, disturbed, crashes>>

\* _fold up to the session to write: the log's handle is fsynced and closed,
\* file and log are read and merged.  A log alone that holds no question is
\* thrown away.
DoFold ==
  /\ Next1("fold") /\ folding = "no"
  /\ \/ /\ log = None
        /\ Done
        /\ UNCHANGED <<folding, merged, log, synced, kept, gone, undo>>
     \/ /\ log # None /\ json = None /\ \A turn \in TurnsOf(log) : IsAnswer(turn)
        /\ log' = None /\ synced' = 0
        /\ gone' = gone \cup TurnsOf(log)
        /\ Done
        /\ UNCHANGED <<folding, merged, kept, undo>>
     \/ /\ log # None
        /\ json # None \/ \E turn \in TurnsOf(log) : ~ IsAnswer(turn)
        /\ synced' = Len(log)
        /\ kept' = kept \cup TurnsOf(log)
        /\ merged' = View
        /\ folding' = "merged"
        /\ undo' = None
        /\ UNCHANGED <<log, gone, queue>>
  /\ UNCHANGED <<loopVars, deleting, json, indexed, disturbed, crashes>>

\* Fault: the entry is left as it was.
WriteSession_KeepsEntry ==
  /\ folding = "merged"
  /\ json' = merged
  /\ undo' = [json |-> json, log |-> log]
  /\ folding' = "written"
  /\ UNCHANGED <<loopVars, queue, merged, deleting, log, synced, indexed, pastVars>>

\* The session file is replaced and the index entry rebuilt from it.
WriteSession ==
  /\ folding = "merged"
  /\ json' = merged
  /\ indexed' = ToSet(merged)
  /\ undo' = [json |-> json, log |-> log]
  /\ folding' = "written"
  /\ UNCHANGED <<loopVars, queue, merged, deleting, log, synced, pastVars>>

\* Only then is the log removed.
RemoveLog ==
  /\ folding = "written"
  /\ log' = None /\ synced' = 0
  /\ folding' = "no" /\ Done
  /\ UNCHANGED <<loopVars, merged, deleting, json, undo, indexed, pastVars>>

\* A manager that could not be built is built again by the next call.
AfterFailure == IF booting THEN UNCHANGED queue ELSE Done

\* Fault: the log is removed whether or not the session was written.
FoldFails_RemovesLog ==
  /\ folding # "no"
  /\ folding' = "no" /\ AfterFailure
  /\ log' = None /\ synced' = 0
  /\ disturbed' = TRUE
  /\ UNCHANGED <<loopVars, merged, deleting, json, undo, indexed, kept, gone, crashes>>

\* The replacement or the unlink raises: the fold ends there.
FoldFails ==
  /\ folding # "no"
  /\ folding' = "no" /\ AfterFailure
  /\ disturbed' = TRUE
  /\ UNCHANGED <<loopVars, merged, deleting, diskVars, kept, gone, crashes>>

\* delete_sessions_batch on the writer: the entry and the file, ...
DeleteFile ==
  /\ Next1("delete") /\ ~ deleting
  /\ indexed' = None /\ json' = None
  /\ deleting' = TRUE
  /\ undo' = None
  /\ gone' = gone \cup kept
  /\ disturbed' = TRUE
  /\ UNCHANGED <<loopVars, queue, folding, merged, log, synced, kept, crashes>>

\* ... then the log; the caller is told.
DeleteLog ==
  /\ deleting
  /\ log' = None /\ synced' = 0
  /\ deleting' = FALSE /\ Done
  /\ UNCHANGED <<loopVars, folding, merged, json, undo, indexed, pastVars>>

-----------------------------------------------------------------------------

\* The disk after a crash.  The process dies: what was written stays, and the
\* append in hand may have left some of its rows.  The machine dies: rows not
\* fsynced may be gone, and the last renames and unlinks may be undone, the
\* latest first.
Disks ==
  {[json |-> json, log |-> IF log = None THEN None ELSE SubSeq(log, 1, n)] :
      n \in synced .. Len(Turns(log))}
  \cup (IF Next1("append")
        THEN {[json |-> json, log |-> Turns(log) \o SubSeq(Head(queue).rows, 1, n)] :
                 n \in 0 .. Len(Head(queue).rows)}
        ELSE {})
  \cup (IF undo = None \/ (synced > 0 /\ log # undo.log)
        THEN {}
        ELSE {undo, [json |-> json, log |-> undo.log]})

\* Crash and restart: the first get_history_manager folds the log left over.
Crash ==
  /\ crashes < MaxCrashes
  /\ crashes' = crashes + 1
  /\ \E d \in Disks :
        /\ json' = d.json /\ log' = d.log
        /\ synced' = Len(Turns(d.log))
        /\ indexed' = IF d.json = None THEN None ELSE ToSet(d.json)
        /\ queue' = IF d.log # None THEN <<FoldOp>> ELSE << >>
  /\ undo' = None /\ booting' = TRUE
  /\ ledger' = None /\ forgotten' = FALSE /\ reading' = None
  /\ folding' = "no" /\ merged' = << >> /\ deleting' = FALSE
  /\ UNCHANGED <<said, kept, gone, disturbed, misread>>

Booted ==
  /\ booting /\ queue = << >>
  /\ booting' = FALSE
  /\ UNCHANGED <<said, ledger, forgotten, reading, queue, misread, foldVars, diskVars, pastVars>>

Writer == DoAppend \/ DoSync \/ DoFold \/ WriteSession \/ RemoveLog \/ DeleteFile \/ DeleteLog

Next ==
  \/ \E what \in {"say", "save"} : Enter(what)
  \/ ReadLog \/ Booted
  \/ \E ended \in BOOLEAN : Drop(ended)
  \/ Delete \/ SleepFold
  \/ Writer \/ FoldFails
  \/ Crash

Spec == Init /\ [][Next]_vars

-----------------------------------------------------------------------------

Files == Seq(Turn) \cup {None}
Logs == Seq(Row) \cup {None}
Ledgers == [turns : Seq(Turn), persisted : Nat, started : BOOLEAN]
Ops == {FoldOp, SyncOp, DeleteOp}
       \cup [kind : {"append"}, rows : Seq(Row), contents : SUBSET Turn]

TypeOK ==
  /\ said \in 0 .. MaxTurns /\ crashes \in 0 .. MaxCrashes
  /\ ledger \in Ledgers \cup {None}
  /\ reading \in [what : {"say", "save"}, file : Files] \cup {None}
  /\ queue \in Seq(Ops)
  /\ folding \in {"no", "merged", "written"} /\ merged \in Seq(Turn)
  /\ json \in Files /\ log \in Logs /\ synced \in 0 .. Len(Turns(log))
  /\ undo \in [json : Files, log : Logs] \cup {None}
  /\ indexed = None \/ indexed \subseteq Turn
  /\ kept \subseteq Turn /\ gone \subseteq Turn
  /\ {forgotten, booting, deleting, disturbed, misread} \subseteq BOOLEAN

\* A turn that was on the disk stays in the session until the user deletes it.
ReopenedGoesOn == kept \ gone \subseteq ToSet(View)

\* So it does, folds, failed writes, crashes during any of them and restarts
\* included, a ledger pushed out and restored too, but for a session misread: one
\* restored while rows of it were queued, while a fold moved them, or from a log
\* with a gap.  Its new turns repeat positions that are taken.
KeptTurnsStay == misread \/ ReopenedGoesOn

\* The turns of a session are in the order in which they were said, each once,
\* however often the same log is folded: as long as no write failed, the session
\* was not deleted and not misread.  (A gap in the positions of the rows makes a
\* second fold of the same log append the rows behind it again.)
InOrder == disturbed \/ misread \/ \A i, j \in DOMAIN View : i < j => View[i] < View[j]

\* Once the writer has nothing left to do, a search of the index meets the turns
\* a reader of the session sees, and no other: the entry is written from the
\* ledger by an append and from the file by a fold, and the two never part for
\* longer, whichever came last and whatever a crash took away.  The exceptions
\* are those of InOrder.
IndexShowsSession ==
  queue = << >> /\ ~ disturbed /\ ~ misread =>
     IF indexed = None THEN View = << >> ELSE indexed = ToSet(View)

\* The session implements the archive its readers count on, until it is
\* disturbed or misread.
Archive == INSTANCE SessionArchive
             WITH archive <- View, safe <- Cardinality(kept), void <- disturbed \/ misread
ImplementsArchive == Archive!Spec
=============================================================================
