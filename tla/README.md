# TLA+ models of evoref-free

evoref-free is a local assistant: one Python process with an asyncio event loop serves chat turns
over HTTP, talks to inference and embedding servers, writes the conversation to disk, and learns from
it in the background. What is hard in it is who may run when, and what is on the disk when the
process dies. This directory models that part, checks it with TLC and proves with TLAPS every safety
property that the passing runs check. What the code does not keep is an exception that the property
itself names. `PROJECT.json` lists components, runs, mutants, the map from definitions to source lines,
findings, hazards and theorems.

- [Inventory](#inventory)
- [Modules](#modules)
- [Runs, bounds and fairness](#runs-bounds-and-fairness)
- [Proofs](#proofs)
- [Where code and documentation disagree](#where-code-and-documentation-disagree)
- [Not modelled](#not-modelled)
- [Plan](#plan)

Paths below are under `src/backend/free/` unless they start with `src/`.

## Inventory

### Components that interact

**Chat turn handling** (`api/chat/chat.py`, `api/chat/chat_recorder.py`). A turn is one HTTP
request: the user's input is recorded, the model generates, the response is recorded, sometimes by a
task that outlives a client that disconnected. It calls the sleep scheduler (`on_user_input`,
`on_llm_start`, `on_response_sent`), holds a place in the count of generations in flight, and keeps one
ledger per session (`_ledgers`: turns, how many are handed over to the writer). Hard: a turn ends
in several ways, and everything below must survive each. Correct if the ledger holds each turn once
and in order, also after it was restored from the disk.

**Sleep-time scheduler** (`memory/scheduler.py`). State: the Light task, the Full task
(`_full_task`), a dozen flags (requested, forced, running, waiting for verification or summaries),
the time of the last input and of the last Full. Operations: the three hooks of a turn, the waiting
task `_schedule_full` with its gates, its re-arming, the manual Full, the resident Level 1 loop, the
shutdown. Hard: many parties create and cancel the one timer, and each reads flags that others change
while it sleeps. Correct if at most one Full runs, not beside Level 1, a forced or
requested Full is not starved by the conversation, the caller of a manual Full is told the truth, and
nothing runs after a shutdown that has settled.

**Sleep-time worker** (`memory/sleep_update.py`). Holds `_cycle_lock` and `_cancelled`; runs the
steps of a Light and of a Full in threads, and is quiesced at shutdown. Correct if a cancellation
reaches the cycle it was meant for and no cycle runs after `quiesce()`.

**Level 1 learning scheduler** (`learning/scheduler.py`). A session with phases that can be saved
and resumed, a queue of priority requests, an event that asks it to yield. Correct if it yields to
the user, loses no request, and resumes what it saved.

**Embedding arbiter** (`rag/embed_scheduler.py`). Two counters and a condition decide which of the
callers, on four levels of priority, may use one of two places on the embedding server. Correct if
the counters leak nothing, nobody who could start sleeps, and a dialogue never waits for background
work alone.

**Chat writer thread** (`src/backend/io/writer_thread.py`). One queue, one thread, open append
handles, marks of files not yet fsynced; while the thread does not run, a caller executes its own
operation. Correct if writes take effect in the order of submission, the end of a turn leaves nothing
volatile without a word, and `stop()` strands nothing.

**Chat history** (`history/history_manager.py`). Per session a turn log, a session file and an
index entry. The log is folded into the file when the session ends, is idle, or the process starts. Correct
if no turn that was on the disk is lost or doubled, whatever crashes.

**Generation gate and auxiliary client** (`llm/generation_gate.py`, `llm/aux_client.py`). A count of
leases of chat turns and of their generations, an event for idle windows, locks per slot of the
server, a bound on preemptions. Operations: a turn begins, hands its lease over to a stream, ends; a
background task waits, asks for the lock, is dispatched, cut off, or runs to its end; `rebind()`.
Hard: three parties may end one lease, and what was read before a wait is old after it. Correct if
every lease is released once, what cannot be cut off was there before the turns it delays, and
background work ends.

**Turn admission** (`api/chat/turn_admission.py`, `chat_stream_meta.py`, `cancel_scope`,
`api/system/shutdown.py`). A ledger of admitted turns, cancel keys and flags, agent tasks with done
callbacks. A turn whose client goes away is left to its agent. Hard: handler, two nested generators,
agent, timer and shutdown end in any order. Correct if turns of one session exclude each other, a
turn is recorded once, an agent can be cancelled as long as it works, and nobody blocks a session for
ever.

**Install lock** (`src/backend/io/writer_lock.py`, and `save_config_section` of
`src/backend/config.py` with its callers). A presence file per server and one lock for commands that
write `config.yaml`, both freed by the system when their process ends. A running server writes
`config.yaml` too, for requests that change it, and takes no lock. Hard: several processes, any of
them killed between two calls, and a file that is read, merged and replaced. Correct if one of server
and command always sees the other, a server serves what is on the disk, and no change is lost.

**Evidence store** (`rag/evidence/`, used by the episodic and the semantic memory). A log of events
in monthly files, numbered versions of the records, a manifest, and in memory the version the reader
has open with an overlay of later events. Operations: events, `create_snapshot` with its four awaits,
pruning, physical GC, `load` with recovery and fallback, which may raise over torn files while the
process goes on. Hard: events come in during the awaits, each
step may fail, and the process or the machine may die between any two. Correct if a reader sees what
the log says, whatever happened.

### How they meet

```
  HTTP turn ──on_user_input / on_llm_start / on_response_sent──> SleepTimeScheduler
     │                                                             │ Light, Full      │ Level 1 loop
     │ ledger, rows                                                v                  v
     v                                                       SleepTimeWorker    LearningScheduler
  HistoryManager ──operations──> ChatWriter ──> disk               │ texts            │ texts
     ^                                                             v                  v
     └── fold of idle sessions (sleep-time step)             EmbedScheduler ──> embedding server

  HTTP turn ──admission──> ledger ──lease──> generation gate <──waits, cut off── AuxClient (cycles)
  cycles ──events, versions──> EvidenceStore ──> disk       install lock: server <──> config command
```

The left column runs on the event loop, except the writer's thread. Steps of a cycle run in threads,
under the cycle lock. What a task does between two awaits is not interrupted on the loop.

### The rest

The other components (retrieval, memory pipeline, agent, generation of programs, tuning, interface,
frontend, configuration) are listed in `PROJECT.json` with the reason why they are not modelled:
they are computations over text without a protocol between actors, calls of external servers, or
user interface.

## Modules

| Module | Models | Role |
|---|---|---|
| `EmbedScheduler` | `rag/embed_scheduler.py` | the arbiter, complete |
| `SleepScheduler` | `memory/scheduler.py` with the turn, the worker's lock, Level 1 and shutdown as it meets them | the composition of the background cycles |
| `OrderedWriter` | the contract at the head of `writer_thread.py` | abstract specification |
| `ChatWriter` | `src/backend/io/writer_thread.py` | implements `OrderedWriter` |
| `SessionArchive` | what a reader of one conversation relies on | abstract specification |
| `HistoryLog` | `chat_recorder.py` (ledger), `history_manager.py` (log, file, index), with the writer's queue and the crash | implements `SessionArchive` |
| `GenerationGate` | `llm/generation_gate.py`, `AuxClient.generate` and the turns as they use it | chat turns beside background generations |
| `TurnAdmission` | `turn_admission.py`, `chat_stream_meta.py`, `cancel_scope`, `shutdown.py` | the life of a turn |
| `InstallLock` | `src/backend/io/writer_lock.py`, its two callers and every save of `config.yaml` | processes of one installation |
| `EvidenceStore` | `rag/evidence/` (store, events, snapshot, build, manifest), `pending_physical_gc` | the long-term memory's store, with its fault model |
| `MC*` | | instances and symmetry sets for TLC |
| `EmbedSchedulerProofs`, `SleepSchedulerProofs`, `ChatWriterProofs`, `HistoryLogProofs`, `GenerationGateProofs`, `TurnAdmissionProofs`, `InstallLockProofs`, `EvidenceStoreProofs` | | theorems about the module of that name |

Definitions named `X_Something` with a comment that begins with "Fault" are not part of any
specification. They are what a plausible mistake in the code would make of `X`, and show that a
property notices it (`mutants` in `PROJECT.json`).

### EmbedScheduler

`inflight` and `waiting` are the attributes of the same name; `pc` says where a caller's task is
suspended in `run()` or in the pause of the chunking wrapper. The condition's lock is never held
across an await, so each action is what a task does between two awaits: joining the queue and perhaps
starting (`Request`, and again after each chunk), looking again after `notify_all` (`Wake`), the end
of the call (`Finish`, `Fail`), the end of the pause (`EndPause`), cancellation in either place. A
woken caller is not yet running: other tasks come in between, which is where wakeups get lost.

### SleepScheduler

One action per handler of the scheduler, and per piece of `_schedule_full` between two awaits. A
task goes through `new` (created), `idle` (`_wait_full_idle`), `genwait` (polling for the end of a
generation), `lock` (in `run_full`, before the cycle lock) and `cycle`. `IdleWaitOver` and
`GenerationOver` are the gates after each wait, in the order of the code; `Decide` is what follows
them. A turn goes through `preparing`, `starting`, `generating`, `answered`, or `detached` when its
client has gone and its recording follows. Time is a choice: a wait may end at any moment, and what only shortens
waits is left out. `quiet` has the three ranges the code distinguishes.

The worker appears as the owner of its cycle lock and its cancel flag; `LightBegins` includes the
moment in which an asyncio lock is released but its waiter has not resumed, when `locked()` is False.
Level 1 appears as running or not, with work waiting or not.

### OrderedWriter and ChatWriter

`ops` records everything ever submitted; `queue`, `hand` and `applied` hold positions in it, so order
and completeness are about one sequence. `stopping` is the mode lock while `stop()` holds it.
`unsynced` and `handles` are the attributes; an append is `durable` when its bytes are fsynced and
`bad` when its failure has marked the format as degraded. `Submit` is `_submit`: queued for a living
thread, executed at once otherwise. `Execute` chooses between success and the failures of the
operation, and a synchronisation chooses the files on which fsync fails. `replace()` and
`call()` are both `rewrite`: they release the append handle of the file before they write it. The
read-only refusal submits nothing and is left out.

`OrderedWriter` says: operations are accepted in order, take effect one at a time in that order, by
the thread or by their caller, and when a sync, a barrier or a stop takes effect, every earlier append has
met its fate. `KeepsPromise` is that specification, until a `stop()` gives up (`gaveUp`): from
then on nothing is promised (`void`).

### SessionArchive and HistoryLog

One session, since sessions share no file. A turn is a number, odd for the user's question, which is what
`_should_skip_session` looks at. `ledger` is the recorder's; `reading` is the point in
`get_session` between the read of the file and the read of the log, during which the writer may fold. The
queue holds this session's operations; the writer executes them in order (`ChatWriter` is where that is
checked). A fold is three steps (`DoFold`, `WriteSession`, `RemoveLog`) with a crash possible after
each. `Crash` takes any disk of `Disks`: after the death of the process, what was written and a
prefix of the append in hand; after the death of the machine, any prefix of the log that contains
what was fsynced, and the last rename and unlink undone from the latest on. `booting` is the time
until the first `get_history_manager`, which folds the log left over.

Assumed: auto-save is on; the file system keeps the order of renames and unlinks; a session file is
written with its fsync before the rename; the delete handler blocks the event loop until the writer
has executed it, which it does.

`Drop` forgets the ledger whatever is queued or in the log, as `clear_session_data` does. The next
turn then restores the session from what `get_session` finds. Three things make it find too little:
rows of the session are still queued (`Unwritten`); the writer replaces the file between the read of
the file and the read of the log; the log has a gap that a failed append left, so that the merged
session is shorter than the positions in it (`Gap`). `misread` notes that one of them has happened,
and stays up. It is the exception of every property, and `history_overlap` follows it to the loss. It is
wider than the damage: a misread session whose later rows happen not to collide is excepted as well.
A ledger dropped and restored without any of the three keeps every promise.

`SessionArchive` says what a reader sees (`View`, the fold of the file and the log): it grows at the
end only, and a crash takes back at most turns that were never reported as kept. The promise is
`void` once a write has failed or the session was deleted (`disturbed`), or it was misread;
`KeptTurnsStay` holds beyond failures and deletions.

### GenerationGate

A turn is the number of its request. `lease` is where the turn and its lease are: with the handler,
handed over (the timer runs), with the stream, expired. `pc` is where a background task is suspended:
waiting for the idle event, woken, in the line of a slot's lock, running. Everything between two
awaits is one action, so `Proceed` reads the tokens and takes a free lock at once, and `TakeLock`
uses them later. `kind` has the four ways to ask: deferrable, claimed in `run_to_completion`, urgent,
and the probe of `run_yielding_to_chat`. A limit of time may pass at any moment. `met` is history: whether a chat was
there during the generation, to judge what `Contended` says at its end.

### TurnAdmission

One action per handler, generator end, callback and timer. `unwinding` is the moment in which the
outer generator of a lost client is closed and the inner one is not. The done callbacks of an agent
run as one step in the order of their registration, then `_drop` one iteration of the loop later. The
shutdown raises the flags of all keys, waits until they are gone, and goes on.

The two orders of closing are two pairs of actions. From the inside (`DisconnectInside`) the inner
generator ends in the Context of its own task and knows its cancel key. From the outside
(`DisconnectOutside`, then `InnerCloses`) the loop's hook for asynchronous generators closes the
inner one in a task of its own, with another Context: `_cancel_key_var` is not set there, and
`_cancel_key` falls back to the session id. So `cancel_requested` misses a flag that is up,
`retain_cancel_scope` retains a key that is not the turn's, and the `finally` of `cancel_scope`, which
has the key in a local variable, pops it, even when the agent is left to go on. `unreachable` is the
set of those agents. (The reset of the variable that comes last raises there; the loop reports it.)

### InstallLock

Each call into the system is a step: open, lock, look, unlink, close. Looking takes the other's lock
for a moment, so a look can make another fail. A kill frees the locks and leaves the files.
`WriterUnlinks` removes the file it has looked at or cannot: Windows refuses while another process
has it open, POSIX does not. A server whose file goes before it has looked for writers is `robbed`.

The configuration is the set of the updates it holds. A save reads it (`SaveReads`, `WriterReads`)
and replaces it (`SaveWrites`, `WriterWrites`). A command does so under its lock; a server does so on
its loop for `PUT /api/config/{section}`, runtimes, the locale of the prompts and themes, with no lock
between processes, and then loads the file again or takes the change over into memory (`SaveEnds`).
`crossed` and `behind` are history: changes written across a save of a process that takes no common
lock, and servers that another server has overtaken. `ServeReads` is the load of the configuration
at the start.

### EvidenceStore

A position is an index into all events ever written; months that are pruned stay in `log` and are
skipped by `Between`. Events read from the log, and those a job keeps aside (`late`), are functions
from their positions; `Fold` goes through the positions in order, as the code goes through the lines.
Records are `dead` (superseded or retracted) or not, `pinned` (for any other patch) or not. `job` is `create_snapshot` between its awaits: `sync`, `build`, `complete`, `swap`;
what follows the last await is one action with three outcomes (`Swap`, `SwapFails`, `SwapUnsaved`).
`Kill` keeps the disk. `PowerFails` takes unsynced lines from the end of one month's file
(`EndOfFile`) and may damage the derived files of the newest version, offsets and columns, which the
code never syncs. Two kinds of damage differ: a version that is *short* of a file loads and fails
the check of its row counts, so that the load falls back from it; a *torn* one makes `np.load` raise
(`rag/evidence/columns.py:264`, `snapshot.py:397`), and nothing catches it in `load` or in
`_newest_valid_version`. `src/backend/factory/_memory_init.py:111-114` and `125-128` log "load skipped"
and go on. `LoadRaises` is that: the process is up (`halfway`) with the manifest and no record,
and takes writes. `ManifestBreaks` damages the manifest. `Load` is a start, or a reload, with
`_recover_manifest` and `_fall_back_from`.

A version carries what was left out of it and of those it was made from (`out`), each record as the reader
had it when the job began. `unheard`, `spoilt` and `slipped` are history too: events the process has not
applied, whether a half-read store has written a manifest, and whether an append has failed.

## Runs, bounds and fairness

| Run | Checks | Instance |
|---|---|---|
| `embed` | `CountersExact`, `NoLostWakeup`, `DialogueWaitsOnlyForDialogue`, `EveryRequestEnds` | 3 callers, 2 places, 2 chunks, 4 requests |
| `sleep_safety` | `FullExclusive`, `ForcedFullUndisturbed`, `ShutdownIsFinal`, `WaitingFullSpared`, `OverlapOnlyAfterGenerationWait` | 3 tasks, 2 turns, 2 inputs, turns that fail |
| `sleep_liveness` | `CompletedMeansExecuted`, `ArmedRequestServed`, `ManualAnswered` | 2 tasks, 1 turn, 1 manual call or request |
| `writer` | `NoSilentLoss`, `NothingStranded`, `KeepsPromise`, `EverythingTakesEffect`, `AppendsReachDisk` | 2 files, 1 handle, 4 operations, `stop()` may give up |
| `history` | `KeptTurnsStay`, `InOrder`, `IndexShowsSession`, `ImplementsArchive` | 5 turns, 2 crashes, failing writes, deletion, ledgers dropped at any time; not followed once misread |
| `gate` | `GateExact`, `StartsBesideNoTurn`, `LearnsAlone`, `NobodyForgotten`, `BackgroundGoesOn` | 2 turns, 2 tasks, 2 calls of any kind, a generation of a turn, a rebind, 1 preemption |
| `turns` | `Exclusive`, `CancelReaches`, `RecordedOnce`, `LedgerBacked`, `ShutdownWaits` | 2 turns of one session, of none or create turns, a shutdown |
| `install` | `NeverBoth`, `ServedIsCurrent`, `RunningIsSeen`, `SavedStays` | 3 servers, 2 commands, 2 updates, kills anywhere, open files unlinked or not |
| `evidence` | `ViewIsTrue`, `EveryVersionRebuilds`, `FoldedIsDurable`, `CountExact`, `WrittenOnce` | 1 record, 4 events in 2 months, 3 versions, 1 kept, 2 faults |
| `sleep_overlap`, `history_overlap`, `evidence_sync` | one property each, violated | see [below](#where-code-and-documentation-disagree) |

What they show, in a sentence each, is in `PROJECT.json` ("about").

Why the bounds are enough to be of use:

- *Embedding.* Three callers put two on the server while a third waits, or one on it while two of
  different levels wait. Two chunks give a first and a last one. The theorems cover any number.
- *Sleep.* Three task slots hold a Full that is being wound up, its successor and a third that must
  not exist; with two the violation of `FullExclusive` by a mistake in the debounce needs the third.
  Two turns overlap; two inputs give one before and one during a Full. The run with a manual call
  has one turn and two tasks: the one that carries the answer and its successor.
- *Writer.* Four operations hold an append on each file, a rewrite of one, and what ends the turn, or
  a write, a STOP and a write after it; two files with one handle evict at every change of file.
  The theorems cover any number of operations.
- *History.* Five turns and two crashes hold: turns folded, a crash in that fold, turns restored and
  appended, and a second crash in the fold after the restart. Ledgers are dropped at any time. A
  session once misread is not followed further in `history` (`CONSTRAINT Readable`), because every
  property of the run excepts it; `history_overlap` follows it to the loss.
- *Gate.* Two calls put one task at the lock while another runs, or one in the wait and one on the
  slot; two turns follow or overlap each other; one rebind makes two locks; the limit of preemptions
  is 1 instead of 5, so that a probe reaches it.
- *Turns.* Exclusion and release are about pairs of turns.
- *Install lock.* Three servers hold one that runs, one that comes and one that is killed; two
  updates are one that has read the file and one that replaces it meanwhile. The theorems cover any
  number.
- *Evidence.* No operation relates two records. Two months and one kept month let files be pruned;
  three versions with one kept let versions be pruned, physical GC act and a fallback find an older
  one; two faults are a failed swap with a kill after it, or a power cut that finds the manifest damaged.

Symmetry is used in `sleep_safety`, `turns` and `install`, which check no liveness. `CHECK_DEADLOCK FALSE` stands where the system stops: after a
shutdown, when the operations or turns of the bound are used up, with the thread ended.
The embedding arbiter never stops (`UserActivity`), and its deadlock check is on.

Fairness, all of it weak:

- *Embedding*: ready tasks run, the server answers or fails, a sleep ends. Cancellation, new
  requests and the user owe nothing.
- *Sleep*: ready tasks run, timers fire, cycles and sessions end (each step of a cycle has a timeout or
  checks the cancel flag), and a turn that has begun goes on to its response. Inputs, manual
  calls, the deferral limit, the timeouts of callers and shutdown owe nothing.
- *Gate*: a background task that can go on does: it resumes once woken or at its limit, takes the lock
  that is handed to it, and the server answers, times out or the call is cut off. Turns owe nothing and may
  last for ever.
- *Writer*: the operating system runs the thread, a wait that is over returns, the interval passes.
  Nobody has to submit, start or stop.

## Proofs

Each theorem holds for every value of the constants under the assumptions that the modules name.

**EmbedSchedulerProofs.** `TypeCorrect`, `CountersAreExact`, `NoWakeupIsLost`, `DialogueFirst`. The
invariant adds two facts: a caller in the queue or on the server has a chunk left (`ChunkPending`),
and background work never takes the last place (`ReserveKept`). The counters are cardinalities of
sets of callers, so each action's proof says which set it changes by one member; any finite set of
callers. `NoWakeupIsLost` assumes `Capacity <= 2` and `DialogueFirst` `Capacity = 2`, which is the
capacity the process uses: with more places a start could open the way for another level without
waking it.

**SleepSchedulerProofs.** `TypeCorrect`, `OneFullAtATime`, `NoTaskEscapes`, `ForcedFullRunsOn`,
`SettledIsFinal` from one invariant (`TaskInv /\ RunInv`): the tracked task is alive and, before
shutdown, not cancelled; the forced mark is up only while a Full runs; a task is in its cycle exactly
while the Full owns the cycle lock; stopping has cancelled all. No single property is inductive: that a
starting Full is the only one follows from its being the tracked one, which follows from every
creation of a task cancelling or following the last. `CompletedIsTrue` (the answer to a manual caller)
is inductive by itself. `DebounceSpares` and `OverlapHasOneCause` are
action properties, from the same invariant. Any sets of tasks and turns, any bounds.

**ChatWriterProofs.** `ChatWriterTyped` and `ChatWriterNoSilentLoss` need only that positions lie
within `ops` (`Typed`): a synchronisation settles exactly the appends its files' marks stand for, and
every path that closes a handle either synchronises or keeps the mark. They hold whether or not
`stop()` gives up. `ChatWriterNothingStranded` and the refinement `ChatWriterKeepsPromise` speak of
the time until a `stop()` gives up (`gaveUp`), and need `Lined`: positions applied, in hand and
queued are consecutive; a thread that is not alive has an empty queue; a STOP not applied is the last
operation and its caller holds the mode lock.

**InstallLockProofs.** `Typed`, `Exclusion`, `Current`, `Visible`, `NothingLost`, for any processes and
updates, with and without the unlinking of open files. The invariant relates locks to files
(`FilesInv`: a server that has opened its file has it in the directory or was robbed of it), states to
locks (`LockInv`), and says of a command in the middle of its look that the servers it has passed have
not gone on (`ScanInv`). The last is what makes exclusion inductive: a server that comes after the
command's look finds its lock taken. `DraftInv` says that whoever has read the file and not replaced
it yet has read every change that is not `crossed`, and `MemoryInv` what a server that was not
overtaken has in memory at each step of its own saves.

**HistoryLogProofs.** `HistoryTyped`, `KeptTurnsAlwaysStay`, `SessionInOrder`, `EntryShowsSession`
and the refinement `HistoryImplementsArchive`, for any number of turns and crashes. The invariant has
two halves. `KInv` holds whatever happens: where the loop, the writer and a fold may be at once, that
queued rows have positions of their own, and that each turn that was fsynced is in the file or in the
fsynced rows, before and after the fold that a power loss can undo. `UInv` holds until a write fails
or the session is deleted (`disturbed`): ledger, queued rows and session are one sequence, and the
entry of the index shows it. Both end when the session is misread; types do not (`TypedInv`, which
`HistoryTyped` rests on alone). What `merge_turn_log` makes of a log is shown row by row: a fact about
all prefixes of the log holds because a least counterexample would have a predecessor (`Least`,
`Induction`, which speak of sets of numbers and so need no operator parameter). There is no
hypothesis about when a ledger is dropped: the three ways in which a restoration misreads are
computed by the actions, and the proof shows that there is no fourth.
`NoneAssumption` keeps the value that stands for "no file" apart from the sessions.

**GenerationGateProofs.** `GateTyped`, `GateCountsExactly`, `BackgroundMakesRoom`,
`OnlyQuietIsLearnt`, `WakeUpsAreKept`, for any number of tasks, turns, generations, rebinds and
preemptions. Three arguments: every lease and every generation is given back once (`CountInv`); what a task
read before it asked for the lock still tells, whenever it runs, which turns were there before it
(`TokenInv`); whoever is in a line is there once, and waits or runs, so that its lock is given on
(`LineInv`). That a generation was dispatched beside no turn is not inductive without the second, because
the token is used after a wait of any length.

**TurnAdmissionProofs.** `TurnsTyped`, `TurnsExclude`, `CancelAlwaysReaches`, `TurnsRecordedOnce`,
`LedgerIsBacked`, and the action property `ShutdownHasWaited`, for any requests and sessions. Two
turns in the ledger never meet in a session or in create mode (`LedgerInv`), and a turn that works,
unless it is late, is in the ledger. The second needs to know who is to take it out: a lease while its
generators run (`LeaseInv`), then a callback of its agent (`AgentInv`). `CancelAlwaysReaches` and
`ShutdownHasWaited` except agents in `unreachable`, which only `InnerCloses` enlarges.

**EvidenceStoreProofs.** `ViewIsTheLog`, `VersionsRebuild`, `FoldedStaysDurable`, `BacklogCounted`,
`StoreTyped`, and the action property `NothingWrittenOver`, for any ids, retention,
months, and number of events, versions and faults. The properties compare folds of different events
over different bases. The proof replaces a fold by what it comes to (`FoldResult`): an id is known if
it was known before or is created; it is dead, or pinned, if it was or becomes so. Records that
`Follow` the log to a position are described by the events up to there alone, and events folded a
second time change nothing; so a version caught up from any earlier position over events without a
gap follows the log to where they end (`CatchUp`). This one lemma serves the making of a version, the
load, the reader after a swap, and the rebuilding. The invariant (`IInv`) has two parts. `Base` holds of every store: types, no
position beyond what is synced nor beyond that of a job (`Bounds`), and the count of the backlog
(`CountInv`). `Sound` holds until a half-read store is written (`spoilt`): every version follows the
log to its position, after which no month is missing (`DiskInv`); a manifest agrees with its version,
and its next name lies above all of them (`ManifestOk`, `FileInv`); a store that can be written to
stands on a whole version, with a manifest no further than the reader (`LiveInv`: a swap that failed
half-way leaves it behind); the view follows the whole log but for events not heard (`ViewInv`);
a job's late events are all there are after its position, but for those not heard (`JobInv`).
TLC checked every conjunct on the instance of `evidence` before it was proved.

The events lost to the reader by `evidence_sync` are in `unheard`: `ViewIsTheLog` says that they,
records left out as dead, and a half-read store are all that can be wrong with what a reader sees, and
that the next version has those events.

**Only model-checked.** Liveness, which is out of the prover's reach: `EveryRequestEnds`,
`ArmedRequestServed`, `ManualAnswered`, `EverythingTakesEffect`, `AppendsReachDisk`,
`BackgroundGoesOn`. Every other property of a passing run is stated by a theorem. The type invariants
are proved for all eight and are not repeated by the runs.

## Where code and documentation disagree

Three are runs that violate one property; `PROJECT.json` quotes the lines.

- `sleep_overlap`: a Full that waited for a generation does not look at Level 1 again, and starts
  beside a session that began in between. `OverlapHasOneCause` proves that this is the only way.
- `history_overlap`: a session restored while its rows are queued or folded repeats positions, and
  its new turns are skipped by the next merge. `KeptTurnsAlwaysStay` proves that, but for a log with a
  gap, there is no other way.
- `evidence_sync`: events applied while the log is being synced are neither folded into the new
  version nor laid over it, and go out of sight until the next version or start.

Others can be reproduced by giving a configuration another constant or property:

- `QueueHasReader` in place of the properties of `ChatWriter.cfg`: when `stop()` times out during the last
  synchronisation, a later write is queued where nobody looks.
- `PinnedStays` in place of the property of `EvidenceStoreSync.cfg`: the ids that a version leaves out are fixed
  before its awaits, and a record pinned during them is dropped, against the docstring of
  `pending_physical_gc` (`memory/semantic/store.py:1260`).
- `NeverBoth` without `\ robbed`: a command looks at the presence file of a server that has opened it
  and not locked it, finds it free, and unlinks it (POSIX); the server locks the file that is gone, the command
  ends, the server looks for a writer, finds none, and starts; the next command sees no server. The
  comment at `src/backend/io/writer_lock.py:153-154` says that both sides see each other in either order.
- `ViewIsTrue`, `EveryVersionRebuilds` or `WrittenOnce` without `~spoilt`: the power fails
  after the first version is complete and tears its derived files; the load raises, the process goes on without
  a record and makes a version of what came since, from which all earlier records are missing (without a
  manifest it gives out the first name again, over the files of the first version).
  The docstring of `load` (`rag/evidence/store.py:578-582`) says that the store does not go on with a
  default manifest, because the next `create_snapshot` would overwrite v0001.
- `CancelReaches` or `ShutdownWaits` without `unreachable`: the cancel key of an agent that goes on is lost
  when its generators are closed from the outside, against the docstring of `retain_cancel_scope`
  (`api/chat/chat_stream_common.py:412-416`).

Further ones are steps of the models that a property names as its exception (hazards in `PROJECT.json` say which):
a manual Full that raised is reported as completed (`FullFails`); a request made in a
turn that ends during a forced Full gets no timer from its response (`RespondWith`); a Light that
starts while the cycle lock changes hands queues behind the Full instead of being skipped (`LightBegins`);
a failed append leaves a gap in the positions, after which an interrupted fold doubles turns; the
next turn of a deleted session writes the deleted turns into the index; a generation woken by
the idle event is dispatched beside a turn that has arrived meanwhile; calls that hold a slot's lock
across `rebind()` run beside later ones; a stream that starts after its lease has expired works
outside the ledger; a client that goes away between its agent's end and the last frames leaves its
turn unrecorded; two servers of one installation overwrite each other's changes of
`config.yaml`, and each serves what it last read; a turn in preparation has no cancel key, and a shutdown does not wait for it.

## Not modelled

Of the modelled components: in the scheduler, the refresh of tail summaries, the maintenance
snapshot, suspend and exclusive, and lengths of waits; in the worker, the steps of a cycle; in the
arbiter, a second event loop (tests and the command line only); in the writer, contents of files and
the read-only refusal; in the history, unreadable session files (the save is deferred), an unlink that
fails during a deletion, updates of single session fields without a log, summaries, compaction,
search and the delayed write of the index file; in the gate and the auxiliary client, the prefixes of
slots, the values of calibrated limits and their file; in the turns, the content of an answer; in the
evidence store, the content of records (so `put` and `touch` too), the lexical and embedding
indices, `pad_to` (`FoldedIsDurable` shows that it finds nothing to do as long as fsync keeps its
word and the file itself is not lost), a clock that goes back over the end of a month, which makes
`iter_since` skip events, and formats of newer versions.

Of the system: every component with status `not_modelled` in `PROJECT.json`, with its reason.

## Plan

In the order of what matters most next.

1. The composition of `TurnAdmission` with `GenerationGate`: the lease as the one abstracts it, with
   the refinement proved from the invariants of both.
2. `Level1Session`: phases, yield, saved session, the priority queue; composed with
   `SleepScheduler`'s view of Level 1 as its abstract specification.
3. `WorkerCycle`: the steps of a Full with the cancel flag between them, marks of what is done, and
   the restart; `SleepScheduler`'s `cycle` as its abstraction.
4. Pure algorithms: conflict resolution, stream filter.

Theorems worth adding to what is there: for `EvidenceStore`, that an event applied while no
synchronisation runs stays visible (`LateEventsSeen` with that exception), and an abstract
specification of a store of records that it implements; for `HistoryLog`, what still
holds of a session that was misread.
