---------------------------- MODULE EvidenceStore ----------------------------
(***************************************************************************)
(* A store of the long-term memory (backend/free/rag/evidence: store.py,   *)
(* events.py, snapshot.py, snapshot_build.py, manifest.py), as the         *)
(* episodic and the semantic memory use it.                                *)
(*                                                                         *)
(* The store is a log of events and numbered versions, each the fold of    *)
(* the log up to a position.  A reader sees the version it has loaded and, *)
(* laid over it, what the later events made of the records they name.      *)
(* A version is made on the event loop with four awaits, while other tasks *)
(* go on writing events.                                                   *)
(*                                                                         *)
(* A position in the log is an index into all the events there ever were:  *)
(* as the clock does not go back over the end of a month, the pair of a    *)
(* month and a line says the same.  Abstracted: the text of a record, its  *)
(* last use and its indices.  A superseded and a retracted record are both *)
(* dead; pinning stands for every other patch.  Of a version that is short *)
(* of a file, the reader finds no record.                                  *)
(***************************************************************************)
EXTENDS Integers, Sequences, FiniteSetsExt

CONSTANTS Id,           \* record ids; they are random and never come back
          Keep,         \* retention: snapshots_keep
          KeepMonths,   \* retention: events_keep_months
          MaxEvents, MaxVersions, MaxMonth, MaxFaults  \* bounds

ASSUME StoreAssumption ==
  /\ {Keep, KeepMonths, MaxVersions, MaxMonth} \subseteq Nat \ {0}
  /\ {MaxEvents, MaxFaults} \subseteq Nat

VARIABLES
  log,       \* the events on the disk, those of pruned months included
  pruned,    \* months whose file is deleted
  synced,    \* how many events a power cut cannot take
  versions,  \* snapshot/v<N> on the disk
  file,      \* manifest.json
  up,        \* the process runs and has loaded the store
  man,       \* the manifest in memory
  snap,      \* the version the reader has loaded, 0 for none
  overlay,   \* what later events made of the records they name
  count,     \* events_since_snapshot
  readonly,  \* the store refuses to write
  job,       \* the version that is being made
  late,      \* _events_during_build
  unheard,   \* events of the log the running process has not applied (history)
  halfway,   \* load has raised, and the process goes on with what it had read
  spoilt,    \* such a process has written the manifest (history)
  slipped,   \* an append has failed after its line was written (history)
  faults     \* how many things have gone wrong

disk == <<log, pruned, synced, versions, file, spoilt>>
memory == <<up, man, snap, overlay, count, readonly, halfway, job, late, unheard, slipped>>
vars == <<disk, memory, faults>>

NoRecords == [i \in {} |-> 0]
NoEvents == [n \in {} |-> 0]
Idle == [stage |-> "idle", version |-> 0, old |-> 0, end |-> 0, drop |-> NoRecords, heard |-> 0]
NewManifest == [active |-> 0, next |-> 1, folded |-> 0]

Init ==
  /\ log = <<>> /\ pruned = {} /\ synced = 0
  /\ versions = NoRecords /\ file = [state |-> "absent", man |-> NewManifest]
  /\ up = TRUE /\ man = NewManifest /\ snap = 0 /\ overlay = NoRecords
  /\ count = 0 /\ readonly = FALSE /\ job = Idle /\ late = NoEvents
  /\ unheard = {} /\ halfway = FALSE /\ spoilt = FALSE /\ slipped = FALSE /\ faults = 0

-----------------------------------------------------------------------------
\* Folding.

\* A function laid over another one, with a single value, without some of its values.
Over(f, g) == [x \in DOMAIN f \cup DOMAIN g |-> IF x \in DOMAIN f THEN f[x] ELSE g[x]]
At(x, value) == [y \in {x} |-> value]
Without(f, S) == [x \in DOMAIN f \ S |-> f[x]]

Changed(r, op) ==
  [dead |-> r.dead \/ op = "retire", pinned |-> r.pinned \/ op = "pin"]

\* One event.  A create of a known id, and a change of an unknown one, are skipped.
Applied(recs, e) ==
  CASE e.op = "create" -> Over(recs, At(e.id, [dead |-> FALSE, pinned |-> FALSE]))
    [] e.op # "create" /\ e.id \in DOMAIN recs ->
         [recs EXCEPT ![e.id] = Changed(@, e.op)]
    [] e.op # "create" /\ e.id \notin DOMAIN recs -> recs

\* Events over the records, in the order of their positions.
Fold(recs, events) ==
  LET upTo[n \in 0 .. MaxEvents] ==
        IF n = 0 THEN recs
        ELSE IF n \in DOMAIN events THEN Applied(upTo[n - 1], events[n]) ELSE upTo[n - 1]
  IN  upTo[MaxEvents]

\* iter_since(marker, until): what is left of the events between two positions.
Between(p, q) == [n \in {k \in p + 1 .. q : log[k].month \notin pruned} |-> log[n]]

Size(events) == Cardinality(DOMAIN events)

\* Events laid over a base: the records they name, as they leave them.
Laid(base, over, events) ==
  LET all == Fold(Over(over, base), events)
      named == {events[n].id : n \in DOMAIN events}
  IN  [i \in DOMAIN over \cup (named \cap DOMAIN all) |-> all[i]]

\* The records that can be read of a version, and those left out of it or of one
\* it was made from, as the reader had them then (history).
RecordsOf(v) ==
  IF v \in DOMAIN versions /\ versions[v].files = "whole" THEN versions[v].recs ELSE NoRecords
LeftOut(v) == IF v \in DOMAIN versions THEN versions[v].out ELSE NoRecords

\* get, for every id.
View == Over(overlay, RecordsOf(snap))

-----------------------------------------------------------------------------
\* The versions on the disk.

Complete == {v \in DOMAIN versions : versions[v].complete}
Valid == {v \in Complete : versions[v].files = "whole"}
Torn == {v \in Complete : versions[v].files = "torn"}
Oldest == Min(Complete)

\* pending_physical_gc: what was dead in the oldest version and still is.
GcIds ==
  IF Cardinality(Complete) < Keep THEN {}
  ELSE {i \in DOMAIN RecordsOf(Oldest) \cap DOMAIN View :
          RecordsOf(Oldest)[i].dead /\ View[i].dead /\ ~View[i].pinned}

\* prune_snapshots: versions without COMPLETE, and the oldest ones beyond Keep.
PrunedVersions(protect) ==
  LET surplus == Cardinality(Complete) - Keep
      older(v) == {w \in Complete \ protect : w < v}
  IN  ((DOMAIN versions \ Complete) \ protect)
        \cup {v \in Complete \ protect : Cardinality(older(v)) < surplus}

\* Fault: months before the position of the newest version are deleted.
PrunedMonths_Newest(kept) ==
  LET files == {log[n].month : n \in DOMAIN log} \ pruned
      folded == versions[Max(kept)].folded
  IN  {m \in files : /\ Cardinality({n \in files : n > m}) >= KeepMonths
                     /\ folded > 0 /\ m < log[folded].month}

\* _prune_events: months before the position of the oldest version that is kept.
PrunedMonths(kept) ==
  LET files == {log[n].month : n \in DOMAIN log} \ pruned
      folded == versions[Min(kept)].folded
  IN  {m \in files : /\ Cardinality({n \in files : n > m}) >= KeepMonths
                     /\ folded > 0 /\ m < log[folded].month}

-----------------------------------------------------------------------------
\* Writing.

\* Something goes wrong.
Fault == faults < MaxFaults /\ faults' = faults + 1

Writable == up /\ ~readonly /\ Len(log) < MaxEvents

\* create, patch, retract: what the caller may ask for.
Allowed(e) ==
  /\ \A n \in DOMAIN log : log[n].month <= e.month
  /\ \/ e.op = "create" /\ e.id \in Id /\ \A n \in DOMAIN log : log[n].id # e.id
     \/ e.op \in {"retire", "pin"} /\ e.id \in DOMAIN View

Events == [op : {"create", "retire", "pin"}, id : Id, month : 1 .. MaxMonth]

\* Fault: events that come while the swap waits for the loop to be idle are not kept.
Kept_UntilComplete(e) ==
  IF job.stage \in {"build", "complete"}
  THEN Over(late, At(Len(log) + 1, e)) ELSE late

\* The events of the loop that the swap will lay over the new version.
Kept(e) ==
  IF job.stage \in {"build", "complete", "swap"}
  THEN Over(late, At(Len(log) + 1, e)) ELSE late

\* An event is appended and applied.
Write(e) ==
  /\ Writable /\ Allowed(e)
  /\ log' = Append(log, e)
  /\ overlay' = Laid(RecordsOf(snap), overlay, At(Len(log) + 1, e))
  /\ late' = Kept(e) /\ count' = count + 1
  /\ UNCHANGED <<pruned, synced, versions, file, spoilt, up, man, snap, readonly, halfway, job,
                 unheard, slipped, faults>>

\* The append raises after the line has reached the file.
WriteFails(e) ==
  /\ Writable /\ Allowed(e)
  /\ log' = Append(log, e) /\ unheard' = unheard \cup {Len(log) + 1}
  /\ slipped' = TRUE /\ Fault
  /\ UNCHANGED <<pruned, synced, versions, file, spoilt, up, man, snap, overlay, count,
                 readonly, halfway, job, late>>

SaveManifest ==
  /\ up /\ ~readonly /\ file' = [state |-> "good", man |-> man]
  /\ spoilt' = (spoilt \/ halfway)
  /\ UNCHANGED <<log, pruned, synced, versions, memory, faults>>

-----------------------------------------------------------------------------
\* create_snapshot.

\* Fault: the name is not saved before it is used.
Begin_Unsaved ==
  /\ up /\ ~readonly /\ job = Idle /\ count > 0 /\ man.next <= MaxVersions
  /\ job' = [stage |-> "sync", version |-> man.next, old |-> man.active,
             end |-> Len(log), drop |-> [i \in GcIds |-> View[i]], heard |-> 0]
  /\ man' = [man EXCEPT !.next = @ + 1]
  /\ spoilt' = (spoilt \/ halfway)
  /\ UNCHANGED <<log, pruned, synced, versions, file, up, snap, overlay, count,
                 readonly, halfway, late, unheard, slipped, faults>>

\* Up to the first await: the position, the ids to leave out, the name.
Begin ==
  /\ up /\ ~readonly /\ job = Idle /\ count > 0 /\ man.next <= MaxVersions
  /\ job' = [stage |-> "sync", version |-> man.next, old |-> man.active,
             end |-> Len(log), drop |-> [i \in GcIds |-> View[i]], heard |-> 0]
  /\ man' = [man EXCEPT !.next = @ + 1]
  /\ spoilt' = (spoilt \/ halfway)
  /\ file' = [state |-> "good", man |-> man']
  /\ UNCHANGED <<log, pruned, synced, versions, up, snap, overlay, count,
                 readonly, halfway, late, unheard, slipped, faults>>

\* Fault: the log is not synced.
Sync_Skipped ==
  /\ job.stage = "sync"
  /\ job' = [job EXCEPT !.stage = "build", !.heard = Len(log)]
  /\ late' = NoEvents
  /\ UNCHANGED <<log, pruned, synced, versions, file, spoilt, up, man, snap, overlay, count,
                 readonly, halfway, unheard, slipped, faults>>

\* fsync_range: the files of the months up to that of the position, whole.
Sync ==
  /\ job.stage = "sync"
  /\ synced' = Max({synced} \cup {n \in DOMAIN log : log[n].month <= log[job.end].month})
  /\ job' = [job EXCEPT !.stage = "build", !.heard = Len(log)]
  /\ late' = NoEvents
  /\ UNCHANGED <<log, pruned, versions, file, spoilt, up, man, snap, overlay, count,
                 readonly, halfway, unheard, slipped, faults>>

\* The version the reader has, with the events after the manifest's.
Folded == Fold(RecordsOf(snap), Between(man.folded, job.end))

\* The child process folds and writes the files of the version.
Build ==
  /\ job.stage = "build"
  /\ versions' = Over(At(job.version, [recs |-> Without(Folded, DOMAIN job.drop),
                                       out |-> Over(job.drop, LeftOut(snap)),
                                       folded |-> job.end,
                                       complete |-> FALSE, files |-> "whole"]),
                      versions)
  /\ job' = [job EXCEPT !.stage = "complete"]
  /\ UNCHANGED <<log, pruned, synced, file, spoilt, up, man, snap, overlay, count, readonly,
                 halfway, late, unheard, slipped, faults>>

WriteComplete ==
  /\ job.stage = "complete"
  /\ versions' = [versions EXCEPT ![job.version].complete = TRUE]
  /\ job' = [job EXCEPT !.stage = "swap"]
  /\ UNCHANGED <<log, pruned, synced, file, spoilt, up, man, snap, overlay, count, readonly,
                 halfway, late, unheard, slipped, faults>>

\* One of the awaits raises: the version is left as it is.
JobFails ==
  /\ job # Idle /\ Fault /\ job' = Idle /\ late' = NoEvents
  /\ UNCHANGED <<disk, up, man, snap, overlay, count, readonly, halfway, unheard, slipped>>

\* The reader goes over to the new version.
SwapReader ==
  /\ job.stage = "swap"
  /\ snap' = job.version
  /\ overlay' = Laid(RecordsOf(job.version), NoRecords, late)
  /\ unheard' = {n \in unheard : n > job.end} \cup (job.end + 1) .. job.heard
  /\ job' = Idle /\ late' = NoEvents
  /\ UNCHANGED <<log, synced, spoilt, up, readonly, halfway, slipped>>

\* Fault: the counter starts again from nothing.
Uncounted_Reset(n) == 0

\* events_since_snapshot less the events that were folded.
Uncounted(n) == IF n > count THEN 0 ELSE count - n

\* The manifest follows, what is not needed any more is deleted.
Swap ==
  /\ SwapReader /\ UNCHANGED faults
  /\ count' = Uncounted(Size(Between(man.folded, job.end)))
  /\ man' = [man EXCEPT !.active = job.version, !.folded = job.end]
  /\ file' = [state |-> "good", man |-> man']
  /\ LET trashed == PrunedVersions({job.old, job.version})
     IN  /\ versions' = Without(versions, trashed)
         /\ pruned' = pruned \cup PrunedMonths(Complete \ trashed)

\* The new index cannot be loaded: the manifest stays as it was.
SwapFails ==
  /\ SwapReader /\ Fault /\ UNCHANGED <<count, man, file, versions, pruned>>

\* The manifest cannot be saved: nothing is deleted.
SwapUnsaved ==
  /\ SwapReader /\ Fault
  /\ count' = Uncounted(Size(Between(man.folded, job.end)))
  /\ man' = [man EXCEPT !.active = job.version, !.folded = job.end]
  /\ UNCHANGED <<file, versions, pruned>>

-----------------------------------------------------------------------------
\* Faults.

Down ==
  /\ up' = FALSE /\ man' = NewManifest /\ snap' = 0 /\ overlay' = NoRecords /\ count' = 0
  /\ readonly' = FALSE /\ halfway' = FALSE /\ job' = Idle /\ late' = NoEvents
  /\ unheard' = {} /\ slipped' = FALSE

\* The process is killed: what it has written stays.
Kill ==
  /\ up /\ Fault /\ Down
  /\ UNCHANGED disk

\* The events from a + 1 to b are the end of the file of a month.
EndOfFile(a, b) ==
  \A k \in a + 1 .. b : /\ log[k].month = log[b].month
                        /\ b < Len(log) => log[b + 1].month # log[b].month

\* The power fails.  The end of one file that was not synced is lost.  Offsets and
\* columns never are: of the newest version they may be gone, or torn.
PowerFails ==
  /\ up /\ Fault /\ Down
  /\ \E a \in synced .. Len(log) : \E b \in a .. Len(log) :
       EndOfFile(a, b) /\ log' = SubSeq(log, 1, a) \o SubSeq(log, b + 1, Len(log))
  /\ \/ UNCHANGED versions
     \/ \E files \in {"short", "torn"} :
          /\ Complete # {} /\ Max(Complete) \in Valid
          /\ versions' = [versions EXCEPT ![Max(Complete)].files = files]
  /\ UNCHANGED <<pruned, synced, file, spoilt>>

ManifestBreaks ==
  /\ ~up /\ file.state = "good" /\ Fault
  /\ file' = [state |-> "broken", man |-> NewManifest]
  /\ UNCHANGED <<log, pruned, synced, versions, spoilt, memory>>

-----------------------------------------------------------------------------
\* load.

Newest(set) == IF set = {} THEN 0 ELSE Max(set)

\* _adopt_version and _bump_next_snapshot_seq.
Adopted(m, v) ==
  [active |-> v, folded |-> versions[v].folded,
   next |-> Max({m.next} \cup {w + 1 : w \in DOMAIN versions})]

Outcome(m, ro, trash) == [man |-> m, readonly |-> ro, trash |-> trash, halfway |-> FALSE]
Raised(m) == [Outcome(m, FALSE, {}) EXCEPT !.halfway = TRUE]

\* _newest_valid_version raises on a torn version, unless it meets a valid one first.
SearchRaises == Newest(Torn) > Newest(Valid)

\* _recover_manifest: without a manifest, the newest valid version.
Recovered ==
  LET v == Newest(Valid)
  IN  IF DOMAIN versions = {} /\ file.state = "absent" THEN Outcome(NewManifest, FALSE, {})
      ELSE IF SearchRaises THEN Raised(NewManifest)
      ELSE IF v = 0 THEN Outcome(NewManifest, TRUE, {})
      ELSE Outcome(Adopted(NewManifest, v), FALSE,
                   (DOMAIN versions \ Complete) \cup {w \in Complete : w > v})

\* _fall_back_from: the newest valid version in place of an invalid one.
FellBack ==
  LET v == Newest(Valid)
  IN  IF SearchRaises THEN Raised(file.man)
      ELSE IF v = 0 THEN Outcome(file.man, TRUE, {})
      ELSE Outcome(Adopted(file.man, v), FALSE,
                   {file.man.active} \cup {w \in Complete : w > v})

Loaded ==
  CASE file.state # "good" -> Recovered
    [] file.state = "good" /\ file.man.active \in Valid \cup {0} -> Outcome(file.man, FALSE, {})
    [] file.state = "good" /\ file.man.active \in Torn -> Raised(file.man)
    [] file.state = "good" /\ file.man.active \notin Valid \cup Torn \cup {0} -> FellBack

\* A start, or a reload of the running store.
Start ==
  /\ up => job = Idle
  /\ man' = Loaded.man /\ snap' = Loaded.man.active /\ readonly' = Loaded.readonly
  /\ versions' = Without(versions, Loaded.trash)
  /\ halfway' = Loaded.halfway
  /\ up' = TRUE /\ job' = Idle /\ late' = NoEvents /\ unheard' = {} /\ slipped' = FALSE
  /\ file' = [file EXCEPT !.state = IF @ = "broken" THEN "absent" ELSE @]
  /\ UNCHANGED <<log, pruned, synced, spoilt, faults>>

\* Events after the position are replayed.
Load ==
  /\ Start /\ ~halfway'
  /\ LET rest == Between(man'.folded, Len(log))
     IN overlay' = Laid(RecordsOf(snap'), NoRecords, rest) /\ count' = Size(rest)

\* load raises.  A warning is logged and the process goes on, with the manifest
\* and no record; the counter is what the manifest happens to say.
LoadRaises ==
  /\ Start /\ halfway'
  /\ overlay' = NoRecords /\ count' \in 0 .. Len(log)

-----------------------------------------------------------------------------

Next ==
  \/ \E e \in Events : Write(e) \/ WriteFails(e)
  \/ SaveManifest
  \/ Begin \/ Sync \/ Build \/ WriteComplete \/ JobFails
  \/ Swap \/ SwapFails \/ SwapUnsaved
  \/ Kill \/ PowerFails \/ ManifestBreaks \/ Load \/ LoadRaises

Spec == Init /\ [][Next]_vars

-----------------------------------------------------------------------------
(***************************************************************************)
(* Properties.                                                             *)
(***************************************************************************)

\* What the log has made of every record, had nothing ever been left out.
Truth == Fold(NoRecords, log)

\* The records are what the log says.  One that is missing was left out of a
\* version when the reader had it as dead and not pinned.
TrueUpTo(recs, out, unknown) ==
  /\ \A i \in DOMAIN recs \ unknown : i \in DOMAIN Truth /\ recs[i] = Truth[i]
  /\ \A i \in DOMAIN Truth \ (DOMAIN recs \cup unknown) :
       i \in DOMAIN out /\ out[i].dead /\ ~out[i].pinned

\* Types.
TypeOK ==
  /\ DOMAIN log \subseteq 1 .. MaxEvents /\ synced \in 0 .. Len(log)
  /\ pruned \subseteq 1 .. MaxMonth
  /\ DOMAIN versions \cup {snap, man.active} \subseteq 0 .. MaxVersions
  /\ DOMAIN View \cup DOMAIN job.drop \subseteq Id
  /\ job.stage \in {"idle", "sync", "build", "complete", "swap"}
  /\ {up, readonly, halfway, spoilt} \subseteq BOOLEAN /\ count \in Nat

\* A reader finds every record as the log has it: across the making of a
\* version, its failure at any point, crashes, recoveries and fallbacks, no
\* event is skipped or folded into the wrong state (_apply_events,
\* create_snapshot).  Excepted are records named by an event that the process
\* has not applied, and those left out of the version when they were dead and
\* not pinned: a pin that comes after what to leave out was fixed, or was not
\* applied then, does not bring them back.  A store that load left half read,
\* or that was written from there, is no good any more.
ViewIsTrue ==
  up /\ ~readonly /\ ~halfway /\ ~spoilt =>
    TrueUpTo(View, LeftOut(snap), {log[n].id : n \in unheard})

\* From every valid version on the disk, with the events that are left, the
\* records can be built again, but for those left out of that version, dead and
\* not pinned, as long as no half-read store was written (_prune_events,
\* _fall_back_from).
EveryVersionRebuilds ==
  ~spoilt =>
    \A v \in Valid :
      TrueUpTo(Fold(RecordsOf(v), Between(versions[v].folded, Len(log))), LeftOut(v), {})

\* No position a version or the manifest has recorded lies beyond what a power
\* cut leaves of the log: events written after it are never taken for folded
\* (fsync_range before COMPLETE).
FoldedIsDurable ==
  /\ \A v \in Complete : versions[v].folded <= synced
  /\ file.man.folded <= synced

\* The files of a version never change once they are written: across kills and
\* recoveries no name is given out twice while its directory is there, complete
\* or not (take_next_version and its save, _bump_next_snapshot_seq).  A half-read
\* store may have no manifest, and begins with the first name again.
WrittenOnce ==
  [][~spoilt => \A v \in DOMAIN versions \cap DOMAIN versions' :
       versions'[v].recs = versions[v].recs /\ versions'[v].folded = versions[v].folded]_vars

\* events_since_snapshot counts the events that the manifest's version lacks, so
\* that a backlog always makes the next version due (snapshot_due).  After an
\* append that raised, or a load that did, it is not exact.
CountExact ==
  up /\ ~readonly /\ ~slipped /\ ~halfway => count = Size(Between(man.folded, Len(log)))

\* A pinned record is not left out of a version (pending_physical_gc).
PinnedStays ==
  [][job # Idle /\ up' => \A i \in DOMAIN View \ DOMAIN View' : ~View[i].pinned]_vars

\* An event applied while a version is made is still seen after the swap
\* (_events_during_build).
LateEventsSeen ==
  [][up /\ up' /\ snap # snap' /\ job # Idle =>
       \A i \in DOMAIN View \ DOMAIN job.drop : i \in DOMAIN View' /\ View'[i] = View[i]]_vars
=============================================================================
