------------------------- MODULE EvidenceStoreProofs -------------------------
(***************************************************************************)
(* The store of evidence, for any ids, retention and bounds: what a reader *)
(* sees, what a version on the disk is good for, and what is never written *)
(* over.                                                                   *)
(*                                                                         *)
(* The properties compare folds of different events over different bases.  *)
(* The argument replaces a fold by what it comes to (Result): an id is     *)
(* known if it was known before or is created, and dead or pinned if it    *)
(* was or becomes so.  Records that "follow" the log up to a position are  *)
(* so described by its events alone (Follows), but for those left out; an  *)
(* event folded a second time changes nothing, so that a version caught up *)
(* with any suffix that leaves no gap follows the log to the end of it     *)
(* (CatchUp), a version that is made follows it to its position, and what  *)
(* is laid over a version to the end (LaidIs).                             *)
(*                                                                         *)
(* The invariant IInv has two parts.  Base holds of every store: types, no *)
(* position beyond what is synced nor beyond that of a job (Bounds), and   *)
(* the count of the backlog (CountInv).  Sound holds as long as no store   *)
(* that load left half read has been written: every version follows the    *)
(* log to its position and needs no event of a month that was deleted      *)
(* (DiskInv), a free name lies above all versions (ManifestOk), the reader *)
(* stands on a whole version that its manifest has not overtaken           *)
(* (LiveInv), it sees the log (ViewInv), and the late events of a job are  *)
(* all there are after its position (JobInv).                              *)
(***************************************************************************)
EXTENDS EvidenceStore, FiniteSetTheorems, WellFoundedInduction, SequenceTheorems, TLAPS

\* A set of numbers has a least one.
LEMMA Least ==
  ASSUME NEW T \in SUBSET Nat, T # {}
  PROVE  \E n \in T : \A m \in T : n <= m
<1> DEFINE Below == {1 .. n : n \in T}
<1>1. Below \subseteq FiniteSubsetsOf(Nat) /\ Below # {}
  <2>1. ASSUME NEW n \in Nat PROVE 1 .. n \in FiniteSubsetsOf(Nat)
    <3>1. IsFiniteSet(1 .. n)
      BY FS_Interval
    <3>2. 1 .. n \in SUBSET Nat
      OBVIOUS
    <3> QED
      BY <3>1, <3>2 DEF FiniteSubsetsOf
  <2>2. \A n \in T : n \in Nat
    OBVIOUS
  <2> QED
    BY <2>1, <2>2
<1>2. PICK x \in Below : \A y \in Below : <<y, x>> \notin StrictSubsetOrdering(Nat)
  <2> HIDE DEF Below
  <2>1. IsWellFoundedOn(StrictSubsetOrdering(Nat), FiniteSubsetsOf(Nat))
    BY FS_StrictSubsetOrderingWellFounded
  <2> QED
    BY <1>1, <2>1, WFMin
<1>3. PICK n \in T : x = 1 .. n
  BY <1>2
<1>4. ASSUME NEW m \in T, m < n PROVE FALSE
  <2>1. <<1 .. m, x>> \in StrictSubsetOrdering(Nat)
    <3>1. 1 .. m \subseteq x /\ n \in x /\ n \notin 1 .. m
      BY <1>3, <1>4
    <3>2. 1 .. m \in SUBSET Nat /\ x \in SUBSET Nat
      BY <1>3
    <3> HIDE DEF Below
    <3> QED
      BY <3>1, <3>2 DEF StrictSubsetOrdering
  <2> QED
    BY <2>1, <1>2
<1> QED
  BY <1>4

\* Induction: what holds of 0, and of n + 1 where it holds of n, holds of all.
LEMMA Induction ==
  ASSUME NEW T \in SUBSET Nat, 0 \in T, \A n \in T : n + 1 \in T
  PROVE  \A n \in Nat : n \in T
<1> SUFFICES ASSUME Nat \ T # {} PROVE FALSE
  OBVIOUS
<1>1. PICK n \in Nat \ T : \A m \in Nat \ T : n <= m
  BY Least
<1>2. n - 1 \in Nat /\ ~ (n <= n - 1)
  BY <1>1
<1>3. n - 1 \in T
  BY <1>1, <1>2
<1> QED
  BY <1>1, <1>2, <1>3

-----------------------------------------------------------------------------
Record == [dead : BOOLEAN, pinned : BOOLEAN]
Records == UNION {[S -> Record] : S \in SUBSET Id}

\* Records that are dead and not pinned.
Deads == {recs \in Records : \A i \in DOMAIN recs : recs[i].dead /\ ~ recs[i].pinned}

Version == [recs : Records, out : Deads, folded : Nat, complete : BOOLEAN,
            files : {"whole", "short", "torn"}]
Manifest == [active : 0 .. MaxVersions, next : Nat \ {0}, folded : Nat]
File == [state : {"absent", "good", "broken"}, man : Manifest]
Job == [stage : {"idle", "sync", "build", "complete", "swap"}, version : 0 .. MaxVersions,
        old : 0 .. MaxVersions, end : Nat, drop : Deads, heard : Nat]

\* Event n of the log l.
Logged(l, p, i, op) == \E n \in 1 .. Len(l) : n <= p /\ l[n].id = i /\ l[n].op = op

\* The months go up, and an id is created before anything else happens to it.
LogOk(l) ==
  /\ l \in Seq(Events) /\ Len(l) <= MaxEvents
  /\ \A j, k \in 1 .. Len(l) : j <= k => l[j].month <= l[k].month
  /\ \A j, k \in 1 .. Len(l) : j < k => ~ (l[k].op = "create" /\ l[j].id = l[k].id)

\* Some events of the log l, at their positions.
PartOf(events, l) == DOMAIN events \subseteq 1 .. Len(l) /\ events = [n \in DOMAIN events |-> l[n]]

\* The records are what the first p events of the log l have made of them, but for
\* those with an id in unknown, and nothing is missing but what is in gone.
Follows(recs, l, p, gone, unknown) ==
  /\ \A i \in DOMAIN recs \ unknown :
       /\ Logged(l, p, i, "create")
       /\ recs[i].dead <=> Logged(l, p, i, "retire")
       /\ recs[i].pinned <=> Logged(l, p, i, "pin")
  /\ \A i \in Id \ unknown : Logged(l, p, i, "create") => i \in DOMAIN recs \cup gone

\* No event after position p is in a file that was deleted.
Unpruned(p) == \A n \in 1 .. Len(log) : p < n => log[n].month \notin pruned

FoldedOf(v) == IF v \in DOMAIN versions THEN versions[v].folded ELSE 0
Gone(v) == DOMAIN LeftOut(v)

Live == up /\ ~readonly /\ ~halfway
Building == job.stage \in {"build", "complete", "swap"}
Ids(S) == {log[n].id : n \in S}

Typed ==
  /\ LogOk(log) /\ pruned \in SUBSET (1 .. MaxMonth) /\ synced \in 0 .. Len(log)
  /\ DOMAIN versions \subseteq 1 .. MaxVersions /\ versions \in [DOMAIN versions -> Version]
  /\ file \in File /\ spoilt \in BOOLEAN
  /\ up \in BOOLEAN /\ man \in Manifest /\ snap \in 0 .. MaxVersions /\ overlay \in Records
  /\ count \in Nat /\ readonly \in BOOLEAN /\ job \in Job /\ PartOf(late, log)
  /\ unheard \in SUBSET (1 .. Len(log)) /\ halfway \in BOOLEAN /\ slipped \in BOOLEAN

\* Nothing has gone beyond what is synced, nor a job beyond its position.
Bounds ==
  /\ \A m \in pruned : \E n \in 1 .. synced : m < log[n].month
  /\ \A v \in DOMAIN versions : versions[v].folded <= synced
  /\ file.man.folded <= synced /\ man.folded <= synced
  /\ job # Idle =>
       /\ job.stage # "idle" /\ job.version \in 1 .. MaxVersions
       /\ man.folded <= job.end /\ job.end <= Len(log) /\ job.heard <= Len(log)
       /\ \A v \in DOMAIN versions : versions[v].folded <= job.end
       /\ Building => job.end <= synced
       /\ job.stage \in {"complete", "swap"} => job.version \in DOMAIN versions
       /\ job.stage = "swap" => job.version \in Complete

CountInv == Live /\ ~ slipped => count = Size(Between(man.folded, Len(log)))

\* What the disk keeps whatever happens to the process.
DiskInv ==
  /\ \A v \in DOMAIN versions :
       /\ Follows(versions[v].recs, log, versions[v].folded, Gone(v), {})
       /\ versions[v].complete => Unpruned(versions[v].folded)
  /\ \A v, w \in DOMAIN versions : v <= w => versions[v].folded <= versions[w].folded
  /\ pruned # {} => DOMAIN versions # {}

\* A manifest names a version with its position, and a name that is free.
ManifestOk(m) ==
  /\ m.active < m.next /\ \A v \in DOMAIN versions : v < m.next
  /\ Unpruned(m.folded)
  /\ m.active = 0 => m.folded = 0
  /\ m.active \in DOMAIN versions => versions[m.active].folded = m.folded

FileInv ==
  /\ file.state = "good" => ManifestOk(file.man)
  /\ file.state # "good" => file.man = NewManifest

\* A store that can be written to stands on complete versions, and reads a whole one.
LiveInv ==
  Live =>
    /\ ManifestOk(man)
    /\ man.active \in Complete \cup {0} /\ snap \in Valid \cup {0}
    /\ man.folded <= FoldedOf(snap)

ViewInv == Live => Follows(View, log, Len(log), Gone(snap), Ids(unheard))

\* A version that is made has a name of its own, after all the others.
JobInv ==
  job # Idle =>
    /\ Live /\ file = [state |-> "good", man |-> man]
    /\ job.version < man.next /\ man.active < job.version /\ snap < job.version
    /\ \A v \in DOMAIN versions : v # job.version => v < job.version
    /\ job.stage \in {"sync", "build"} => job.version \notin DOMAIN versions
    /\ Building =>
         /\ job.end <= job.heard
         /\ \A n \in DOMAIN late : job.heard < n
         /\ \A n \in 1 .. Len(log) : job.heard < n => n \in DOMAIN late \cup unheard
    /\ job.stage \in {"complete", "swap"} =>
         versions[job.version].folded = job.end /\ versions[job.version].files = "whole"

\* A store that no half-read one has written.
Sound == DiskInv /\ FileInv /\ LiveInv /\ ViewInv /\ JobInv

Base == Typed /\ Bounds /\ CountInv

IInv == Base /\ (spoilt \/ Sound)

-----------------------------------------------------------------------------
\* The runs of a fold.

\* One position of a fold.
Step(recs, events, n) == IF n \in DOMAIN events THEN Applied(recs, events[n]) ELSE recs

\* g is the run of the fold over the first size positions.
Runs(g, recs, events, size) ==
  g = [n \in 0 .. size |-> IF n = 0 THEN recs ELSE Step(g[n - 1], events, n)]

\* Every fold has a run.
LEMMA RunExists ==
  ASSUME NEW recs, NEW events
  PROVE  \A size \in Nat : \E g : Runs(g, recs, events, size)
<1> DEFINE T == {size \in Nat : \E g : Runs(g, recs, events, size)}
<1>1. 0 \in T
  <2> DEFINE g == [n \in 0 .. 0 |-> recs]
  <2>1. g = [n \in 0 .. 0 |-> IF n = 0 THEN recs ELSE Step(g[n - 1], events, n)]
    OBVIOUS
  <2> QED
    BY <2>1 DEF Runs
<1>2. ASSUME NEW size \in T PROVE size + 1 \in T
  <2>1. PICK g : Runs(g, recs, events, size)
    OBVIOUS
  <2> DEFINE h == [n \in 0 .. size + 1 |->
                  IF n = size + 1 THEN Step(g[size], events, size + 1) ELSE g[n]]
             k == [n \in 0 .. size + 1 |-> IF n = 0 THEN recs ELSE Step(h[n - 1], events, n)]
  <2>2. \A n \in 0 .. size : g[n] = IF n = 0 THEN recs ELSE Step(g[n - 1], events, n)
    BY <2>1 DEF Runs
  <2>3. ASSUME NEW n \in 0 .. size + 1 PROVE h[n] = k[n]
    <3>1. CASE n = size + 1
      <4>1. n # 0 /\ n - 1 = size /\ size \in 0 .. size + 1 /\ size # size + 1
        BY <3>1
      <4>2. h[n - 1] = g[size]
        BY <4>1
      <4> QED
        BY <3>1, <4>1, <4>2
    <3>2. CASE n = 0
      BY <2>2, <3>2
    <3>3. CASE n \in 1 .. size
      <4>1. n # 0 /\ n - 1 \in 0 .. size + 1 /\ n - 1 # size + 1 /\ n # size + 1 /\ n \in 0 .. size
        BY <3>3
      <4>2. h[n - 1] = g[n - 1] /\ h[n] = g[n]
        BY <4>1
      <4> QED
        BY <2>2, <4>1, <4>2
    <3> QED
      BY <3>1, <3>2, <3>3
  <2>4. h = k
    <3>1. h = [n \in 0 .. size + 1 |-> h[n]] /\ k = [n \in 0 .. size + 1 |-> k[n]]
      OBVIOUS
    <3> HIDE DEF h, k
    <3> QED
      BY <2>3, <3>1
  <2>5. Runs(h, recs, events, size + 1)
    BY <2>4 DEF Runs
  <2> QED
    BY <2>5
<1> HIDE DEF T
<1>3. T \in SUBSET Nat
  BY DEF T
<1> QED
  BY <1>1, <1>2, <1>3, Induction DEF T

\* A fold takes the positions one by one.
LEMMA FoldSteps ==
  ASSUME NEW recs, NEW events
  PROVE  \E g : /\ g[0] = recs
                /\ \A n \in 1 .. MaxEvents : g[n] = Step(g[n - 1], events, n)
                /\ Fold(recs, events) = g[MaxEvents]
<1> DEFINE g == CHOOSE g : Runs(g, recs, events, MaxEvents)
<1>1. MaxEvents \in Nat
  BY StoreAssumption
<1>2. Runs(g, recs, events, MaxEvents)
  BY <1>1, RunExists
<1>3. Fold(recs, events) = g[MaxEvents]
  BY DEF Fold, Runs, Step
<1> HIDE DEF g
<1>4. \A n \in 0 .. MaxEvents : g[n] = IF n = 0 THEN recs ELSE Step(g[n - 1], events, n)
  BY <1>2 DEF Runs
<1>5. g[0] = recs
  BY <1>1, <1>4
<1>6. \A n \in 1 .. MaxEvents : g[n] = Step(g[n - 1], events, n)
  BY <1>1, <1>4
<1> QED
  BY <1>3, <1>5, <1>6

-----------------------------------------------------------------------------
\* Records.

\* What it is to be records.
LEMMA RecordsAre ==
  ASSUME NEW recs
  PROVE  recs \in Records <=> /\ DOMAIN recs \subseteq Id
                              /\ recs \in [DOMAIN recs -> Record]
<1>1. ASSUME recs \in Records PROVE DOMAIN recs \subseteq Id /\ recs \in [DOMAIN recs -> Record]
  BY <1>1 DEF Records
<1>2. ASSUME DOMAIN recs \subseteq Id, recs \in [DOMAIN recs -> Record] PROVE recs \in Records
  BY <1>2 DEF Records
<1> QED
  BY <1>1, <1>2

\* A record is its two fields.
LEMMA SameRecord ==
  ASSUME NEW r \in Record, NEW s \in Record, r.dead <=> s.dead, r.pinned <=> s.pinned
  PROVE  r = s
<1>1. r = [dead |-> r.dead, pinned |-> r.pinned] /\ s = [dead |-> s.dead, pinned |-> s.pinned]
  BY DEF Record
<1>2. r.dead = s.dead /\ r.pinned = s.pinned
  BY DEF Record
<1> QED
  BY <1>1, <1>2

\* Records laid over records.
LEMMA OverRecords ==
  ASSUME NEW f \in Records, NEW g \in Records
  PROVE  /\ Over(f, g) \in Records
         /\ DOMAIN Over(f, g) = DOMAIN f \cup DOMAIN g
         /\ \A i \in DOMAIN f : Over(f, g)[i] = f[i]
         /\ \A i \in DOMAIN g \ DOMAIN f : Over(f, g)[i] = g[i]
<1>1. DOMAIN Over(f, g) = DOMAIN f \cup DOMAIN g
  BY DEF Over
<1>2. \A i \in DOMAIN f \cup DOMAIN g : Over(f, g)[i] = IF i \in DOMAIN f THEN f[i] ELSE g[i]
  BY DEF Over
<1>3. /\ DOMAIN f \subseteq Id /\ f \in [DOMAIN f -> Record]
      /\ DOMAIN g \subseteq Id /\ g \in [DOMAIN g -> Record]
  BY RecordsAre
<1>4. Over(f, g) \in [DOMAIN Over(f, g) -> Record]
  <2>1. Over(f, g) = [i \in DOMAIN f \cup DOMAIN g |-> IF i \in DOMAIN f THEN f[i] ELSE g[i]]
    BY DEF Over
  <2>2. \A i \in DOMAIN f \cup DOMAIN g : (IF i \in DOMAIN f THEN f[i] ELSE g[i]) \in Record
    BY <1>3
  <2> QED
    BY <1>1, <2>1, <2>2
<1>5. DOMAIN Over(f, g) \subseteq Id
  BY <1>1, <1>3
<1>6. Over(f, g) \in Records
  BY <1>4, <1>5, RecordsAre
<1> QED
  BY <1>1, <1>2, <1>6

\* Records without some ids.
LEMMA WithoutRecords ==
  ASSUME NEW f \in Records, NEW S
  PROVE  /\ Without(f, S) \in Records
         /\ DOMAIN Without(f, S) = DOMAIN f \ S
         /\ \A i \in DOMAIN f \ S : Without(f, S)[i] = f[i]
<1>1. /\ DOMAIN Without(f, S) = DOMAIN f \ S
      /\ \A i \in DOMAIN f \ S : Without(f, S)[i] = f[i]
  BY DEF Without
<1>2. DOMAIN f \subseteq Id /\ f \in [DOMAIN f -> Record]
  BY RecordsAre
<1>3. Without(f, S) \in [DOMAIN Without(f, S) -> Record]
  BY <1>1, <1>2 DEF Without
<1>4. DOMAIN Without(f, S) \subseteq Id
  BY <1>1, <1>2
<1> QED
  BY <1>1, <1>3, <1>4, RecordsAre

LEMMA NothingRecorded == NoRecords \in Records /\ DOMAIN NoRecords = {}
<1>1. DOMAIN NoRecords = {} /\ NoRecords \in [{} -> Record]
  BY DEF NoRecords
<1> QED
  BY <1>1, RecordsAre

\* What one event does to the records.
LEMMA AppliedResult ==
  ASSUME NEW recs \in Records, NEW e \in Events
  PROVE  /\ Applied(recs, e) \in Records
         /\ \A i : i \in DOMAIN Applied(recs, e) <=>
                     i \in DOMAIN recs \/ (e.op = "create" /\ e.id = i)
         /\ \A i \in DOMAIN recs :
              /\ Applied(recs, e)[i].dead <=> recs[i].dead \/ (e.op = "retire" /\ e.id = i)
              /\ Applied(recs, e)[i].pinned <=> recs[i].pinned \/ (e.op = "pin" /\ e.id = i)
         /\ e.op = "create" /\ e.id \notin DOMAIN recs =>
              ~ Applied(recs, e)[e.id].dead /\ ~ Applied(recs, e)[e.id].pinned
<1>0. e.op \in {"create", "retire", "pin"} /\ e.id \in Id
  BY DEF Events
<1>1. DOMAIN recs \subseteq Id /\ recs \in [DOMAIN recs -> Record]
  BY RecordsAre
<1>2. CASE e.op = "create"
  <2> DEFINE new == At(e.id, [dead |-> FALSE, pinned |-> FALSE])
  <2>1. DOMAIN new = {e.id} /\ new[e.id] = [dead |-> FALSE, pinned |-> FALSE] /\
          new \in [{e.id} -> Record]
    BY DEF At, Record
  <2>2. new \in Records
    <3> HIDE DEF new
    <3> QED
      BY <1>0, <2>1, RecordsAre
  <2>3. Applied(recs, e) = Over(recs, new)
    BY <1>2 DEF Applied
  <2> HIDE DEF new
  <2>4. /\ Over(recs, new) \in Records
        /\ DOMAIN Over(recs, new) = DOMAIN recs \cup DOMAIN new
        /\ \A i \in DOMAIN recs : Over(recs, new)[i] = recs[i]
        /\ \A i \in DOMAIN new \ DOMAIN recs : Over(recs, new)[i] = new[i]
    BY <2>2, OverRecords
  <2> QED
    BY <1>1, <1>2, <2>1, <2>3, <2>4
<1>3. CASE e.op # "create" /\ e.id \in DOMAIN recs
  <2> DEFINE to == Changed(recs[e.id], e.op)
  <2>1. Applied(recs, e) = [recs EXCEPT ![e.id] = to]
    BY <1>3 DEF Applied
  <2>2. recs[e.id] \in Record
    BY <1>1, <1>3
  <2>3. to \in Record /\ (to.dead <=> recs[e.id].dead \/ e.op = "retire")
                      /\ (to.pinned <=> recs[e.id].pinned \/ e.op = "pin")
    BY <2>2 DEF Changed, Record
  <2> HIDE DEF to
  <2>4. /\ DOMAIN Applied(recs, e) = DOMAIN recs
        /\ Applied(recs, e) \in [DOMAIN recs -> Record]
        /\ Applied(recs, e)[e.id] = to
        /\ \A i \in DOMAIN recs : i # e.id => Applied(recs, e)[i] = recs[i]
    BY <1>1, <1>3, <2>1, <2>3
  <2>5. Applied(recs, e) \in Records
    BY <1>1, <2>4, RecordsAre
  <2> QED
    BY <1>3, <2>3, <2>4, <2>5
<1>4. CASE e.op # "create" /\ e.id \notin DOMAIN recs
  <2>1. Applied(recs, e) = recs
    BY <1>4 DEF Applied
  <2> QED
    BY <1>1, <1>4, <2>1
<1> QED
  BY <1>2, <1>3, <1>4

\* Among the events up to position n there is one that does op to i.
Has(events, n, i, op) ==
  \E k \in DOMAIN events : k <= n /\ events[k].id = i /\ events[k].op = op

\* Events at positions of the log; an id is created before anything else happens to it.
EventsOk(events) ==
  /\ DOMAIN events \subseteq 1 .. MaxEvents /\ \A n \in DOMAIN events : events[n] \in Events
  /\ \A j, k \in DOMAIN events :
       j < k => ~ (events[k].op = "create" /\ events[j].id = events[k].id)

\* recs is what the events up to position n make of base.
Result(recs, base, events, n) ==
  /\ recs \in Records
  /\ \A i : i \in DOMAIN recs <=> i \in DOMAIN base \/ Has(events, n, i, "create")
  /\ \A i \in DOMAIN recs :
       /\ recs[i].dead <=> (i \in DOMAIN base /\ base[i].dead) \/ Has(events, n, i, "retire")
       /\ recs[i].pinned <=> (i \in DOMAIN base /\ base[i].pinned) \/ Has(events, n, i, "pin")

\* One more position keeps the closed form of a fold.
LEMMA StepResult ==
  ASSUME NEW base \in Records, NEW events, EventsOk(events), NEW n \in Nat,
         NEW recs, Result(recs, base, events, n)
  PROVE  Result(Step(recs, events, n + 1), base, events, n + 1)
<1>0. DOMAIN events \subseteq Nat
  BY StoreAssumption DEF EventsOk
<1>1. CASE n + 1 \notin DOMAIN events
  <2>1. \A i, op : Has(events, n + 1, i, op) <=> Has(events, n, i, op)
    <3>1. \A k \in DOMAIN events : k <= n + 1 <=> k <= n
      BY <1>0, <1>1
    <3> QED
      BY <3>1 DEF Has
  <2> QED
    BY <1>1, <2>1 DEF Step, Result
<1>2. CASE n + 1 \in DOMAIN events
  <2> DEFINE e == events[n + 1]
             now == Applied(recs, e)
  <2>1. e \in Events /\ recs \in Records /\ Step(recs, events, n + 1) = now
    BY <1>2 DEF EventsOk, Step, Result
  <2>2. ASSUME NEW i, NEW op
        PROVE  Has(events, n + 1, i, op) <=> Has(events, n, i, op) \/ (e.id = i /\ e.op = op)
    <3>1. \A k \in DOMAIN events : k <= n + 1 <=> k <= n \/ k = n + 1
      BY <1>0
    <3>2. n + 1 <= n + 1
      OBVIOUS
    <3> QED
      BY <1>2, <3>1, <3>2 DEF Has
  <2>3. e.op = "create" => \A op : ~ Has(events, n, e.id, op)
    <3>1. \A k \in DOMAIN events : k <= n => k < n + 1
      BY <1>0
    <3> QED
      BY <1>2, <3>1 DEF Has, EventsOk
  <2>4. /\ now \in Records
        /\ \A i : i \in DOMAIN now <=> i \in DOMAIN recs \/ (e.op = "create" /\ e.id = i)
        /\ \A i \in DOMAIN recs :
             /\ now[i].dead <=> recs[i].dead \/ (e.op = "retire" /\ e.id = i)
             /\ now[i].pinned <=> recs[i].pinned \/ (e.op = "pin" /\ e.id = i)
        /\ e.op = "create" /\ e.id \notin DOMAIN recs => ~ now[e.id].dead /\ ~ now[e.id].pinned
    BY <2>1, AppliedResult
  <2> HIDE DEF e, now
  <2>5. ASSUME NEW i PROVE i \in DOMAIN now <=> i \in DOMAIN base \/ Has(events, n + 1, i, "create")
    BY <2>2, <2>4 DEF Result
  <2>6. ASSUME NEW i \in DOMAIN now
        PROVE  /\ now[i].dead <=> (i \in DOMAIN base /\ base[i].dead) \/
                    Has(events, n + 1, i, "retire")
               /\ now[i].pinned <=> (i \in DOMAIN base /\ base[i].pinned) \/
                    Has(events, n + 1, i, "pin")
    <3>1. CASE i \in DOMAIN recs
      BY <2>2, <2>4, <3>1 DEF Result
    <3>2. CASE i \notin DOMAIN recs
      <4>1. e.op = "create" /\ e.id = i
        BY <2>4, <3>2
      <4>2. i \notin DOMAIN base
        BY <3>2 DEF Result
      <4>3. ~ Has(events, n + 1, i, "retire") /\ ~ Has(events, n + 1, i, "pin")
        BY <2>2, <2>3, <4>1
      <4> QED
        BY <2>4, <3>2, <4>1, <4>2, <4>3
    <3> QED
      BY <3>1, <3>2
  <2> QED
    BY <2>1, <2>4, <2>5, <2>6 DEF Result
<1> QED
  BY <1>1, <1>2

\* What a fold computes.
LEMMA FoldResult ==
  ASSUME NEW base \in Records, NEW events, EventsOk(events)
  PROVE  Result(Fold(base, events), base, events, MaxEvents)
<1>1. PICK g : /\ g[0] = base
               /\ \A n \in 1 .. MaxEvents : g[n] = Step(g[n - 1], events, n)
               /\ Fold(base, events) = g[MaxEvents]
  BY FoldSteps
<1> DEFINE T == {n \in Nat : n <= MaxEvents => Result(g[n], base, events, n)}
<1>2. 0 \in T
  <2>1. \A i, op : ~ Has(events, 0, i, op)
    <3>1. \A k \in DOMAIN events : ~ (k <= 0)
      BY StoreAssumption DEF EventsOk
    <3> QED
      BY <3>1 DEF Has
  <2> QED
    BY <1>1, <2>1 DEF Result
<1>3. ASSUME NEW n \in T PROVE n + 1 \in T
  <2> SUFFICES ASSUME n + 1 <= MaxEvents PROVE Result(g[n + 1], base, events, n + 1)
    OBVIOUS
  <2>1. MaxEvents \in Nat
    BY StoreAssumption
  <2>2. n \in Nat /\ n + 1 \in 1 .. MaxEvents /\ (n + 1) - 1 = n /\ n <= MaxEvents
    BY <2>1
  <2>3. g[n + 1] = Step(g[n], events, n + 1) /\ Result(g[n], base, events, n)
    BY <1>1, <2>2
  <2> QED
    BY <2>2, <2>3, StepResult
<1> HIDE DEF T
<1>4. \A n \in Nat : n \in T
  <2>1. T \in SUBSET Nat
    BY DEF T
  <2> QED
    BY <1>2, <1>3, <2>1, Induction
<1>5. MaxEvents \in Nat /\ MaxEvents <= MaxEvents
  BY StoreAssumption
<1> QED
  BY <1>1, <1>4, <1>5 DEF T

-----------------------------------------------------------------------------
\* Records and the log.

\* The positions of a log.
LEMMA LogRange ==
  ASSUME NEW l, LogOk(l)
  PROVE  /\ Len(l) \in 0 .. MaxEvents /\ DOMAIN l = 1 .. Len(l)
         /\ \A n \in 1 .. Len(l) : l[n] \in Events /\ n \in Nat
<1>1. l \in Seq(Events) /\ Len(l) <= MaxEvents /\ MaxEvents \in Nat
  BY StoreAssumption DEF LogOk
<1> QED
  BY <1>1

\* A part of a log is events to fold.
LEMMA PartEvents ==
  ASSUME NEW l, LogOk(l), NEW events, PartOf(events, l)
  PROVE  EventsOk(events)
<1>1. Len(l) \in 0 .. MaxEvents /\ \A n \in 1 .. Len(l) : l[n] \in Events
  BY LogRange
<1>2. DOMAIN events \subseteq 1 .. Len(l) /\ \A n \in DOMAIN events : events[n] = l[n]
  BY DEF PartOf
<1>3. 1 .. Len(l) \subseteq 1 .. MaxEvents
  BY <1>1, StoreAssumption
<1>4. \A n \in DOMAIN events : events[n] \in Events
  BY <1>1, <1>2
<1>5. ASSUME NEW j \in DOMAIN events, NEW k \in DOMAIN events, j < k
      PROVE  ~ (events[k].op = "create" /\ events[j].id = events[k].id)
  BY <1>2, <1>5 DEF LogOk
<1> QED
  BY <1>2, <1>3, <1>4, <1>5 DEF EventsOk

LEMMA WholeLog ==
  ASSUME NEW l, LogOk(l)
  PROVE  PartOf(l, l)
<1>1. DOMAIN l = 1 .. Len(l) /\ l = [n \in 1 .. Len(l) |-> l[n]]
  BY LogRange DEF LogOk
<1> QED
  BY <1>1 DEF PartOf

\* Only the first p events matter.
LEMMA LoggedPrefix ==
  ASSUME NEW l, NEW m, LogOk(l), LogOk(m), NEW p \in Nat, p <= Len(l), p <= Len(m),
         \A n \in 1 .. p : l[n] = m[n]
  PROVE  \A i, op : Logged(l, p, i, op) <=> Logged(m, p, i, op)
<1>1. Len(l) \in Nat /\ Len(m) \in Nat
  BY LogRange
<1>2. \A n \in 1 .. Len(l) : n <= p => n \in 1 .. p /\ n \in 1 .. Len(m)
  BY <1>1
<1>3. \A n \in 1 .. Len(m) : n <= p => n \in 1 .. p /\ n \in 1 .. Len(l)
  BY <1>1
<1> QED
  BY <1>2, <1>3 DEF Logged

\* Records that follow a log follow every log that begins the same.
LEMMA FollowsPrefix ==
  ASSUME NEW l, NEW m, LogOk(l), LogOk(m), NEW p \in Nat, p <= Len(l), p <= Len(m),
         \A n \in 1 .. p : l[n] = m[n],
         NEW recs, NEW gone, NEW unknown, Follows(recs, l, p, gone, unknown)
  PROVE  Follows(recs, m, p, gone, unknown)
<1>1. \A i, op : Logged(l, p, i, op) <=> Logged(m, p, i, op)
  BY LoggedPrefix
<1> QED
  BY <1>1 DEF Follows

\* Leaving more out, or knowing less, is no harm.
LEMMA FollowsLess ==
  ASSUME NEW l, NEW p, NEW recs, NEW gone, NEW more, gone \subseteq more,
         NEW unknown, NEW other, unknown \subseteq other, Follows(recs, l, p, gone, unknown)
  PROVE  Follows(recs, l, p, more, other)
BY DEF Follows

\* A version that follows the log up to position b, with the events after a <= b
\* that are known, follows it up to position q.
LEMMA CatchUp ==
  ASSUME NEW l, LogOk(l), NEW a \in Nat, NEW b \in Nat, NEW q \in Nat,
         a <= b, b <= q, q <= Len(l),
         NEW base \in Records, NEW gone, NEW unknown, Follows(base, l, b, gone, unknown),
         NEW events, PartOf(events, l), \A n \in DOMAIN events : a < n /\ n <= q,
         \A n \in 1 .. Len(l) : a < n /\ n <= q => n \in DOMAIN events \/ l[n].id \in unknown
  PROVE  Follows(Fold(base, events), l, q, gone, unknown)
<1> DEFINE recs == Fold(base, events)
<1>1. EventsOk(events)
  BY PartEvents
<1>2. Result(recs, base, events, MaxEvents)
  BY <1>1, FoldResult
<1> HIDE DEF recs
<1>3. Len(l) \in Nat /\ Len(l) <= MaxEvents /\ MaxEvents \in Nat
  BY LogRange, StoreAssumption
<1>4. DOMAIN events \subseteq 1 .. Len(l) /\ \A n \in DOMAIN events : events[n] = l[n]
  BY DEF PartOf
<1>5. ASSUME NEW i \in Id \ unknown, NEW op
      PROVE  Has(events, MaxEvents, i, op)
               <=> \E n \in 1 .. Len(l) : a < n /\ n <= q /\ l[n].id = i /\ l[n].op = op
  <2>1. ASSUME NEW n \in DOMAIN events, events[n].id = i, events[n].op = op
        PROVE  n \in 1 .. Len(l) /\ a < n /\ n <= q /\ l[n].id = i /\ l[n].op = op
    BY <1>4, <2>1
  <2>2. ASSUME NEW n \in 1 .. Len(l), a < n, n <= q, l[n].id = i, l[n].op = op
        PROVE  n \in DOMAIN events /\ n <= MaxEvents /\ events[n].id = i /\ events[n].op = op
    BY <1>3, <1>4, <2>2
  <2> QED
    BY <2>1, <2>2 DEF Has
<1>6. ASSUME NEW i, NEW op
      PROVE  Logged(l, q, i, op)
               <=> \/ Logged(l, b, i, op)
                   \/ \E n \in 1 .. Len(l) : a < n /\ n <= q /\ l[n].id = i /\ l[n].op = op
  <2>1. \A n \in 1 .. Len(l) : n <= q <=> n <= b \/ (a < n /\ n <= q)
    BY <1>3
  <2> QED
    BY <2>1 DEF Logged
<1>7. \A i \in Id \ unknown : \A op :
        Logged(l, q, i, op) <=> Logged(l, b, i, op) \/ Has(events, MaxEvents, i, op)
  BY <1>5, <1>6
<1>8. DOMAIN recs \subseteq Id
  BY <1>2, RecordsAre DEF Result
<1>9. ASSUME NEW i \in DOMAIN recs \ unknown
      PROVE  /\ Logged(l, q, i, "create")
             /\ recs[i].dead <=> Logged(l, q, i, "retire")
             /\ recs[i].pinned <=> Logged(l, q, i, "pin")
  <2>1. i \in Id \ unknown
    BY <1>8
  <2>2. CASE i \in DOMAIN base
    BY <1>2, <1>7, <2>1, <2>2 DEF Result, Follows
  <2>3. CASE i \notin DOMAIN base
    <3>1. Has(events, MaxEvents, i, "create")
      BY <1>2, <2>3 DEF Result
    <3>2. PICK c \in DOMAIN events : events[c].id = i /\ events[c].op = "create"
      BY <3>1 DEF Has
    <3>3. a < c /\ c \in 1 .. Len(l) /\ l[c].op = "create" /\ l[c].id = i
      BY <1>4, <3>2
    <3>4. \A n \in 1 .. Len(l) : n < c => l[n].id # i
      BY <3>3 DEF LogOk
    <3>5. ASSUME NEW op, Logged(l, q, i, op) PROVE Has(events, MaxEvents, i, op)
      <4>1. PICK n \in 1 .. Len(l) : n <= q /\ l[n].id = i /\ l[n].op = op
        BY <3>5 DEF Logged
      <4>2. a < n
        BY <1>3, <3>3, <3>4, <4>1
      <4> QED
        BY <1>5, <2>1, <4>1, <4>2
    <3>6. \A op : Logged(l, q, i, op) <=> Has(events, MaxEvents, i, op)
      BY <1>7, <2>1, <3>5
    <3> QED
      BY <1>2, <2>3, <3>1, <3>6 DEF Result
  <2> QED
    BY <2>2, <2>3
<1>10. ASSUME NEW i \in Id \ unknown, Logged(l, q, i, "create")
       PROVE  i \in DOMAIN recs \cup gone
  <2>1. CASE Logged(l, b, i, "create")
    BY <1>2, <2>1 DEF Follows, Result
  <2>2. CASE Has(events, MaxEvents, i, "create")
    BY <1>2, <2>2 DEF Result
  <2> QED
    BY <1>7, <1>10, <2>1, <2>2
<1> QED
  BY <1>9, <1>10 DEF Follows, recs

\* Records that follow the log are true up to what is dead and left out.
LEMMA FollowsTruth ==
  ASSUME LogOk(log), NEW recs \in Records, NEW out \in Deads, NEW unknown,
         Follows(recs, log, Len(log), DOMAIN out, unknown)
  PROVE  TrueUpTo(recs, out, unknown)
<1>1. Len(log) \in Nat /\ Len(log) <= MaxEvents /\ DOMAIN log = 1 .. Len(log)
  BY LogRange
<1>2. EventsOk(log)
  BY WholeLog, PartEvents
<1>3. Result(Truth, NoRecords, log, MaxEvents)
  BY <1>2, FoldResult, NothingRecorded DEF Truth
<1>4. \A i, op : Has(log, MaxEvents, i, op) <=> Logged(log, Len(log), i, op)
  BY <1>1, StoreAssumption DEF Has, Logged
<1>5. /\ \A i : i \in DOMAIN Truth <=> Logged(log, Len(log), i, "create")
      /\ \A i \in DOMAIN Truth :
           /\ Truth[i].dead <=> Logged(log, Len(log), i, "retire")
           /\ Truth[i].pinned <=> Logged(log, Len(log), i, "pin")
  BY <1>3, <1>4, NothingRecorded DEF Result
<1>6. /\ DOMAIN Truth \subseteq Id /\ Truth \in [DOMAIN Truth -> Record]
      /\ DOMAIN recs \subseteq Id /\ recs \in [DOMAIN recs -> Record]
  BY <1>3, RecordsAre DEF Result
<1>7. ASSUME NEW i \in DOMAIN recs \ unknown PROVE i \in DOMAIN Truth /\ recs[i] = Truth[i]
  <2>1. i \in DOMAIN Truth
    BY <1>5 DEF Follows
  <2>2. recs[i] \in Record /\ Truth[i] \in Record
    BY <1>6, <2>1
  <2>3. (recs[i].dead <=> Truth[i].dead) /\ (recs[i].pinned <=> Truth[i].pinned)
    BY <1>5, <2>1 DEF Follows
  <2> QED
    BY <2>1, <2>2, <2>3, SameRecord
<1>8. ASSUME NEW i \in DOMAIN Truth \ (DOMAIN recs \cup unknown)
      PROVE  i \in DOMAIN out /\ out[i].dead /\ ~ out[i].pinned
  <2>1. i \in DOMAIN out
    BY <1>5, <1>6 DEF Follows
  <2> QED
    BY <2>1 DEF Deads
<1> QED
  BY <1>7, <1>8 DEF TrueUpTo

\* What the reader sees is the fold over what it saw.
LEMMA LaidIs ==
  ASSUME NEW base \in Records, NEW over \in Records, NEW events, EventsOk(events)
  PROVE  /\ Laid(base, over, events) \in Records
         /\ Over(Laid(base, over, events), base) = Fold(Over(over, base), events)
         /\ \A i \in DOMAIN Laid(base, over, events) :
              i \in DOMAIN over \cup DOMAIN base \/ Has(events, MaxEvents, i, "create")
<1> DEFINE seen == Over(over, base)
           all == Fold(seen, events)
           named == {events[n].id : n \in DOMAIN events}
           laid == Laid(base, over, events)
           ids == DOMAIN over \cup (named \cap DOMAIN all)
<1>1. /\ seen \in Records /\ DOMAIN seen = DOMAIN over \cup DOMAIN base
      /\ \A i \in DOMAIN base \ DOMAIN over : seen[i] = base[i]
  BY OverRecords
<1> HIDE DEF seen
<1>2. Result(all, seen, events, MaxEvents)
  BY <1>1, FoldResult
<1>3. laid = [i \in ids |-> all[i]]
  BY DEF Laid, seen
<1> HIDE DEF all, named, laid
<1>4. DOMAIN all \subseteq Id /\ all \in [DOMAIN all -> Record]
  BY <1>2, RecordsAre DEF Result
<1>5. DOMAIN seen \subseteq DOMAIN all
  BY <1>2 DEF Result
<1>6. ids \subseteq DOMAIN all
  BY <1>1, <1>5
<1>7. DOMAIN laid = ids /\ (\A i \in ids : laid[i] = all[i]) /\ laid \in [ids -> Record]
  BY <1>3, <1>4, <1>6
<1>8. laid \in Records
  BY <1>4, <1>6, <1>7, RecordsAre
<1>9. ASSUME NEW i \in DOMAIN all PROVE i \in ids \cup DOMAIN base
  <2>1. i \in DOMAIN seen \/ Has(events, MaxEvents, i, "create")
    BY <1>2 DEF Result
  <2> QED
    BY <1>1, <2>1 DEF Has, named
<1>10. DOMAIN all = ids \cup DOMAIN base
  BY <1>1, <1>5, <1>6, <1>9
<1>11. ASSUME NEW i \in DOMAIN base \ ids PROVE all[i] = base[i]
  <2>1. i \in DOMAIN seen /\ seen[i] = base[i] /\ i \in DOMAIN all /\ i \notin named
    BY <1>1, <1>10
  <2>2. \A op : ~ Has(events, MaxEvents, i, op)
    BY <2>1 DEF Has, named
  <2>3. (all[i].dead <=> base[i].dead) /\ (all[i].pinned <=> base[i].pinned)
    BY <1>2, <2>1, <2>2 DEF Result
  <2>4. all[i] \in Record /\ base[i] \in Record
    BY <1>4, <2>1, RecordsAre
  <2> QED
    BY <2>3, <2>4, SameRecord
<1>12. Over(laid, base) = all
  <2>1. Over(laid, base) = [i \in DOMAIN all |-> IF i \in ids THEN laid[i] ELSE base[i]]
    BY <1>7, <1>10 DEF Over
  <2>2. \A i \in DOMAIN all : (IF i \in ids THEN laid[i] ELSE base[i]) = all[i]
    BY <1>7, <1>10, <1>11
  <2> QED
    BY <1>4, <2>1, <2>2
<1>13. ASSUME NEW i \in DOMAIN laid
       PROVE  i \in DOMAIN over \cup DOMAIN base \/ Has(events, MaxEvents, i, "create")
  BY <1>1, <1>2, <1>6, <1>7 DEF Result
<1> QED
  BY <1>8, <1>12, <1>13 DEF laid, all, seen

\* What iter_since returns: the events between two positions, but for pruned months.
LEMMA BetweenIsPart ==
  ASSUME LogOk(log), NEW p \in Nat, NEW q \in Nat, q <= Len(log)
  PROVE  /\ PartOf(Between(p, q), log)
         /\ DOMAIN Between(p, q) = {n \in 1 .. Len(log) : p < n /\ n <= q /\
              log[n].month \notin pruned}
<1>1. Len(log) \in Nat
  BY LogRange
<1>2. DOMAIN Between(p, q) = {k \in p + 1 .. q : log[k].month \notin pruned}
  BY DEF Between
<1>3. \A n : n \in p + 1 .. q <=> n \in 1 .. Len(log) /\ p < n /\ n <= q
  BY <1>1
<1>4. DOMAIN Between(p, q) = {n \in 1 .. Len(log) : p < n /\ n <= q /\ log[n].month \notin pruned}
  BY <1>2, <1>3
<1>5. Between(p, q) = [n \in DOMAIN Between(p, q) |-> log[n]]
  BY <1>2 DEF Between
<1> QED
  BY <1>4, <1>5 DEF PartOf

-----------------------------------------------------------------------------
\* What a step leaves alone.

\* What a step leaves alone keeps its conjunct.
LEMMA DiskSame ==
  ASSUME UNCHANGED <<log, pruned, versions>>
  PROVE  DiskInv => DiskInv'
BY DEF DiskInv, Unpruned, Gone, LeftOut

LEMMA ManifestSame ==
  ASSUME UNCHANGED <<log, pruned, versions>>
  PROVE  /\ \A m : ManifestOk(m) => ManifestOk(m)'
         /\ Complete' = Complete /\ Valid' = Valid
         /\ \A v : /\ FoldedOf(v)' = FoldedOf(v) /\ RecordsOf(v)' = RecordsOf(v)
                   /\ Gone(v)' = Gone(v)
BY DEF ManifestOk, Unpruned, Complete, Valid, FoldedOf, RecordsOf, Gone, LeftOut

LEMMA LiveSame ==
  ASSUME UNCHANGED <<log, pruned, versions, up, readonly, halfway, man, snap>>
  PROVE  LiveInv => LiveInv'
BY DEF LiveInv, Live, ManifestOk, Unpruned, Complete, Valid, FoldedOf

LEMMA ViewInvSame ==
  ASSUME UNCHANGED <<log, versions, up, readonly, halfway, snap, overlay, unheard>>
  PROVE  ViewInv => ViewInv'
BY DEF ViewInv, Live, View, RecordsOf, FoldedOf, Ids, Gone, LeftOut

LEMMA CountSame ==
  ASSUME UNCHANGED <<log, pruned, up, readonly, halfway, slipped, man, count>>
  PROVE CountInv => CountInv'
BY DEF CountInv, Live, Between, Size

-----------------------------------------------------------------------------
\* An event is written.

\* A log after one more event that may be asked for.
LEMMA LogGrows ==
  ASSUME LogOk(log), NEW e \in Events, Len(log) < MaxEvents, Allowed(e), log' = Append(log, e)
  PROVE  /\ LogOk(log') /\ Len(log') = Len(log) + 1 /\ log'[Len(log) + 1] = e
         /\ \A n \in 1 .. Len(log) : log'[n] = log[n]
<1>0. log \in Seq(Events) /\ Len(log) \in Nat /\ MaxEvents \in Nat /\ DOMAIN log = 1 .. Len(log)
  BY LogRange, StoreAssumption DEF LogOk
<1>1. /\ log' \in Seq(Events) /\ Len(log') = Len(log) + 1 /\ log'[Len(log) + 1] = e
      /\ \A n \in 1 .. Len(log) : log'[n] = log[n]
  BY <1>0
<1>2. \A n \in 1 .. Len(log) : log[n].month <= e.month /\ (e.op = "create" => log[n].id # e.id)
  BY <1>0 DEF Allowed
<1>3. e.month <= e.month
  BY DEF Events
<1>4. ASSUME NEW k \in 1 .. Len(log'), k \notin 1 .. Len(log) PROVE k = Len(log) + 1
  BY <1>0, <1>1, <1>4
<1>5. ASSUME NEW j \in 1 .. Len(log'), NEW k \in 1 .. Len(log'), j <= k
      PROVE  log'[j].month <= log'[k].month
  <2>1. CASE k \in 1 .. Len(log)
    <3>1. j \in 1 .. Len(log)
      BY <1>0, <1>1, <1>5, <2>1
    <3> QED
      BY <1>1, <1>5, <2>1, <3>1 DEF LogOk
  <2>2. CASE k = Len(log) + 1 /\ j \in 1 .. Len(log)
    BY <1>1, <1>2, <2>2
  <2>3. CASE k = Len(log) + 1 /\ j = Len(log) + 1
    BY <1>1, <1>3, <2>3
  <2> QED
    BY <1>4, <2>1, <2>2, <2>3
<1>6. ASSUME NEW j \in 1 .. Len(log'), NEW k \in 1 .. Len(log'), j < k
      PROVE  ~ (log'[k].op = "create" /\ log'[j].id = log'[k].id)
  <2>1. j \in 1 .. Len(log)
    BY <1>0, <1>1, <1>6
  <2>2. CASE k \in 1 .. Len(log)
    BY <1>1, <1>6, <2>1, <2>2 DEF LogOk
  <2>3. CASE k = Len(log) + 1
    BY <1>1, <1>2, <2>1, <2>3
  <2> QED
    BY <1>4, <2>2, <2>3
<1>7. Len(log') <= MaxEvents
  BY <1>0, <1>1
<1> QED
  BY <1>1, <1>5, <1>6, <1>7 DEF LogOk

\* The months of an append and of what follows it are not pruned.
LEMMA MonthKept ==
  ASSUME Typed, Bounds, NEW e \in Events, Allowed(e)
  PROVE  e.month \notin pruned
<1>1. /\ LogOk(log) /\ Len(log) \in Nat /\ synced \in 0 .. Len(log) /\ DOMAIN log = 1 .. Len(log)
      /\ \A n \in 1 .. Len(log) : log[n] \in Events
  BY LogRange DEF Typed
<1> SUFFICES ASSUME e.month \in pruned PROVE FALSE
  OBVIOUS
<1>2. PICK n \in 1 .. synced : e.month < log[n].month
  BY DEF Bounds
<1>3. n \in 1 .. Len(log) /\ log[n].month <= e.month
  BY <1>1, <1>2 DEF Allowed
<1>4. log[n].month \in Nat /\ e.month \in Nat
  BY <1>1, <1>3, StoreAssumption DEF Events
<1> QED
  BY <1>2, <1>3, <1>4

\* An append disturbs nothing on the disk.
LEMMA DiskGrows ==
  ASSUME Typed, Bounds, DiskInv, FileInv, NEW e \in Events, Len(log) < MaxEvents, Allowed(e),
         log' = Append(log, e), UNCHANGED <<pruned, synced, versions, file>>
  PROVE  /\ \A m \in Manifest : ManifestOk(m) => ManifestOk(m)'
         /\ DiskInv' /\ FileInv'
<1>1. LogOk(log) /\ synced \in 0 .. Len(log) /\ versions \in [DOMAIN versions -> Version] /\
        file \in File
  BY DEF Typed
<1>2. /\ LogOk(log') /\ Len(log') = Len(log) + 1 /\ log'[Len(log) + 1] = e
      /\ \A n \in 1 .. Len(log) : log'[n] = log[n]
  BY <1>1, LogGrows
<1>3. Len(log) \in Nat /\ e.month \notin pruned
  BY <1>1, LogRange, MonthKept
<1>4. ASSUME NEW p \in Nat, Unpruned(p) PROVE Unpruned(p)'
  <2>1. ASSUME NEW n \in 1 .. Len(log'), p < n PROVE log'[n].month \notin pruned
    <3>1. CASE n \in 1 .. Len(log)
      BY <1>2, <1>4, <2>1, <3>1 DEF Unpruned
    <3>2. CASE n = Len(log) + 1
      BY <1>2, <1>3, <3>2
    <3> QED
      BY <1>2, <1>3, <3>1, <3>2
  <2> QED
    BY <2>1 DEF Unpruned
<1>5. ASSUME NEW m \in Manifest, ManifestOk(m) PROVE ManifestOk(m)'
  <2>1. m.folded \in Nat
    BY DEF Manifest
  <2>2. Unpruned(m.folded)'
    BY <1>4, <1>5, <2>1 DEF ManifestOk
  <2> QED
    BY <1>5, <2>2 DEF ManifestOk
<1>6. FileInv'
  BY <1>1, <1>5 DEF FileInv, File
<1>7. DiskInv'
  <2>1. ASSUME NEW v \in DOMAIN versions
        PROVE  /\ Follows(versions[v].recs, log', versions[v].folded, Gone(v), {})
               /\ versions[v].complete => Unpruned(versions[v].folded)'
    <3>1. versions[v].folded \in Nat
      BY <1>1 DEF Version
    <3>2. versions[v].folded <= Len(log) /\ versions[v].folded <= Len(log')
      BY <1>1, <1>2, <1>3, <3>1 DEF Bounds
    <3>3. \A n \in 1 .. versions[v].folded : log[n] = log'[n]
      BY <1>2, <1>3, <3>1, <3>2
    <3>4. Follows(versions[v].recs, log, versions[v].folded, Gone(v), {})
      BY DEF DiskInv
    <3>5. Follows(versions[v].recs, log', versions[v].folded, Gone(v), {})
      BY <1>1, <1>2, <3>1, <3>2, <3>3, <3>4, FollowsPrefix
    <3> QED
      BY <1>4, <3>1, <3>5 DEF DiskInv
  <2>2. \A v : Gone(v)' = Gone(v)
    BY DEF Gone, LeftOut
  <2> QED
    BY <2>1, <2>2 DEF DiskInv
<1> QED
  BY <1>5, <1>6, <1>7

\* The events laid over the view by a single write.
LEMMA OneEvent ==
  ASSUME NEW e \in Events, NEW n \in 1 .. MaxEvents
  PROVE  /\ DOMAIN At(n, e) = {n} /\ At(n, e)[n] = e /\ EventsOk(At(n, e))
         /\ \A i, op : Has(At(n, e), MaxEvents, i, op) <=> e.id = i /\ e.op = op
<1>1. DOMAIN At(n, e) = {n} /\ At(n, e)[n] = e
  BY DEF At
<1>2. n <= MaxEvents /\ ~ (n < n)
  BY StoreAssumption
<1>3. EventsOk(At(n, e))
  BY <1>1, <1>2 DEF EventsOk
<1>4. \A i, op : Has(At(n, e), MaxEvents, i, op) <=> e.id = i /\ e.op = op
  BY <1>1, <1>2 DEF Has
<1> QED
  BY <1>1, <1>3, <1>4

\* Another event of the log that is not pruned is one more event to fold.
LEMMA SizeGrows ==
  ASSUME LogOk(log), LogOk(log'), Len(log') = Len(log) + 1,
         \A n \in 1 .. Len(log) : log'[n] = log[n],
         log'[Len(log) + 1].month \notin pruned, pruned' = pruned, NEW p \in Nat, p <= Len(log)
  PROVE  Size(Between(p, Len(log)))' = Size(Between(p, Len(log))) + 1
<1> DEFINE old == {n \in 1 .. Len(log) : p < n /\ n <= Len(log) /\ log[n].month \notin pruned}
           new == {n \in 1 .. Len(log') : p < n /\ n <= Len(log') /\ log'[n].month \notin pruned'}
<1>1. Len(log) \in Nat /\ Len(log) <= Len(log)
  BY LogRange
<1>2. Size(Between(p, Len(log))) = Cardinality(old)
  <2>1. DOMAIN Between(p, Len(log)) = old
    BY <1>1, BetweenIsPart
  <2> QED
    BY <2>1 DEF Size
<1>3. Size(Between(p, Len(log)))' = Cardinality(new)
  <2>1. \A n : n \in p + 1 .. Len(log') <=> n \in 1 .. Len(log') /\ p < n /\ n <= Len(log')
    BY <1>1
  <2>2. (DOMAIN Between(p, Len(log)))' = new
    BY <2>1 DEF Between
  <2> QED
    BY <2>2 DEF Size
<1>4. new = old \cup {Len(log) + 1} /\ Len(log) + 1 \notin old
  BY <1>1
<1>5. IsFiniteSet(old)
  <2>1. old \subseteq 1 .. Len(log) /\ IsFiniteSet(1 .. Len(log))
    BY <1>1, FS_Interval
  <2> QED
    BY <2>1, FS_Subset
<1> HIDE DEF old, new
<1>6. Cardinality(new) = Cardinality(old) + 1
  BY <1>4, <1>5, FS_AddElement
<1> QED
  BY <1>2, <1>3, <1>6

\* What is read is records.
LEMMA ViewRecords ==
  ASSUME Typed
  PROVE  /\ \A v : RecordsOf(v) \in Records
         /\ View \in Records /\ DOMAIN View = DOMAIN overlay \cup DOMAIN RecordsOf(snap)
         /\ \A i \in DOMAIN overlay : View[i] = overlay[i]
<1>1. ASSUME NEW v PROVE RecordsOf(v) \in Records
  BY NothingRecorded DEF Typed, Version, RecordsOf
<1>2. overlay \in Records /\ RecordsOf(snap) \in Records
  BY <1>1 DEF Typed
<1> QED
  BY <1>1, <1>2, OverRecords DEF View

\* No position of a version lies beyond what is synced.
LEMMA FoldedBound ==
  ASSUME Typed, Bounds, NEW v
  PROVE  FoldedOf(v) \in Nat /\ FoldedOf(v) <= synced
BY StoreAssumption DEF Typed, Bounds, FoldedOf, Version

\* What the log is after a write, whether it is applied or not.
Written(e) ==
  /\ e \in Events /\ Writable /\ Allowed(e) /\ log' = Append(log, e)
  /\ UNCHANGED <<pruned, synced, versions, file, spoilt, up, man, snap, readonly, halfway, job>>

\* What holds after a write, whether it is applied or not.
LEMMA WrittenFacts ==
  ASSUME Base, NEW e, Written(e)
  PROVE  /\ e \in Events /\ LogOk(log) /\ LogOk(log') /\ Len(log) \in Nat
         /\ Len(log') = Len(log) + 1 /\ log'[Len(log) + 1] = e
         /\ \A n \in 1 .. Len(log) : log'[n] = log[n]
         /\ e.month \notin pruned /\ Len(log) + 1 \in 1 .. MaxEvents
         /\ \A v : RecordsOf(v)' = RecordsOf(v) /\ FoldedOf(v)' = FoldedOf(v) /\ Gone(v)' = Gone(v)
         /\ Live' = Live /\ Bounds'
<1>1. /\ Typed /\ Bounds /\ LogOk(log) /\ Len(log) \in Nat
      /\ e \in Events /\ Len(log) < MaxEvents /\ MaxEvents \in Nat
  BY LogRange, StoreAssumption DEF Base, Typed, Written, Writable
<1>2. /\ LogOk(log') /\ Len(log') = Len(log) + 1 /\ log'[Len(log) + 1] = e
      /\ \A n \in 1 .. Len(log) : log'[n] = log[n]
  BY <1>1, LogGrows DEF Written
<1>3. e.month \notin pruned
  BY <1>1, MonthKept DEF Written
<1>4. \A v : RecordsOf(v)' = RecordsOf(v) /\ FoldedOf(v)' = FoldedOf(v) /\ Gone(v)' = Gone(v)
  BY DEF Written, RecordsOf, FoldedOf, Gone, LeftOut
<1>5. Live' = Live
  BY DEF Written, Live
<1>6. Bounds'
  <2>1. synced \in 0 .. Len(log) /\ job.end \in Nat /\ job.heard \in Nat
    BY <1>1 DEF Typed, Job
  <2>2. \A m \in pruned : \E n \in 1 .. synced : m < log'[n].month
    BY <1>1, <1>2, <2>1 DEF Bounds
  <2>3. job # Idle => job.end <= Len(log') /\ job.heard <= Len(log')
    BY <1>1, <1>2, <2>1 DEF Bounds
  <2> QED
    BY <1>1, <2>2, <2>3 DEF Bounds, Written, Building, Complete
<1> QED
  BY <1>1, <1>2, <1>3, <1>4, <1>5, <1>6

\* What is on the disk, and what the store stands on, are good after a write.
LEMMA WrittenSound ==
  ASSUME Base, Sound, NEW e, Written(e)
  PROVE  DiskInv' /\ FileInv' /\ LiveInv'
<1>1. /\ Typed /\ Bounds /\ DiskInv /\ FileInv /\ LiveInv /\ man \in Manifest
      /\ e \in Events /\ Len(log) < MaxEvents /\ Live' = Live
  BY WrittenFacts DEF Base, Sound, Typed, Written, Writable
<1>2. /\ DiskInv' /\ FileInv'
      /\ \A m \in Manifest : ManifestOk(m) => ManifestOk(m)'
  BY <1>1, DiskGrows DEF Written
<1>3. LiveInv'
  <2> SUFFICES ASSUME Live PROVE LiveInv'
    BY <1>1 DEF LiveInv
  <2>1. ManifestOk(man)'
    BY <1>1, <1>2 DEF LiveInv, Written, ManifestOk
  <2>2. FoldedOf(snap)' = FoldedOf(snap) /\ Complete' = Complete /\ Valid' = Valid
    BY DEF Written, FoldedOf, Complete, Valid
  <2> QED
    BY <1>1, <2>1, <2>2 DEF LiveInv, Written
<1> QED
  BY <1>2, <1>3

LEMMA WriteTyped ==
  ASSUME Base, NEW e \in Events, Write(e)
  PROVE  Typed'
<1>1. Written(e)
  BY DEF Write, Written
<1>2. /\ LogOk(log) /\ LogOk(log') /\ Len(log) \in Nat /\ Len(log') = Len(log) + 1
      /\ log'[Len(log) + 1] = e
      /\ \A n \in 1 .. Len(log) : log'[n] = log[n]
      /\ Len(log) + 1 \in 1 .. MaxEvents
  BY <1>1, WrittenFacts
<1>3. Typed
  BY DEF Base
<1>4. overlay' \in Records
  <2>1. EventsOk(At(Len(log) + 1, e)) /\ RecordsOf(snap) \in Records /\ overlay \in Records
    BY <1>2, <1>3, OneEvent, ViewRecords DEF Typed
  <2> QED
    BY <2>1, LaidIs DEF Write
<1>5. PartOf(late', log')
  <2>1. DOMAIN late \subseteq 1 .. Len(log) /\ late = [n \in DOMAIN late |-> log[n]]
    BY <1>3 DEF Typed, PartOf
  <2>2. CASE late' = late
    BY <1>2, <2>1, <2>2 DEF PartOf
  <2>3. CASE late' = Over(late, At(Len(log) + 1, e))
    <3>1. DOMAIN late' = DOMAIN late \cup {Len(log) + 1}
      BY <2>3 DEF Over, At
    <3>2. late' = [n \in DOMAIN late \cup {Len(log) + 1} |->
                     IF n \in DOMAIN late THEN late[n] ELSE At(Len(log) + 1, e)[n]]
      BY <2>3 DEF Over, At
    <3>3. At(Len(log) + 1, e)[Len(log) + 1] = e
      BY DEF At
    <3>4. \A n \in DOMAIN late : n \in 1 .. Len(log) /\ late[n] = log'[n]
      BY <1>2, <2>1
    <3>5. \A n \in DOMAIN late \cup {Len(log) + 1} :
            (IF n \in DOMAIN late THEN late[n] ELSE At(Len(log) + 1, e)[n]) = log'[n]
      BY <1>2, <3>3, <3>4
    <3>6. late' = [n \in DOMAIN late' |-> log'[n]]
      BY <3>1, <3>2, <3>5
    <3>7. DOMAIN late' \subseteq 1 .. Len(log')
      BY <1>2, <2>1, <3>1
    <3> QED
      BY <3>6, <3>7 DEF PartOf
  <2> QED
    BY <2>2, <2>3 DEF Write, Kept
<1>6. count' \in Nat /\ unheard' \in SUBSET (1 .. Len(log')) /\ synced' \in 0 .. Len(log')
  BY <1>2, <1>3 DEF Write, Typed
<1> QED
  BY <1>2, <1>3, <1>4, <1>5, <1>6 DEF Write, Typed

\* A write is counted once.
LEMMA WriteBase ==
  ASSUME Base, NEW e \in Events, Write(e)
  PROVE  Base'
<1>1. Written(e)
  BY DEF Write, Written
<1>2. /\ LogOk(log) /\ LogOk(log') /\ Len(log) \in Nat /\ Len(log') = Len(log) + 1
      /\ log'[Len(log) + 1] = e /\ e.month \notin pruned
      /\ \A n \in 1 .. Len(log) : log'[n] = log[n]
      /\ Live' = Live /\ Bounds'
  BY <1>1, WrittenFacts
<1>3. man.folded \in Nat /\ man.folded <= Len(log)
  <2>1. man.folded \in Nat /\ synced \in 0 .. Len(log) /\ man.folded <= synced
    BY DEF Base, Typed, Manifest, Bounds
  <2> QED
    BY <1>2, <2>1
<1>4. Size(Between(man.folded, Len(log)))' = Size(Between(man.folded, Len(log))) + 1
  <2>1. pruned' = pruned /\ log'[Len(log) + 1].month \notin pruned
    BY <1>2 DEF Write
  <2>2. \A p \in Nat : p <= Len(log) =>
          Size(Between(p, Len(log)))' = Size(Between(p, Len(log))) + 1
    BY <1>2, <2>1, SizeGrows
  <2>3. man' = man
    BY DEF Write
  <2> QED
    BY <1>3, <2>2, <2>3
<1>5. CountInv'
  BY <1>2, <1>4 DEF Base, CountInv, Write
<1> QED
  BY <1>2, <1>5, WriteTyped DEF Base

\* The view after a write.
LEMMA WriteSeen ==
  ASSUME Base, NEW e \in Events, Write(e)
  PROVE  View' = Fold(View, At(Len(log) + 1, e)) /\ View \in Records
<1>1. Written(e)
  BY DEF Write, Written
<1>2. Len(log) + 1 \in 1 .. MaxEvents /\ RecordsOf(snap)' = RecordsOf(snap)
  BY <1>1, WrittenFacts DEF Written
<1>3. RecordsOf(snap) \in Records /\ View \in Records /\ overlay \in Records
  BY ViewRecords DEF Base, Typed
<1>4. EventsOk(At(Len(log) + 1, e))
  BY <1>2, OneEvent
<1>5. View' = Over(Laid(RecordsOf(snap), overlay, At(Len(log) + 1, e)), RecordsOf(snap))
  BY <1>2 DEF View, Write
<1> QED
  BY <1>3, <1>4, <1>5, LaidIs DEF View

\* The view follows the log through a write.
LEMMA WriteView ==
  ASSUME Base, Sound, NEW e \in Events, Write(e)
  PROVE  ViewInv'
<1>1. Written(e)
  BY DEF Write, Written
<1>2. /\ LogOk(log) /\ LogOk(log') /\ Len(log) \in Nat /\ Len(log') = Len(log) + 1
      /\ log'[Len(log) + 1] = e
      /\ \A n \in 1 .. Len(log) : log'[n] = log[n]
      /\ Live' = Live /\ Gone(snap)' = Gone(snap)
  BY <1>1, WrittenFacts DEF Written
<1> SUFFICES ASSUME Live PROVE ViewInv'
  BY <1>2 DEF ViewInv
<1>3. Ids(unheard)' = Ids(unheard)
  <2>1. unheard' = unheard /\ unheard \subseteq 1 .. Len(log)
    BY DEF Write, Base, Typed
  <2> QED
    BY <1>2, <2>1 DEF Ids
<1>4. Follows(View', log', Len(log'), Gone(snap), Ids(unheard))
  <2>1. Follows(View, log, Len(log), Gone(snap), Ids(unheard))
    BY DEF Sound, ViewInv
  <2>2. Follows(View, log', Len(log), Gone(snap), Ids(unheard))
    <3>1. Len(log) <= Len(log) /\ Len(log) <= Len(log')
      BY <1>2
    <3>2. \A n \in 1 .. Len(log) : log[n] = log'[n]
      BY <1>2
    <3> QED
      BY <1>2, <2>1, <3>1, <3>2, FollowsPrefix
  <2> DEFINE new == At(Len(log) + 1, e)
  <2>3. DOMAIN new = {Len(log) + 1} /\ new = [n \in {Len(log) + 1} |-> e]
    BY DEF At
  <2>4. PartOf(new, log')
    <3>1. new = [n \in {Len(log) + 1} |-> log'[n]]
      BY <1>2, <2>3
    <3>2. {Len(log) + 1} \subseteq 1 .. Len(log')
      BY <1>2
    <3> QED
      BY <2>3, <3>1, <3>2 DEF PartOf
  <2> HIDE DEF new
  <2>5. \A n \in DOMAIN new : Len(log) < n /\ n <= Len(log')
    BY <1>2, <2>3
  <2>6. \A n \in 1 .. Len(log') : Len(log) < n /\ n <= Len(log') => n \in DOMAIN new
    BY <1>2, <2>3
  <2>7. View \in Records /\ View' = Fold(View, new)
    BY WriteSeen DEF new
  <2>8. Len(log) <= Len(log) /\ Len(log) <= Len(log') /\ Len(log') <= Len(log') /\ Len(log') \in Nat
    BY <1>2
  <2> QED
    BY <1>2, <2>2, <2>4, <2>5, <2>6, <2>7, <2>8, CatchUp
<1> QED
  BY <1>2, <1>3, <1>4 DEF ViewInv

\* A write while a version is made is among its late events.
LEMMA WriteJob ==
  ASSUME Base, Sound, NEW e \in Events, Write(e)
  PROVE  JobInv'
<1>1. Written(e)
  BY DEF Write, Written
<1>2. /\ Len(log) \in Nat /\ Len(log') = Len(log) + 1 /\ Live' = Live
  BY <1>1, WrittenFacts
<1>3. Typed /\ Bounds /\ JobInv
  BY DEF Base, Sound
<1> SUFFICES ASSUME job # Idle PROVE JobInv'
  BY DEF Write, JobInv
<1>4. job.end \in Nat /\ job.heard \in Nat /\ job.heard <= Len(log)
  BY <1>3 DEF Typed, Job, Bounds
<1>5. Building => /\ DOMAIN late' = DOMAIN late \cup {Len(log) + 1}
                  /\ \A n \in DOMAIN late : job.heard < n
                  /\ \A n \in 1 .. Len(log) : job.heard < n => n \in DOMAIN late \cup unheard
  BY <1>3 DEF Write, Kept, Building, Over, At, JobInv
<1>6. Building => /\ \A n \in DOMAIN late' : job.heard < n
                  /\ \A n \in 1 .. Len(log') : job.heard < n => n \in DOMAIN late' \cup unheard
  BY <1>2, <1>4, <1>5
<1> QED
  BY <1>2, <1>3, <1>6 DEF Write, JobInv, Building

LEMMA WriteSound ==
  ASSUME Base, Sound, NEW e \in Events, Write(e)
  PROVE  Sound'
<1>1. Written(e)
  BY DEF Write, Written
<1> QED
  BY <1>1, WrittenSound, WriteView, WriteJob DEF Sound

-----------------------------------------------------------------------------
\* An append fails after its line was written.

LEMMA WriteFailsBase ==
  ASSUME Base, NEW e \in Events, WriteFails(e)
  PROVE  Base'
<1>1. Written(e)
  BY DEF WriteFails, Written
<1>2. /\ LogOk(log) /\ LogOk(log') /\ Len(log) \in Nat /\ Len(log') = Len(log) + 1
      /\ \A n \in 1 .. Len(log) : log'[n] = log[n]
      /\ Bounds'
  BY <1>1, WrittenFacts DEF Written
<1>3. Typed
  BY DEF Base
<1>4. Typed'
  <2>1. PartOf(late, log')
    <3>1. DOMAIN late \subseteq 1 .. Len(log) /\ late = [n \in DOMAIN late |-> log[n]]
      BY <1>3 DEF Typed, PartOf
    <3> QED
      BY <1>2, <3>1 DEF PartOf
  <2>2. unheard' \in SUBSET (1 .. Len(log')) /\ synced' \in 0 .. Len(log')
    BY <1>2, <1>3 DEF WriteFails, Typed
  <2> QED
    BY <1>2, <1>3, <2>1, <2>2 DEF Typed, WriteFails
<1>5. CountInv'
  BY DEF WriteFails, CountInv
<1> QED
  BY <1>2, <1>4, <1>5 DEF Base

\* The view knows what it has not heard of.
LEMMA WriteFailsSound ==
  ASSUME Base, Sound, NEW e \in Events, WriteFails(e)
  PROVE  Sound'
<1>1. Written(e)
  BY DEF WriteFails, Written
<1>2. /\ LogOk(log) /\ LogOk(log') /\ Len(log) \in Nat /\ Len(log') = Len(log) + 1
      /\ log'[Len(log) + 1] = e
      /\ \A n \in 1 .. Len(log) : log'[n] = log[n]
      /\ Live' = Live /\ RecordsOf(snap)' = RecordsOf(snap) /\ Gone(snap)' = Gone(snap)
  BY <1>1, WrittenFacts DEF Written
<1>3. Typed /\ Bounds /\ ViewInv /\ JobInv
  BY DEF Base, Sound
<1>4. View' = View
  BY <1>2 DEF View, WriteFails
<1>5. ViewInv'
  <2> SUFFICES ASSUME Live PROVE ViewInv'
    BY <1>2 DEF ViewInv
  <2>1. Ids(unheard)' = Ids(unheard) \cup {e.id}
    <3>1. unheard' = unheard \cup {Len(log) + 1} /\ unheard \subseteq 1 .. Len(log)
      BY <1>3 DEF WriteFails, Typed
    <3> QED
      BY <1>2, <3>1 DEF Ids
  <2> DEFINE unknown == Ids(unheard) \cup {e.id}
  <2>2. Follows(View, log, Len(log), Gone(snap), unknown)
    BY <1>3, FollowsLess DEF ViewInv
  <2>3. \A i : i \notin unknown => \A op :
           Logged(log', Len(log'), i, op) <=> Logged(log, Len(log), i, op)
    <3>1. ASSUME NEW i, i \notin unknown, NEW op, NEW n \in 1 .. Len(log'),
                 log'[n].id = i, log'[n].op = op
          PROVE  n \in 1 .. Len(log) /\ n <= Len(log) /\ log[n].id = i /\ log[n].op = op
      BY <1>2, <3>1
    <3>2. ASSUME NEW i, NEW op, NEW n \in 1 .. Len(log), log[n].id = i, log[n].op = op
          PROVE  n \in 1 .. Len(log') /\ n <= Len(log') /\ log'[n].id = i /\ log'[n].op = op
      BY <1>2, <3>2
    <3> HIDE DEF unknown
    <3> QED
      BY <3>1, <3>2 DEF Logged
  <2>4. Follows(View, log', Len(log'), Gone(snap), unknown)
    <3> HIDE DEF unknown
    <3> QED
      BY <2>2, <2>3 DEF Follows
  <2> QED
    BY <1>2, <1>4, <2>1, <2>4 DEF ViewInv
<1>6. JobInv'
  <2> SUFFICES ASSUME job # Idle PROVE JobInv'
    BY DEF WriteFails, JobInv
  <2>1. job.heard \in Nat /\ job.heard <= Len(log)
    BY <1>3 DEF Typed, Job, Bounds
  <2>2. Building =>
          \A n \in 1 .. Len(log') : job.heard < n => n \in DOMAIN late \cup unheard'
    <3>1. unheard' = unheard \cup {Len(log) + 1}
      BY DEF WriteFails
    <3> QED
      BY <1>2, <1>3, <2>1, <3>1 DEF JobInv
  <2> QED
    BY <1>2, <1>3, <2>2 DEF WriteFails, JobInv, Building
<1> QED
  BY <1>1, <1>5, <1>6, WrittenSound DEF Sound

-----------------------------------------------------------------------------
\* The manifest and the first steps of create_snapshot.

LEMMA SaveManifestBase ==
  ASSUME Base, SaveManifest
  PROVE  Base'
<1> USE DEF SaveManifest, memory
<1>1. Typed /\ Bounds /\ CountInv
  BY DEF Base
<1>2. Typed'
  BY <1>1 DEF Typed, File
<1>3. Bounds'
  BY <1>1 DEF Bounds, Building, Complete
<1>4. CountInv'
  BY <1>1, CountSame
<1> QED
  BY <1>2, <1>3, <1>4 DEF Base

LEMMA SaveManifestSound ==
  ASSUME Base, Sound, SaveManifest, ~ spoilt'
  PROVE  Sound'
<1> USE DEF SaveManifest, memory
<1>1. DiskInv /\ FileInv /\ LiveInv /\ ViewInv /\ JobInv
  BY DEF Sound
<1>2. Live
  BY DEF Live, Base, Typed
<1>3. DiskInv' /\ LiveInv' /\ ViewInv'
  BY <1>1, DiskSame, LiveSame, ViewInvSame
<1>4. FileInv'
  <2>1. file'.state = "good" /\ file'.man = man /\ ManifestOk(man)
    BY <1>1, <1>2 DEF LiveInv
  <2> QED
    BY <2>1 DEF FileInv, ManifestOk, Unpruned
<1>5. JobInv'
  BY <1>1 DEF JobInv, Live, Building
<1> QED
  BY <1>3, <1>4, <1>5 DEF Sound

\* What Begin does.
LEMMA BeginFacts ==
  ASSUME Base, Begin
  PROVE  /\ UNCHANGED <<log, pruned, synced, versions, up, snap, overlay, count, readonly, halfway,
                        late, unheard, slipped>>
         /\ job = Idle /\ job'.stage = "sync" /\ job'.version = man.next /\ job'.end = Len(log)
         /\ job'.heard = 0 /\ job' \in Job /\ man.next \in 1 .. MaxVersions
         /\ man' \in Manifest /\ man'.active = man.active /\ man'.folded = man.folded
         /\ man'.next = man.next + 1 /\ file' = [state |-> "good", man |-> man']
<1>1. /\ UNCHANGED <<log, pruned, synced, versions, up, snap, overlay, count, readonly, halfway,
                     late, unheard, slipped>>
      /\ job = Idle /\ man.next <= MaxVersions
      /\ job' = [stage |-> "sync", version |-> man.next, old |-> man.active,
                 end |-> Len(log), drop |-> [i \in GcIds |-> View[i]], heard |-> 0]
      /\ man' = [man EXCEPT !.next = @ + 1]
      /\ file' = [state |-> "good", man |-> man']
  BY DEF Begin
<1>2. man \in Manifest /\ Len(log) \in Nat
  BY LogRange DEF Base, Typed
<1>3. /\ man' \in Manifest /\ man'.active = man.active /\ man'.folded = man.folded
      /\ man'.next = man.next + 1
  BY <1>1, <1>2 DEF Manifest
<1>4. /\ man.next \in 1 .. MaxVersions /\ man.next \in 0 .. MaxVersions
      /\ man.active \in 0 .. MaxVersions
  BY <1>1, <1>2, StoreAssumption DEF Manifest
<1>5. [i \in GcIds |-> View[i]] \in Deads
  <2>1. View \in Records
    BY ViewRecords DEF Base
  <2>2. DOMAIN View \subseteq Id /\ View \in [DOMAIN View -> Record]
    BY <2>1, RecordsAre
  <2>3. \A i \in GcIds : i \in DOMAIN View /\ View[i].dead /\ ~ View[i].pinned
    BY DEF GcIds
  <2> DEFINE drop == [i \in GcIds |-> View[i]]
  <2>4. DOMAIN drop = GcIds /\ \A i \in GcIds : drop[i] = View[i]
    OBVIOUS
  <2>5. drop \in [GcIds -> Record] /\ GcIds \subseteq Id
    BY <2>2, <2>3
  <2> HIDE DEF drop
  <2>6. drop \in Records
    BY <2>4, <2>5, RecordsAre
  <2> QED
    BY <2>3, <2>4, <2>6 DEF Deads, drop
<1>6. job' \in Job
  BY <1>1, <1>2, <1>4, <1>5 DEF Job
<1> QED
  BY <1>1, <1>3, <1>4, <1>6

LEMMA BeginBase ==
  ASSUME Base, Begin
  PROVE  Base'
<1>1. Typed /\ Bounds /\ CountInv /\ spoilt' \in BOOLEAN
  BY DEF Base, Begin, Typed
<1>2. /\ UNCHANGED <<log, pruned, synced, versions, up, snap, overlay, count, readonly, halfway,
                     late, unheard, slipped>>
      /\ job = Idle /\ job'.stage = "sync" /\ job'.version = man.next /\ job'.end = Len(log)
      /\ job'.heard = 0 /\ job' \in Job /\ man.next \in 1 .. MaxVersions
      /\ man' \in Manifest /\ man'.folded = man.folded /\ file' = [state |-> "good", man |-> man']
  BY BeginFacts
<1>3. Typed'
  BY <1>1, <1>2 DEF Typed, File
<1>4. Bounds'
  <2>1. Len(log) \in Nat /\ synced \in 0 .. Len(log) /\ man.folded \in Nat
    BY <1>1, LogRange DEF Typed, Manifest
  <2>2. \A v \in DOMAIN versions : versions[v].folded \in Nat
    BY <1>1 DEF Typed, Version
  <2>3. /\ man.folded <= Len(log) /\ Len(log) <= Len(log) /\ 0 <= Len(log)
        /\ \A v \in DOMAIN versions : versions[v].folded <= Len(log)
    BY <1>1, <2>1, <2>2 DEF Bounds
  <2>4. ~ Building'
    BY <1>2 DEF Building
  <2> QED
    BY <1>1, <1>2, <2>3, <2>4 DEF Bounds
<1>5. CountInv'
  BY <1>1, <1>2 DEF CountInv, Live, Between, Size
<1> QED
  BY <1>3, <1>4, <1>5 DEF Base

\* The name that is taken is free, and the next one too.
LEMMA BeginSound ==
  ASSUME Base, Sound, Begin, ~ spoilt'
  PROVE  Sound'
<1>1. Typed /\ DiskInv /\ LiveInv /\ ViewInv
  BY DEF Base, Sound
<1>2. /\ UNCHANGED <<log, pruned, synced, versions, up, snap, overlay, count, readonly, halfway,
                     late, unheard, slipped>>
      /\ job'.stage = "sync" /\ job'.version = man.next
      /\ man.next \in 1 .. MaxVersions /\ man'.active = man.active /\ man'.folded = man.folded
      /\ man'.next = man.next + 1 /\ file' = [state |-> "good", man |-> man']
  BY BeginFacts
<1>3. Live
  BY DEF Begin, Live, Base, Typed
<1>4. DiskInv' /\ ViewInv'
  BY <1>1, <1>2, DiskSame, ViewInvSame
<1>5. /\ ManifestOk(man) /\ man.active \in Complete \cup {0} /\ snap \in Valid \cup {0}
      /\ man.folded <= FoldedOf(snap)
  BY <1>1, <1>3 DEF LiveInv
<1>6. /\ man.active \in Nat /\ snap \in Nat /\ man.next \in Nat \ {0}
      /\ DOMAIN versions \subseteq Nat
      /\ man.active < man.next /\ \A v \in DOMAIN versions : v < man.next
      /\ snap \in DOMAIN versions \cup {0}
  BY <1>1, <1>5, StoreAssumption DEF Typed, Manifest, ManifestOk, Valid, Complete
<1>7. ManifestOk(man)'
  <2>1. man.active < man.next + 1 /\ \A v \in DOMAIN versions : v < man.next + 1
    BY <1>6
  <2> QED
    BY <1>2, <1>5, <2>1 DEF ManifestOk, Unpruned
<1>8. LiveInv'
  BY <1>2, <1>5, <1>7 DEF LiveInv, Live, Complete, Valid, FoldedOf
<1>9. FileInv'
  <2>1. file'.state = "good" /\ file'.man = man'
    BY <1>2
  <2> QED
    BY <1>7, <2>1 DEF FileInv, ManifestOk, Unpruned
<1>10. JobInv'
  <2>1. /\ man.active < man.next /\ snap < man.next /\ man.next \notin DOMAIN versions
        /\ man.next < man.next + 1 /\ \A v \in DOMAIN versions : v < man.next
    BY <1>6
  <2>2. Live' /\ ~ Building'
    BY <1>2, <1>3 DEF Live, Building
  <2> QED
    BY <1>2, <2>1, <2>2 DEF JobInv
<1> QED
  BY <1>4, <1>8, <1>9, <1>10 DEF Sound

\* A set of numbers with a bound has a greatest one.
LEMMA MaxIs ==
  ASSUME NEW S \in SUBSET Nat, S # {}, NEW b \in Nat, \A x \in S : x <= b
  PROVE  Max(S) \in S /\ \A x \in S : x <= Max(S)
<1> DEFINE above == {n \in Nat : \A x \in S : x <= n}
<1>1. above \in SUBSET Nat /\ b \in above
  OBVIOUS
<1>2. PICK n \in above : \A m \in above : n <= m
  BY <1>1, Least
<1>3. n \in S
  <2> SUFFICES ASSUME n \notin S PROVE FALSE
    OBVIOUS
  <2>1. \A x \in S : x <= n /\ x # n
    BY <1>2
  <2>2. n # 0
    <3>1. PICK x \in S : TRUE
      OBVIOUS
    <3> QED
      BY <2>1, <3>1
  <2>3. n - 1 \in above
    BY <1>2, <2>1, <2>2
  <2> QED
    BY <1>2, <2>3
<1>4. \A x \in S : n >= x
  BY <1>2
<1>5. Max(S) \in S /\ \A x \in S : Max(S) >= x
  BY <1>3, <1>4 DEF Max
<1> QED
  BY <1>5

\* The least member of a set of numbers is in it.
LEMMA MinIs ==
  ASSUME NEW S \in SUBSET Nat, S # {}
  PROVE  Min(S) \in S /\ \A x \in S : Min(S) <= x
<1>1. PICK n \in S : \A x \in S : n <= x
  BY Least
<1> QED
  BY <1>1 DEF Min

\* What Sync does.
LEMMA SyncFacts ==
  ASSUME Base, Sync
  PROVE  /\ UNCHANGED <<log, pruned, versions, file, spoilt, up, man, snap, overlay, count,
                        readonly, halfway, unheard, slipped>>
         /\ job # Idle /\ late' = NoEvents /\ Len(log) \in Nat
         /\ job.stage = "sync" /\ job' \in Job /\ job'.stage = "build"
         /\ job'.version = job.version /\ job'.end = job.end /\ job'.heard = Len(log)
         /\ job' # Idle
         /\ synced <= synced' /\ job.end <= synced' /\ synced' \in 0 .. Len(log)
<1>1. /\ UNCHANGED <<log, pruned, versions, file, spoilt, up, man, snap, overlay, count,
                     readonly, halfway, unheard, slipped>>
      /\ job.stage = "sync" /\ late' = NoEvents
      /\ job' = [job EXCEPT !.stage = "build", !.heard = Len(log)]
  BY DEF Sync
<1>2. /\ LogOk(log) /\ Len(log) \in Nat /\ synced \in 0 .. Len(log) /\ DOMAIN log = 1 .. Len(log)
      /\ job \in Job /\ job.end \in Nat
  BY LogRange DEF Base, Typed, Job
<1>3. job # Idle /\ job.end <= Len(log)
  BY <1>1 DEF Idle, Base, Bounds
<1>4. synced <= synced' /\ job.end <= synced' /\ synced' \in 0 .. Len(log)
  <2> DEFINE files == {n \in DOMAIN log : log[n].month <= log[job.end].month}
             S == {synced} \cup files
  <2>1. S \in SUBSET Nat /\ S # {} /\ \A x \in S : x <= Len(log)
    BY <1>2
  <2>2. synced' = Max(S)
    BY DEF Sync
  <2> HIDE DEF files
  <2>3. synced' \in S /\ \A x \in S : x <= synced'
    BY <1>2, <2>1, <2>2, MaxIs
  <2>4. job.end = 0 \/ job.end \in files
    <3>1. ASSUME job.end # 0 PROVE job.end \in files
      <4>1. job.end \in 1 .. Len(log)
        BY <1>2, <1>3, <3>1
      <4>2. job.end <= job.end
        BY <1>2
      <4>3. log[job.end].month <= log[job.end].month
        BY <1>2, <4>1, <4>2 DEF LogOk
      <4> QED
        BY <1>2, <4>1, <4>3 DEF files
    <3> QED
      BY <3>1
  <2> QED
    BY <1>2, <2>1, <2>3, <2>4
<1>5. /\ job' \in Job /\ job'.stage = "build" /\ job'.version = job.version
      /\ job'.end = job.end /\ job'.heard = Len(log) /\ job' # Idle
  BY <1>1, <1>2 DEF Job, Idle
<1> QED
  BY <1>1, <1>2, <1>3, <1>4, <1>5

\* No job.
LEMMA IdleJob == Idle \in Job /\ Idle.stage = "idle"
<1>1. DOMAIN NoRecords = {} /\ NoRecords \in Records
  BY NothingRecorded
<1>2. NoRecords \in Deads
  BY <1>1 DEF Deads
<1> QED
  BY <1>2, StoreAssumption DEF Idle, Job

LEMMA NoEventsPart ==
  ASSUME NEW l
  PROVE  PartOf(NoEvents, l)
BY DEF PartOf, NoEvents

LEMMA SyncBase ==
  ASSUME Base, Sync
  PROVE  Base'
<1>1. Typed /\ Bounds /\ CountInv
  BY DEF Base
<1>2. /\ UNCHANGED <<log, pruned, versions, file, spoilt, up, man, snap, overlay, count,
                     readonly, halfway, unheard, slipped>>
      /\ job # Idle /\ late' = NoEvents /\ Len(log) \in Nat
      /\ job' \in Job /\ job'.stage = "build"
      /\ job'.version = job.version /\ job'.end = job.end /\ job'.heard = Len(log)
      /\ synced <= synced' /\ job.end <= synced' /\ synced' \in 0 .. Len(log)
  BY SyncFacts
<1>3. Typed'
  BY <1>1, <1>2, NoEventsPart DEF Typed
<1>4. Bounds'
  <2>1. synced \in Nat /\ synced' \in Nat /\ \A n \in 1 .. synced : n \in 1 .. synced'
    BY <1>1, <1>2 DEF Typed
  <2>2. \A p \in Nat : p <= synced => p <= synced'
    BY <1>2, <2>1
  <2>3. /\ file.man.folded \in Nat /\ man.folded \in Nat
        /\ \A v \in DOMAIN versions : versions[v].folded \in Nat
    BY <1>1 DEF Typed, File, Manifest, Version
  <2>4. Len(log) <= Len(log)
    BY <1>2
  <2> QED
    BY <1>1, <1>2, <2>1, <2>2, <2>3, <2>4 DEF Bounds
<1>5. CountInv'
  BY <1>1, <1>2, CountSame
<1> QED
  BY <1>3, <1>4, <1>5 DEF Base

\* From here on all events are heard of.
LEMMA SyncSound ==
  ASSUME Base, Sound, Sync
  PROVE  Sound'
<1>1. DiskInv /\ FileInv /\ LiveInv /\ ViewInv /\ JobInv
  BY DEF Sound
<1>2. /\ UNCHANGED <<log, pruned, versions, file, spoilt, up, man, snap, overlay, count,
                     readonly, halfway, unheard, slipped>>
      /\ job # Idle /\ late' = NoEvents /\ Len(log) \in Nat /\ job.stage = "sync"
      /\ job'.stage = "build" /\ job'.version = job.version /\ job'.end = job.end
      /\ job'.heard = Len(log) /\ job' # Idle
  BY SyncFacts
<1>3. DiskInv' /\ LiveInv' /\ ViewInv'
  BY <1>1, <1>2, DiskSame, LiveSame, ViewInvSame
<1>4. FileInv'
  BY <1>1, <1>2 DEF FileInv, ManifestOk, Unpruned
<1>5. JobInv'
  <2>1. DOMAIN late' = {}
    BY <1>2 DEF NoEvents
  <2>2. job.end <= Len(log) /\ \A n \in 1 .. Len(log) : ~ (Len(log) < n)
    BY <1>2 DEF Base, Bounds
  <2> QED
    BY <1>1, <1>2, <2>1, <2>2 DEF JobInv, Live
<1> QED
  BY <1>3, <1>4, <1>5 DEF Sound

-----------------------------------------------------------------------------
\* The version is built and completed.

\* The reader can read v, or there is no v.
Readable(v) == v \in DOMAIN versions => versions[v].files = "whole"

\* Any version, and no version, follows the log to its position.
LEMMA VersionFollows ==
  ASSUME Typed, DiskInv, NEW v, Readable(v)
  PROVE  Follows(RecordsOf(v), log, FoldedOf(v), Gone(v), {})
<1>1. CASE v \in DOMAIN versions
  BY <1>1 DEF DiskInv, RecordsOf, FoldedOf, Readable
<1>2. CASE v \notin DOMAIN versions
  <2>1. Len(log) \in Nat
    BY LogRange DEF Typed
  <2>2. \A i, op : ~ Logged(log, 0, i, op)
    BY <2>1 DEF Logged
  <2>3. DOMAIN NoRecords = {}
    BY NothingRecorded
  <2> QED
    BY <1>2, <2>2, <2>3 DEF Follows, RecordsOf, FoldedOf
<1> QED
  BY <1>1, <1>2

\* The events after a manifest's position bring a version up to date.
LEMMA CatchUpBetween ==
  ASSUME Typed, Bounds, DiskInv, NEW v, Readable(v), NEW p \in Nat, NEW q \in Nat,
         p <= FoldedOf(v), FoldedOf(v) <= q, q <= Len(log), Unpruned(p)
  PROVE  Follows(Fold(RecordsOf(v), Between(p, q)), log, q, Gone(v), {})
<1>1. LogOk(log)
  BY DEF Typed
<1> DEFINE events == Between(p, q)
<1>2. /\ PartOf(events, log)
      /\ DOMAIN events = {n \in 1 .. Len(log) : p < n /\ n <= q /\ log[n].month \notin pruned}
  BY <1>1, BetweenIsPart
<1> HIDE DEF events
<1>3. DOMAIN events = {n \in 1 .. Len(log) : p < n /\ n <= q}
  BY <1>2 DEF Unpruned
<1>4. Follows(Fold(RecordsOf(v), events), log, q, Gone(v), {})
  <2>1. RecordsOf(v) \in Records /\ FoldedOf(v) \in Nat
    BY ViewRecords, FoldedBound
  <2>2. Follows(RecordsOf(v), log, FoldedOf(v), Gone(v), {})
    BY VersionFollows
  <2>3. \A n \in DOMAIN events : p < n /\ n <= q
    BY <1>3
  <2>4. \A n \in 1 .. Len(log) : p < n /\ n <= q => n \in DOMAIN events \/ log[n].id \in {}
    BY <1>3
  <2> QED
    BY <1>1, <1>2, <2>1, <2>2, <2>3, <2>4, CatchUp
<1> QED
  BY <1>4 DEF events

\* The fold of a part of the log is records.
LEMMA FoldRecords ==
  ASSUME Typed, NEW v, NEW p \in Nat, NEW q \in Nat, q <= Len(log)
  PROVE  Fold(RecordsOf(v), Between(p, q)) \in Records
<1>1. EventsOk(Between(p, q))
  BY BetweenIsPart, PartEvents DEF Typed
<1>2. RecordsOf(v) \in Records
  BY ViewRecords
<1> QED
  BY <1>1, <1>2, FoldResult DEF Result

\* What is left out of a version was dead.
LEMMA OutDeads ==
  ASSUME Typed, NEW v
  PROVE  LeftOut(v) \in Deads
<1>1. NoRecords \in Deads
  BY NothingRecorded DEF Deads
<1> QED
  BY <1>1 DEF Typed, Version, LeftOut

LEMMA OverDeads ==
  ASSUME NEW f \in Deads, NEW g \in Deads
  PROVE  Over(f, g) \in Deads /\ DOMAIN Over(f, g) = DOMAIN f \cup DOMAIN g
<1>1. /\ Over(f, g) \in Records
      /\ DOMAIN Over(f, g) = DOMAIN f \cup DOMAIN g
      /\ \A i \in DOMAIN f : Over(f, g)[i] = f[i]
      /\ \A i \in DOMAIN g \ DOMAIN f : Over(f, g)[i] = g[i]
  BY OverRecords DEF Deads
<1> QED
  BY <1>1 DEF Deads

\* What Build does.
LEMMA BuildFacts ==
  ASSUME Base, Build
  PROVE  LET jv == job.version
         IN  /\ UNCHANGED <<log, pruned, synced, file, spoilt, up, man, snap, overlay, count,
                            readonly, halfway, late, unheard, slipped>>
             /\ job # Idle /\ job.stage = "build" /\ jv \in 1 .. MaxVersions
             /\ job.end \in Nat /\ job.end <= Len(log)
             /\ job' \in Job /\ job'.stage = "complete" /\ job'.version = jv
             /\ job'.end = job.end /\ job'.heard = job.heard /\ job' # Idle
             /\ DOMAIN versions' = DOMAIN versions \cup {jv}
             /\ versions' \in [DOMAIN versions' -> Version]
             /\ \A v \in DOMAIN versions \ {jv} : versions'[v] = versions[v]
             /\ versions'[jv].recs = Without(Folded, DOMAIN job.drop)
             /\ DOMAIN versions'[jv].out = DOMAIN job.drop \cup Gone(snap)
             /\ versions'[jv].folded = job.end /\ versions'[jv].complete = FALSE
             /\ versions'[jv].files = "whole"
             /\ Folded \in Records
<1> DEFINE jv == job.version
           new == [recs |-> Without(Folded, DOMAIN job.drop), out |-> Over(job.drop, LeftOut(snap)),
                   folded |-> job.end, complete |-> FALSE, files |-> "whole"]
<1>1. /\ UNCHANGED <<log, pruned, synced, file, spoilt, up, man, snap, overlay, count,
                     readonly, halfway, late, unheard, slipped>>
      /\ job.stage = "build" /\ job' = [job EXCEPT !.stage = "complete"]
      /\ versions' = Over(At(jv, new), versions)
  BY DEF Build
<1>2. /\ Typed /\ Bounds /\ job \in Job /\ job.drop \in Deads /\ job.end \in Nat
      /\ versions \in [DOMAIN versions -> Version] /\ man.folded \in Nat
  BY DEF Base, Typed, Job, Manifest
<1>3. job # Idle /\ jv \in 1 .. MaxVersions /\ job.end <= Len(log)
  BY <1>1, <1>2 DEF Idle, Bounds
<1>4. Folded \in Records
  BY <1>2, <1>3, FoldRecords DEF Folded
<1>5. Without(Folded, DOMAIN job.drop) \in Records
  BY <1>4, WithoutRecords
<1>6. /\ Over(job.drop, LeftOut(snap)) \in Deads
      /\ DOMAIN Over(job.drop, LeftOut(snap)) = DOMAIN job.drop \cup Gone(snap)
  BY <1>2, OutDeads, OverDeads DEF Gone
<1>7. /\ new \in Version /\ new.recs = Without(Folded, DOMAIN job.drop) /\ new.folded = job.end
      /\ new.complete = FALSE /\ new.files = "whole"
      /\ DOMAIN new.out = DOMAIN job.drop \cup Gone(snap)
  BY <1>2, <1>5, <1>6 DEF Version
<1> HIDE DEF new
<1>8. /\ DOMAIN versions' = DOMAIN versions \cup {jv}
      /\ versions'[jv] = new /\ \A v \in DOMAIN versions \ {jv} : versions'[v] = versions[v]
      /\ versions' \in [DOMAIN versions' -> Version]
  <2>1. DOMAIN At(jv, new) = {jv} /\ At(jv, new)[jv] = new
    BY DEF At
  <2>2. versions' = [v \in {jv} \cup DOMAIN versions |->
                       IF v \in {jv} THEN At(jv, new)[v] ELSE versions[v]]
    BY <1>1, <2>1 DEF Over
  <2> HIDE DEF jv
  <2>3. \A v \in DOMAIN versions : versions[v] \in Version
    BY <1>2
  <2> QED
    BY <1>7, <2>1, <2>2, <2>3
<1>9. /\ job' \in Job /\ job'.stage = "complete" /\ job'.version = jv /\ job'.end = job.end
      /\ job'.heard = job.heard /\ job' # Idle
  BY <1>1, <1>2 DEF Job, Idle
<1> QED
  BY <1>1, <1>2, <1>3, <1>4, <1>7, <1>8, <1>9

LEMMA BuildBase ==
  ASSUME Base, Build
  PROVE  Base'
<1> DEFINE jv == job.version
<1>1. Typed /\ Bounds /\ CountInv
  BY DEF Base
<1>2. /\ UNCHANGED <<log, pruned, synced, file, spoilt, up, man, snap, overlay, count,
                     readonly, halfway, late, unheard, slipped>>
      /\ job # Idle /\ job.stage = "build" /\ jv \in 1 .. MaxVersions
      /\ job.end \in Nat /\ job.end <= Len(log)
      /\ job' \in Job /\ job'.stage = "complete" /\ job'.version = jv
      /\ job'.end = job.end /\ job'.heard = job.heard /\ job' # Idle
      /\ DOMAIN versions' = DOMAIN versions \cup {jv}
      /\ versions' \in [DOMAIN versions' -> Version]
      /\ \A v \in DOMAIN versions \ {jv} : versions'[v] = versions[v]
      /\ versions'[jv].folded = job.end
  BY BuildFacts
<1> HIDE DEF jv
<1>3. Typed'
  <2>1. DOMAIN versions' \subseteq 1 .. MaxVersions
    BY <1>1, <1>2 DEF Typed
  <2> QED
    BY <1>1, <1>2, <2>1 DEF Typed
<1>4. Bounds'
  <2>1. job.end <= synced /\ job.end <= job.end
    BY <1>1, <1>2 DEF Bounds, Building
  <2>2. \A v \in DOMAIN versions' : versions'[v].folded <= synced /\ versions'[v].folded <= job.end
    BY <1>1, <1>2, <2>1 DEF Bounds
  <2> QED
    BY <1>1, <1>2, <2>1, <2>2 DEF Bounds
<1>5. CountInv'
  BY <1>1, <1>2, CountSame
<1> QED
  BY <1>3, <1>4, <1>5 DEF Base

\* The new version follows the log to its position.
LEMMA BuildSound ==
  ASSUME Base, Sound, Build
  PROVE  Sound'
<1> DEFINE jv == job.version
<1>1. Typed /\ Bounds /\ DiskInv /\ FileInv /\ LiveInv /\ ViewInv /\ JobInv
  BY DEF Base, Sound
<1>2. /\ UNCHANGED <<log, pruned, synced, file, spoilt, up, man, snap, overlay, count,
                     readonly, halfway, late, unheard, slipped>>
      /\ job # Idle /\ job.stage = "build" /\ jv \in 1 .. MaxVersions
      /\ job.end \in Nat /\ job.end <= Len(log)
      /\ job' \in Job /\ job'.stage = "complete" /\ job'.version = jv
      /\ job'.end = job.end /\ job'.heard = job.heard /\ job' # Idle
      /\ DOMAIN versions' = DOMAIN versions \cup {jv}
      /\ \A v \in DOMAIN versions \ {jv} : versions'[v] = versions[v]
      /\ versions'[jv].recs = Without(Folded, DOMAIN job.drop)
      /\ DOMAIN versions'[jv].out = DOMAIN job.drop \cup Gone(snap)
      /\ versions'[jv].folded = job.end /\ versions'[jv].complete = FALSE
      /\ versions'[jv].files = "whole"
      /\ Folded \in Records
  BY BuildFacts
<1>3. /\ Live /\ Building /\ jv \notin DOMAIN versions
      /\ snap < jv /\ man.active < jv /\ jv < man.next
      /\ man.folded <= job.end
      /\ file = [state |-> "good", man |-> man]
      /\ \A v \in DOMAIN versions : v < jv /\ versions[v].folded <= job.end
  BY <1>1, <1>2 DEF JobInv, Bounds, Building
<1>4. /\ ManifestOk(man) /\ man.active \in Complete \cup {0} /\ snap \in Valid \cup {0}
      /\ man.folded <= FoldedOf(snap) /\ man.folded \in Nat
  BY <1>1, <1>3 DEF LiveInv, Typed, Manifest
<1>5. /\ snap \in Nat /\ man.active \in Nat /\ jv \in Nat /\ DOMAIN versions \subseteq Nat
      /\ snap # jv /\ man.active # jv
  <2>1. /\ snap \in 0 .. MaxVersions /\ man.active \in 0 .. MaxVersions /\ MaxVersions \in Nat
        /\ DOMAIN versions \subseteq 1 .. MaxVersions
    BY <1>1, StoreAssumption DEF Typed, Manifest
  <2> HIDE DEF jv
  <2> QED
    BY <1>2, <1>3, <2>1
<1>6. Follows(Folded, log, job.end, Gone(snap), {})
  <2>1. FoldedOf(snap) <= job.end
    BY <1>2, <1>3, <1>4 DEF FoldedOf
  <2>2. Unpruned(man.folded) /\ Readable(snap)
    BY <1>1, <1>4 DEF ManifestOk, Readable, Valid, Typed
  <2> QED
    BY <1>1, <1>2, <1>3, <1>4, <2>1, <2>2, CatchUpBetween DEF Folded
<1> HIDE DEF jv
<1>7. Follows(versions'[jv].recs, log, job.end, DOMAIN versions'[jv].out, {})
  <2>1. /\ DOMAIN Without(Folded, DOMAIN job.drop) = DOMAIN Folded \ DOMAIN job.drop
        /\ \A i \in DOMAIN Folded \ DOMAIN job.drop :
             Without(Folded, DOMAIN job.drop)[i] = Folded[i]
    BY <1>2, WithoutRecords
  <2> QED
    BY <1>2, <1>6, <2>1 DEF Follows
<1>8. /\ Complete' = Complete /\ Valid' = Valid
      /\ \A v : v = jv => Gone(v)' = DOMAIN versions'[jv].out
      /\ \A v : v # jv => /\ RecordsOf(v)' = RecordsOf(v) /\ FoldedOf(v)' = FoldedOf(v)
                          /\ Gone(v)' = Gone(v)
  <2>1. /\ jv \in DOMAIN versions'
        /\ \A v : v # jv => (v \in DOMAIN versions' <=> v \in DOMAIN versions)
    BY <1>2, <1>3
  <2>2. \A v \in DOMAIN versions : versions'[v] = versions[v]
    BY <1>2, <1>3
  <2>3. Complete' = Complete
    BY <1>2, <1>3, <2>1, <2>2 DEF Complete
  <2>4. Valid' = Valid
    BY <2>2, <2>3 DEF Valid, Complete
  <2> QED
    BY <2>1, <2>2, <2>3, <2>4 DEF RecordsOf, FoldedOf, Gone, LeftOut
<1>9. DiskInv'
  <2>1. ASSUME NEW v \in DOMAIN versions'
        PROVE  /\ Follows(versions'[v].recs, log, versions'[v].folded, Gone(v)', {})
               /\ versions'[v].complete => Unpruned(versions'[v].folded)
    <3>1. CASE v = jv
      BY <1>2, <1>7, <1>8, <3>1
    <3>2. CASE v \in DOMAIN versions /\ v # jv
      BY <1>1, <1>2, <1>8, <3>2 DEF DiskInv
    <3> QED
      BY <1>2, <3>1, <3>2
  <2>2. ASSUME NEW v \in DOMAIN versions', NEW w \in DOMAIN versions', v <= w
        PROVE  versions'[v].folded <= versions'[w].folded
    <3>1. \A u \in DOMAIN versions : u < jv /\ u \in Nat /\ u # jv
      BY <1>3, <1>5
    <3>2. CASE v = jv /\ w \in DOMAIN versions
      BY <1>5, <2>2, <3>1, <3>2
    <3>3. CASE v = jv /\ w = jv
      BY <1>2, <3>3
    <3>4. CASE v \in DOMAIN versions /\ w = jv
      BY <1>2, <1>3, <3>1, <3>4
    <3>5. CASE v \in DOMAIN versions /\ w \in DOMAIN versions
      BY <1>1, <1>2, <2>2, <3>1, <3>5 DEF DiskInv
    <3> QED
      BY <1>2, <3>2, <3>3, <3>4, <3>5
  <2> QED
    BY <1>1, <1>2, <2>1, <2>2 DEF DiskInv, Unpruned
<1>10. ManifestOk(man)'
  <2>1. \A v \in DOMAIN versions' : v < man.next
    BY <1>2, <1>3, <1>4 DEF ManifestOk
  <2>2. man.active \in DOMAIN versions' => versions'[man.active].folded = man.folded
    BY <1>2, <1>4, <1>5 DEF ManifestOk
  <2> QED
    BY <1>2, <1>4, <2>1, <2>2 DEF ManifestOk, Unpruned
<1>11. FileInv' /\ LiveInv'
  <2>1. file'.state = "good" /\ file'.man = man'
    BY <1>2, <1>3
  <2>2. FileInv'
    BY <1>10, <2>1 DEF FileInv, ManifestOk, Unpruned
  <2>3. LiveInv'
    BY <1>2, <1>4, <1>5, <1>8, <1>10 DEF LiveInv
  <2> QED
    BY <2>2, <2>3
<1>12. ViewInv'
  <2>1. Ids(unheard)' = Ids(unheard) /\ Gone(snap)' = Gone(snap) /\ View' = View
    BY <1>2, <1>5, <1>8 DEF Ids, View
  <2> QED
    BY <1>1, <1>2, <1>3, <2>1 DEF ViewInv
<1>13. JobInv'
  <2>1. \A v \in DOMAIN versions' : v # jv => v < jv
    BY <1>2, <1>3
  <2>2. Live' /\ Building'
    BY <1>2, <1>3 DEF Live, Building
  <2>3. /\ job.end <= job.heard /\ \A n \in DOMAIN late : job.heard < n
        /\ \A n \in 1 .. Len(log) : job.heard < n => n \in DOMAIN late \cup unheard
    BY <1>1, <1>2, <1>3 DEF JobInv
  <2> QED
    BY <1>2, <1>3, <2>1, <2>2, <2>3 DEF JobInv
<1> QED
  BY <1>9, <1>11, <1>12, <1>13 DEF Sound

\* What WriteComplete does.
LEMMA CompleteFacts ==
  ASSUME Base, WriteComplete
  PROVE  /\ UNCHANGED <<log, pruned, synced, file, spoilt, up, man, snap, overlay, count, readonly,
                        halfway, late, unheard, slipped>>
         /\ job # Idle /\ job.stage = "complete"
         /\ job' \in Job /\ job'.stage = "swap" /\ job'.version = job.version
         /\ job'.end = job.end /\ job'.heard = job.heard /\ job' # Idle
         /\ DOMAIN versions' = DOMAIN versions /\ versions' \in [DOMAIN versions -> Version]
         /\ \A v \in DOMAIN versions :
              /\ versions'[v].recs = versions[v].recs /\ versions'[v].out = versions[v].out
              /\ versions'[v].folded = versions[v].folded /\ versions'[v].files = versions[v].files
              /\ versions'[v].complete <=> versions[v].complete \/ v = job.version
<1>1. /\ UNCHANGED <<log, pruned, synced, file, spoilt, up, man, snap, overlay, count, readonly,
                     halfway, late, unheard, slipped>>
      /\ job.stage = "complete" /\ job' = [job EXCEPT !.stage = "swap"]
      /\ versions' = [versions EXCEPT ![job.version].complete = TRUE]
  BY DEF WriteComplete
<1>2. versions \in [DOMAIN versions -> Version] /\ job \in Job
  BY DEF Base, Typed
<1>3. DOMAIN versions' = DOMAIN versions
  BY <1>1, <1>2
<1>4. ASSUME NEW v \in DOMAIN versions
      PROVE  /\ versions'[v] \in Version
             /\ versions'[v].recs = versions[v].recs /\ versions'[v].out = versions[v].out
             /\ versions'[v].folded = versions[v].folded /\ versions'[v].files = versions[v].files
             /\ versions'[v].complete <=> versions[v].complete \/ v = job.version
  <2>1. versions[v] \in Version
    BY <1>2
  <2>2. CASE v = job.version
    <3>1. versions'[v] = [versions[v] EXCEPT !.complete = TRUE]
      BY <1>1, <1>2, <2>2
    <3> QED
      BY <2>1, <2>2, <3>1 DEF Version
  <2>3. CASE v # job.version
    <3>1. versions'[v] = versions[v]
      BY <1>1, <1>2, <2>3
    <3> QED
      BY <2>1, <2>3, <3>1 DEF Version
  <2> QED
    BY <2>2, <2>3
<1>5. versions' \in [DOMAIN versions -> Version]
  <2>1. versions' = [v \in DOMAIN versions |-> versions'[v]]
    BY <1>1, <1>2
  <2> QED
    BY <1>4, <2>1
<1>6. /\ job' \in Job /\ job'.stage = "swap" /\ job'.version = job.version
      /\ job'.end = job.end /\ job'.heard = job.heard /\ job' # Idle /\ job # Idle
  BY <1>1, <1>2 DEF Job, Idle
<1> QED
  BY <1>1, <1>3, <1>4, <1>5, <1>6

LEMMA WriteCompleteBase ==
  ASSUME Base, WriteComplete
  PROVE  Base'
<1>1. Typed /\ Bounds /\ CountInv
  BY DEF Base
<1>2. /\ UNCHANGED <<log, pruned, synced, file, spoilt, up, man, snap, overlay, count, readonly,
                     halfway, late, unheard, slipped>>
      /\ job # Idle /\ job.stage = "complete"
      /\ job' \in Job /\ job'.stage = "swap" /\ job'.version = job.version
      /\ job'.end = job.end /\ job'.heard = job.heard /\ job' # Idle
      /\ DOMAIN versions' = DOMAIN versions /\ versions' \in [DOMAIN versions -> Version]
      /\ \A v \in DOMAIN versions :
           /\ versions'[v].folded = versions[v].folded
           /\ versions'[v].complete <=> versions[v].complete \/ v = job.version
  BY CompleteFacts
<1>3. Typed'
  BY <1>1, <1>2 DEF Typed
<1>4. Bounds'
  <2>1. job.version \in DOMAIN versions /\ job.end <= synced
    BY <1>1, <1>2 DEF Bounds, Building
  <2>2. job.version \in Complete'
    BY <1>2, <2>1 DEF Complete
  <2> QED
    BY <1>1, <1>2, <2>1, <2>2 DEF Bounds
<1>5. CountInv'
  BY <1>1, <1>2, CountSame
<1> QED
  BY <1>3, <1>4, <1>5 DEF Base

LEMMA WriteCompleteSound ==
  ASSUME Base, Sound, WriteComplete
  PROVE  Sound'
<1>1. Typed /\ Bounds /\ DiskInv /\ FileInv /\ LiveInv /\ ViewInv /\ JobInv
  BY DEF Base, Sound
<1>2. /\ UNCHANGED <<log, pruned, synced, file, spoilt, up, man, snap, overlay, count, readonly,
                     halfway, late, unheard, slipped>>
      /\ job # Idle /\ job.stage = "complete"
      /\ job'.stage = "swap" /\ job'.version = job.version
      /\ job'.end = job.end /\ job'.heard = job.heard /\ job' # Idle
      /\ DOMAIN versions' = DOMAIN versions
      /\ \A v \in DOMAIN versions :
           /\ versions'[v].recs = versions[v].recs /\ versions'[v].out = versions[v].out
           /\ versions'[v].folded = versions[v].folded /\ versions'[v].files = versions[v].files
           /\ versions'[v].complete <=> versions[v].complete \/ v = job.version
  BY CompleteFacts
<1>3. /\ Live /\ Building /\ job.version \in DOMAIN versions
      /\ versions[job.version].folded = job.end /\ man.folded <= job.end
      /\ job.end \in Nat /\ man.folded \in Nat /\ ManifestOk(man)
  BY <1>1, <1>2 DEF JobInv, Bounds, Building, Typed, Job, Manifest, LiveInv
<1>4. /\ Complete \subseteq Complete' /\ Valid \subseteq Valid'
      /\ \A v : RecordsOf(v)' = RecordsOf(v) /\ FoldedOf(v)' = FoldedOf(v) /\ Gone(v)' = Gone(v)
  BY <1>2 DEF Complete, Valid, RecordsOf, FoldedOf, Gone, LeftOut
<1>5. DiskInv'
  <2>1. Unpruned(job.end)
    BY <1>3 DEF ManifestOk, Unpruned
  <2>2. \A v \in DOMAIN versions : versions'[v].complete => Unpruned(versions[v].folded)
    BY <1>1, <1>2, <1>3, <2>1 DEF DiskInv
  <2> QED
    BY <1>1, <1>2, <1>4, <2>2 DEF DiskInv, Unpruned
<1>6. \A m : ManifestOk(m) => ManifestOk(m)'
  BY <1>2 DEF ManifestOk, Unpruned
<1>7. FileInv' /\ LiveInv'
  BY <1>1, <1>2, <1>4, <1>6 DEF FileInv, LiveInv, Live, ManifestOk, Unpruned
<1>8. ViewInv'
  BY <1>1, <1>2, <1>4 DEF ViewInv, Live, Ids, View
<1>9. JobInv'
  <2>1. Live' /\ Building'
    BY <1>2, <1>3 DEF Live, Building
  <2> QED
    BY <1>1, <1>2, <1>3, <2>1 DEF JobInv
<1> QED
  BY <1>5, <1>7, <1>8, <1>9 DEF Sound

LEMMA JobFailsBase ==
  ASSUME Base, JobFails
  PROVE  Base'
<1>1. Typed /\ Bounds /\ CountInv
  BY DEF Base
<1>2. /\ UNCHANGED <<log, pruned, synced, versions, file, spoilt, up, man, snap, overlay, count,
                     readonly, halfway, unheard, slipped>>
      /\ job' = Idle /\ late' = NoEvents
  BY DEF JobFails, disk
<1>3. Typed'
  <2>1. Idle \in Job
    BY IdleJob
  <2> QED
    BY <1>1, <1>2, <2>1, NoEventsPart DEF Typed
<1>4. Bounds' /\ CountInv'
  BY <1>1, <1>2, CountSame DEF Bounds
<1> QED
  BY <1>3, <1>4 DEF Base

LEMMA JobFailsSound ==
  ASSUME Base, Sound, JobFails
  PROVE  Sound'
<1>1. DiskInv /\ FileInv /\ LiveInv /\ ViewInv
  BY DEF Sound
<1>2. /\ UNCHANGED <<log, pruned, synced, versions, file, up, man, snap, overlay,
                     readonly, halfway, unheard>>
      /\ job' = Idle
  BY DEF JobFails, disk
<1>3. DiskInv' /\ LiveInv' /\ ViewInv' /\ FileInv'
  BY <1>1, <1>2, DiskSame, LiveSame, ViewInvSame DEF FileInv, ManifestOk, Unpruned
<1> QED
  BY <1>2, <1>3 DEF Sound, JobInv


-----------------------------------------------------------------------------
\* The reader goes over to the version.

\* Nothing adds nothing.
LEMMA OverNothing ==
  ASSUME NEW f \in Records
  PROVE  Over(NoRecords, f) = f
<1>1. DOMAIN NoRecords = {} /\ f \in [DOMAIN f -> Record]
  BY NothingRecorded, RecordsAre
<1>2. Over(NoRecords, f) = [i \in DOMAIN f |-> f[i]]
  BY <1>1 DEF Over
<1> QED
  BY <1>1, <1>2

\* Where a swap starts.
LEMMA SwapFrom ==
  ASSUME Base, job.stage = "swap"
  PROVE  /\ job # Idle /\ Building /\ LogOk(log) /\ Len(log) \in Nat
         /\ job.end \in Nat /\ job.heard \in Nat
         /\ job.end <= Len(log) /\ job.heard <= Len(log)
         /\ job.end <= synced /\ synced \in 0 .. Len(log)
         /\ job.version \in Complete /\ job.version \in 1 .. MaxVersions
         /\ man \in Manifest /\ man.folded \in Nat /\ man.folded <= job.end
         /\ \A v \in DOMAIN versions :
              versions[v].folded \in Nat /\ versions[v].folded <= job.end
         /\ RecordsOf(job.version) \in Records
<1>1. Typed /\ Bounds
  BY DEF Base
<1>2. job # Idle /\ Building
  BY DEF Idle, Building
<1>3. /\ LogOk(log) /\ Len(log) \in Nat /\ job.end \in Nat /\ job.heard \in Nat
      /\ synced \in 0 .. Len(log) /\ man \in Manifest /\ man.folded \in Nat
  BY <1>1, LogRange DEF Typed, Job, Manifest
<1>4. /\ job.heard <= Len(log) /\ job.end <= Len(log) /\ job.end <= synced
      /\ job.version \in Complete /\ job.version \in 1 .. MaxVersions
      /\ man.folded <= job.end /\ \A v \in DOMAIN versions : versions[v].folded <= job.end
  BY <1>1, <1>2 DEF Bounds
<1>5. \A v \in DOMAIN versions : versions[v].folded \in Nat
  BY <1>1 DEF Typed, Version
<1>6. RecordsOf(job.version) \in Records
  BY <1>1, ViewRecords
<1> QED
  BY <1>2, <1>3, <1>4, <1>5, <1>6

LEMMA SwapFromSound ==
  ASSUME Base, Sound, job.stage = "swap"
  PROVE  /\ Live /\ job.end <= job.heard /\ job.version \in Valid /\ job.version < man.next
         /\ versions[job.version].folded = job.end /\ FoldedOf(job.version) = job.end
         /\ Unpruned(job.end)
         /\ \A n \in DOMAIN late : job.heard < n
         /\ \A n \in 1 .. Len(log) : job.heard < n => n \in DOMAIN late \cup unheard
<1>1. DiskInv /\ JobInv
  BY DEF Sound
<1>2. job # Idle /\ Building /\ job.version \in Complete
  BY SwapFrom
<1>3. /\ Live /\ job.end <= job.heard /\ job.version < man.next
      /\ versions[job.version].folded = job.end /\ versions[job.version].files = "whole"
      /\ \A n \in DOMAIN late : job.heard < n
      /\ \A n \in 1 .. Len(log) : job.heard < n => n \in DOMAIN late \cup unheard
  BY <1>1, <1>2 DEF JobInv
<1>4. job.version \in Valid /\ FoldedOf(job.version) = job.end /\ Unpruned(job.end)
  BY <1>1, <1>2, <1>3 DEF Valid, Complete, FoldedOf, DiskInv
<1> QED
  BY <1>3, <1>4

\* What every swap makes of the reader.
LEMMA SwapTyped ==
  ASSUME Base, SwapReader
  PROVE  /\ overlay' \in Records /\ unheard' \in SUBSET (1 .. Len(log)) /\ PartOf(late', log)
         /\ snap' \in 1 .. MaxVersions /\ job' = Idle /\ job' \in Job
         /\ Over(overlay', RecordsOf(job.version)) = Fold(RecordsOf(job.version), late)
<1> DEFINE base == RecordsOf(job.version)
<1>1. /\ job.stage = "swap" /\ job' = Idle /\ snap' = job.version /\ late' = NoEvents
      /\ overlay' = Laid(base, NoRecords, late)
      /\ unheard' = {n \in unheard : n > job.end} \cup (job.end + 1) .. job.heard
  BY DEF SwapReader
<1>2. /\ LogOk(log) /\ Len(log) \in Nat /\ job.end \in Nat /\ job.heard \in Nat
      /\ job.heard <= Len(log) /\ base \in Records /\ job.version \in 1 .. MaxVersions
  BY <1>1, SwapFrom
<1>3. PartOf(late, log) /\ unheard \in SUBSET (1 .. Len(log))
  BY DEF Base, Typed
<1>4. EventsOk(late)
  BY <1>2, <1>3, PartEvents
<1> HIDE DEF base
<1>5. overlay' \in Records /\ Over(overlay', base) = Fold(base, late)
  BY <1>1, <1>2, <1>4, LaidIs, NothingRecorded, OverNothing
<1>6. (job.end + 1) .. job.heard \subseteq 1 .. Len(log)
  BY <1>2
<1> QED
  BY <1>1, <1>2, <1>3, <1>5, <1>6, NoEventsPart, IdleJob DEF base

\* What the reader sees after a swap.
LEMMA SwapSeen ==
  ASSUME Base, Sound, SwapReader, job.version \in DOMAIN versions',
         versions'[job.version] = versions[job.version]
  PROVE  ViewInv' /\ JobInv'
<1> DEFINE jv == job.version
           base == RecordsOf(jv)
<1>1. Typed /\ DiskInv
  BY DEF Base, Sound
<1>2. /\ log' = log /\ job.stage = "swap" /\ job' = Idle /\ snap' = jv
      /\ unheard' = {n \in unheard : n > job.end} \cup (job.end + 1) .. job.heard
  BY DEF SwapReader
<1>3. /\ LogOk(log) /\ Len(log) \in Nat /\ job.end \in Nat /\ job.heard \in Nat
      /\ job.end <= Len(log) /\ job.heard <= Len(log) /\ base \in Records
  BY <1>2, SwapFrom
<1>4. /\ FoldedOf(jv) = job.end /\ job.end <= job.heard /\ Readable(jv)
      /\ \A n \in DOMAIN late : job.heard < n
      /\ \A n \in 1 .. Len(log) : job.heard < n => n \in DOMAIN late \cup unheard
  BY <1>2, SwapFromSound DEF Readable, Valid
<1>5. PartOf(late, log) /\ unheard \in SUBSET (1 .. Len(log))
  BY <1>1 DEF Typed
<1>6. Over(overlay', base) = Fold(base, late)
  BY SwapTyped
<1>7. RecordsOf(snap)' = base /\ Gone(snap)' = Gone(jv)
  BY <1>2, <1>3, SwapFrom DEF RecordsOf, Gone, LeftOut, Complete
<1> HIDE DEF base, jv
<1>8. View' = Fold(base, late)
  BY <1>6, <1>7 DEF View
<1> DEFINE unknown == {log[n].id : n \in unheard'}
<1>9. Follows(View', log, Len(log), Gone(jv), unknown)
  <2>1. Follows(base, log, job.end, Gone(jv), {})
    BY <1>1, <1>4, VersionFollows DEF base
  <2>2. Follows(base, log, job.end, Gone(jv), unknown)
    BY <2>1, FollowsLess
  <2>3. ASSUME NEW n \in 1 .. Len(log), job.end < n
        PROVE  n \in DOMAIN late \/ n \in unheard'
    <3>1. CASE n <= job.heard
      BY <1>2, <1>3, <2>3, <3>1
    <3>2. CASE job.heard < n
      BY <1>2, <1>3, <1>4, <2>3, <3>2
    <3> QED
      BY <1>3, <3>1, <3>2
  <2>4. \A n \in 1 .. Len(log) : job.end < n /\ n <= Len(log) => n \in DOMAIN late \/
          log[n].id \in unknown
    BY <2>3
  <2>5. \A n \in DOMAIN late : job.end < n /\ n <= Len(log)
    <3>1. DOMAIN late \subseteq 1 .. Len(log)
      BY <1>5 DEF PartOf
    <3> QED
      BY <1>3, <1>4, <3>1
  <2>6. job.end <= job.end /\ job.end <= Len(log) /\ Len(log) <= Len(log)
    BY <1>3
  <2> HIDE DEF unknown
  <2> QED
    BY <1>3, <1>5, <1>8, <2>2, <2>4, <2>5, <2>6, CatchUp
<1>10. ViewInv'
  <2>1. Ids(unheard)' = unknown
    BY <1>2 DEF Ids
  <2> HIDE DEF unknown
  <2> QED
    BY <1>2, <1>7, <1>9, <2>1 DEF ViewInv
<1> QED
  BY <1>2, <1>10 DEF JobInv

LEMMA SwapFailsBase ==
  ASSUME Base, SwapFails
  PROVE  Base'
<1>1. Typed /\ Bounds /\ CountInv
  BY DEF Base
<1>2. /\ UNCHANGED <<log, pruned, synced, versions, file, spoilt, up, man, count, readonly,
                     halfway, slipped>>
      /\ SwapReader
  BY DEF SwapFails, SwapReader
<1>3. /\ overlay' \in Records /\ unheard' \in SUBSET (1 .. Len(log)) /\ PartOf(late', log)
      /\ snap' \in 1 .. MaxVersions /\ job' = Idle /\ job' \in Job
  BY <1>2, SwapTyped
<1>4. Typed'
  BY <1>1, <1>2, <1>3 DEF Typed
<1>5. Bounds' /\ CountInv'
  BY <1>1, <1>2, <1>3, CountSame DEF Bounds
<1> QED
  BY <1>4, <1>5 DEF Base

LEMMA SwapFailsSound ==
  ASSUME Base, Sound, SwapFails
  PROVE  Sound'
<1>1. DiskInv /\ FileInv /\ LiveInv
  BY DEF Sound
<1>2. /\ UNCHANGED <<log, pruned, synced, versions, file, up, man, readonly, halfway>>
      /\ SwapReader /\ job.stage = "swap" /\ snap' = job.version
  BY DEF SwapFails, SwapReader
<1>3. /\ job.version \in Valid /\ Live /\ FoldedOf(job.version) = job.end
      /\ man.folded <= job.end
  BY <1>2, SwapFrom, SwapFromSound
<1>4. /\ Complete' = Complete /\ Valid' = Valid /\ \A m : ManifestOk(m) => ManifestOk(m)'
      /\ \A v : FoldedOf(v)' = FoldedOf(v)
  BY <1>2, ManifestSame
<1>5. ViewInv' /\ JobInv'
  BY <1>2, <1>3, SwapSeen DEF Valid, Complete
<1>6. DiskInv' /\ FileInv'
  BY <1>1, <1>2, DiskSame DEF FileInv, ManifestOk, Unpruned
<1>7. LiveInv'
  <2>1. FoldedOf(snap)' = job.end
    BY <1>2, <1>3 DEF FoldedOf
  <2>2. ManifestOk(man)'
    BY <1>1, <1>2, <1>3 DEF LiveInv, ManifestOk, Unpruned
  <2> QED
    BY <1>1, <1>2, <1>3, <1>4, <2>1, <2>2 DEF LiveInv
<1> QED
  BY <1>5, <1>6, <1>7 DEF Sound

\* The events after p are those up to q and those after it.
LEMMA SizeSplit ==
  ASSUME LogOk(log), NEW p \in Nat, NEW q \in Nat, p <= q, q <= Len(log)
  PROVE  /\ Size(Between(p, q)) \in Nat /\ Size(Between(q, Len(log))) \in Nat
         /\ Size(Between(p, Len(log))) = Size(Between(p, q)) + Size(Between(q, Len(log)))
<1> DEFINE A == {n \in 1 .. Len(log) : p < n /\ n <= q /\ log[n].month \notin pruned}
           B == {n \in 1 .. Len(log) : q < n /\ n <= Len(log) /\ log[n].month \notin pruned}
           C == {n \in 1 .. Len(log) : p < n /\ n <= Len(log) /\ log[n].month \notin pruned}
<1>1. Len(log) \in Nat /\ Len(log) <= Len(log) /\ p <= Len(log)
  BY LogRange
<1>2. DOMAIN Between(p, q) = A /\ DOMAIN Between(q, Len(log)) = B /\ DOMAIN Between(p, Len(log)) = C
  BY <1>1, BetweenIsPart
<1>3. IsFiniteSet(A) /\ IsFiniteSet(B)
  <2>1. A \subseteq 1 .. Len(log) /\ B \subseteq 1 .. Len(log)
    OBVIOUS
  <2> HIDE DEF A, B
  <2>2. IsFiniteSet(1 .. Len(log))
    BY <1>1, FS_Interval
  <2> QED
    BY <2>1, <2>2, FS_Subset
<1>4. C = A \cup B /\ A \cap B = {}
  BY <1>1
<1> HIDE DEF A, B, C
<1>5. Cardinality(A) \in Nat /\ Cardinality(B) \in Nat
  BY <1>3, FS_CardinalityType
<1>6. Cardinality({}) = 0
  BY FS_EmptySet
<1>7. Cardinality(A \cup B) = Cardinality(A) + Cardinality(B) - Cardinality(A \cap B)
  BY <1>3, FS_Union
<1>8. Cardinality(C) = Cardinality(A) + Cardinality(B)
  <2>1. Cardinality(A) + Cardinality(B) - 0 = Cardinality(A) + Cardinality(B)
    BY <1>5
  <2> QED
    BY <1>4, <1>6, <1>7, <2>1
<1> QED
  BY <1>2, <1>5, <1>8 DEF Size

\* The counter after a swap.
LEMMA SwapCount ==
  ASSUME Base, job.stage = "swap", UNCHANGED <<log, up, readonly, halfway, slipped>>,
         count' = Uncounted(Size(Between(man.folded, job.end))), man'.folded = job.end,
         \A n \in 1 .. Len(log) :
           job.end < n => (log[n].month \in pruned' <=> log[n].month \in pruned)
  PROVE  count' \in Nat /\ CountInv'
<1>1. /\ LogOk(log) /\ Len(log) \in Nat /\ job.end \in Nat /\ job.end <= Len(log)
      /\ man.folded \in Nat /\ man.folded <= job.end
  BY SwapFrom
<1>2. /\ Size(Between(man.folded, job.end)) \in Nat /\ Size(Between(job.end, Len(log))) \in Nat
      /\ Size(Between(man.folded, Len(log)))
           = Size(Between(man.folded, job.end)) + Size(Between(job.end, Len(log)))
  BY <1>1, SizeSplit
<1>3. count' \in Nat
  <2>1. count \in Nat
    BY DEF Base, Typed
  <2> QED
    BY <1>2, <2>1 DEF Uncounted
<1>4. ASSUME Live, ~ slipped PROVE count' = Size(Between(job.end, Len(log)))
  <2>1. count = Size(Between(man.folded, Len(log)))
    BY <1>4 DEF Base, CountInv
  <2> QED
    BY <1>2, <2>1 DEF Uncounted
<1>5. Size(Between(man.folded, Len(log)))' = Size(Between(job.end, Len(log)))
  <2>1. \A n : n \in job.end + 1 .. Len(log) => n \in 1 .. Len(log) /\ job.end < n
    BY <1>1
  <2>2. {k \in job.end + 1 .. Len(log) : log[k].month \notin pruned}
          = {k \in job.end + 1 .. Len(log) : log[k].month \notin pruned'}
    BY <1>1, <2>1
  <2>3. Between(man.folded, Len(log))' = Between(job.end, Len(log))
    BY <2>2 DEF Between
  <2> QED
    BY <2>3 DEF Size
<1>6. Live' = Live
  BY DEF Live
<1> QED
  BY <1>3, <1>4, <1>5, <1>6 DEF CountInv

\* The manifest that follows the swap.
LEMMA SwapMan ==
  ASSUME Base, job.stage = "swap",
         man' = [man EXCEPT !.active = job.version, !.folded = job.end]
  PROVE  /\ man' \in Manifest /\ man'.active = job.version /\ man'.folded = job.end
         /\ man'.next = man.next
<1>1. man \in Manifest /\ job.version \in 1 .. MaxVersions /\ job.end \in Nat
  BY SwapFrom
<1>2. job.version \in 0 .. MaxVersions
  BY <1>1
<1>3. man = [active |-> man.active, next |-> man.next, folded |-> man.folded] /\
        man.next \in Nat \ {0}
  BY <1>1 DEF Manifest
<1>4. man' = [active |-> job.version, next |-> man.next, folded |-> job.end]
  BY <1>3
<1> QED
  BY <1>1, <1>2, <1>3, <1>4 DEF Manifest

LEMMA SwapUnsavedBase ==
  ASSUME Base, SwapUnsaved
  PROVE  Base'
<1>1. Typed /\ Bounds
  BY DEF Base
<1>2. /\ UNCHANGED <<log, pruned, synced, versions, file, spoilt, up, readonly, halfway, slipped>>
      /\ SwapReader /\ job.stage = "swap"
      /\ count' = Uncounted(Size(Between(man.folded, job.end)))
      /\ man' = [man EXCEPT !.active = job.version, !.folded = job.end]
  BY DEF SwapUnsaved, SwapReader
<1>3. /\ overlay' \in Records /\ unheard' \in SUBSET (1 .. Len(log)) /\ PartOf(late', log)
      /\ snap' \in 1 .. MaxVersions /\ job' = Idle /\ job' \in Job
  BY <1>2, SwapTyped
<1>4. man' \in Manifest /\ man'.folded = job.end /\ job.end <= synced
  BY <1>2, SwapMan, SwapFrom
<1>5. count' \in Nat /\ CountInv'
  BY <1>2, <1>4, SwapCount
<1>6. Typed'
  BY <1>1, <1>2, <1>3, <1>4, <1>5 DEF Typed
<1>7. Bounds'
  BY <1>1, <1>2, <1>3, <1>4 DEF Bounds
<1> QED
  BY <1>5, <1>6, <1>7 DEF Base

LEMMA SwapUnsavedSound ==
  ASSUME Base, Sound, SwapUnsaved
  PROVE  Sound'
<1>1. DiskInv /\ FileInv /\ LiveInv
  BY DEF Sound
<1>2. /\ UNCHANGED <<log, pruned, synced, versions, file, up, readonly, halfway>>
      /\ SwapReader /\ job.stage = "swap" /\ snap' = job.version
      /\ man' = [man EXCEPT !.active = job.version, !.folded = job.end]
  BY DEF SwapUnsaved, SwapReader
<1>3. /\ job.version \in Valid /\ job.version \in Complete /\ job.version \in 1 .. MaxVersions
      /\ Live /\ FoldedOf(job.version) = job.end /\ job.version < man.next /\ job.end \in Nat
      /\ versions[job.version].folded = job.end /\ Unpruned(job.end)
  BY <1>2, SwapFrom, SwapFromSound
<1>4. Complete' = Complete /\ Valid' = Valid
  BY <1>2, ManifestSame
<1>5. ViewInv' /\ JobInv'
  BY <1>2, <1>3, SwapSeen DEF Complete
<1>6. DiskInv' /\ FileInv'
  BY <1>1, <1>2, DiskSame DEF FileInv, ManifestOk, Unpruned
<1>7. man'.active = job.version /\ man'.folded = job.end /\ man'.next = man.next
  BY <1>2, SwapMan
<1>8. ManifestOk(man)'
  <2>1. \A v \in DOMAIN versions : v < man.next
    BY <1>1, <1>3 DEF LiveInv, ManifestOk
  <2>2. job.version # 0
    BY <1>3
  <2> QED
    BY <1>2, <1>3, <1>7, <2>1, <2>2 DEF ManifestOk, Unpruned
<1>9. LiveInv'
  <2>1. FoldedOf(snap)' = job.end /\ job.end <= job.end
    BY <1>2, <1>3 DEF FoldedOf
  <2> QED
    BY <1>2, <1>3, <1>4, <1>7, <1>8, <2>1 DEF LiveInv
<1> QED
  BY <1>5, <1>6, <1>9 DEF Sound

\* What a swap deletes: versions but not the new one, and only months that are past
\* at the position of the new version, and that every version that is kept has folded.
LEMMA SwapPrunes ==
  ASSUME Base, Swap
  PROVE  /\ job.version \in DOMAIN versions' /\ DOMAIN versions' \subseteq DOMAIN versions
         /\ \A v \in DOMAIN versions' : versions'[v] = versions[v]
         /\ versions' \in [DOMAIN versions' -> Version]
         /\ pruned' \in SUBSET (1 .. MaxMonth)
         /\ \A m \in pruned' : \E n \in 1 .. synced : m < log[n].month
         /\ \A n \in 1 .. Len(log) :
              job.end < n => (log[n].month \in pruned' <=> log[n].month \in pruned)
         /\ DiskInv => \A v \in DOMAIN versions' : versions[v].complete =>
              \A n \in 1 .. Len(log) : versions[v].folded < n => log[n].month \notin pruned'
<1>1. Typed /\ Bounds
  BY DEF Base
<1> DEFINE trashed == PrunedVersions({job.old, job.version})
           kept == Complete \ trashed
           least == versions[Min(kept)].folded
<1>2. /\ job.stage = "swap" /\ versions' = Without(versions, trashed)
      /\ pruned' = pruned \cup PrunedMonths(kept)
  BY DEF Swap, SwapReader
<1>3. /\ LogOk(log) /\ Len(log) \in Nat /\ synced \in 0 .. Len(log) /\ DOMAIN log = 1 .. Len(log)
      /\ job.version \in Complete /\ \A n \in 1 .. Len(log) : log[n] \in Events
      /\ job.end \in Nat
      /\ \A v \in DOMAIN versions : versions[v].folded \in Nat /\ versions[v].folded <= job.end
  BY <1>2, SwapFrom, LogRange
<1>4. job.version \in kept
  BY <1>3 DEF PrunedVersions
<1>5. /\ DOMAIN versions' = DOMAIN versions \ trashed
      /\ \A v \in DOMAIN versions' : versions'[v] = versions[v]
      /\ versions' \in [DOMAIN versions' -> Version]
  BY <1>1, <1>2 DEF Without, Typed
<1> HIDE DEF trashed
<1>6. kept \subseteq DOMAIN versions' /\ kept \subseteq DOMAIN versions
  BY <1>5 DEF Complete
<1>7. kept \in SUBSET Nat
  BY <1>1 DEF Typed, Complete
<1>7a. \A v \in DOMAIN versions' : versions[v].complete => v \in kept
  BY <1>5 DEF Complete
<1> HIDE DEF kept
<1>8. Min(kept) \in kept /\ \A v \in kept : Min(kept) <= v
  BY <1>4, <1>7, MinIs
<1>9. least \in Nat /\ least <= synced /\ least <= job.end
  BY <1>1, <1>3, <1>6, <1>8 DEF Bounds
<1>10. DiskInv => \A v \in kept : least <= versions[v].folded
  BY <1>6, <1>8 DEF DiskInv
<1> HIDE DEF least
<1>11. \A m \in PrunedMonths(kept) :
         /\ m \in {log[n].month : n \in DOMAIN log} /\ least > 0 /\ m < log[least].month
  BY DEF PrunedMonths, least
<1>12. least > 0 => least \in 1 .. synced /\ least \in 1 .. Len(log)
  BY <1>3, <1>9
<1>13. \A m \in PrunedMonths(kept) : m \in 1 .. MaxMonth
  BY <1>3, <1>11 DEF Events
<1>14. pruned' \in SUBSET (1 .. MaxMonth)
  BY <1>1, <1>2, <1>13 DEF Typed
<1>15. \A m \in pruned' : \E n \in 1 .. synced : m < log[n].month
  BY <1>1, <1>2, <1>11, <1>12 DEF Bounds
<1>16. ASSUME NEW n \in 1 .. Len(log), least < n
       PROVE  log[n].month \notin PrunedMonths(kept)
  <2> SUFFICES ASSUME log[n].month \in PrunedMonths(kept) PROVE FALSE
    OBVIOUS
  <2>1. least > 0 /\ log[n].month < log[least].month
    BY <1>11
  <2>2. least \in 1 .. Len(log) /\ least <= n
    BY <1>3, <1>9, <1>12, <1>16, <2>1
  <2>3. log[least].month <= log[n].month
    BY <1>3, <2>2 DEF LogOk
  <2>4. log[least].month \in Nat /\ log[n].month \in Nat
    BY <1>3, <2>2, StoreAssumption DEF Events
  <2> QED
    BY <2>1, <2>3, <2>4
<1>17. \A n \in 1 .. Len(log) :
         job.end < n => (log[n].month \in pruned' <=> log[n].month \in pruned)
  <2>1. \A n \in 1 .. Len(log) : job.end < n => least < n
    BY <1>3, <1>9
  <2> QED
    BY <1>2, <1>16, <2>1
<1>18. ASSUME DiskInv, NEW v \in DOMAIN versions', versions[v].complete, NEW n \in 1 .. Len(log),
              versions[v].folded < n
       PROVE  log[n].month \notin pruned'
  <2>1. v \in kept /\ versions[v].folded \in Nat
    BY <1>3, <1>5, <1>18, <1>7a
  <2>2. log[n].month \notin pruned
    BY <1>5, <1>18 DEF DiskInv, Unpruned
  <2>3. least < n
    BY <1>9, <1>10, <1>18, <2>1
  <2> QED
    BY <1>2, <1>16, <2>2, <2>3
<1> QED
  BY <1>4, <1>5, <1>6, <1>14, <1>15, <1>17, <1>18

LEMMA SwapBase ==
  ASSUME Base, Swap
  PROVE  Base'
<1>1. Typed /\ Bounds
  BY DEF Base
<1>2. /\ UNCHANGED <<log, synced, spoilt, up, readonly, halfway, slipped>>
      /\ SwapReader /\ job.stage = "swap"
      /\ count' = Uncounted(Size(Between(man.folded, job.end)))
      /\ man' = [man EXCEPT !.active = job.version, !.folded = job.end]
      /\ file' = [state |-> "good", man |-> man']
  BY DEF Swap, SwapReader
<1>3. /\ overlay' \in Records /\ unheard' \in SUBSET (1 .. Len(log)) /\ PartOf(late', log)
      /\ snap' \in 1 .. MaxVersions /\ job' = Idle /\ job' \in Job
  BY <1>2, SwapTyped
<1>4. man' \in Manifest /\ man'.folded = job.end /\ job.end <= synced
  BY <1>2, SwapMan, SwapFrom
<1>5. /\ DOMAIN versions' \subseteq DOMAIN versions
      /\ \A v \in DOMAIN versions' : versions'[v] = versions[v]
      /\ versions' \in [DOMAIN versions' -> Version]
      /\ pruned' \in SUBSET (1 .. MaxMonth)
      /\ \A m \in pruned' : \E n \in 1 .. synced : m < log[n].month
      /\ \A n \in 1 .. Len(log) :
           job.end < n => (log[n].month \in pruned' <=> log[n].month \in pruned)
  BY SwapPrunes
<1>6. count' \in Nat /\ CountInv'
  BY <1>2, <1>4, <1>5, SwapCount
<1>7. Typed'
  <2>1. file' \in File
    BY <1>2, <1>4 DEF File
  <2>2. DOMAIN versions' \subseteq 1 .. MaxVersions
    BY <1>1, <1>5 DEF Typed
  <2> QED
    BY <1>1, <1>2, <1>3, <1>4, <1>5, <1>6, <2>1, <2>2 DEF Typed
<1>8. Bounds'
  <2>1. file'.man.folded <= synced
    BY <1>2, <1>4
  <2>2. \A v \in DOMAIN versions' : versions'[v].folded <= synced
    BY <1>1, <1>5 DEF Bounds
  <2> QED
    BY <1>2, <1>3, <1>4, <1>5, <2>1, <2>2 DEF Bounds
<1> QED
  BY <1>6, <1>7, <1>8 DEF Base

LEMMA SwapSound ==
  ASSUME Base, Sound, Swap
  PROVE  Sound'
<1>1. DiskInv /\ FileInv /\ LiveInv
  BY DEF Sound
<1>2. /\ UNCHANGED <<log, synced, up, readonly, halfway>>
      /\ SwapReader /\ job.stage = "swap" /\ snap' = job.version
      /\ man' = [man EXCEPT !.active = job.version, !.folded = job.end]
      /\ file' = [state |-> "good", man |-> man']
  BY DEF Swap, SwapReader
<1>3. /\ job.version \in Valid /\ job.version \in Complete /\ job.version \in 1 .. MaxVersions
      /\ Live /\ job.version < man.next /\ job.end \in Nat
      /\ versions[job.version].folded = job.end /\ Unpruned(job.end)
  BY <1>2, SwapFrom, SwapFromSound
<1>4. /\ job.version \in DOMAIN versions' /\ DOMAIN versions' \subseteq DOMAIN versions
      /\ \A v \in DOMAIN versions' : versions'[v] = versions[v]
      /\ \A n \in 1 .. Len(log) :
           job.end < n => (log[n].month \in pruned' <=> log[n].month \in pruned)
      /\ \A v \in DOMAIN versions' : versions[v].complete =>
           \A n \in 1 .. Len(log) : versions[v].folded < n => log[n].month \notin pruned'
  BY <1>1, SwapPrunes
<1>5. ViewInv' /\ JobInv'
  BY <1>2, <1>4, SwapSeen
<1>6. man'.active = job.version /\ man'.folded = job.end /\ man'.next = man.next
  BY <1>2, SwapMan
<1>7. DiskInv'
  <2>1. ASSUME NEW v \in DOMAIN versions'
        PROVE  Follows(versions'[v].recs, log, versions'[v].folded, Gone(v)', {})
    <3>1. Gone(v)' = Gone(v)
      BY <1>4 DEF Gone, LeftOut
    <3> QED
      BY <1>1, <1>4, <3>1 DEF DiskInv
  <2>2. \A v, w \in DOMAIN versions' : v <= w => versions'[v].folded <= versions'[w].folded
    BY <1>1, <1>4 DEF DiskInv
  <2>3. DOMAIN versions' # {}
    BY <1>4
  <2> QED
    BY <1>2, <1>4, <2>1, <2>2, <2>3 DEF DiskInv, Unpruned
<1>8. ManifestOk(man)'
  <2>1. \A v \in DOMAIN versions' : v < man.next
    BY <1>1, <1>3, <1>4 DEF LiveInv, ManifestOk
  <2>2. job.version # 0
    BY <1>3
  <2>3. versions'[job.version].folded = job.end
    BY <1>3, <1>4
  <2>4. \A n \in 1 .. Len(log) : job.end < n => log[n].month \notin pruned'
    BY <1>3, <1>4 DEF Unpruned
  <2> QED
    BY <1>2, <1>3, <1>6, <2>1, <2>2, <2>3, <2>4 DEF ManifestOk, Unpruned
<1>9. FileInv'
  <2>1. file'.state = "good" /\ file'.man = man'
    BY <1>2
  <2> QED
    BY <1>8, <2>1 DEF FileInv, ManifestOk, Unpruned
<1>10. LiveInv'
  <2>1. FoldedOf(snap)' = job.end /\ job.end <= job.end
    BY <1>2, <1>3, <1>4 DEF FoldedOf
  <2>2. job.version \in Complete' /\ job.version \in Valid'
    BY <1>3, <1>4 DEF Complete, Valid
  <2> QED
    BY <1>2, <1>6, <1>8, <2>1, <2>2 DEF LiveInv
<1> QED
  BY <1>5, <1>7, <1>9, <1>10 DEF Sound

-----------------------------------------------------------------------------
\* Faults.

\* A store that is down promises nothing but its disk.
LEMMA DownFacts ==
  ASSUME Down
  PROVE  /\ LiveInv' /\ ViewInv' /\ JobInv' /\ CountInv'
         /\ up' \in BOOLEAN /\ man' \in Manifest /\ man'.folded = 0 /\ snap' \in 0 .. MaxVersions
         /\ overlay' \in Records /\ count' \in Nat /\ readonly' \in BOOLEAN
         /\ halfway' \in BOOLEAN /\ job' = Idle /\ job' \in Job /\ unheard' = {}
         /\ slipped' \in BOOLEAN /\ late' = NoEvents
<1>1. /\ up' = FALSE /\ man' = NewManifest /\ snap' = 0 /\ overlay' = NoRecords /\ count' = 0
      /\ readonly' = FALSE /\ halfway' = FALSE /\ job' = Idle /\ late' = NoEvents
      /\ unheard' = {} /\ slipped' = FALSE
  BY DEF Down
<1>2. LiveInv' /\ ViewInv' /\ JobInv' /\ CountInv'
  BY <1>1 DEF LiveInv, ViewInv, JobInv, CountInv, Live
<1>3. NewManifest \in Manifest /\ NewManifest.folded = 0
  BY StoreAssumption DEF NewManifest, Manifest
<1>4. snap' \in 0 .. MaxVersions /\ count' \in Nat
  BY <1>1, StoreAssumption
<1> QED
  BY <1>1, <1>2, <1>3, <1>4, NothingRecorded, IdleJob

LEMMA KillBase ==
  ASSUME Base, Kill
  PROVE  Base'
<1>1. Typed /\ Bounds
  BY DEF Base
<1>2. Down /\ UNCHANGED <<log, pruned, synced, versions, file, spoilt>>
  BY DEF Kill, disk
<1>3. Typed'
  BY <1>1, <1>2, DownFacts, NoEventsPart DEF Typed
<1>4. Bounds'
  <2>1. man'.folded <= synced
    BY <1>1, <1>2, DownFacts DEF Typed
  <2> QED
    BY <1>1, <1>2, <2>1, DownFacts DEF Bounds
<1> QED
  BY <1>2, <1>3, <1>4, DownFacts DEF Base

LEMMA KillSound ==
  ASSUME Base, Sound, Kill
  PROVE  Sound'
<1>1. DiskInv /\ FileInv
  BY DEF Sound
<1>2. Down /\ UNCHANGED <<log, pruned, versions, file>>
  BY DEF Kill, disk
<1>3. DiskInv' /\ FileInv'
  BY <1>1, <1>2, DiskSame DEF FileInv, ManifestOk, Unpruned
<1> QED
  BY <1>2, <1>3, DownFacts DEF Sound

LEMMA ManifestBreaksBase ==
  ASSUME Base, ManifestBreaks
  PROVE  Base'
<1>1. Typed /\ Bounds /\ CountInv
  BY DEF Base
<1>2. /\ UNCHANGED <<log, pruned, synced, versions, spoilt, up, man, snap, overlay, count,
                     readonly, halfway, job, late, unheard, slipped>>
      /\ file' = [state |-> "broken", man |-> NewManifest]
  BY DEF ManifestBreaks, memory
<1>3. NewManifest \in Manifest /\ NewManifest.folded = 0
  BY StoreAssumption DEF NewManifest, Manifest
<1>4. Typed'
  BY <1>1, <1>2, <1>3 DEF Typed, File
<1>5. Bounds'
  <2>1. file'.man.folded <= synced
    BY <1>1, <1>2, <1>3 DEF Typed
  <2> QED
    BY <1>1, <1>2, <2>1 DEF Bounds, Building, Complete
<1>6. CountInv'
  BY <1>1, <1>2, CountSame
<1> QED
  BY <1>4, <1>5, <1>6 DEF Base

LEMMA ManifestBreaksSound ==
  ASSUME Base, Sound, ManifestBreaks
  PROVE  Sound'
<1>1. DiskInv /\ JobInv
  BY DEF Sound
<1>2. /\ UNCHANGED <<log, pruned, versions, up, job>>
      /\ ~ up /\ file' = [state |-> "broken", man |-> NewManifest]
  BY DEF ManifestBreaks, memory
<1>3. DiskInv' /\ FileInv'
  BY <1>1, <1>2, DiskSame DEF FileInv
<1>4. ~ Live /\ ~ Live' /\ job' = Idle
  BY <1>1, <1>2 DEF Live, JobInv
<1> QED
  BY <1>3, <1>4 DEF Sound, LiveInv, ViewInv, JobInv

\* The sequence l without what is after a, up to b.
Rest(l, a, b) == SubSeq(l, 1, a) \o SubSeq(l, b + 1, Len(l))

\* What is left of the log after a power failure: its first events, and some of
\* those that were not synced, in their order.
LEMMA CutLog ==
  ASSUME LogOk(log), NEW a \in Nat, NEW b \in Nat, a <= b, b <= Len(log),
         log' = Rest(log, a, b)
  PROVE  /\ LogOk(log') /\ a <= Len(log') /\ Len(log') \in Nat
         /\ \A n \in 1 .. a : log'[n] = log[n]
         /\ \A n \in 1 .. Len(log') : a < n => n + (b - a) \in 1 .. Len(log) /\
              log'[n] = log[n + (b - a)]
<1>1. /\ log \in Seq(Events) /\ Len(log) \in Nat /\ Len(log) <= MaxEvents /\ MaxEvents \in Nat
      /\ a <= b /\ b <= Len(log)
  BY LogRange, StoreAssumption DEF LogOk
<1> DEFINE front == SubSeq(log, 1, a)
           back == SubSeq(log, b + 1, Len(log))
<1>2. front \in Seq(Events) /\ Len(front) = a /\ \A n \in 1 .. a : front[n] = log[n]
  BY <1>1
<1>3. /\ back \in Seq(Events) /\ Len(back) = Len(log) - b
      /\ \A n \in 1 .. Len(log) - b : back[n] = log[n + b]
  <2>1. b + 1 \in 1 .. Len(log) + 1
    BY <1>1
  <2>2. \A n \in (b + 1) .. Len(log) : n \in 1 .. Len(log) /\ log[n] \in Events
    BY <1>1
  <2> QED
    BY <1>1, <2>1, <2>2
<1> HIDE DEF front, back
<1>4. /\ log' \in Seq(Events) /\ Len(log') = a + (Len(log) - b)
      /\ \A n \in 1 .. a : log'[n] = front[n]
      /\ \A n \in 1 .. Len(log') : a < n => log'[n] = back[n - a]
  <2>1. log' = front \o back
    BY DEF front, back, Rest
  <2>2. /\ log' \in Seq(Events) /\ Len(log') = Len(front) + Len(back)
        /\ \A i \in 1 .. Len(front) + Len(back) :
             log'[i] = IF i <= Len(front) THEN front[i] ELSE back[i - Len(front)]
    <3>1. front \in Seq(Events) /\ back \in Seq(Events)
      BY <1>2, <1>3
    <3> QED
      BY <2>1, <3>1, ConcatProperties
  <2>3. a \in Nat /\ Len(log) - b \in Nat
    BY <1>1
  <2>4. Len(log') = a + (Len(log) - b)
    BY <1>2, <1>3, <2>2
  <2>5. \A i \in 1 .. a + (Len(log) - b) : log'[i] = IF i <= a THEN front[i] ELSE back[i - a]
    BY <1>2, <1>3, <2>2
  <2>6. \A n \in 1 .. a : n \in 1 .. a + (Len(log) - b) /\ n <= a
    BY <2>3
  <2>7. \A n \in 1 .. a : log'[n] = front[n]
    BY <2>5, <2>6
  <2>8. \A n \in 1 .. a + (Len(log) - b) : a < n => ~ (n <= a)
    BY <2>3
  <2>9. \A n \in 1 .. Len(log') : a < n => log'[n] = back[n - a]
    BY <2>4, <2>5, <2>8
  <2> QED
    BY <2>2, <2>4, <2>7, <2>9
<1>5. Len(log') \in Nat /\ Len(log') <= Len(log) /\ a <= Len(log')
  BY <1>1, <1>4
<1>6. \A n \in 1 .. a : log'[n] = log[n]
  BY <1>2, <1>4
<1>7. ASSUME NEW n \in 1 .. Len(log'), a < n
      PROVE  n + (b - a) \in 1 .. Len(log) /\ log'[n] = log[n + (b - a)]
  <2>1. n - a \in 1 .. Len(log) - b /\ (n - a) + b = n + (b - a) /\ n + (b - a) \in 1 .. Len(log)
    BY <1>1, <1>4, <1>7
  <2> QED
    BY <1>3, <1>4, <1>7, <2>1
<1> DEFINE From(n) == IF n <= a THEN n ELSE n + (b - a)
<1>8. \A n \in 1 .. Len(log') : From(n) \in 1 .. Len(log) /\ log'[n] = log[From(n)]
  BY <1>1, <1>4, <1>6, <1>7
<1>9. \A j, k \in 1 .. Len(log') : /\ j <= k => From(j) <= From(k)
                                   /\ j < k => From(j) < From(k)
  BY <1>1, <1>4
<1> HIDE DEF From
<1>10. ASSUME NEW j \in 1 .. Len(log'), NEW k \in 1 .. Len(log'), j <= k
       PROVE  log'[j].month <= log'[k].month
  <2>1. From(j) \in 1 .. Len(log) /\ From(k) \in 1 .. Len(log) /\ From(j) <= From(k)
    BY <1>8, <1>9, <1>10
  <2>2. log[From(j)].month <= log[From(k)].month
    BY <2>1 DEF LogOk
  <2> QED
    BY <1>8, <2>2
<1>11. ASSUME NEW j \in 1 .. Len(log'), NEW k \in 1 .. Len(log'), j < k
       PROVE  ~ (log'[k].op = "create" /\ log'[j].id = log'[k].id)
  <2>1. From(j) \in 1 .. Len(log) /\ From(k) \in 1 .. Len(log) /\ From(j) < From(k)
    BY <1>8, <1>9, <1>11
  <2>2. ~ (log[From(k)].op = "create" /\ log[From(j)].id = log[From(k)].id)
    BY <2>1 DEF LogOk
  <2> QED
    BY <1>8, <2>2
<1>12. Len(log') <= MaxEvents
  BY <1>1, <1>5
<1>13. LogOk(log')
  BY <1>4, <1>10, <1>11, <1>12 DEF LogOk
<1> QED
  BY <1>5, <1>6, <1>7, <1>13

\* What a power failure does.
LEMMA CutFacts ==
  ASSUME Base, PowerFails
  PROVE  /\ Down /\ UNCHANGED <<pruned, synced, file, spoilt>>
         /\ LogOk(log) /\ LogOk(log') /\ Len(log) \in Nat /\ Len(log') \in Nat
         /\ synced \in Nat /\ synced <= Len(log) /\ synced <= Len(log')
         /\ \A n \in 1 .. synced : log'[n] = log[n]
         /\ \A p \in Nat : p <= synced /\ Unpruned(p) =>
              \A n \in 1 .. Len(log') : p < n => log'[n].month \notin pruned
         /\ DOMAIN versions' = DOMAIN versions /\ versions' \in [DOMAIN versions -> Version]
         /\ \A v \in DOMAIN versions :
              /\ versions'[v].recs = versions[v].recs /\ versions'[v].out = versions[v].out
              /\ versions'[v].folded = versions[v].folded
              /\ versions'[v].complete = versions[v].complete
<1>1. Typed
  BY DEF Base
<1>2. Down /\ UNCHANGED <<pruned, synced, file, spoilt>>
  BY DEF PowerFails
<1>3. /\ LogOk(log) /\ Len(log) \in Nat /\ synced \in 0 .. Len(log)
      /\ versions \in [DOMAIN versions -> Version]
  BY <1>1, LogRange DEF Typed
<1>4a. PICK a \in synced .. Len(log) :
         \E b \in a .. Len(log) : log' = SubSeq(log, 1, a) \o SubSeq(log, b + 1, Len(log))
  BY DEF PowerFails
<1>4. PICK b \in a .. Len(log) : log' = Rest(log, a, b)
  BY <1>4a DEF Rest
<1>5. /\ LogOk(log') /\ a <= Len(log') /\ Len(log') \in Nat
      /\ \A n \in 1 .. a : log'[n] = log[n]
      /\ \A n \in 1 .. Len(log') : a < n => n + (b - a) \in 1 .. Len(log) /\
           log'[n] = log[n + (b - a)]
  <2>1. a \in Nat /\ b \in Nat /\ a <= b /\ b <= Len(log)
    BY <1>3
  <2> QED
    BY <1>3, <1>4, <2>1, CutLog
<1>6. /\ a \in Nat /\ b \in Nat /\ synced <= a /\ a <= b /\ a <= Len(log) /\ synced <= Len(log')
      /\ synced \in Nat /\ synced <= Len(log)
  BY <1>3, <1>5
<1>7. \A n \in 1 .. synced : log'[n] = log[n]
  BY <1>5, <1>6
<1>8. ASSUME NEW p \in Nat, p <= synced, Unpruned(p), NEW n \in 1 .. Len(log'), p < n
      PROVE  log'[n].month \notin pruned
  <2>1. CASE n <= a
    <3>1. n \in 1 .. a /\ n \in 1 .. Len(log)
      BY <1>3, <1>5, <1>6, <2>1
    <3> QED
      BY <1>5, <1>8, <3>1 DEF Unpruned
  <2>2. CASE a < n
    <3>1. n + (b - a) \in 1 .. Len(log) /\ log'[n] = log[n + (b - a)]
      BY <1>5, <2>2
    <3>2. p < n + (b - a)
      BY <1>5, <1>6, <1>8
    <3> QED
      BY <1>8, <3>1, <3>2 DEF Unpruned
  <2> QED
    BY <1>5, <1>6, <2>1, <2>2
<1>9. /\ DOMAIN versions' = DOMAIN versions /\ versions' \in [DOMAIN versions -> Version]
      /\ \A v \in DOMAIN versions :
           /\ versions'[v].recs = versions[v].recs /\ versions'[v].out = versions[v].out
           /\ versions'[v].folded = versions[v].folded
           /\ versions'[v].complete = versions[v].complete
  <2>1. CASE UNCHANGED versions
    BY <1>3, <2>1
  <2>2. ASSUME NEW files \in {"short", "torn"}, NEW w,
               versions' = [versions EXCEPT ![w].files = files]
        PROVE  /\ DOMAIN versions' = DOMAIN versions /\ versions' \in [DOMAIN versions -> Version]
               /\ \A v \in DOMAIN versions :
                    /\ versions'[v].recs = versions[v].recs /\ versions'[v].out = versions[v].out
                    /\ versions'[v].folded = versions[v].folded
                    /\ versions'[v].complete = versions[v].complete
    <3>1. DOMAIN versions' = DOMAIN versions /\ versions' = [v \in DOMAIN versions |-> versions'[v]]
      BY <1>3, <2>2
    <3>2. ASSUME NEW v \in DOMAIN versions
          PROVE  /\ versions'[v] \in Version
                 /\ versions'[v].recs = versions[v].recs /\ versions'[v].out = versions[v].out
                 /\ versions'[v].folded = versions[v].folded
                 /\ versions'[v].complete = versions[v].complete
      <4>1. versions[v] \in Version
        BY <1>3
      <4>2. versions'[v] = versions[v] \/ versions'[v] = [versions[v] EXCEPT !.files = files]
        BY <1>3, <2>2
      <4>3. files \in {"whole", "short", "torn"}
        OBVIOUS
      <4> QED
        BY <4>1, <4>2, <4>3 DEF Version
    <3> QED
      BY <3>1, <3>2
  <2>3. \/ UNCHANGED versions
        \/ \E files \in {"short", "torn"} :
             versions' = [versions EXCEPT ![Max(Complete)].files = files]
    BY DEF PowerFails
  <2> QED
    BY <2>1, <2>2, <2>3
<1> QED
  BY <1>2, <1>3, <1>5, <1>6, <1>7, <1>8, <1>9

LEMMA PowerFailsBase ==
  ASSUME Base, PowerFails
  PROVE  Base'
<1>1. Typed /\ Bounds
  BY DEF Base
<1>2. /\ Down /\ UNCHANGED <<pruned, synced, file, spoilt>>
      /\ LogOk(log') /\ Len(log') \in Nat
      /\ synced \in Nat /\ synced <= Len(log')
      /\ \A n \in 1 .. synced : log'[n] = log[n]
      /\ DOMAIN versions' = DOMAIN versions /\ versions' \in [DOMAIN versions -> Version]
      /\ \A v \in DOMAIN versions : versions'[v].folded = versions[v].folded
  BY CutFacts
<1>3. Typed'
  <2>1. unheard' \in SUBSET (1 .. Len(log')) /\ PartOf(late, log)' /\ synced' \in 0 .. Len(log')
    BY <1>2, DownFacts, NoEventsPart
  <2> QED
    BY <1>1, <1>2, <2>1, DownFacts DEF Typed
<1>4. Bounds'
  <2>1. \A m \in pruned : \E n \in 1 .. synced : m < log'[n].month
    BY <1>1, <1>2 DEF Bounds
  <2>2. man'.folded <= synced
    BY <1>2, DownFacts
  <2> QED
    BY <1>1, <1>2, <2>1, <2>2, DownFacts DEF Bounds
<1> QED
  BY <1>2, <1>3, <1>4, DownFacts DEF Base

LEMMA PowerFailsSound ==
  ASSUME Base, Sound, PowerFails
  PROVE  Sound'
<1>1. Typed /\ Bounds /\ DiskInv /\ FileInv
  BY DEF Base, Sound
<1>2. /\ Down /\ UNCHANGED <<pruned, synced, file>>
      /\ LogOk(log) /\ LogOk(log') /\ Len(log) \in Nat /\ Len(log') \in Nat
      /\ synced \in Nat /\ synced <= Len(log) /\ synced <= Len(log')
      /\ \A n \in 1 .. synced : log'[n] = log[n]
      /\ \A p \in Nat : p <= synced /\ Unpruned(p) =>
           \A n \in 1 .. Len(log') : p < n => log'[n].month \notin pruned
      /\ DOMAIN versions' = DOMAIN versions
      /\ \A v \in DOMAIN versions :
           /\ versions'[v].recs = versions[v].recs /\ versions'[v].out = versions[v].out
           /\ versions'[v].folded = versions[v].folded
           /\ versions'[v].complete = versions[v].complete
  BY CutFacts
<1>3. DiskInv'
  <2>1. ASSUME NEW v \in DOMAIN versions
        PROVE  /\ Follows(versions[v].recs, log', versions[v].folded, Gone(v), {})
               /\ versions[v].complete =>
                    \A n \in 1 .. Len(log') : versions[v].folded < n => log'[n].month \notin pruned
    <3>1. /\ versions[v].folded \in Nat /\ versions[v].folded <= synced
          /\ Follows(versions[v].recs, log, versions[v].folded, Gone(v), {})
          /\ versions[v].complete => Unpruned(versions[v].folded)
      BY <1>1 DEF DiskInv, Bounds, Typed, Version
    <3>2. /\ versions[v].folded <= Len(log) /\ versions[v].folded <= Len(log')
          /\ \A n \in 1 .. versions[v].folded : log[n] = log'[n]
      BY <1>2, <3>1
    <3>3. Follows(versions[v].recs, log', versions[v].folded, Gone(v), {})
      BY <1>2, <3>1, <3>2, FollowsPrefix
    <3> QED
      BY <1>2, <3>1, <3>3
  <2>2. \A v \in DOMAIN versions : Gone(v)' = Gone(v)
    BY <1>2 DEF Gone, LeftOut
  <2> QED
    BY <1>1, <1>2, <2>1, <2>2 DEF DiskInv, Unpruned
<1>4. FileInv'
  <2>1. file.man \in Manifest /\ file.man.folded <= synced
    BY <1>1 DEF Typed, File, Bounds
  <2>2. ASSUME ManifestOk(file.man) PROVE ManifestOk(file.man)'
    <3>1. file.man.folded \in Nat /\ Unpruned(file.man.folded)
      BY <2>1, <2>2 DEF ManifestOk, Manifest
    <3>2. \A n \in 1 .. Len(log') : file.man.folded < n => log'[n].month \notin pruned
      BY <1>2, <2>1, <3>1
    <3> QED
      BY <1>2, <2>2, <3>2 DEF ManifestOk, Unpruned
  <2> QED
    BY <1>1, <1>2, <2>2 DEF FileInv
<1> QED
  BY <1>2, <1>3, <1>4, DownFacts DEF Sound


-----------------------------------------------------------------------------
\* A start.

\* The newest valid version.
LEMMA NewestIs ==
  ASSUME Typed
  PROVE  Newest(Valid) = 0 \/ Newest(Valid) \in Valid
<1>1. CASE Valid = {}
  BY <1>1 DEF Newest
<1>2. CASE Valid # {}
  <2>1. Valid \subseteq 1 .. MaxVersions /\ MaxVersions \in Nat
    BY StoreAssumption DEF Typed, Valid, Complete
  <2>2. Valid \in SUBSET Nat /\ \A v \in Valid : v <= MaxVersions
    BY <2>1
  <2>3. Max(Valid) \in Valid
    BY <1>2, <2>1, <2>2, MaxIs
  <2> QED
    BY <1>2, <2>3 DEF Newest
<1> QED
  BY <1>1, <1>2

\* What a start can come to: it raises, it is readonly, it finds an empty store or
\* the version of the manifest, or it adopts another one.
LEMMA LoadedIs ==
  ASSUME Typed
  PROVE  \E m \in {file.man, NewManifest} :
           \/ Loaded = Raised(m)
           \/ Loaded = Outcome(m, TRUE, {})
           \/ /\ Loaded = Outcome(m, FALSE, {}) /\ m = NewManifest
              /\ file.state # "good" /\ DOMAIN versions = {}
           \/ /\ Loaded = Outcome(m, FALSE, {}) /\ m = file.man
              /\ file.state = "good" /\ m.active \in Valid \cup {0}
           \/ \E v \in Valid : \E trash :
                v \notin trash /\ Loaded = Outcome(Adopted(m, v), FALSE, trash)
<1> DEFINE v == Newest(Valid)
<1>1. v = 0 \/ v \in Valid
  BY NewestIs
<1>2. CASE file.state # "good"
  <2>1. Loaded = Recovered
    BY <1>2 DEF Loaded
  <2> DEFINE trash == (DOMAIN versions \ Complete) \cup {w \in Complete : w > v}
  <2>2. \/ DOMAIN versions = {} /\ Loaded = Outcome(NewManifest, FALSE, {})
        \/ Loaded = Raised(NewManifest)
        \/ Loaded = Outcome(NewManifest, TRUE, {})
        \/ v # 0 /\ Loaded = Outcome(Adopted(NewManifest, v), FALSE, trash)
    BY <2>1 DEF Recovered
  <2>3. v # 0 => v \in Valid /\ v \notin trash
    <3>1. v \in Valid => v \in Complete /\ v \in Nat /\ ~ (v > v)
      BY DEF Typed, Valid, Complete
    <3> QED
      BY <1>1, <3>1
  <2> HIDE DEF v, trash
  <2> QED
    BY <1>2, <2>2, <2>3
<1>3. CASE file.state = "good" /\ file.man.active \in Valid \cup {0}
  <2>1. file.man.active \notin Torn
    BY <1>3 DEF Typed, Valid, Torn, Complete
  <2>2. Loaded = Outcome(file.man, FALSE, {})
    BY <1>3, <2>1 DEF Loaded
  <2> QED
    BY <1>3, <2>2
<1>4. CASE file.state = "good" /\ file.man.active \notin Valid \cup {0}
  <2>1. Loaded = Raised(file.man) \/ Loaded = FellBack
    BY <1>4 DEF Loaded
  <2> DEFINE trash == {file.man.active} \cup {w \in Complete : w > v}
  <2>2. \/ Loaded = Raised(file.man)
        \/ Loaded = Outcome(file.man, TRUE, {})
        \/ v # 0 /\ Loaded = Outcome(Adopted(file.man, v), FALSE, trash)
    BY <2>1 DEF FellBack
  <2>3. v # 0 => v \in Valid /\ v \notin trash
    <3>1. v \in Valid => v \in Nat /\ ~ (v > v)
      BY DEF Typed, Valid, Complete
    <3> QED
      BY <1>1, <1>4, <3>1
  <2> HIDE DEF v, trash
  <2> QED
    BY <2>2, <2>3
<1> QED
  BY <1>2, <1>3, <1>4

\* A manifest that adopts a version has a name that is free.
LEMMA AdoptedIs ==
  ASSUME Base, NEW m \in Manifest, NEW v \in Valid
  PROVE  /\ Adopted(m, v) \in Manifest /\ Adopted(m, v).active = v
         /\ v \in DOMAIN versions /\ v \in 1 .. MaxVersions
         /\ Adopted(m, v).folded = versions[v].folded /\ Adopted(m, v).folded <= synced
         /\ \A w \in DOMAIN versions : w < Adopted(m, v).next
<1> DEFINE S == {m.next} \cup {w + 1 : w \in DOMAIN versions}
<1>1. /\ DOMAIN versions \subseteq 1 .. MaxVersions /\ MaxVersions \in Nat
      /\ v \in DOMAIN versions /\ versions[v] \in Version /\ versions[v].folded <= synced
      /\ m.next \in Nat \ {0}
  BY StoreAssumption DEF Base, Typed, Bounds, Valid, Complete, Manifest
<1>2. S \in SUBSET Nat /\ S # {} /\ \A x \in S : x <= m.next + MaxVersions + 1
  BY <1>1
<1>3. m.next + MaxVersions + 1 \in Nat
  BY <1>1
<1>4. Max(S) \in S /\ \A x \in S : x <= Max(S)
  BY <1>2, <1>3, MaxIs
<1>5. Max(S) \in Nat \ {0} /\ \A w \in DOMAIN versions : w < Max(S)
  <2>1. m.next \in S /\ \A w \in DOMAIN versions : w + 1 \in S
    OBVIOUS
  <2> DEFINE top == Max(S)
  <2>2. top \in Nat /\ m.next <= top /\ \A w \in DOMAIN versions : w + 1 <= top
    BY <1>2, <1>4, <2>1
  <2>3. \A w \in DOMAIN versions : w \in Nat
    BY <1>1
  <2> HIDE DEF S, top
  <2>4. top # 0
    BY <1>1, <2>2
  <2>5. \A w \in DOMAIN versions : w < top
    BY <2>2, <2>3
  <2>6. top \in Nat \ {0}
    BY <2>2, <2>4
  <2> QED
    BY <2>5, <2>6 DEF top
<1>6. /\ Adopted(m, v).active = v /\ Adopted(m, v).folded = versions[v].folded
      /\ Adopted(m, v).next = Max(S)
      /\ Adopted(m, v) = [active |-> v, folded |-> versions[v].folded, next |-> Max(S)]
  BY DEF Adopted
<1> HIDE DEF S
<1>7. versions[v].folded \in Nat /\ v \in 0 .. MaxVersions /\ v \in 1 .. MaxVersions
  BY <1>1 DEF Version
<1>8. Adopted(m, v) \in Manifest
  BY <1>5, <1>6, <1>7 DEF Manifest
<1> QED
  BY <1>1, <1>5, <1>6, <1>7, <1>8

\* Whatever a start finds, its manifest has not gone beyond what is synced.
LEMMA LoadedTyped ==
  ASSUME Base
  PROVE  /\ Loaded.man \in Manifest /\ Loaded.man.folded <= synced
         /\ Loaded.readonly \in BOOLEAN /\ Loaded.halfway \in BOOLEAN
<1>1. /\ file.man \in Manifest /\ NewManifest \in Manifest
      /\ file.man.folded <= synced /\ NewManifest.folded <= synced
  BY StoreAssumption DEF Base, Typed, Bounds, File, NewManifest, Manifest
<1>2. PICK m \in {file.man, NewManifest} :
        \/ Loaded = Raised(m)
        \/ Loaded = Outcome(m, TRUE, {})
        \/ Loaded = Outcome(m, FALSE, {})
        \/ \E v \in Valid : \E trash : Loaded = Outcome(Adopted(m, v), FALSE, trash)
  BY LoadedIs DEF Base
<1>3. \A v \in Valid : Adopted(m, v) \in Manifest /\ Adopted(m, v).folded <= synced
  BY <1>1, AdoptedIs
<1>4. ASSUME NEW found \in Manifest, found.folded <= synced, NEW ro \in BOOLEAN, NEW trash,
             Loaded = Outcome(found, ro, trash) \/ Loaded = Raised(found)
      PROVE  /\ Loaded.man \in Manifest /\ Loaded.man.folded <= synced
             /\ Loaded.readonly \in BOOLEAN /\ Loaded.halfway \in BOOLEAN
  <2>1. /\ Outcome(found, ro, trash).man = found /\ Outcome(found, ro, trash).readonly = ro
        /\ Outcome(found, ro, trash).halfway = FALSE
    BY DEF Outcome
  <2>2. /\ Raised(found).man = found /\ Raised(found).readonly = FALSE
        /\ Raised(found).halfway = TRUE
    BY DEF Raised, Outcome
  <2> QED
    BY <1>4, <2>1, <2>2
<1> QED
  BY <1>1, <1>2, <1>3, <1>4

\* A manifest that fits the disk, with a version that is read.
Fits(to) ==
  /\ DOMAIN versions # {} => DOMAIN versions \ to.trash # {}
  /\ ~ to.readonly /\ ~ to.halfway =>
       /\ ManifestOk(to.man) /\ to.man.active \in Valid \cup {0}
       /\ to.man.active \notin to.trash \/ to.man.active = 0
       /\ FoldedOf(to.man.active) = to.man.folded

\* A start ends on a manifest that fits the disk, unless it is readonly or raises.
LEMMA LoadedFits ==
  ASSUME Base, DiskInv, FileInv
  PROVE  Fits(Loaded)
<1>1. /\ file.man \in Manifest /\ NewManifest \in Manifest
      /\ DOMAIN versions \subseteq 1 .. MaxVersions
  BY StoreAssumption DEF Base, Typed, File, NewManifest, Manifest
<1>2. 0 \notin DOMAIN versions /\ FoldedOf(0) = 0
  BY <1>1 DEF FoldedOf
<1>3. PICK m \in {file.man, NewManifest} :
        \/ Loaded = Raised(m)
        \/ Loaded = Outcome(m, TRUE, {})
        \/ /\ Loaded = Outcome(m, FALSE, {}) /\ m = NewManifest
           /\ file.state # "good" /\ DOMAIN versions = {}
        \/ /\ Loaded = Outcome(m, FALSE, {}) /\ m = file.man
           /\ file.state = "good" /\ m.active \in Valid \cup {0}
        \/ \E v \in Valid : \E trash :
             v \notin trash /\ Loaded = Outcome(Adopted(m, v), FALSE, trash)
  BY LoadedIs DEF Base
<1>4. CASE Loaded = Raised(m) \/ Loaded = Outcome(m, TRUE, {})
  BY <1>4 DEF Raised, Outcome, Fits
<1>5. CASE Loaded = Outcome(NewManifest, FALSE, {}) /\ file.state # "good" /\ DOMAIN versions = {}
  <2>1. pruned = {}
    BY <1>5 DEF DiskInv
  <2>2. ManifestOk(NewManifest) /\ NewManifest.active = 0 /\ NewManifest.folded = 0
    BY <1>5, <2>1 DEF ManifestOk, NewManifest, Unpruned
  <2> QED
    BY <1>2, <1>5, <2>2 DEF Outcome, Fits
<1>6. CASE /\ Loaded = Outcome(file.man, FALSE, {})
           /\ file.state = "good" /\ file.man.active \in Valid \cup {0}
  <2>1. ManifestOk(file.man)
    BY <1>6 DEF FileInv
  <2>2. FoldedOf(file.man.active) = file.man.folded
    BY <1>2, <1>6, <2>1 DEF ManifestOk, FoldedOf, Valid, Complete
  <2> QED
    BY <1>6, <2>1, <2>2 DEF Outcome, Fits
<1>7. ASSUME NEW v \in Valid, NEW trash, v \notin trash,
             Loaded = Outcome(Adopted(m, v), FALSE, trash)
      PROVE  Fits(Loaded)
  <2>1. /\ Adopted(m, v).active = v /\ v \in DOMAIN versions /\ v \in 1 .. MaxVersions
        /\ Adopted(m, v).folded = versions[v].folded
        /\ \A w \in DOMAIN versions : w < Adopted(m, v).next
    BY <1>1, AdoptedIs
  <2>2. Unpruned(versions[v].folded)
    BY DEF DiskInv, Valid, Complete
  <2>3. ManifestOk(Adopted(m, v)) /\ FoldedOf(v) = Adopted(m, v).folded
    <3>1. v # 0
      BY <2>1
    <3> QED
      BY <2>1, <2>2, <3>1 DEF ManifestOk, FoldedOf
  <2>4. Loaded.man = Adopted(m, v) /\ Loaded.trash = trash
    BY <1>7 DEF Outcome
  <2> QED
    BY <1>7, <2>1, <2>3, <2>4 DEF Fits
<1> QED
  BY <1>3, <1>4, <1>5, <1>6, <1>7

\* What every start does, whether it reads the whole store or not.
LEMMA StartFacts ==
  ASSUME Base, Start
  PROVE  /\ UNCHANGED <<log, pruned, synced, spoilt>> /\ up' = TRUE /\ job' = Idle
         /\ unheard' = {} /\ slipped' = FALSE /\ halfway' = Loaded.halfway
         /\ man' = Loaded.man /\ snap' = Loaded.man.active /\ readonly' = Loaded.readonly
         /\ man' \in Manifest /\ man'.folded \in Nat /\ man'.folded <= synced
         /\ snap' \in 0 .. MaxVersions /\ readonly' \in BOOLEAN /\ halfway' \in BOOLEAN
         /\ LogOk(log) /\ Len(log) \in Nat /\ synced \in 0 .. Len(log)
         /\ DOMAIN versions' = DOMAIN versions \ Loaded.trash
         /\ \A v \in DOMAIN versions' : versions'[v] = versions[v]
         /\ versions' \in [DOMAIN versions' -> Version]
         /\ DOMAIN versions' \subseteq 1 .. MaxVersions
         /\ file'.man = file.man /\ (file'.state = "good" <=> file.state = "good")
         /\ file' \in File /\ PartOf(late', log) /\ Bounds'
<1>1. /\ UNCHANGED <<log, pruned, synced, spoilt>> /\ up' = TRUE /\ job' = Idle
      /\ late' = NoEvents /\ unheard' = {} /\ slipped' = FALSE /\ halfway' = Loaded.halfway
      /\ man' = Loaded.man /\ snap' = Loaded.man.active /\ readonly' = Loaded.readonly
      /\ versions' = Without(versions, Loaded.trash)
      /\ file' = [file EXCEPT !.state = IF @ = "broken" THEN "absent" ELSE @]
  BY DEF Start
<1>2. Typed /\ Bounds
  BY DEF Base
<1>3. /\ LogOk(log) /\ Len(log) \in Nat /\ synced \in 0 .. Len(log)
      /\ versions \in [DOMAIN versions -> Version] /\ DOMAIN versions \subseteq 1 .. MaxVersions
      /\ file \in File
  BY <1>2, LogRange DEF Typed
<1>4. /\ man' \in Manifest /\ man'.folded <= synced /\ readonly' \in BOOLEAN
      /\ halfway' \in BOOLEAN
  BY <1>1, LoadedTyped
<1>5. man'.folded \in Nat /\ snap' \in 0 .. MaxVersions
  BY <1>1, <1>4 DEF Manifest
<1>6. /\ DOMAIN versions' = DOMAIN versions \ Loaded.trash
      /\ \A v \in DOMAIN versions' : versions'[v] = versions[v]
      /\ versions' \in [DOMAIN versions' -> Version]
  BY <1>1, <1>3 DEF Without
<1>7. /\ file'.man = file.man /\ (file'.state = "good" <=> file.state = "good") /\ file' \in File
  BY <1>1, <1>3 DEF File
<1>8. Bounds'
  BY <1>1, <1>2, <1>4, <1>6, <1>7 DEF Bounds
<1> QED
  BY <1>1, <1>3, <1>4, <1>5, <1>6, <1>7, <1>8, NoEventsPart

\* The disk after a start.
LEMMA StartSound ==
  ASSUME Base, Sound, Start
  PROVE  DiskInv' /\ FileInv' /\ JobInv' /\ \A m : ManifestOk(m) => ManifestOk(m)'
<1>1. DiskInv /\ FileInv /\ Fits(Loaded)
  BY LoadedFits DEF Sound
<1>2. /\ UNCHANGED <<log, pruned>> /\ job' = Idle
      /\ DOMAIN versions' = DOMAIN versions \ Loaded.trash
      /\ \A v \in DOMAIN versions' : versions'[v] = versions[v]
      /\ file'.man = file.man /\ (file'.state = "good" <=> file.state = "good")
  BY StartFacts
<1>3. DiskInv'
  <2>1. ASSUME NEW v \in DOMAIN versions'
        PROVE  /\ Follows(versions'[v].recs, log, versions'[v].folded, Gone(v)', {})
               /\ versions'[v].complete => Unpruned(versions'[v].folded)
    <3>1. v \in DOMAIN versions /\ Gone(v)' = Gone(v)
      BY <1>2 DEF Gone, LeftOut
    <3> QED
      BY <1>1, <1>2, <3>1 DEF DiskInv
  <2>2. \A v, w \in DOMAIN versions' : v <= w => versions'[v].folded <= versions'[w].folded
    BY <1>1, <1>2 DEF DiskInv
  <2>3. pruned # {} => DOMAIN versions' # {}
    BY <1>1, <1>2 DEF DiskInv, Fits
  <2> QED
    BY <1>2, <2>1, <2>2, <2>3 DEF DiskInv, Unpruned
<1>4. \A m : ManifestOk(m) => ManifestOk(m)'
  BY <1>2 DEF ManifestOk, Unpruned
<1>5. FileInv'
  BY <1>1, <1>2, <1>4 DEF FileInv, ManifestOk, Unpruned
<1> QED
  BY <1>2, <1>3, <1>4, <1>5 DEF JobInv

\* A number of events is a number.
LEMMA BetweenSize ==
  ASSUME LogOk(log), NEW p \in Nat, NEW q \in Nat, q <= Len(log)
  PROVE  Size(Between(p, q)) \in Nat
<1>1. PartOf(Between(p, q), log) /\ Len(log) \in Nat
  <2>1. Len(log) \in Nat
    BY LogRange
  <2> QED
    BY <2>1, BetweenIsPart
<1>2. DOMAIN Between(p, q) \subseteq 1 .. Len(log)
  BY <1>1 DEF PartOf
<1>3. IsFiniteSet(1 .. Len(log))
  BY <1>1, FS_Interval
<1>4. IsFiniteSet(DOMAIN Between(p, q))
  BY <1>2, <1>3, FS_Subset
<1> QED
  BY <1>4, FS_CardinalityType DEF Size

\* What a load makes of the version it reads and the events after it.
LEMMA LoadFacts ==
  ASSUME Base, Load
  PROVE  LET rest == Between(man'.folded, Len(log))
         IN  /\ overlay' \in Records /\ count' = Size(rest) /\ count' \in Nat
             /\ Over(overlay', RecordsOf(snap')) = Fold(RecordsOf(snap'), rest)
<1> DEFINE base == RecordsOf(snap')
           rest == Between(man'.folded, Len(log))
<1>1. man'.folded \in Nat /\ LogOk(log) /\ Len(log) \in Nat /\ Len(log) <= Len(log)
  BY StartFacts DEF Load
<1>2. overlay' = Laid(base, NoRecords, rest) /\ count' = Size(rest)
  BY DEF Load
<1>3. base \in Records
  BY ViewRecords DEF Base
<1>4. EventsOk(rest)
  BY <1>1, BetweenIsPart, PartEvents
<1>5. count' \in Nat
  BY <1>1, <1>2, BetweenSize
<1> HIDE DEF base, rest
<1>6. overlay' \in Records /\ Over(overlay', base) = Fold(base, rest)
  BY <1>2, <1>3, <1>4, LaidIs, NothingRecorded, OverNothing
<1> QED
  BY <1>2, <1>5, <1>6 DEF base, rest

LEMMA LoadBase ==
  ASSUME Base, Load
  PROVE  Base'
<1>1. Typed
  BY DEF Base
<1>2. /\ UNCHANGED <<log, pruned, synced, spoilt>> /\ up' = TRUE /\ job' = Idle
      /\ unheard' = {} /\ slipped' = FALSE
      /\ man' \in Manifest /\ snap' \in 0 .. MaxVersions
      /\ readonly' \in BOOLEAN /\ halfway' \in BOOLEAN
      /\ versions' \in [DOMAIN versions' -> Version] /\ DOMAIN versions' \subseteq 1 .. MaxVersions
      /\ file' \in File /\ PartOf(late', log) /\ Bounds'
  BY StartFacts DEF Load
<1>3. overlay' \in Records /\ count' = Size(Between(man'.folded, Len(log))) /\ count' \in Nat
  BY LoadFacts
<1>4. Typed'
  BY <1>1, <1>2, <1>3, IdleJob DEF Typed
<1>5. CountInv'
  <2>1. Between(man.folded, Len(log))' = Between(man'.folded, Len(log))
    BY <1>2 DEF Between
  <2> QED
    BY <1>3, <2>1 DEF CountInv, Size
<1> QED
  BY <1>2, <1>4, <1>5 DEF Base

\* A start that reads the whole store builds the view from the version it finds and
\* the events after it.
LEMMA LoadSound ==
  ASSUME Base, Sound, Load
  PROVE  Sound'
<1>1. Typed /\ Bounds /\ DiskInv /\ Fits(Loaded)
  BY LoadedFits DEF Base, Sound
<1> DEFINE base == RecordsOf(snap')
           rest == Between(man'.folded, Len(log))
<1>2. /\ UNCHANGED <<log, pruned>> /\ unheard' = {} /\ halfway' = Loaded.halfway
      /\ man' = Loaded.man /\ snap' = Loaded.man.active /\ readonly' = Loaded.readonly
      /\ man'.folded \in Nat /\ man'.folded <= synced
      /\ LogOk(log) /\ Len(log) \in Nat /\ synced \in 0 .. Len(log)
      /\ DOMAIN versions' = DOMAIN versions \ Loaded.trash
      /\ \A v \in DOMAIN versions' : versions'[v] = versions[v]
  BY StartFacts DEF Load
<1>3. DiskInv' /\ FileInv' /\ JobInv' /\ \A m : ManifestOk(m) => ManifestOk(m)'
  BY StartSound DEF Load
<1>4. Over(overlay', base) = Fold(base, rest)
  BY LoadFacts
<1>5. LiveInv' /\ ViewInv'
  <2> SUFFICES ASSUME Live' PROVE LiveInv' /\ ViewInv'
    BY DEF LiveInv, ViewInv
  <2>1. /\ ManifestOk(man') /\ snap' \in Valid \cup {0}
        /\ snap' \in DOMAIN versions => snap' \in DOMAIN versions'
        /\ FoldedOf(snap') = man'.folded
    <3>1. 0 \notin DOMAIN versions
      BY <1>1 DEF Typed
    <3> QED
      BY <1>1, <1>2, <3>1 DEF Fits, Live
  <2>2. snap' \in Valid' \cup {0} /\ man'.active = snap' /\ man'.active \in Complete' \cup {0}
    BY <1>2, <2>1 DEF Valid, Complete
  <2>3. /\ RecordsOf(snap)' = base /\ FoldedOf(snap)' = man'.folded /\ Gone(snap)' = Gone(snap')
    BY <1>2, <2>1 DEF RecordsOf, FoldedOf, Gone, LeftOut
  <2>4. ManifestOk(man)'
    BY <1>2, <1>3, <2>1 DEF ManifestOk, Unpruned
  <2>5. LiveInv'
    <3>1. man'.folded <= man'.folded
      BY <1>2
    <3> QED
      BY <2>2, <2>3, <2>4, <3>1 DEF LiveInv
  <2>6. View' = Fold(base, rest)
    <3> HIDE DEF base, rest
    <3> QED
      BY <1>4, <2>3 DEF View
  <2>7. Follows(Fold(base, rest), log, Len(log), Gone(snap'), {})
    <3>1. Readable(snap')
      BY <1>1, <2>1 DEF Readable, Valid, Typed
    <3>2. man'.folded <= FoldedOf(snap') /\ FoldedOf(snap') <= Len(log) /\ Len(log) <= Len(log)
      BY <1>2, <2>1
    <3>3. Unpruned(man'.folded)
      BY <2>1 DEF ManifestOk
    <3> QED
      BY <1>1, <1>2, <3>1, <3>2, <3>3, CatchUpBetween
  <2>8. Ids(unheard)' = {}
    BY <1>2 DEF Ids
  <2> HIDE DEF base, rest
  <2>9. ViewInv'
    BY <1>2, <2>3, <2>6, <2>7, <2>8 DEF ViewInv
  <2> QED
    BY <2>5, <2>9
<1> QED
  BY <1>3, <1>5 DEF Sound

LEMMA LoadRaisesBase ==
  ASSUME Base, LoadRaises
  PROVE  Base'
<1>1. Typed
  BY DEF Base
<1>2. /\ UNCHANGED <<log, pruned, synced, spoilt>> /\ up' = TRUE /\ job' = Idle
      /\ unheard' = {} /\ slipped' = FALSE
      /\ man' \in Manifest /\ snap' \in 0 .. MaxVersions
      /\ readonly' \in BOOLEAN /\ halfway' \in BOOLEAN /\ Len(log) \in Nat
      /\ versions' \in [DOMAIN versions' -> Version] /\ DOMAIN versions' \subseteq 1 .. MaxVersions
      /\ file' \in File /\ PartOf(late', log) /\ Bounds'
  BY StartFacts DEF LoadRaises
<1>3. overlay' \in Records /\ count' \in Nat /\ halfway'
  BY <1>2, NothingRecorded DEF LoadRaises
<1>4. Typed'
  BY <1>1, <1>2, <1>3, IdleJob DEF Typed
<1>5. CountInv'
  BY <1>3 DEF CountInv, Live
<1> QED
  BY <1>2, <1>4, <1>5 DEF Base

LEMMA LoadRaisesSound ==
  ASSUME Base, Sound, LoadRaises
  PROVE  Sound'
<1>1. DiskInv' /\ FileInv' /\ JobInv' /\ ~ Live'
  BY StartSound DEF LoadRaises, Live
<1> QED
  BY <1>1 DEF Sound, LiveInv, ViewInv

-----------------------------------------------------------------------------
\* The invariant.

\* An empty store.
LEMMA InitInv == Init => IInv
<1> SUFFICES ASSUME Init PROVE IInv
  OBVIOUS
<1>1. /\ log = <<>> /\ pruned = {} /\ synced = 0 /\ versions = NoRecords
      /\ file = [state |-> "absent", man |-> NewManifest] /\ up = TRUE /\ man = NewManifest
      /\ snap = 0 /\ overlay = NoRecords /\ count = 0 /\ readonly = FALSE /\ job = Idle
      /\ late = NoEvents /\ unheard = {} /\ halfway = FALSE /\ spoilt = FALSE /\ slipped = FALSE
  BY DEF Init
<1>2. LogOk(log) /\ Len(log) = 0
  BY <1>1, StoreAssumption DEF LogOk
<1>3. DOMAIN versions = {} /\ versions \in [{} -> Version]
  BY <1>1 DEF NoRecords
<1>4. NewManifest \in Manifest /\ NewManifest.folded = 0 /\ file \in File /\ file.man = NewManifest
  BY <1>1, StoreAssumption DEF NewManifest, Manifest, File
<1>5. Typed
  <2>1. snap \in 0 .. MaxVersions /\ count \in Nat /\ synced \in 0 .. Len(log)
    BY <1>1, <1>2, StoreAssumption
  <2> QED
    BY <1>1, <1>2, <1>3, <1>4, <2>1, NothingRecorded, NoEventsPart, IdleJob DEF Typed
<1>6. Bounds
  BY <1>1, <1>3, <1>4 DEF Bounds
<1>7. DiskInv /\ FileInv /\ JobInv
  BY <1>1, <1>3 DEF DiskInv, FileInv, JobInv
<1>8. Complete = {} /\ FoldedOf(snap) = 0 /\ RecordsOf(snap) = NoRecords
  BY <1>1, <1>3 DEF Complete, FoldedOf, RecordsOf
<1>9. LiveInv
  BY <1>1, <1>2, <1>3, <1>8 DEF LiveInv, ManifestOk, NewManifest, Unpruned
<1>10. ViewInv
  <2>1. View = NoRecords
    BY <1>1, <1>8, NothingRecorded, OverNothing DEF View
  <2>2. \A i, op : ~ Logged(log, Len(log), i, op)
    BY <1>2 DEF Logged
  <2> QED
    BY <1>1, <2>1, <2>2, NothingRecorded DEF ViewInv, Follows
<1>11. CountInv
  <2>1. DOMAIN Between(man.folded, Len(log)) = {}
    BY <1>1, <1>2 DEF Between, NewManifest
  <2>2. Cardinality({}) = 0
    BY FS_EmptySet
  <2> QED
    BY <1>1, <2>1, <2>2 DEF CountInv, Size
<1> QED
  BY <1>5, <1>6, <1>7, <1>9, <1>10, <1>11 DEF IInv, Base, Sound

\* A step that changes nothing.
LEMMA StutterInv ==
  ASSUME UNCHANGED vars
  PROVE  (Base => Base') /\ (Sound => Sound')
<1>1. UNCHANGED <<log, pruned, synced, versions, file, spoilt, up, man, snap, overlay, count,
                  readonly, halfway, job, late, unheard, slipped>>
  BY DEF vars, disk, memory
<1>2. (Typed => Typed') /\ (Bounds => Bounds') /\ (CountInv => CountInv')
  BY <1>1, CountSame DEF Typed, Bounds, Building, Complete
<1>3. (DiskInv => DiskInv') /\ (LiveInv => LiveInv') /\ (ViewInv => ViewInv')
  BY <1>1, DiskSame, LiveSame, ViewInvSame
<1>4. (FileInv => FileInv') /\ (JobInv => JobInv')
  BY <1>1 DEF FileInv, ManifestOk, Unpruned, JobInv, Live, Building
<1> QED
  BY <1>2, <1>3, <1>4 DEF Base, Sound

\* What is typed and bounded stays so, whatever was written.
LEMMA NextBase ==
  ASSUME Base, [Next]_vars
  PROVE  Base'
<1>1. CASE UNCHANGED vars
  BY <1>1, StutterInv
<1>2. CASE \E e \in Events : Write(e) \/ WriteFails(e)
  BY <1>2, WriteBase, WriteFailsBase
<1>3. CASE SaveManifest \/ Begin \/ Sync
  BY <1>3, SaveManifestBase, BeginBase, SyncBase
<1>4. CASE Build \/ WriteComplete \/ JobFails
  BY <1>4, BuildBase, WriteCompleteBase, JobFailsBase
<1>5. CASE Swap \/ SwapFails \/ SwapUnsaved
  BY <1>5, SwapBase, SwapFailsBase, SwapUnsavedBase
<1>6. CASE Kill \/ PowerFails \/ ManifestBreaks
  BY <1>6, KillBase, PowerFailsBase, ManifestBreaksBase
<1>7. CASE Load \/ LoadRaises
  BY <1>7, LoadBase, LoadRaisesBase
<1> QED
  BY <1>1, <1>2, <1>3, <1>4, <1>5, <1>6, <1>7 DEF Next

\* A sound store stays so until a half-read one is written.
LEMMA NextSound ==
  ASSUME Base, Sound, [Next]_vars, ~ spoilt'
  PROVE  Sound'
<1>1. CASE UNCHANGED vars
  BY <1>1, StutterInv
<1>2. CASE \E e \in Events : Write(e) \/ WriteFails(e)
  BY <1>2, WriteSound, WriteFailsSound
<1>3. CASE SaveManifest \/ Begin \/ Sync
  BY <1>3, SaveManifestSound, BeginSound, SyncSound
<1>4. CASE Build \/ WriteComplete \/ JobFails
  BY <1>4, BuildSound, WriteCompleteSound, JobFailsSound
<1>5. CASE Swap \/ SwapFails \/ SwapUnsaved
  BY <1>5, SwapSound, SwapFailsSound, SwapUnsavedSound
<1>6. CASE Kill \/ PowerFails \/ ManifestBreaks
  BY <1>6, KillSound, PowerFailsSound, ManifestBreaksSound
<1>7. CASE Load \/ LoadRaises
  BY <1>7, LoadSound, LoadRaisesSound
<1> QED
  BY <1>1, <1>2, <1>3, <1>4, <1>5, <1>6, <1>7 DEF Next

\* Once written by a half-read store, always so.
LEMMA SpoiltStays ==
  ASSUME [Next]_vars, spoilt, spoilt \in BOOLEAN
  PROVE  spoilt'
BY DEF Next, vars, disk, Write, WriteFails, SaveManifest, Begin, Sync, Build, WriteComplete,
       JobFails, SwapReader, Swap, SwapFails, SwapUnsaved, Kill, PowerFails, ManifestBreaks,
       Start, Load, LoadRaises

\* Every action keeps the invariant.
LEMMA NextInv ==
  ASSUME IInv, [Next]_vars
  PROVE  IInv'
<1>1. Base /\ Base'
  BY NextBase DEF IInv
<1>2. CASE spoilt
  BY <1>1, <1>2, SpoiltStays DEF IInv, Base, Typed
<1>3. CASE ~ spoilt
  BY <1>1, <1>3, NextSound DEF IInv
<1> QED
  BY <1>2, <1>3

\* The invariant always holds.
LEMMA Invariance == Spec => []IInv
<1>1. Init => IInv
  BY InitInv
<1>2. IInv /\ [Next]_vars => IInv'
  BY NextInv
<1> QED
  BY <1>1, <1>2, PTL DEF Spec

-----------------------------------------------------------------------------
\* The properties.

\* TypeOK, for every store.
THEOREM StoreTyped == Spec => []TypeOK
<1>1. ASSUME IInv PROVE TypeOK
  <2>1. Typed
    BY <1>1 DEF IInv, Base
  <2>2. DOMAIN log = 1 .. Len(log) /\ Len(log) \in Nat /\ Len(log) <= MaxEvents /\ MaxEvents \in Nat
    BY <2>1, LogRange, StoreAssumption DEF Typed
  <2>3. DOMAIN View \cup DOMAIN job.drop \subseteq Id
    BY <2>1, ViewRecords, RecordsAre DEF Typed, Job, Deads
  <2>4. DOMAIN versions \cup {snap, man.active} \subseteq 0 .. MaxVersions
    BY <2>1, StoreAssumption DEF Typed, Manifest
  <2>5. job.stage \in {"idle", "sync", "build", "complete", "swap"}
    BY <2>1 DEF Typed, Job
  <2>6. DOMAIN log \subseteq 1 .. MaxEvents
    BY <2>2
  <2> QED
    BY <2>1, <2>3, <2>4, <2>5, <2>6 DEF Typed, TypeOK
<1>2. IInv => TypeOK
  BY <1>1
<1> QED
  BY <1>2, Invariance, PTL

\* No position that a version or the manifest has recorded lies beyond what a
\* power cut leaves of the log (fsync_range before COMPLETE).
THEOREM FoldedStaysDurable == Spec => []FoldedIsDurable
<1>1. IInv => FoldedIsDurable
  BY DEF IInv, Base, Bounds, FoldedIsDurable, Complete
<1> QED
  BY <1>1, Invariance, PTL

\* A reader finds every record as the log has it, whatever version it stands on and
\* whatever crashes, recoveries and fallbacks have brought it there (_apply_events,
\* create_snapshot).  Excepted are records named by an event that was written and
\* not applied, and those that were left out of its version when the reader had them
\* as dead and not pinned; a later pin does not bring these back.  Nothing is said
\* of a store that load left half read, or that was written from there.
THEOREM ViewIsTheLog == Spec => []ViewIsTrue
<1>1. ASSUME IInv PROVE ViewIsTrue
  <2> SUFFICES ASSUME up, ~ readonly, ~ halfway, ~ spoilt
               PROVE  TrueUpTo(View, LeftOut(snap), Ids(unheard))
    BY DEF ViewIsTrue, Ids
  <2>1. Typed /\ Follows(View, log, Len(log), Gone(snap), Ids(unheard))
    BY <1>1 DEF IInv, Base, Sound, ViewInv, Live
  <2>2. LogOk(log) /\ View \in Records /\ LeftOut(snap) \in Deads
    BY <2>1, ViewRecords, OutDeads DEF Typed
  <2> QED
    BY <2>1, <2>2, FollowsTruth DEF Gone
<1>2. IInv => ViewIsTrue
  BY <1>1
<1> QED
  BY <1>2, Invariance, PTL

\* From every valid version on the disk, with the events that are left, the records
\* can be built again, but for those left out of that version, dead and not pinned,
\* as long as no half-read store was written (_prune_events, _fall_back_from).
THEOREM VersionsRebuild == Spec => []EveryVersionRebuilds
<1>1. ASSUME IInv, ~ spoilt, NEW v \in Valid
      PROVE  TrueUpTo(Fold(RecordsOf(v), Between(versions[v].folded, Len(log))), LeftOut(v), {})
  <2>1. Typed /\ Bounds /\ DiskInv
    BY <1>1 DEF IInv, Base, Sound
  <2>2. /\ LogOk(log) /\ Len(log) \in Nat /\ Len(log) <= Len(log) /\ synced \in 0 .. Len(log)
        /\ versions \in [DOMAIN versions -> Version]
    BY <2>1, LogRange DEF Typed
  <2>3. v \in DOMAIN versions /\ versions[v].complete /\ Readable(v)
    BY DEF Valid, Complete, Readable
  <2> DEFINE p == versions[v].folded
             rest == Between(p, Len(log))
  <2>4. p \in Nat /\ p = FoldedOf(v) /\ p <= p /\ p <= Len(log) /\ Unpruned(p)
    BY <2>1, <2>2, <2>3 DEF DiskInv, Bounds, Version, FoldedOf
  <2> HIDE DEF p
  <2>5. Follows(Fold(RecordsOf(v), rest), log, Len(log), Gone(v), {})
    BY <2>1, <2>2, <2>3, <2>4, CatchUpBetween
  <2>6. Fold(RecordsOf(v), rest) \in Records
    BY <2>1, <2>2, <2>4, FoldRecords
  <2> HIDE DEF rest
  <2>7. TrueUpTo(Fold(RecordsOf(v), rest), LeftOut(v), {})
    <3>1. LeftOut(v) \in Deads
      BY <2>1, OutDeads
    <3> QED
      BY <2>2, <2>5, <2>6, <3>1, FollowsTruth DEF Gone
  <2> QED
    BY <2>7 DEF rest, p
<1>2. IInv => EveryVersionRebuilds
  BY <1>1 DEF EveryVersionRebuilds
<1> QED
  BY <1>2, Invariance, PTL

\* events_since_snapshot is the number of events that the manifest's version
\* lacks, after any faults but an append that raised or a load that did.
THEOREM BacklogCounted == Spec => []CountExact
<1>1. IInv => CountExact
  BY DEF IInv, Base, CountInv, CountExact, Live
<1> QED
  BY <1>1, Invariance, PTL

-----------------------------------------------------------------------------
\* What a step never does.

\* The steps that change no version on the disk.
OtherSteps ==
  \/ \E e \in Events : Write(e) \/ WriteFails(e)
  \/ SaveManifest \/ Begin \/ Sync \/ JobFails \/ SwapFails \/ SwapUnsaved \/ Kill \/ ManifestBreaks

\* No other step touches a version.
LEMMA OthersWriteNothing ==
  ASSUME OtherSteps
  PROVE  versions' = versions
BY DEF OtherSteps, Write, WriteFails, SaveManifest, Begin, Sync, JobFails, SwapFails, SwapUnsaved,
       Kill, ManifestBreaks, disk

\* The files of a version never change once they are written: no name is given
\* out twice while its directory is there, complete or not, as long as no half-read
\* store was written (take_next_version, _bump_next_snapshot_seq).
THEOREM NothingWrittenOver == Spec => WrittenOnce
<1> DEFINE Same == \A v \in DOMAIN versions \cap DOMAIN versions' :
                     versions'[v].recs = versions[v].recs /\
                       versions'[v].folded = versions[v].folded
<1>1. ASSUME IInv, ~ spoilt, [Next]_vars PROVE Same
  <2>1. Base /\ Sound
    BY <1>1 DEF IInv
  <2>2. CASE UNCHANGED vars
    BY <2>2 DEF vars, disk
  <2>3. CASE OtherSteps
    BY <2>3, OthersWriteNothing
  <2>4. CASE Build
    <3>1. job # Idle /\ job.stage = "build" /\
            \A v \in DOMAIN versions \ {job.version} : versions'[v] = versions[v]
      BY <2>1, <2>4, BuildFacts
    <3>2. job.version \notin DOMAIN versions
      BY <2>1, <3>1 DEF Sound, JobInv
    <3> QED
      BY <3>1, <3>2
  <2>5. CASE WriteComplete
    BY <2>1, <2>5, CompleteFacts
  <2>6. CASE Swap
    BY <2>1, <2>6, SwapPrunes
  <2>7. CASE PowerFails
    BY <2>1, <2>7, CutFacts
  <2>8. CASE Load \/ LoadRaises
    BY <2>1, <2>8, StartFacts DEF Load, LoadRaises
  <2> QED
    BY <1>1, <2>2, <2>3, <2>4, <2>5, <2>6, <2>7, <2>8 DEF Next, OtherSteps
<1>2. IInv /\ [Next]_vars => [~ spoilt => Same]_vars
  BY <1>1
<1> QED
  BY <1>2, Invariance, PTL DEF Spec, WrittenOnce
=============================================================================
