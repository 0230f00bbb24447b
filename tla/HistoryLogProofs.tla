-------------------------- MODULE HistoryLogProofs --------------------------
(***************************************************************************)
(* Proofs about HistoryLog, for any number of turns and crashes.           *)
(*                                                                         *)
(* The invariant has two halves.  KInv holds whatever happens: where the   *)
(* loop, the writer and a fold may be at once (ControlInv), that queued    *)
(* rows have positions of their own (PositionInv), and that each turn that *)
(* was fsynced is in the file or in the fsynced rows, before and after the *)
(* fold a power loss can undo (DiskInv).  UInv holds until a write fails   *)
(* or the session is deleted: the ledger, the queued rows and the session  *)
(* are one sequence, and the entry of the index shows it.                  *)
(*                                                                         *)
(* Both hold until a session is misread: restored from less than there is  *)
(* of it, after which HistoryLogOverlap shows a turn lost.  A ledger that  *)
(* is forgotten stays in the model as history, so that the rows it queued  *)
(* keep their positions.  What merge_turn_log computes is shown row by     *)
(* row: a property of all prefixes of the log holds because the least      *)
(* counterexample has a predecessor (Induction).                           *)
(***************************************************************************)
EXTENDS HistoryLog, FiniteSetTheorems, WellFoundedInduction, SequenceTheorems, TLAPS

\* A set of numbers has a least one.
LEMMA Least ==
  ASSUME NEW T \in SUBSET Nat, T # {}
  PROVE  \E n \in T : \A m \in T : n <= m
<1> DEFINE Below == {1 .. n : n \in T}
<1>1. Below \subseteq FiniteSubsetsOf(Nat) /\ Below # {}
  <2>1. ASSUME NEW n \in Nat PROVE 1 .. n \in FiniteSubsetsOf(Nat)
    <3>1. IsFiniteSet(1 .. n)
      BY FS_Interval
    <3>2. 1 .. n \in SUBSET Nat
      OBVIOUS
    <3> QED
      BY <3>1, <3>2 DEF FiniteSubsetsOf
  <2>2. \A n \in T : n \in Nat
    OBVIOUS
  <2> QED
    BY <2>1, <2>2
<1>2. PICK x \in Below : \A y \in Below : <<y, x>> \notin StrictSubsetOrdering(Nat)
  <2> HIDE DEF Below
  <2>1. IsWellFoundedOn(StrictSubsetOrdering(Nat), FiniteSubsetsOf(Nat))
    BY FS_StrictSubsetOrderingWellFounded
  <2> QED
    BY <1>1, <2>1, WFMin
<1>3. PICK n \in T : x = 1 .. n
  BY <1>2
<1>4. ASSUME NEW m \in T, m < n PROVE FALSE
  <2>1. <<1 .. m, x>> \in StrictSubsetOrdering(Nat)
    <3>1. 1 .. m \subseteq x /\ n \in x /\ n \notin 1 .. m
      BY <1>3, <1>4
    <3>2. 1 .. m \in SUBSET Nat /\ x \in SUBSET Nat
      BY <1>3
    <3> HIDE DEF Below
    <3> QED
      BY <3>1, <3>2 DEF StrictSubsetOrdering
  <2> QED
    BY <2>1, <1>2
<1> QED
  BY <1>4

\* Induction: what holds of 0, and of n + 1 where it holds of n, holds of all.
LEMMA Induction ==
  ASSUME NEW T \in SUBSET Nat, 0 \in T, \A n \in T : n + 1 \in T
  PROVE  \A n \in Nat : n \in T
<1> SUFFICES ASSUME Nat \ T # {} PROVE FALSE
  OBVIOUS
<1>1. PICK n \in Nat \ T : \A m \in Nat \ T : n <= m
  BY Least
<1>2. n - 1 \in Nat /\ ~ (n <= n - 1)
  BY <1>1
<1>3. n - 1 \in T
  BY <1>1, <1>2
<1> QED
  BY <1>1, <1>2, <1>3

-----------------------------------------------------------------------------
(* merge_turn_log *)

\* g is the run of the merge over the first size rows.
Runs(g, turns, rows, size) ==
  g = [n \in 0 .. size |-> IF n = 0 THEN turns ELSE Fold(g[n - 1], rows[n])]

LEMMA RunExists ==
  ASSUME NEW turns, NEW rows
  PROVE  \A size \in Nat : \E g : Runs(g, turns, rows, size)
<1> DEFINE T == {size \in Nat : \E g : Runs(g, turns, rows, size)}
<1>1. 0 \in T
  <2> DEFINE g == [n \in 0 .. 0 |-> turns]
  <2>1. g = [n \in 0 .. 0 |-> IF n = 0 THEN turns ELSE Fold(g[n - 1], rows[n])]
    OBVIOUS
  <2> QED
    BY <2>1 DEF Runs
<1>2. ASSUME NEW size \in T PROVE size + 1 \in T
  <2>1. PICK g : Runs(g, turns, rows, size)
    OBVIOUS
  <2> DEFINE h == [n \in 0 .. size + 1 |-> IF n = size + 1 THEN Fold(g[size], rows[size + 1]) ELSE g[n]]
             k == [n \in 0 .. size + 1 |-> IF n = 0 THEN turns ELSE Fold(h[n - 1], rows[n])]
  <2>2. \A n \in 0 .. size : g[n] = IF n = 0 THEN turns ELSE Fold(g[n - 1], rows[n])
    BY <2>1 DEF Runs
  <2>3. ASSUME NEW n \in 0 .. size + 1 PROVE h[n] = k[n]
    <3>1. CASE n = size + 1
      <4>1. n # 0 /\ n - 1 = size /\ size \in 0 .. size + 1 /\ size # size + 1
        BY <3>1
      <4>2. h[n - 1] = g[size]
        BY <4>1
      <4> QED
        BY <3>1, <4>1, <4>2
    <3>2. CASE n = 0
      BY <2>2, <3>2
    <3>3. CASE n \in 1 .. size
      <4>1. n # 0 /\ n - 1 \in 0 .. size + 1 /\ n - 1 # size + 1 /\ n # size + 1 /\ n \in 0 .. size
        BY <3>3
      <4>2. h[n - 1] = g[n - 1] /\ h[n] = g[n]
        BY <4>1
      <4> QED
        BY <2>2, <4>1, <4>2
    <3> QED
      BY <3>1, <3>2, <3>3
  <2>4. h = k
    <3>1. h = [n \in 0 .. size + 1 |-> h[n]] /\ k = [n \in 0 .. size + 1 |-> k[n]]
      OBVIOUS
    <3> HIDE DEF h, k
    <3> QED
      BY <2>3, <3>1
  <2>5. Runs(h, turns, rows, size + 1)
    BY <2>4 DEF Runs
  <2> QED
    BY <2>5
<1> HIDE DEF T
<1>3. T \in SUBSET Nat
  BY DEF T
<1> QED
  BY <1>1, <1>2, <1>3, Induction DEF T

\* Runs over the same rows agree.
LEMMA RunAgrees ==
  ASSUME NEW turns, NEW rows, NEW others, NEW size \in Nat, NEW more \in Nat, size <= more,
         \A n \in 1 .. size : rows[n] = others[n],
         NEW g, Runs(g, turns, rows, size), NEW h, Runs(h, turns, others, more)
  PROVE  \A n \in 0 .. size : g[n] = h[n]
<1> DEFINE T == {n \in Nat : n <= size => g[n] = h[n]}
<1>1. \A n \in 0 .. size : g[n] = IF n = 0 THEN turns ELSE Fold(g[n - 1], rows[n])
  BY DEF Runs
<1>2. \A n \in 0 .. more : h[n] = IF n = 0 THEN turns ELSE Fold(h[n - 1], others[n])
  BY DEF Runs
<1>3. 0 \in T
  BY <1>1, <1>2
<1>4. ASSUME NEW n \in T PROVE n + 1 \in T
  <2>1. CASE n + 1 <= size
    <3>1. n + 1 \in 0 .. size /\ n + 1 \in 0 .. more /\ n + 1 # 0 /\ (n + 1) - 1 = n /\ n + 1 \in 1 .. size
      BY <2>1
    <3>2. g[n + 1] = Fold(g[n], rows[n + 1]) /\ h[n + 1] = Fold(h[n], others[n + 1])
      BY <1>1, <1>2, <3>1
    <3> QED
      BY <2>1, <3>1, <3>2
  <2> QED
    BY <2>1
<1> HIDE DEF T
<1>5. \A n \in Nat : n \in T
  <2>1. T \in SUBSET Nat
    BY DEF T
  <2> QED
    BY <1>3, <1>4, <2>1, Induction
<1> QED
  BY <1>5 DEF T

LEMMA MergeIsRun ==
  ASSUME NEW file, NEW rows, Len(Turns(rows)) \in Nat
  PROVE  \E g : /\ Runs(g, Turns(file), rows, Len(Turns(rows)))
                /\ Merge(file, rows) = g[Len(Turns(rows))]
<1> DEFINE g == CHOOSE g : Runs(g, Turns(file), rows, Len(Turns(rows)))
<1>1. Runs(g, Turns(file), rows, Len(Turns(rows)))
  BY RunExists
<1>2. Merge(file, rows) = g[Len(Turns(rows))]
  BY DEF Merge, Runs
<1> QED
  BY <1>1, <1>2

LEMMA NoFile ==
  /\ \A turns \in Seq(Turn) : turns # None /\ Turns(turns) = turns
  /\ \A rows \in Seq(Row) : rows # None /\ Turns(rows) = rows
  /\ Turns(None) = << >>
<1>1. ASSUME NEW turns \in Seq(Turn) PROVE turns \in Seq(Nat)
  BY BoundsAssumption DEF Turn
<1>2. ASSUME NEW rows \in Seq(Row) PROVE rows \in Seq([seq : Nat, turn : Nat])
  <2>1. Turn \subseteq Nat
    BY BoundsAssumption DEF Turn
  <2>2. Row \subseteq [seq : Nat, turn : Nat]
    BY <2>1 DEF Row
  <2> QED
    BY <2>2, <1>2, SeqMonotonic
<1> QED
  BY <1>1, <1>2, NoneAssumption DEF Turns

\* The merge takes the rows one by one.
LEMMA MergeSteps ==
  ASSUME NEW t \in Seq(Turn), NEW r \in Seq(Row)
  PROVE  \E g : /\ g[0] = t
                /\ \A n \in 1 .. Len(r) : g[n] = Fold(g[n - 1], r[n])
                /\ \A n \in 0 .. Len(r) : Merge(t, SubSeq(r, 1, n)) = g[n]
                /\ Merge(t, r) = g[Len(r)]
<1>1. Len(r) \in Nat /\ Turns(r) = r /\ Turns(t) = t
  BY NoFile
<1>2. PICK g : Runs(g, t, r, Len(r)) /\ Merge(t, r) = g[Len(r)]
  BY <1>1, MergeIsRun
<1>3. \A n \in 0 .. Len(r) : g[n] = IF n = 0 THEN t ELSE Fold(g[n - 1], r[n])
  BY <1>2 DEF Runs
<1>4. ASSUME NEW n \in 0 .. Len(r) PROVE Merge(t, SubSeq(r, 1, n)) = g[n]
  <2> DEFINE s == SubSeq(r, 1, n)
  <2>1. s \in Seq(Row) /\ Len(s) = n /\ \A i \in 1 .. n : s[i] = r[i]
    BY <1>1
  <2> HIDE DEF s
  <2>2. Turns(s) = s /\ n \in Nat /\ n \in 0 .. n
    BY <2>1, NoFile
  <2>3. PICK h : Runs(h, t, s, n) /\ Merge(t, s) = h[n]
    <3>1. Len(Turns(s)) = n
      BY <2>1, <2>2
    <3>2. \E h : Runs(h, Turns(t), s, n) /\ Merge(t, s) = h[n]
      BY <2>2, <3>1, MergeIsRun
    <3> QED
      BY <1>1, <3>2
  <2>4. h[n] = g[n]
    BY <1>1, <1>2, <2>1, <2>2, <2>3, RunAgrees
  <2> QED
    BY <2>3, <2>4 DEF s
<1> QED
  BY <1>1, <1>2, <1>3, <1>4

LEMMA MergeTurns ==
  ASSUME NEW file \in Seq(Turn) \cup {None}, NEW rows \in Seq(Row) \cup {None}
  PROVE  Merge(file, rows) = Merge(Turns(file), Turns(rows))
<1>1. Turns(file) \in Seq(Turn) /\ Turns(rows) \in Seq(Row)
  BY NoFile DEF Turns
<1>2. Turns(Turns(file)) = Turns(file) /\ Turns(Turns(rows)) = Turns(rows) /\ Len(Turns(rows)) \in Nat
  BY <1>1, NoFile
<1>3. PICK g : Runs(g, Turns(file), rows, Len(Turns(rows))) /\ Merge(file, rows) = g[Len(Turns(rows))]
  BY <1>2, MergeIsRun
<1>4. PICK h : /\ Runs(h, Turns(file), Turns(rows), Len(Turns(rows)))
               /\ Merge(Turns(file), Turns(rows)) = h[Len(Turns(rows))]
  BY <1>2, MergeIsRun
<1>5. \A n \in 1 .. Len(Turns(rows)) : rows[n] = Turns(rows)[n]
  BY <1>2, NoFile DEF Turns
<1>6. Len(Turns(rows)) \in 0 .. Len(Turns(rows)) /\ Len(Turns(rows)) <= Len(Turns(rows))
  BY <1>2
<1>7. g[Len(Turns(rows))] = h[Len(Turns(rows))]
  BY <1>2, <1>3, <1>4, <1>5, <1>6, RunAgrees
<1> QED
  BY <1>3, <1>4, <1>7

\* s goes on where t ends.
Begins(t, s) == Len(t) <= Len(s) /\ \A i \in 1 .. Len(t) : s[i] = t[i]

\* A merge adds to the turns.
LEMMA MergeBegins ==
  ASSUME NEW t \in Seq(Turn), NEW r \in Seq(Row)
  PROVE  Merge(t, r) \in Seq(Turn) /\ Begins(t, Merge(t, r))
<1>1. PICK g : /\ g[0] = t
               /\ \A n \in 1 .. Len(r) : g[n] = Fold(g[n - 1], r[n])
               /\ Merge(t, r) = g[Len(r)]
  BY MergeSteps
<1> DEFINE T == {n \in Nat : n <= Len(r) => g[n] \in Seq(Turn) /\ Begins(t, g[n])}
<1>2. 0 \in T
  BY <1>1 DEF Begins
<1>3. ASSUME NEW n \in T PROVE n + 1 \in T
  <2> SUFFICES ASSUME n + 1 <= Len(r) PROVE g[n + 1] \in Seq(Turn) /\ Begins(t, g[n + 1])
    OBVIOUS
  <2>1. n <= Len(r) /\ n + 1 \in 1 .. Len(r) /\ (n + 1) - 1 = n /\ g[n] \in Seq(Turn) /\ Begins(t, g[n])
    OBVIOUS
  <2>2. g[n + 1] = Fold(g[n], r[n + 1]) /\ r[n + 1].turn \in Turn
    <3>1. r[n + 1] \in Row
      BY <2>1, ElementOfSeq
    <3> QED
      BY <1>1, <2>1, <3>1 DEF Row
  <2>3. CASE g[n + 1] = g[n]
    BY <2>1, <2>3
  <2>4. CASE g[n + 1] = Append(g[n], r[n + 1].turn)
    BY <2>1, <2>2, <2>4 DEF Begins
  <2> QED
    BY <2>2, <2>3, <2>4 DEF Fold
<1> HIDE DEF T
<1>4. \A n \in Nat : n \in T
  <2>1. T \in SUBSET Nat
    BY DEF T
  <2> QED
    BY <1>2, <1>3, <2>1, Induction
<1> QED
  BY <1>1, <1>4 DEF T

\* What is behind all positions stays behind the merged turns.
LEMMA MergeBound ==
  ASSUME NEW t \in Seq(Turn), NEW r \in Seq(Row), NEW bound \in Nat,
         Len(t) <= bound, \A i \in 1 .. Len(r) : r[i].seq < bound
  PROVE  Len(Merge(t, r)) <= bound
<1>1. PICK g : /\ g[0] = t
               /\ \A n \in 1 .. Len(r) : g[n] = Fold(g[n - 1], r[n])
               /\ \A n \in 0 .. Len(r) : Merge(t, SubSeq(r, 1, n)) = g[n]
               /\ Merge(t, r) = g[Len(r)]
  BY MergeSteps
<1> DEFINE T == {n \in Nat : n <= Len(r) => Len(g[n]) <= bound}
<1>2. 0 \in T
  BY <1>1
<1>3. ASSUME NEW n \in T PROVE n + 1 \in T
  <2> SUFFICES ASSUME n + 1 <= Len(r) PROVE Len(g[n + 1]) <= bound
    OBVIOUS
  <2>1. n <= Len(r) /\ n + 1 \in 1 .. Len(r) /\ n \in 0 .. Len(r) /\ (n + 1) - 1 = n /\ Len(g[n]) <= bound
    OBVIOUS
  <2>2. g[n] \in Seq(Turn)
    <3>1. SubSeq(r, 1, n) \in Seq(Row)
      BY <2>1
    <3> QED
      BY <1>1, <2>1, <3>1, MergeBegins
  <2>3. g[n + 1] = Fold(g[n], r[n + 1]) /\ r[n + 1] \in Row /\ r[n + 1].seq < bound
    BY <1>1, <2>1, ElementOfSeq
  <2>4. r[n + 1].turn \in Turn /\ r[n + 1].seq \in Nat
    BY <2>3 DEF Row
  <2>5. CASE r[n + 1].seq < Len(g[n])
    BY <2>1, <2>3, <2>5 DEF Fold
  <2>6. CASE ~ r[n + 1].seq < Len(g[n])
    <3>1. Len(g[n]) <= r[n + 1].seq /\ Len(g[n + 1]) = Len(g[n]) + 1
      BY <2>2, <2>3, <2>4, <2>6 DEF Fold
    <3> QED
      BY <2>2, <2>3, <2>4, <3>1
  <2> QED
    BY <2>5, <2>6
<1> HIDE DEF T
<1>4. \A n \in Nat : n \in T
  <2>1. T \in SUBSET Nat
    BY DEF T
  <2> QED
    BY <1>2, <1>3, <2>1, Induction
<1> QED
  BY <1>1, <1>4 DEF T

\* The positions of the rows grow; the turn of each is in the turns, or its
\* position is behind theirs.
Covered(turns, rows) ==
  \A n \in 1 .. Len(rows) :
     /\ \A i \in 1 .. n - 1 : rows[i].seq < rows[n].seq
     /\ rows[n].turn \in ToSet(turns) \/ Len(turns) <= rows[n].seq

Fresh(turns, rows) == \A i \in 1 .. Len(rows) : rows[i].seq = Len(turns) + i - 1

Folded(turns, rows) ==
  \A i \in 1 .. Len(rows) :
     rows[i].seq + 1 \in 1 .. Len(turns) /\ turns[rows[i].seq + 1] = rows[i].turn

LEMMA ToSetElements ==
  ASSUME NEW S, NEW s \in Seq(S)
  PROVE  /\ \A x : x \in ToSet(s) <=> \E i \in 1 .. Len(s) : s[i] = x
         /\ ToSet(s) \subseteq S
BY ElementOfSeq DEF ToSet

\* No row is lost: what the turns have not is added to them.
LEMMA MergeCovers ==
  ASSUME NEW t \in Seq(Turn), NEW r \in Seq(Row), Covered(t, r)
  PROVE  TurnsOf(r) \subseteq ToSet(Merge(t, r))
<1>1. PICK g : /\ g[0] = t
               /\ \A n \in 1 .. Len(r) : g[n] = Fold(g[n - 1], r[n])
               /\ \A n \in 0 .. Len(r) : Merge(t, SubSeq(r, 1, n)) = g[n]
               /\ Merge(t, r) = g[Len(r)]
  BY MergeSteps
<1> DEFINE T == {n \in Nat : n <= Len(r) => \A i \in 1 .. n : \E j \in 1 .. Len(g[n]) : g[n][j] = r[i].turn}
<1>2. 0 \in T
  OBVIOUS
<1>3. ASSUME NEW n \in T PROVE n + 1 \in T
  <2> SUFFICES ASSUME n + 1 <= Len(r), NEW i \in 1 .. n + 1
               PROVE  \E j \in 1 .. Len(g[n + 1]) : g[n + 1][j] = r[i].turn
    OBVIOUS
  <2>1. /\ n <= Len(r) /\ n + 1 \in 1 .. Len(r) /\ n \in 0 .. Len(r) /\ n + 1 \in 0 .. Len(r) /\ (n + 1) - 1 = n
        /\ \A k \in 1 .. n : \E j \in 1 .. Len(g[n]) : g[n][j] = r[k].turn
    OBVIOUS
  <2>2. r[n + 1].turn \in Turn /\ r[n + 1].seq \in Nat
    <3>1. r[n + 1] \in Row
      BY <2>1, ElementOfSeq
    <3> QED
      BY <3>1 DEF Row
  <2>3. g[n] \in Seq(Turn) /\ g[n + 1] \in Seq(Turn) /\ Begins(t, g[n + 1])
    <3>1. SubSeq(r, 1, n) \in Seq(Row) /\ SubSeq(r, 1, n + 1) \in Seq(Row)
      BY <2>1
    <3> QED
      BY <1>1, <2>1, <3>1, MergeBegins
  <2>4. g[n + 1] = Fold(g[n], r[n + 1])
    BY <1>1, <2>1
  <2>5. CASE i \in 1 .. n
    <3>1. PICK j \in 1 .. Len(g[n]) : g[n][j] = r[i].turn
      BY <2>1, <2>5
    <3>2. j \in 1 .. Len(g[n + 1]) /\ g[n + 1][j] = g[n][j]
      BY <2>2, <2>3, <2>4 DEF Fold
    <3> QED
      BY <3>1, <3>2
  <2>6. CASE i = n + 1 /\ r[n + 1].turn \in ToSet(t)
    <3>1. PICK j \in 1 .. Len(t) : t[j] = r[n + 1].turn
      <4>1. ToSet(t) = {t[k] : k \in 1 .. Len(t)}
        BY DEF ToSet
      <4> QED
        BY <2>6, <4>1
    <3>2. j \in 1 .. Len(g[n + 1]) /\ g[n + 1][j] = t[j]
      BY <2>3 DEF Begins
    <3> QED
      BY <2>6, <3>1, <3>2
  <2>7. CASE i = n + 1 /\ Len(t) <= r[n + 1].seq /\ \A k \in 1 .. n : r[k].seq < r[n + 1].seq
    <3> DEFINE p == SubSeq(r, 1, n)
    <3>1. p \in Seq(Row) /\ Len(p) = n /\ \A k \in 1 .. n : p[k] = r[k]
      BY <2>1
    <3> HIDE DEF p
    <3>2. Len(Merge(t, p)) <= r[n + 1].seq
      BY <2>2, <2>7, <3>1, MergeBound
    <3>3. ~ r[n + 1].seq < Len(g[n])
      BY <1>1, <2>1, <2>2, <2>3, <3>2 DEF p
    <3>4. g[n + 1] = Append(g[n], r[n + 1].turn)
      BY <2>4, <3>3 DEF Fold
    <3>5. Len(g[n]) + 1 \in 1 .. Len(g[n + 1]) /\ g[n + 1][Len(g[n]) + 1] = r[n + 1].turn
      BY <2>2, <2>3, <3>4
    <3> QED
      BY <2>7, <3>5
  <2> QED
    BY <2>1, <2>5, <2>6, <2>7 DEF Covered
<1> HIDE DEF T
<1>4. \A n \in Nat : n \in T
  <2>1. T \in SUBSET Nat
    BY DEF T
  <2> QED
    BY <1>2, <1>3, <2>1, Induction
<1>5. \A i \in 1 .. Len(r) : \E j \in 1 .. Len(Merge(t, r)) : Merge(t, r)[j] = r[i].turn
  <2>1. Len(r) \in T
    BY <1>4
  <2>2. \A i \in 1 .. Len(r) : \E j \in 1 .. Len(g[Len(r)]) : g[Len(r)][j] = r[i].turn
    BY <2>1 DEF T
  <2> QED
    BY <1>1, <2>2
<1>6. Merge(t, r) \in Seq(Turn)
  BY MergeBegins
<1> QED
  BY <1>5, <1>6, ToSetElements DEF TurnsOf

\* Rows that go on where the turns end are added, all of them.
LEMMA MergeFresh ==
  ASSUME NEW t \in Seq(Turn), NEW r \in Seq(Row), Fresh(t, r)
  PROVE  /\ Len(Merge(t, r)) = Len(t) + Len(r)
         /\ \A i \in 1 .. Len(r) : Merge(t, r)[Len(t) + i] = r[i].turn
<1>1. PICK g : /\ g[0] = t
               /\ \A n \in 1 .. Len(r) : g[n] = Fold(g[n - 1], r[n])
               /\ \A n \in 0 .. Len(r) : Merge(t, SubSeq(r, 1, n)) = g[n]
               /\ Merge(t, r) = g[Len(r)]
  BY MergeSteps
<1> DEFINE T == {n \in Nat : n <= Len(r) => /\ Len(g[n]) = Len(t) + n
                                            /\ \A i \in 1 .. n : g[n][Len(t) + i] = r[i].turn}
<1>2. 0 \in T
  BY <1>1
<1>3. ASSUME NEW n \in T PROVE n + 1 \in T
  <2> SUFFICES ASSUME n + 1 <= Len(r)
               PROVE  /\ Len(g[n + 1]) = Len(t) + (n + 1)
                      /\ \A i \in 1 .. n + 1 : g[n + 1][Len(t) + i] = r[i].turn
    OBVIOUS
  <2>1. /\ n <= Len(r) /\ n + 1 \in 1 .. Len(r) /\ n \in 0 .. Len(r) /\ (n + 1) - 1 = n
        /\ Len(g[n]) = Len(t) + n /\ \A i \in 1 .. n : g[n][Len(t) + i] = r[i].turn
    OBVIOUS
  <2>2. r[n + 1].turn \in Turn /\ r[n + 1].seq = Len(t) + n
    <3>1. r[n + 1] \in Row
      BY <2>1, ElementOfSeq
    <3> QED
      BY <2>1, <3>1 DEF Row, Fresh
  <2>3. g[n] \in Seq(Turn)
    <3>1. SubSeq(r, 1, n) \in Seq(Row)
      BY <2>1
    <3> QED
      BY <1>1, <2>1, <3>1, MergeBegins
  <2>4. g[n + 1] = Append(g[n], r[n + 1].turn)
    <3>1. g[n + 1] = Fold(g[n], r[n + 1])
      BY <1>1, <2>1
    <3>2. ~ r[n + 1].seq < Len(g[n])
      BY <2>1, <2>2
    <3> QED
      BY <3>1, <3>2 DEF Fold
  <2> QED
    <3>1. Len(g[n + 1]) = Len(t) + (n + 1)
      BY <2>1, <2>2, <2>3, <2>4
    <3>2. g[n + 1][Len(t) + (n + 1)] = r[n + 1].turn /\ \A i \in 1 .. Len(g[n]) : g[n + 1][i] = g[n][i]
      <4>1. Len(t) + (n + 1) = Len(g[n]) + 1
        BY <2>1
      <4>2. g[n + 1][Len(g[n]) + 1] = r[n + 1].turn /\ \A i \in 1 .. Len(g[n]) : g[n + 1][i] = g[n][i]
        BY <2>2, <2>3, <2>4
      <4> QED
        BY <4>1, <4>2
    <3>3. \A i \in 1 .. n : Len(t) + i \in 1 .. Len(g[n])
      BY <2>1, <2>3
    <3>4. \A i \in 1 .. n + 1 : i \in 1 .. n \/ i = n + 1
      BY <2>1
    <3> QED
      BY <2>1, <3>1, <3>2, <3>3, <3>4
<1> HIDE DEF T
<1>4. \A n \in Nat : n \in T
  <2>1. T \in SUBSET Nat
    BY DEF T
  <2> QED
    BY <1>2, <1>3, <2>1, Induction
<1> QED
  <2>1. Len(r) \in Nat
    OBVIOUS
  <2> QED
    BY <1>1, <1>4, <2>1 DEF T

\* Rows whose positions the turns have are skipped, all of them.
LEMMA MergeSkips ==
  ASSUME NEW t \in Seq(Turn), NEW r \in Seq(Row), \A i \in 1 .. Len(r) : r[i].seq < Len(t)
  PROVE  Merge(t, r) = t
<1>1. PICK g : /\ g[0] = t
               /\ \A n \in 1 .. Len(r) : g[n] = Fold(g[n - 1], r[n])
               /\ Merge(t, r) = g[Len(r)]
  BY MergeSteps
<1> DEFINE T == {n \in Nat : n <= Len(r) => g[n] = t}
<1>2. 0 \in T
  BY <1>1
<1>3. ASSUME NEW n \in T PROVE n + 1 \in T
  <2> SUFFICES ASSUME n + 1 <= Len(r) PROVE g[n + 1] = t
    OBVIOUS
  <2>1. n <= Len(r) /\ n + 1 \in 1 .. Len(r) /\ (n + 1) - 1 = n /\ g[n] = t
    OBVIOUS
  <2> QED
    BY <1>1, <2>1 DEF Fold
<1> HIDE DEF T
<1>4. \A n \in Nat : n \in T
  <2>1. T \in SUBSET Nat
    BY DEF T
  <2> QED
    BY <1>2, <1>3, <2>1, Induction
<1> QED
  <2>1. Len(r) \in Nat
    OBVIOUS
  <2> QED
    BY <1>1, <1>4, <2>1 DEF T

-----------------------------------------------------------------------------
(* The invariant *)

File == Turns(json)
Rows == Turns(log)

Started == ledger # None /\ ledger.started
Appends == {p \in 1 .. Len(queue) : queue[p].kind = "append"}

\* Where each part of the program may be while another is somewhere.
ControlInv ==
  /\ folding # "no" => /\ queue # << >> /\ Head(queue) = FoldOp
                       /\ log # None /\ synced = Len(log)
  /\ deleting => /\ queue # << >> /\ Head(queue) = DeleteOp
                 /\ json = None /\ disturbed
  /\ booting => /\ ~ Started /\ reading = None /\ ~ forgotten
                /\ queue \in {<< >>, <<FoldOp>>}
                /\ queue = << >> => log = None
  /\ ~ booting /\ ~ Started /\ reading = None => log = None
  /\ ledger # None /\ ~ Started => ledger.persisted = 0
  /\ reading # None => /\ ledger # None /\ ~ Started /\ ~ forgotten
                       /\ DeleteOp \notin ToSet(queue)
  /\ indexed = None => json = None
  /\ ~ booting /\ indexed = None => log = None \/ deleting

\* Neither the file nor the log reaches position n.
FreeFrom(n) == Len(File) <= n /\ \A i \in 1 .. Len(Rows) : Rows[i].seq < n

First(p) == queue[p].rows[1].seq
End(p) == First(p) + Len(queue[p].rows)

\* Rows that are queued, and rows to come, have positions of their own.
QueueFits(n) ==
  \A p \in Appends :
     /\ queue[p].rows # << >> /\ End(p) <= n /\ FreeFrom(First(p))
     /\ \A i \in 1 .. Len(queue[p].rows) : queue[p].rows[i].seq = First(p) + i - 1
     /\ \A q \in Appends : p < q => End(p) <= First(q)

Ready(led) ==
  led.persisted <= Len(led.turns) /\ FreeFrom(led.persisted) /\ QueueFits(led.persisted)

PositionInv == IF Started THEN Ready(ledger) ELSE Appends = {}

\* What is on the disk for good.
DiskInv ==
  /\ Covered(File, Rows)
  /\ kept \ gone \subseteq ToSet(File) \cup {Rows[i].turn : i \in 1 .. synced}
  /\ deleting => kept \subseteq gone
  /\ folding = "merged" => merged = View
  /\ folding = "written" => TurnsOf(Rows) \subseteq ToSet(File)
  /\ undo # None => /\ json # None /\ json = Merge(undo.json, undo.log)
                    /\ Covered(Turns(undo.json), Turns(undo.log))
                    /\ kept \ gone \subseteq ToSet(Turns(undo.json)) \cup TurnsOf(Turns(undo.log))

KInv == TypeOK /\ ControlInv /\ PositionInv /\ DiskInv

Increasing(turns) == \A i, j \in 1 .. Len(turns) : i < j => turns[i] < turns[j]

AsksFirst(turns) == turns # << >> => ~ IsAnswer(turns[1])

\* The turns are in the order in which they were said, a question first.
Chronological(turns) ==
  Increasing(turns) /\ AsksFirst(turns) /\ \A i \in 1 .. Len(turns) : turns[i] <= said

\* The session is the beginning of the ledger, and the rows that are queued are
\* the part of it that is not on the disk.
Linked(led) ==
  /\ \A i \in 1 .. Len(View) : View[i] = led.turns[i]
  /\ \A n \in Len(View) .. led.persisted - 1 : \E p \in Appends : First(p) <= n /\ n < End(p)
  /\ \A p \in Appends :
       /\ \A i \in 1 .. Len(queue[p].rows) : queue[p].rows[i].turn = led.turns[First(p) + i]
       /\ queue[p].contents = {led.turns[n] : n \in 1 .. End(p)}

LedgerInv ==
  ledger # None =>
    /\ Chronological(ledger.turns)
    /\ ~ Started => \A i \in 1 .. Len(View), j \in 1 .. Len(ledger.turns) : View[i] < ledger.turns[j]
    /\ Started => Linked(ledger)

EntryShows(turns) == IF indexed = None THEN turns = << >> ELSE indexed = ToSet(turns)

OrderInv ==
  /\ \/ Fresh(File, Rows)
     \/ Folded(File, Rows) /\ synced = Len(Rows) /\ (booting \/ folding = "written")
  /\ folding = "written" => Folded(File, Rows)
  /\ Chronological(View)
  /\ gone = {}
  /\ undo # None => \/ Fresh(Turns(undo.json), Turns(undo.log))
                    \/ Folded(Turns(undo.json), Turns(undo.log))
  /\ IF booting /\ log # None THEN EntryShows(File) ELSE EntryShows(View)

\* While no write has failed and nothing was deleted.
UInv == ~ disturbed => LedgerInv /\ OrderInv

IInv == KInv /\ UInv

-----------------------------------------------------------------------------
(* What the invariant says of files and queues *)

LEMMA DiskTyped ==
  ASSUME TypeOK
  PROVE  /\ File \in Seq(Turn) /\ Rows \in Seq(Row) /\ View = Merge(File, Rows)
         /\ View \in Seq(Turn) /\ Begins(File, View)
         /\ \A i \in 1 .. Len(Rows) : Rows[i].seq \in Nat /\ Rows[i].turn \in Turn
<1>1. json \in Seq(Turn) \cup {None} /\ log \in Seq(Row) \cup {None}
  BY DEF TypeOK, Files, Logs
<1>2. File \in Seq(Turn) /\ Rows \in Seq(Row)
  BY <1>1, NoFile DEF File, Rows, Turns
<1>3. View = Merge(File, Rows)
  BY <1>1, MergeTurns DEF View, File, Rows
<1>4. \A i \in 1 .. Len(Rows) : Rows[i] \in Row
  BY <1>2, ElementOfSeq
<1> QED
  BY <1>2, <1>3, <1>4, MergeBegins DEF Row

LEMMA OpTyped ==
  ASSUME TypeOK, NEW p \in 1 .. Len(queue)
  PROVE  /\ queue[p] \in Ops
         /\ queue[p].kind = "append" =>
              /\ queue[p].rows \in Seq(Row) /\ queue[p].contents \subseteq Turn
              /\ \A i \in 1 .. Len(queue[p].rows) : /\ queue[p].rows[i].seq \in Nat
                                                    /\ queue[p].rows[i].turn \in Turn
         /\ queue[p].kind = "fold" => queue[p] = FoldOp
         /\ queue[p].kind = "delete" => queue[p] = DeleteOp
<1>1. queue[p] \in Ops
  BY ElementOfSeq DEF TypeOK
<1>2. queue[p].kind = "append" => queue[p].rows \in Seq(Row) /\ queue[p].contents \subseteq Turn
  BY <1>1 DEF Ops, FoldOp, SyncOp, DeleteOp
<1>3. ASSUME queue[p].kind = "append", NEW i \in 1 .. Len(queue[p].rows)
      PROVE  queue[p].rows[i].seq \in Nat /\ queue[p].rows[i].turn \in Turn
  <2>1. queue[p].rows[i] \in Row
    BY <1>2, <1>3, ElementOfSeq
  <2> QED
    BY <2>1 DEF Row
<1>4. /\ queue[p].kind = "fold" => queue[p] = FoldOp
      /\ queue[p].kind = "delete" => queue[p] = DeleteOp
  BY <1>1 DEF Ops, FoldOp, SyncOp, DeleteOp
<1> QED
  BY <1>1, <1>2, <1>3, <1>4

LEMMA HeadTyped ==
  ASSUME TypeOK, queue # << >>
  PROVE  /\ 1 \in 1 .. Len(queue) /\ Head(queue) = queue[1] /\ Head(queue) \in Ops
         /\ Head(queue).kind = "fold" => Head(queue) = FoldOp
         /\ Head(queue).kind = "delete" => Head(queue) = DeleteOp
<1>1. queue \in Seq(Ops)
  BY DEF TypeOK
<1>2. 1 \in 1 .. Len(queue) /\ Head(queue) = queue[1]
  BY <1>1
<1> QED
  BY <1>2, OpTyped

LEMMA Popped ==
  ASSUME TypeOK, queue # << >>, queue' = Tail(queue)
  PROVE  /\ queue' \in Seq(Ops)
         /\ \A p \in Appends' : p + 1 \in Appends /\ queue'[p] = queue[p + 1]
         /\ \A p \in Appends : p # 1 => p - 1 \in Appends'
         /\ \A p \in 1 .. Len(queue') : p + 1 \in 1 .. Len(queue) /\ queue'[p] = queue[p + 1]
         /\ ToSet(queue') \subseteq ToSet(queue)
<1>1. queue \in Seq(Ops)
  BY DEF TypeOK
<1>2. /\ queue' \in Seq(Ops) /\ Len(queue') = Len(queue) - 1
      /\ \A p \in 1 .. Len(queue') : queue'[p] = queue[p + 1]
  BY <1>1, HeadTailProperties
<1>3. Len(queue) \in Nat
  BY <1>1
<1>4. \A p \in 1 .. Len(queue') : p + 1 \in 1 .. Len(queue)
  BY <1>2, <1>3
<1>5. \A p \in Appends : p # 1 => p - 1 \in Appends'
  <2> SUFFICES ASSUME NEW p \in Appends, p # 1 PROVE p - 1 \in Appends'
    OBVIOUS
  <2>1. p - 1 \in 1 .. Len(queue') /\ (p - 1) + 1 = p /\ queue[p].kind = "append"
    BY <1>2, <1>3 DEF Appends
  <2> QED
    BY <1>2, <2>1 DEF Appends
<1>6. ToSet(queue') \subseteq ToSet(queue)
  <2> SUFFICES ASSUME NEW x \in ToSet(queue') PROVE x \in ToSet(queue)
    OBVIOUS
  <2>1. PICK p \in 1 .. Len(queue') : queue'[p] = x
    <3>1. ToSet(queue') = {queue'[p] : p \in 1 .. Len(queue')}
      <4>1. DOMAIN queue' = 1 .. Len(queue')
        BY <1>2
      <4> QED
        BY <4>1 DEF ToSet
    <3> QED
      BY <3>1
  <2>2. p + 1 \in 1 .. Len(queue) /\ queue[p + 1] = x
    BY <1>2, <1>4, <2>1
  <2> QED
    BY <1>1, <2>2, ToSetElements
<1> QED
  BY <1>2, <1>4, <1>5, <1>6 DEF Appends

LEMMA Pushed ==
  ASSUME TypeOK, NEW op \in {FoldOp, DeleteOp}, queue' = Append(queue, op)
  PROVE  /\ queue' \in Seq(Ops) /\ queue' # << >>
         /\ Appends' = Appends /\ \A p \in 1 .. Len(queue) : queue'[p] = queue[p]
         /\ queue # << >> => Head(queue') = Head(queue)
         /\ op = FoldOp => ToSet(queue') \subseteq ToSet(queue) \cup {FoldOp}
<1>1. queue \in Seq(Ops) /\ op \in Ops /\ op.kind # "append"
  BY DEF TypeOK, Ops, FoldOp, DeleteOp
<1>2. /\ queue' \in Seq(Ops) /\ queue' # << >> /\ Len(queue') = Len(queue) + 1
      /\ \A p \in 1 .. Len(queue) : queue'[p] = queue[p]
      /\ queue'[Len(queue) + 1] = op /\ Len(queue) \in Nat
  BY <1>1
<1>3. Appends' = Appends
  <2>1. \A p \in 1 .. Len(queue') : p \in 1 .. Len(queue) \/ p = Len(queue) + 1
    BY <1>2
  <2>2. \A p \in 1 .. Len(queue) : p \in 1 .. Len(queue')
    BY <1>2
  <2> QED
    BY <1>1, <1>2, <2>1, <2>2 DEF Appends
<1>4. queue # << >> => Head(queue') = Head(queue)
  BY <1>1, <1>2
<1>5. ToSet(queue') \subseteq ToSet(queue) \cup {op}
  <2>1. \A p \in 1 .. Len(queue') : p \in 1 .. Len(queue) \/ p = Len(queue) + 1
    BY <1>2
    <2>2. ASSUME NEW x \in ToSet(queue') PROVE x \in ToSet(queue) \cup {op}
    <3>1. PICK p \in 1 .. Len(queue') : queue'[p] = x
      <4>1. ToSet(queue') = {queue'[p] : p \in 1 .. Len(queue')}
        <5>1. DOMAIN queue' = 1 .. Len(queue')
          BY <1>2
        <5> QED
          BY <5>1 DEF ToSet
      <4> QED
        BY <4>1
    <3>2. CASE p \in 1 .. Len(queue)
      <4>1. queue[p] = x
        BY <1>2, <3>1, <3>2
      <4> QED
        BY <1>1, <3>2, <4>1, ToSetElements
    <3> QED
      BY <1>2, <2>1, <3>1, <3>2
  <2> QED
    BY <2>2
<1> QED
  BY <1>2, <1>3, <1>4, <1>5

\* The rows keep their positions as long as the disk reaches no further.
LEMMA PositionsStay ==
  ASSUME TypeOK, PositionInv, ledger' = ledger,
         \/ queue' = queue
         \/ queue # << >> /\ queue' = Tail(queue)
         \/ \E op \in {FoldOp, DeleteOp} : queue' = Append(queue, op),
         \A m \in Nat : FreeFrom(m) => FreeFrom(m)'
  PROVE  PositionInv'
<1>1. \E d \in {0, 1} : \A p \in Appends' : p + d \in Appends /\ queue'[p] = queue[p + d]
  <2>1. CASE queue' = queue
    <3>1. \A p \in Appends' : p + 0 \in Appends /\ queue'[p] = queue[p + 0]
      BY <2>1 DEF Appends
    <3> QED
      BY <3>1
  <2>2. CASE queue # << >> /\ queue' = Tail(queue)
    <3>1. \A p \in Appends' : p + 1 \in Appends /\ queue'[p] = queue[p + 1]
      BY <2>2, Popped
    <3> QED
      BY <3>1
  <2>3. CASE \E op \in {FoldOp, DeleteOp} : queue' = Append(queue, op)
    <3>1. Appends' = Appends /\ \A p \in 1 .. Len(queue) : queue'[p] = queue[p]
      BY <2>3, Pushed
    <3>2. \A p \in Appends' : p + 0 \in Appends /\ queue'[p] = queue[p + 0]
      BY <3>1 DEF Appends
    <3> QED
      BY <3>2
  <2> QED
    BY <2>1, <2>2, <2>3
<1>2. PICK d \in {0, 1} : \A p \in Appends' : p + d \in Appends /\ queue'[p] = queue[p + d]
  BY <1>1
<1>3. \A p \in Appends' : First(p)' = First(p + d) /\ End(p)' = End(p + d)
  BY <1>2 DEF First, End
<1>4. ASSUME NEW n \in Nat, QueueFits(n) PROVE QueueFits(n)'
  <2> SUFFICES ASSUME NEW p \in Appends'
               PROVE  /\ queue'[p].rows # << >> /\ End(p)' <= n /\ FreeFrom(First(p))'
                      /\ \A i \in 1 .. Len(queue'[p].rows) : queue'[p].rows[i].seq = First(p)' + i - 1
                      /\ \A q \in Appends' : p < q => End(p)' <= First(q)'
    BY DEF QueueFits
  <2>1. /\ queue[p + d].rows # << >> /\ End(p + d) <= n /\ FreeFrom(First(p + d))
        /\ \A i \in 1 .. Len(queue[p + d].rows) : queue[p + d].rows[i].seq = First(p + d) + i - 1
        /\ \A q \in Appends : p + d < q => End(p + d) <= First(q)
    BY <1>2, <1>4 DEF QueueFits
  <2>2. First(p + d) \in Nat
    <3>1. p + d \in 1 .. Len(queue) /\ queue[p + d].kind = "append"
      BY <1>2 DEF Appends
    <3>2. 1 \in 1 .. Len(queue[p + d].rows)
      BY <2>1, <3>1, OpTyped
    <3> QED
      BY <3>1, <3>2, OpTyped DEF First
  <2>3. \A m \in Nat : FreeFrom(m) => FreeFrom(m)'
    OBVIOUS
  <2>4. FreeFrom(First(p))'
    <3>1. Len(File)' <= First(p + d) /\ \A i \in 1 .. Len(Rows)' : Rows'[i].seq < First(p + d)
      BY <2>1, <2>2, <2>3 DEF FreeFrom
    <3> QED
      BY <1>3, <3>1 DEF FreeFrom
  <2>5. \A q \in Appends' : p < q => p + d < q + d
    BY DEF Appends
  <2> QED
    BY <1>2, <1>3, <2>1, <2>4, <2>5
<1>5. CASE Started
  <2>1. Started' /\ ledger.persisted \in Nat
    BY <1>5 DEF Started, TypeOK, Ledgers
  <2>2. Ready(ledger)
    BY <1>5 DEF PositionInv
  <2>3. FreeFrom(ledger.persisted)'
    BY <2>1, <2>2 DEF Ready, FreeFrom
  <2>4. QueueFits(ledger.persisted)'
    BY <1>4, <2>1, <2>2 DEF Ready, QueueFits
  <2> QED
    BY <2>1, <2>2, <2>3, <2>4 DEF PositionInv, Ready
<1>6. CASE ~ Started
  BY <1>2, <1>6 DEF Started, PositionInv
<1> QED
  BY <1>5, <1>6

-----------------------------------------------------------------------------
(* The event loop *)

LEMMA NoLedger == \A led \in Ledgers : led # None
<1>1. \A led \in Ledgers : led \in [turns : Seq(Nat), persisted : Nat, started : BOOLEAN]
  <2> SUFFICES ASSUME NEW led \in Ledgers
               PROVE  led \in [turns : Seq(Nat), persisted : Nat, started : BOOLEAN]
    OBVIOUS
  <2>1. led.turns \in Seq(Turn) /\ Turn \subseteq Nat
    BY DEF Ledgers, Turn
  <2>2. led.turns \in Seq(Nat)
    BY <2>1, SeqMonotonic
  <2> QED
    BY <2>2 DEF Ledgers
<1> QED
  BY <1>1, NoneAssumption

\* Who is queued with the rows of a turn.
LEMMA Saved ==
  ASSUME TypeOK, NEW led \in Ledgers, Save(led)
  PROVE  \E op \in Ops :
           /\ queue' = queue \o <<op, SyncOp>> /\ op.kind = "append"
           /\ op.rows \in Seq(Row) /\ Len(op.rows) = Len(led.turns) - led.persisted /\ op.rows # << >>
           /\ \A i \in 1 .. Len(op.rows) : /\ op.rows[i].seq = led.persisted + i - 1
                                           /\ op.rows[i].turn = led.turns[led.persisted + i]
           /\ op.contents = ToSet(led.turns)
<1> DEFINE new == [i \in 1 .. Len(led.turns) - led.persisted |->
                     [seq |-> led.persisted + i - 1, turn |-> led.turns[led.persisted + i]]]
           size == Len(led.turns) - led.persisted
<1>1. led.turns \in Seq(Turn) /\ led.persisted \in Nat /\ Len(led.turns) \in Nat
  BY DEF Ledgers
<1>2. size \in Nat
  <2>1. new # << >>
    BY DEF Save
  <2>2. size \in Int
    BY <1>1
  <2>3. CASE size < 1
    <3>1. 1 .. size = {}
      BY <2>2, <2>3
    <3>2. new = << >>
      BY <3>1
    <3> QED
      BY <2>1, <3>2
  <2> QED
    BY <2>2, <2>3
<1>3. ASSUME NEW i \in 1 .. size PROVE new[i] \in Row
  <2>1. led.persisted + i \in 1 .. Len(led.turns) /\ led.persisted + i - 1 \in Nat
    BY <1>1
  <2>2. led.turns[led.persisted + i] \in Turn
    BY <1>1, <2>1, ElementOfSeq
  <2> QED
    BY <2>1, <2>2 DEF Row
<1>4. new \in Seq(Row) /\ Len(new) = size
  BY <1>2, <1>3
<1>5. new # << >> /\ queue' = queue \o <<AppendOp(new, ToSet(led.turns)), SyncOp>>
  BY DEF Save
<1>6. AppendOp(new, ToSet(led.turns)) \in Ops
  <2>1. ToSet(led.turns) \subseteq Turn
    BY <1>1, ToSetElements
  <2> HIDE DEF new
  <2> QED
    BY <1>4, <2>1 DEF Ops, AppendOp
<1>7. \A i \in 1 .. size : new[i].seq = led.persisted + i - 1 /\ new[i].turn = led.turns[led.persisted + i]
  OBVIOUS
<1> HIDE DEF new, size
<1>8. /\ AppendOp(new, ToSet(led.turns)).kind = "append" /\ AppendOp(new, ToSet(led.turns)).rows = new
      /\ AppendOp(new, ToSet(led.turns)).contents = ToSet(led.turns)
  BY DEF AppendOp
<1> QED
  BY <1>4, <1>5, <1>6, <1>7, <1>8 DEF size

LEMMA PushedRows ==
  ASSUME TypeOK, NEW op \in Ops, op.kind = "append", queue' = queue \o <<op, SyncOp>>
  PROVE  /\ queue' \in Seq(Ops) /\ queue' # << >>
         /\ \A p \in 1 .. Len(queue) : p \in 1 .. Len(queue') /\ queue'[p] = queue[p]
         /\ Appends' = Appends \cup {Len(queue) + 1} /\ queue'[Len(queue) + 1] = op
         /\ \A p \in Appends : p < Len(queue) + 1
         /\ queue # << >> => Head(queue') = Head(queue)
<1>1. queue \in Seq(Ops) /\ <<op, SyncOp>> \in Seq(Ops) /\ Len(<<op, SyncOp>>) = 2 /\ Len(queue) \in Nat
  BY DEF TypeOK, Ops
<1>2. /\ queue' \in Seq(Ops) /\ Len(queue') = Len(queue) + 2
      /\ \A p \in 1 .. Len(queue) : queue'[p] = queue[p]
      /\ queue'[Len(queue) + 1] = op /\ queue'[Len(queue) + 2] = SyncOp
  <2> DEFINE more == <<op, SyncOp>>
  <2>1. more[1] = op /\ more[2] = SyncOp /\ more \in Seq(Ops) /\ Len(more) = 2 /\ queue' = queue \o more
    BY <1>1
  <2> HIDE DEF more
  <2>2. /\ queue' \in Seq(Ops) /\ Len(queue') = Len(queue) + 2
        /\ \A p \in 1 .. Len(queue) + 2 : queue'[p] = IF p <= Len(queue) THEN queue[p] ELSE more[p - Len(queue)]
    BY <1>1, <2>1, ConcatProperties
  <2>3. /\ Len(queue) + 1 \in 1 .. Len(queue) + 2 /\ ~ Len(queue) + 1 <= Len(queue)
        /\ Len(queue) + 2 \in 1 .. Len(queue) + 2 /\ ~ Len(queue) + 2 <= Len(queue)
        /\ (Len(queue) + 1) - Len(queue) = 1 /\ (Len(queue) + 2) - Len(queue) = 2
        /\ \A p \in 1 .. Len(queue) : p \in 1 .. Len(queue) + 2 /\ p <= Len(queue)
    BY <1>1
  <2> QED
    BY <2>1, <2>2, <2>3
<1>3. \A p \in 1 .. Len(queue') : p \in 1 .. Len(queue) \/ p = Len(queue) + 1 \/ p = Len(queue) + 2
  BY <1>1, <1>2
<1>4. /\ \A p \in 1 .. Len(queue) : p \in 1 .. Len(queue') /\ p < Len(queue) + 1
      /\ Len(queue) + 1 \in 1 .. Len(queue')
  BY <1>1, <1>2
<1>5. Appends' = Appends \cup {Len(queue) + 1}
  <2>1. SyncOp.kind # "append"
    BY DEF SyncOp
  <2> QED
    BY <1>2, <1>3, <1>4, <2>1 DEF Appends
<1>6. queue # << >> => Head(queue') = Head(queue)
  BY <1>1, <1>2
<1>7. queue' # << >>
  BY <1>1, <1>2
<1> QED
  BY <1>2, <1>4, <1>5, <1>6, <1>7 DEF Appends

\* A turn is accumulated, or rows are handed over: their positions are the next.
LEMMA RecordKeeps ==
  ASSUME TypeOK, NEW led \in Ledgers, NEW what, Record(what, led), Ready(led), UNCHANGED <<json, log>>
  PROVE  /\ said' \in 0 .. MaxTurns /\ ledger' \in Ledgers /\ queue' \in Seq(Ops) /\ Ready(ledger)'
         /\ \/ queue' = queue /\ ledger'.persisted = led.persisted /\ ledger'.started = led.started
            \/ ledger'.started
         /\ queue # << >> => queue' # << >> /\ Head(queue') = Head(queue)
<1>1. led.turns \in Seq(Turn) /\ led.persisted \in Nat /\ Len(led.turns) \in Nat /\ led.started \in BOOLEAN
  BY DEF Ledgers
<1>2. File' = File /\ Rows' = Rows
  BY DEF File, Rows
<1>3. CASE Say(led)
  <2>1. PICK turn \in Turn : said' = turn /\ ledger' = [led EXCEPT !.turns = Append(@, turn)] /\ queue' = queue
    BY <1>3 DEF Say
  <2>2. /\ ledger' \in Ledgers /\ ledger'.persisted = led.persisted /\ ledger'.started = led.started
        /\ Len(ledger'.turns) = Len(led.turns) + 1 /\ said' \in 0 .. MaxTurns
    <3>1. Append(led.turns, turn) \in Seq(Turn) /\ Len(Append(led.turns, turn)) = Len(led.turns) + 1
      BY <1>1
    <3>2. said' \in 0 .. MaxTurns
      BY <2>1, BoundsAssumption DEF Turn
    <3> QED
      BY <2>1, <3>1, <3>2 DEF Ledgers
  <2>3. FreeFrom(led.persisted)' /\ QueueFits(led.persisted)'
    BY <1>2, <2>1 DEF Ready, FreeFrom, QueueFits, Appends, First, End
  <2>4. Ready(ledger)'
    BY <1>1, <2>2, <2>3 DEF Ready, FreeFrom, QueueFits
  <2> QED
    BY <2>1, <2>2, <2>4 DEF TypeOK
<1>4. CASE Save(led)
  <2>1. PICK op \in Ops :
           /\ queue' = queue \o <<op, SyncOp>> /\ op.kind = "append"
           /\ op.rows \in Seq(Row) /\ Len(op.rows) = Len(led.turns) - led.persisted /\ op.rows # << >>
           /\ \A i \in 1 .. Len(op.rows) : op.rows[i].seq = led.persisted + i - 1
    BY <1>4, Saved
  <2>2. /\ queue' \in Seq(Ops) /\ queue' # << >>
        /\ \A p \in 1 .. Len(queue) : queue'[p] = queue[p]
        /\ Appends' = Appends \cup {Len(queue) + 1} /\ queue'[Len(queue) + 1] = op
        /\ \A p \in Appends : p < Len(queue) + 1
        /\ queue # << >> => Head(queue') = Head(queue)
    BY <2>1, PushedRows
  <2>0. PICK last : last = Len(queue) + 1
    OBVIOUS
  <2>3. ledger' = [led EXCEPT !.persisted = Len(led.turns), !.started = TRUE] /\ said' = said
    BY <1>4 DEF Save
  <2>4. /\ ledger' \in Ledgers /\ ledger'.persisted = Len(led.turns) /\ ledger'.started
        /\ ledger'.turns = led.turns /\ said' \in 0 .. MaxTurns
    BY <1>1, <2>3 DEF Ledgers, TypeOK
  <2>5. op.rows[1].seq = led.persisted /\ led.persisted + Len(op.rows) = Len(led.turns)
    <3>1. 1 \in 1 .. Len(op.rows)
      BY <2>1
    <3> QED
      BY <1>1, <2>1, <3>1
  <2>6. \A p \in Appends : p \in Appends' /\ First(p)' = First(p) /\ End(p)' = End(p) /\ queue'[p] = queue[p]
    BY <2>2 DEF First, End, Appends
  <2>7. First(last)' = led.persisted /\ End(last)' = Len(led.turns)
    BY <1>1, <2>0, <2>2, <2>5 DEF First, End
  <2>8. FreeFrom(Len(led.turns))'
    BY <1>1, <1>2, DiskTyped DEF Ready, FreeFrom
  <2>9. ASSUME NEW p \in Appends'
        PROVE  /\ queue'[p].rows # << >> /\ End(p)' <= Len(led.turns) /\ FreeFrom(First(p))'
               /\ \A i \in 1 .. Len(queue'[p].rows) : queue'[p].rows[i].seq = First(p)' + i - 1
               /\ \A q \in Appends' : p < q => End(p)' <= First(q)'
    <3>1. CASE p = last
      <4>1. \A q \in Appends' : ~ p < q
        <5>1. Len(queue) \in Nat
          BY DEF TypeOK
        <5> QED
          BY <2>0, <2>2, <3>1, <5>1 DEF Appends
      <4>2. FreeFrom(First(p))'
        BY <1>2, <2>7, <3>1 DEF Ready, FreeFrom
      <4> QED
        <5>1. queue'[p] = op /\ First(p)' = led.persisted /\ End(p)' = Len(led.turns)
          BY <2>0, <2>2, <2>7, <3>1
        <5>2. End(p)' <= Len(led.turns)
          BY <1>1, <5>1
        <5> QED
          BY <2>1, <4>1, <4>2, <5>1, <5>2
    <3>2. CASE p \in Appends
      <4>1. /\ queue[p].rows # << >> /\ End(p) <= led.persisted /\ FreeFrom(First(p))
            /\ \A i \in 1 .. Len(queue[p].rows) : queue[p].rows[i].seq = First(p) + i - 1
            /\ \A q \in Appends : p < q => End(p) <= First(q)
        BY <3>2 DEF Ready, QueueFits
      <4>2. FreeFrom(First(p))'
        BY <1>2, <2>6, <3>2, <4>1 DEF FreeFrom
      <4>3. End(p) \in Int
        <5>1. p \in 1 .. Len(queue) /\ queue[p].kind = "append"
          BY <3>2 DEF Appends
        <5>2. 1 \in 1 .. Len(queue[p].rows) /\ Len(queue[p].rows) \in Nat
          BY <4>1, <5>1, OpTyped
        <5> QED
          BY <5>1, <5>2, OpTyped DEF First, End
      <4>4. End(p) <= Len(led.turns)
        BY <1>1, <4>1, <4>3 DEF Ready
      <4>5. \A q \in Appends' : p < q => End(p)' <= First(q)'
        BY <2>0, <2>2, <2>6, <2>7, <3>2, <4>1
      <4> QED
        BY <2>6, <3>2, <4>1, <4>2, <4>4, <4>5
    <3> QED
      BY <2>0, <2>2, <3>1, <3>2
  <2>10. QueueFits(Len(led.turns))'
    BY <2>9 DEF QueueFits
  <2>11. Ready(ledger)'
    BY <1>1, <2>4, <2>8, <2>10 DEF Ready, FreeFrom, QueueFits
  <2> QED
    BY <2>2, <2>4, <2>11
<1> QED
  BY <1>3, <1>4 DEF Record

\* The disk is left alone.
LEMMA DiskStays ==
  ASSUME DiskInv, UNCHANGED <<foldVars, diskVars, pastVars>>
  PROVE  DiskInv'
BY DEF DiskInv, foldVars, diskVars, pastVars, File, Rows, View

\* A ledger that the session has not been restored into is as good as restored
\* where there is nothing to restore.
LEMMA NothingToRestore ==
  ASSUME KInv, NEW led \in Ledgers, led.persisted = 0, Appends = {}, ~ booting, indexed = None,
         DeleteOp \notin ToSet(queue)
  PROVE  log = None /\ Ready(led)
<1> USE DEF KInv
<1>1. ~ deleting
  <2>1. queue # << >> => Head(queue) \in ToSet(queue)
    BY HeadTyped, ToSetElements DEF TypeOK
  <2> QED
    BY <2>1 DEF ControlInv
<1>2. File = << >> /\ Rows = << >> /\ log = None
  BY <1>1, NoFile DEF ControlInv, File, Rows
<1>3. led.turns \in Seq(Turn)
  BY DEF Ledgers
<1> QED
  BY <1>2, <1>3 DEF Ready, FreeFrom, QueueFits

\* The ledger accumulate_user_turn finds: the session's, or a new one, and then
\* no rows are queued.
AtHand == IF ledger = None \/ forgotten THEN NewLedger ELSE ledger

LEMMA AtHandTyped ==
  ASSUME KInv, NEW what, Enter(what), ~ misread'
  PROVE  /\ AtHand \in Ledgers /\ AtHand # None
         /\ AtHand.turns \in Seq(Turn) /\ AtHand.started \in BOOLEAN
         /\ AtHand.persisted <= Len(AtHand.turns) /\ AtHand.persisted \in Nat /\ Len(AtHand.turns) \in Nat
         /\ AtHand.started => Started /\ AtHand = ledger
         /\ ~ AtHand.started => AtHand.persisted = 0 /\ Appends = {}
         /\ \/ AtHand = ledger /\ ledger # None
            \/ AtHand = NewLedger /\ AtHand.turns = << >>
<1> USE DEF KInv
<1>1. /\ NewLedger \in Ledgers /\ NewLedger.persisted = 0 /\ NewLedger.turns = << >>
      /\ ~ NewLedger.started /\ NewLedger.started \in BOOLEAN
  BY DEF NewLedger, Ledgers
<1>2. Len(NewLedger.turns) = 0 /\ NewLedger.turns \in Seq(Turn)
  BY <1>1
<1>3. CASE ledger = None \/ forgotten
  <2>1. AtHand = NewLedger
    BY <1>3 DEF AtHand
  <2>2. Appends = {}
    <3>1. CASE forgotten
      <4>1. ~ Unwritten
        BY <3>1 DEF Enter
      <4>2. DOMAIN queue = 1 .. Len(queue)
        BY DEF TypeOK
      <4> QED
        BY <4>1, <4>2 DEF Unwritten, Appends
    <3>2. CASE ledger = None
      BY <3>2 DEF PositionInv, Started
    <3> QED
      BY <1>3, <3>1, <3>2
  <2>3. AtHand = NewLedger /\ AtHand # None /\ AtHand.turns = << >> /\ ~ AtHand.started
    BY <1>1, <2>1, NoLedger
  <2>4. AtHand.persisted = 0 /\ Len(AtHand.turns) = 0 /\ AtHand.started \in BOOLEAN
    BY <1>1, <1>2, <2>1
  <2>5. AtHand \in Ledgers /\ AtHand.turns \in Seq(Turn)
    BY <1>1, <1>2, <2>1
  <2> HIDE DEF KInv
  <2> QED
    BY <2>2, <2>3, <2>4, <2>5
<1>4. CASE ledger # None /\ ~ forgotten
  <2>1. AtHand = ledger /\ ledger \in Ledgers
    BY <1>4 DEF AtHand, TypeOK
  <2>2. ledger.persisted \in Nat /\ ledger.turns \in Seq(Turn) /\ ledger.started \in BOOLEAN
    BY <2>1 DEF Ledgers
  <2>3. Len(ledger.turns) \in Nat
    BY <2>2
  <2> QED
    BY <1>4, <2>1, <2>2, <2>3 DEF Started, PositionInv, Ready, ControlInv
<1> QED
  BY <1>3, <1>4

LEMMA NotReading ==
  ASSUME TypeOK, NEW what \in {"say", "save"}
  PROVE  [what |-> what, file |-> json] # None
<1>1. json \in Seq(Nat) \cup {None}
  <2>1. json \in Seq(Turn) \cup {None} /\ Turn \subseteq Nat
    BY BoundsAssumption DEF TypeOK, Files, Turn
  <2> QED
    BY <2>1, SeqMonotonic
<1> QED
  BY <1>1, NoneAssumption

LEMMA EnterKeepsK ==
  ASSUME KInv, TypeOK', NEW what \in {"say", "save"}, Enter(what), ~ misread'
  PROVE  KInv'
<1> DEFINE led == AtHand
<1> USE DEF KInv
<1>1. /\ reading = None /\ DeleteOp \notin ToSet(queue) /\ forgotten' = FALSE
      /\ UNCHANGED <<booting, foldVars, diskVars, pastVars>>
  BY DEF Enter, Free
<1>2. UNCHANGED <<folding, merged, deleting, json, log, synced, undo, indexed, kept, gone, disturbed, crashes, booting>>
  BY <1>1 DEF foldVars, diskVars, pastVars
<1>3. /\ led \in Ledgers /\ led # None /\ led.started \in BOOLEAN /\ led.turns \in Seq(Turn)
      /\ led.persisted <= Len(led.turns) /\ led.persisted \in Nat /\ Len(led.turns) \in Nat
      /\ led.started => Started /\ led = ledger
      /\ ~ led.started => led.persisted = 0 /\ Appends = {}
  BY AtHandTyped
<1> HIDE DEF led
<1>4. DiskInv'
  BY <1>1, DiskStays
<1>5. CASE booting /\ what = "say" /\ Say(led) /\ UNCHANGED reading
  <2>1. PICK turn \in Turn : ledger' = [led EXCEPT !.turns = Append(@, turn)] /\ queue' = queue
    BY <1>5 DEF Say
  <2>2. ~ led.started /\ Appends = {}
    BY <1>3, <1>5 DEF ControlInv
  <2>3. ~ ledger'.started /\ ledger'.persisted = 0
    BY <1>3, <2>1, <2>2 DEF Ledgers
  <2>4. ~ Started' /\ Appends' = {}
    BY <2>1, <2>2, <2>3 DEF Started, Appends
  <2>5. ControlInv'
    BY <1>1, <1>2, <1>5, <2>1, <2>2, <2>3, <2>4 DEF ControlInv
  <2>6. PositionInv'
    BY <2>4 DEF PositionInv
  <2> QED
    BY <1>4, <2>5, <2>6
<1>6. CASE ~ booting /\ (led.started \/ indexed = None) /\ Record(what, led) /\ UNCHANGED reading
  <2>1. Ready(led) /\ (~ led.started => log = None)
    <3>1. CASE led.started
      BY <1>3, <3>1 DEF PositionInv
    <3>2. CASE ~ led.started
      BY <1>1, <1>3, <1>6, <3>2, NothingToRestore
    <3> QED
      BY <3>1, <3>2
  <2>2. /\ ledger' \in Ledgers /\ Ready(ledger)'
        /\ \/ queue' = queue /\ ledger'.persisted = led.persisted /\ ledger'.started = led.started
           \/ ledger'.started
        /\ queue # << >> => queue' # << >> /\ Head(queue') = Head(queue)
    BY <1>2, <1>3, <1>6, <2>1, RecordKeeps
  <2>3. ledger' # None
    BY <2>2, NoLedger
  <2>4. \/ queue' = queue /\ ledger'.persisted = led.persisted /\ (Started' <=> led.started)
        \/ Started'
    BY <1>3, <2>2, <2>3 DEF Started
  <2>5. ControlInv'
    BY <1>1, <1>2, <1>3, <1>6, <2>1, <2>2, <2>4 DEF ControlInv
  <2>6. PositionInv'
    <3>1. CASE Started'
      BY <2>2, <3>1 DEF PositionInv
    <3>2. CASE ~ Started'
      BY <1>3, <2>4, <3>2 DEF PositionInv, Appends
    <3> QED
      BY <3>1, <3>2
  <2> QED
    BY <1>4, <2>5, <2>6
<1>7. CASE /\ ~ booting /\ ~ led.started
           /\ reading' = [what |-> what, file |-> json] /\ ledger' = led /\ UNCHANGED <<said, queue>>
  <2>1. ~ Started' /\ Appends' = {}
    BY <1>3, <1>7 DEF Started, Appends
  <2>2. reading' # None
    BY <1>7, NotReading
  <2>3. ControlInv'
    BY <1>1, <1>2, <1>3, <1>7, <2>1, <2>2 DEF ControlInv
  <2>4. PositionInv'
    BY <2>1 DEF PositionInv
  <2> QED
    BY <1>4, <2>3, <2>4
<1> QED
  BY <1>5, <1>6, <1>7 DEF Enter, led, AtHand

\* What get_session returns is the session, and the ledger it is restored into
\* hands over what is behind it.
LEMMA RestoredReady ==
  ASSUME KInv, ReadLog, ~ misread'
  PROVE  LET led == Restored(ledger, View)
         IN  /\ ledger # None /\ ~ Started /\ ~ booting /\ ledger.persisted = 0 /\ Appends = {}
             /\ led \in Ledgers /\ led.persisted = Len(View) /\ led.started /\ Ready(led)
             /\ \/ Record(reading.what, led)
                \/ ledger' = led /\ UNCHANGED <<said, queue>>
<1> DEFINE led == Restored(ledger, View)
<1> USE DEF KInv
<1>1. ledger # None /\ ~ Started /\ ~ booting /\ ledger.persisted = 0 /\ Appends = {}
  BY DEF ReadLog, ControlInv, PositionInv
<1>2. reading.file = json /\ ~ Gap(View)
  BY DEF ReadLog, View
<1>3. \/ Record(reading.what, led)
      \/ ledger' = led /\ UNCHANGED <<said, queue>>
  BY <1>2 DEF ReadLog, View
<1>4. View \in Seq(Turn) /\ Begins(File, View) /\ Rows \in Seq(Row) /\ Len(View) \in Nat
  BY DiskTyped
<1>5. FreeFrom(Len(View))
  <2>1. ASSUME NEW i \in 1 .. Len(Rows) PROVE Rows[i].seq < Len(View)
    <3>1. DOMAIN Turns(log) = 1 .. Len(Rows) /\ log # None
      BY <1>4, <2>1, NoFile DEF Rows
    <3>2. log[i] = Rows[i] /\ Rows[i].seq \in Nat
      BY <3>1, DiskTyped DEF Rows, Turns
    <3> QED
      BY <1>2, <1>4, <3>1, <3>2 DEF Gap
  <2> QED
    BY <1>4, <2>1 DEF FreeFrom, Begins
<1>6. led \in Ledgers /\ led.persisted = Len(View) /\ led.started /\ led.persisted <= Len(led.turns)
  <2>1. ledger.turns \in Seq(Turn)
    BY <1>1 DEF TypeOK, Ledgers
  <2>2. View \o ledger.turns \in Seq(Turn) /\ Len(View \o ledger.turns) = Len(View) + Len(ledger.turns)
    BY <1>4, <2>1
  <2> QED
    BY <1>1, <1>4, <2>1, <2>2 DEF Restored, Ledgers
<1>7. Ready(led)
  BY <1>1, <1>5, <1>6 DEF Ready, QueueFits
<1> QED
  BY <1>1, <1>3, <1>6, <1>7

LEMMA ReadLogKeepsK ==
  ASSUME KInv, TypeOK', ReadLog, ~ misread'
  PROVE  KInv'
<1> DEFINE led == Restored(ledger, View)
<1> USE DEF KInv
<1>1. reading' = None /\ UNCHANGED <<forgotten, booting, foldVars, diskVars, pastVars>>
  BY DEF ReadLog
<1>2. UNCHANGED <<folding, merged, deleting, json, log, synced, undo, indexed, kept, gone, disturbed, crashes, booting>>
  BY <1>1 DEF foldVars, diskVars, pastVars
<1>3. /\ led \in Ledgers /\ led.started /\ Ready(led) /\ ~ booting
      /\ \/ Record(reading.what, led)
         \/ ledger' = led /\ UNCHANGED <<said, queue>>
  BY RestoredReady
<1> HIDE DEF led
<1>4. /\ ledger' \in Ledgers /\ Ready(ledger)' /\ ledger'.started
      /\ queue # << >> => queue' # << >> /\ Head(queue') = Head(queue)
  <2>1. CASE Record(reading.what, led)
    BY <1>2, <1>3, <2>1, RecordKeeps
  <2>2. CASE ledger' = led /\ UNCHANGED <<said, queue>>
    <3>1. Ready(ledger)'
      BY <1>2, <1>3, <2>2 DEF Ready, FreeFrom, QueueFits, File, Rows, Appends, First, End
    <3> QED
      BY <1>3, <2>2, <3>1
  <2> QED
    BY <1>3, <2>1, <2>2
<1>5. Started'
  BY <1>4, NoLedger DEF Started
<1>6. ControlInv'
  BY <1>1, <1>2, <1>3, <1>4, <1>5 DEF ControlInv
<1>7. PositionInv' /\ DiskInv'
  BY <1>1, <1>4, <1>5, DiskStays DEF PositionInv
<1> QED
  BY <1>6, <1>7

LEMMA DropKeepsK ==
  ASSUME KInv, TypeOK', NEW ended \in BOOLEAN, Drop(ended)
  PROVE  KInv'
<1> USE DEF KInv
<1>1. /\ reading = None /\ ~ booting /\ queue' = IF ended THEN Append(queue, FoldOp) ELSE queue
      /\ UNCHANGED <<said, ledger, reading, booting, foldVars, diskVars, pastVars>>
  BY DEF Drop, Free
<1>2. UNCHANGED <<folding, merged, deleting, json, log, synced, undo, indexed, kept, gone, disturbed, crashes>>
  BY <1>1 DEF foldVars, diskVars, pastVars
<1>3. queue # << >> => queue' # << >> /\ Head(queue') = Head(queue)
  BY <1>1, Pushed
<1>4. ControlInv'
  BY <1>1, <1>2, <1>3 DEF ControlInv, Started
<1>5. PositionInv'
  <2>1. \A m \in Nat : FreeFrom(m) => FreeFrom(m)'
    BY <1>2 DEF FreeFrom, File, Rows
  <2> QED
    BY <1>1, <2>1, PositionsStay
<1>6. DiskInv'
  BY <1>1, DiskStays
<1> QED
  BY <1>4, <1>5, <1>6

\* An operation is queued that is no append.
LEMMA PushKeepsK ==
  ASSUME KInv, TypeOK', NEW op \in {FoldOp, DeleteOp}, ~ booting, queue' = Append(queue, op),
         op = DeleteOp => reading = None,
         UNCHANGED <<loopVars, foldVars, diskVars, pastVars>>
  PROVE  KInv'
<1> USE DEF KInv
<1>1. UNCHANGED <<said, ledger, forgotten, reading, booting, folding, merged, deleting, json, log, synced, undo, indexed,
                  kept, gone, disturbed, crashes>>
  BY DEF loopVars, foldVars, diskVars, pastVars
<1>2. /\ queue' \in Seq(Ops) /\ queue' # << >> /\ Appends' = Appends
      /\ queue # << >> => Head(queue') = Head(queue)
      /\ op = FoldOp => ToSet(queue') \subseteq ToSet(queue) \cup {FoldOp}
  BY Pushed
<1>3. FoldOp # DeleteOp
  BY DEF FoldOp, DeleteOp
<1>5. ControlInv'
  BY <1>1, <1>2, <1>3 DEF ControlInv, Started
<1>6. PositionInv'
  <2>1. \A m \in Nat : FreeFrom(m) => FreeFrom(m)'
    BY <1>1 DEF FreeFrom, File, Rows
  <2> QED
    BY <1>1, <2>1, PositionsStay
<1>7. DiskInv'
  BY DiskStays
<1> QED
  BY <1>5, <1>6, <1>7

LEMMA DeleteKeepsK ==
  ASSUME KInv, TypeOK', Delete
  PROVE  KInv'
BY PushKeepsK DEF Delete, Free

LEMMA SleepFoldKeepsK ==
  ASSUME KInv, TypeOK', SleepFold
  PROVE  KInv'
<1>1. FoldOp # DeleteOp
  BY DEF FoldOp, DeleteOp
<1> QED
  BY <1>1, PushKeepsK DEF SleepFold

LEMMA BootedKeepsK ==
  ASSUME KInv, TypeOK', Booted
  PROVE  KInv'
<1> USE DEF KInv
<1>1. /\ booting /\ queue = << >> /\ booting' = FALSE
      /\ UNCHANGED <<said, ledger, reading, queue, foldVars, diskVars, pastVars>>
  BY DEF Booted
<1>2. UNCHANGED <<folding, merged, deleting, json, log, synced, undo, indexed, kept, gone, disturbed, crashes>>
  BY <1>1 DEF foldVars, diskVars, pastVars
<1>4. Started' <=> Started
  BY <1>1 DEF Started
<1>5. ControlInv'
  BY <1>1, <1>2, <1>4 DEF ControlInv
<1>6. PositionInv'
  <2>1. ~ Started /\ Appends = {}
    BY <1>1 DEF ControlInv, PositionInv
  <2> QED
    BY <1>1, <1>4, <2>1 DEF PositionInv, Appends
<1>7. DiskInv'
  BY <1>1, DiskStays
<1> QED
  BY <1>5, <1>6, <1>7

-----------------------------------------------------------------------------
(* The writer thread *)

\* While an append is next, the process is past its start and nothing is folded
\* or deleted.
LEMMA AppendNext ==
  ASSUME KInv, Next1("append")
  PROVE  /\ 1 \in Appends /\ Head(queue) = queue[1] /\ Started /\ ~ booting
         /\ folding = "no" /\ ~ deleting /\ reading = None
         /\ queue[1].rows \in Seq(Row) /\ queue[1].contents \subseteq Turn /\ queue[1].contents # None
         /\ First(1) \in Nat /\ 1 \in 1 .. Len(queue[1].rows) /\ Len(queue[1].rows) \in Nat
         /\ \A i \in 1 .. Len(queue[1].rows) : /\ queue[1].rows[i].seq = First(1) + i - 1
                                               /\ queue[1].rows[i] \in Row
<1> USE DEF KInv
<1>1. queue # << >> /\ Head(queue).kind = "append"
  BY DEF Next1
<1>2. 1 \in 1 .. Len(queue) /\ Head(queue) = queue[1]
  BY <1>1, HeadTyped
<1>3. 1 \in Appends
  BY <1>1, <1>2 DEF Appends
<1>4. Started
  BY <1>3 DEF PositionInv
<1>5. /\ queue[1].rows \in Seq(Row) /\ queue[1].contents \subseteq Turn
      /\ \A i \in 1 .. Len(queue[1].rows) : queue[1].rows[i].seq \in Nat
  BY <1>2, <1>1, OpTyped
<1>6. queue[1].contents # None
  BY <1>5, NoneAssumption DEF Turn
<1>7. /\ queue[1].rows # << >>
      /\ \A i \in 1 .. Len(queue[1].rows) : queue[1].rows[i].seq = First(1) + i - 1
  BY <1>3, <1>4 DEF PositionInv, Ready, QueueFits
<1>8. 1 \in 1 .. Len(queue[1].rows) /\ Len(queue[1].rows) \in Nat
  BY <1>5, <1>7
<1>9. First(1) \in Nat
  BY <1>5, <1>8 DEF First
<1>10. folding = "no" /\ ~ deleting
  BY <1>1 DEF ControlInv, FoldOp, DeleteOp, TypeOK
<1>11. ~ booting /\ reading = None
  BY <1>4 DEF ControlInv
<1> QED
  BY <1>2, <1>3, <1>4, <1>5, <1>6, <1>7, <1>8, <1>9, <1>10, <1>11, ElementOfSeq

\* The log with the first rows of an append behind it.
LEMMA LogGrows ==
  ASSUME KInv, Next1("append"), NEW n \in 0 .. Len(queue[1].rows)
  PROVE  /\ Rows \o SubSeq(queue[1].rows, 1, n) \in Seq(Row)
         /\ Len(Rows \o SubSeq(queue[1].rows, 1, n)) = Len(Rows) + n
         /\ \A i \in 1 .. Len(Rows) + n :
              (Rows \o SubSeq(queue[1].rows, 1, n))[i] =
                IF i <= Len(Rows) THEN Rows[i] ELSE queue[1].rows[i - Len(Rows)]
         /\ Covered(File, Rows \o SubSeq(queue[1].rows, 1, n))
         /\ \A i \in 1 .. Len(Rows) + n :
              (Rows \o SubSeq(queue[1].rows, 1, n))[i].seq < First(1) + n
<1> DEFINE new == SubSeq(queue[1].rows, 1, n)
           grown == Rows \o new
           rows == queue[1].rows
<1> USE DEF KInv
<1>1. /\ rows \in Seq(Row) /\ First(1) \in Nat /\ Len(rows) \in Nat
      /\ \A i \in 1 .. Len(rows) : rows[i].seq = First(1) + i - 1
      /\ 1 \in Appends /\ Started
  BY AppendNext
<1>2. new \in Seq(Row) /\ Len(new) = n /\ \A i \in 1 .. n : new[i] = rows[i]
  BY <1>1
<1>3. Rows \in Seq(Row) /\ Len(Rows) \in Nat /\ File \in Seq(Turn) /\ Len(File) \in Nat
  BY DiskTyped
<1> HIDE DEF new
<1>4. /\ grown \in Seq(Row) /\ Len(grown) = Len(Rows) + n
      /\ \A i \in 1 .. Len(Rows) + n : grown[i] = IF i <= Len(Rows) THEN Rows[i] ELSE new[i - Len(Rows)]
  BY <1>2, <1>3, ConcatProperties
<1> HIDE DEF grown, rows
<1>5. \A i \in 1 .. Len(Rows) + n : ~ i <= Len(Rows) => i - Len(Rows) \in 1 .. n /\ i - Len(Rows) \in 1 .. Len(rows)
  BY <1>2, <1>3 DEF rows
<1>6. \A i \in 1 .. Len(Rows) + n : grown[i] = IF i <= Len(Rows) THEN Rows[i] ELSE rows[i - Len(Rows)]
  BY <1>2, <1>4, <1>5
<1>7. Len(File) <= First(1) /\ \A i \in 1 .. Len(Rows) : Rows[i].seq < First(1) /\ Rows[i].seq \in Nat
  BY <1>1, DiskTyped DEF PositionInv, Ready, QueueFits, FreeFrom
<1>8. \A i \in 1 .. Len(Rows) + n : grown[i].seq < First(1) + n
  <2> SUFFICES ASSUME NEW i \in 1 .. Len(Rows) + n PROVE grown[i].seq < First(1) + n
    OBVIOUS
  <2>1. CASE i <= Len(Rows)
    <3>1. i \in 1 .. Len(Rows) /\ grown[i] = Rows[i]
      BY <1>3, <1>6, <2>1
    <3> QED
      BY <1>1, <1>7, <3>1
  <2>2. CASE ~ i <= Len(Rows)
    <3>1. grown[i].seq = First(1) + (i - Len(Rows)) - 1
      BY <1>1, <1>5, <1>6, <2>2
    <3> QED
      BY <1>1, <1>3, <1>5, <2>2, <3>1
  <2> QED
    BY <2>1, <2>2
<1>9. Covered(File, grown)
  <2> SUFFICES ASSUME NEW k \in 1 .. Len(Rows) + n
               PROVE  /\ \A i \in 1 .. k - 1 : grown[i].seq < grown[k].seq
                      /\ grown[k].turn \in ToSet(File) \/ Len(File) <= grown[k].seq
    BY <1>4 DEF Covered
  <2>1. CASE k <= Len(Rows)
    <3>1. k \in 1 .. Len(Rows) /\ grown[k] = Rows[k] /\ \A i \in 1 .. k - 1 : grown[i] = Rows[i]
      BY <1>3, <1>6, <2>1
    <3> QED
      BY <3>1 DEF DiskInv, Covered
  <2>2. CASE ~ k <= Len(Rows)
    <3>1. grown[k].seq = First(1) + (k - Len(Rows)) - 1 /\ k - Len(Rows) \in 1 .. n
      BY <1>1, <1>5, <1>6, <2>2
    <3>2. ASSUME NEW i \in 1 .. k - 1 PROVE grown[i].seq < grown[k].seq
      <4>1. CASE i <= Len(Rows)
        <5>1. i \in 1 .. Len(Rows) /\ grown[i] = Rows[i]
          BY <1>3, <1>6, <4>1
        <5> QED
          BY <1>1, <1>3, <1>7, <3>1, <5>1
      <4>2. CASE ~ i <= Len(Rows)
        <5>1. i \in 1 .. Len(Rows) + n
          BY <1>3
        <5>2. grown[i].seq = First(1) + (i - Len(Rows)) - 1
          BY <1>1, <1>5, <1>6, <4>2, <5>1
        <5> QED
          <6>1. i < k /\ i \in Nat /\ k \in Nat
            BY <1>3
          <6> QED
            BY <1>1, <1>3, <3>1, <5>2, <6>1
      <4> QED
        BY <4>1, <4>2
    <3>3. Len(File) <= grown[k].seq
      BY <1>1, <1>3, <1>7, <3>1
    <3> QED
      BY <3>2, <3>3
  <2> QED
    BY <2>1, <2>2
<1> QED
  BY <1>4, <1>6, <1>8, <1>9 DEF grown, new, rows

LEMMA DoAppendKeepsK ==
  ASSUME KInv, TypeOK', DoAppend
  PROVE  KInv'
<1> USE DEF KInv
<1>1. /\ Next1("append") /\ indexed' = Head(queue).contents /\ queue' = Tail(queue) /\ disturbed' \in BOOLEAN
      /\ UNCHANGED <<loopVars, foldVars, json, synced, undo, kept, gone, crashes>>
  BY DEF DoAppend, Done, TypeOK
<1>2. UNCHANGED <<said, ledger, forgotten, reading, booting, folding, merged, deleting, json, synced, undo, kept, gone, crashes>>
  BY <1>1 DEF loopVars, foldVars
<1>3. /\ 1 \in Appends /\ Head(queue) = queue[1] /\ Started /\ ~ booting
      /\ folding = "no" /\ ~ deleting /\ reading = None
      /\ queue[1].rows \in Seq(Row) /\ queue[1].contents \subseteq Turn /\ queue[1].contents # None
      /\ First(1) \in Nat /\ Len(queue[1].rows) \in Nat
  BY <1>1, AppendNext
<1>4. PICK n \in 0 .. Len(queue[1].rows) : log' = Rows \o SubSeq(queue[1].rows, 1, n)
  <2>1. CASE WriteRows(Head(queue).rows)
    <3>1. SubSeq(queue[1].rows, 1, Len(queue[1].rows)) = queue[1].rows
      BY <1>3, SubSeqFull
    <3>2. Len(queue[1].rows) \in 0 .. Len(queue[1].rows)
      BY <1>3
    <3> QED
      BY <1>3, <2>1, <3>1, <3>2 DEF WriteRows, Rows
  <2>2. CASE \E n \in 0 .. Len(Head(queue).rows) - 1 : WriteRows(SubSeq(Head(queue).rows, 1, n))
    <3>1. PICK n \in 0 .. Len(queue[1].rows) - 1 : log' = Rows \o SubSeq(queue[1].rows, 1, n)
      BY <1>3, <2>2 DEF WriteRows, Rows
    <3>2. n \in 0 .. Len(queue[1].rows)
      BY <1>3
    <3> QED
      BY <3>1, <3>2
  <2> QED
    BY <2>1, <2>2 DEF DoAppend
<1>5. /\ log' \in Seq(Row) /\ Len(log') = Len(Rows) + n
      /\ \A i \in 1 .. Len(Rows) + n : log'[i] = IF i <= Len(Rows) THEN Rows[i] ELSE queue[1].rows[i - Len(Rows)]
      /\ Covered(File, log')
      /\ \A i \in 1 .. Len(Rows) + n : log'[i].seq < First(1) + n
  BY <1>1, <1>4, LogGrows
<1>6. Rows' = log' /\ File' = File /\ log' # None
  BY <1>2, <1>5, NoFile DEF Rows, File
<1>7. Rows \in Seq(Row) /\ Len(Rows) \in Nat /\ \A i \in 1 .. Len(Rows) : log'[i] = Rows[i]
  BY <1>5, DiskTyped
<1>8. synced \in 0 .. Len(Rows)
  BY DEF TypeOK, Rows
<1>9. queue # << >>
  BY <1>1 DEF Next1
<1>10. queue' \in Seq(Ops)
  BY <1>1, <1>9, Popped
<1>12. ControlInv'
  BY <1>1, <1>2, <1>3 DEF ControlInv, Started
<1>13. DiskInv'
  <2>1. {Rows[i].turn : i \in 1 .. synced} \subseteq {Rows'[i].turn : i \in 1 .. synced'}
    BY <1>2, <1>6, <1>7, <1>8
  <2> QED
    BY <1>2, <1>3, <1>5, <1>6, <2>1 DEF DiskInv
<1>14. PositionInv'
  <2>1. Started' /\ ledger.persisted \in Nat /\ ledger.persisted <= Len(ledger.turns)
    BY <1>2, <1>3 DEF Started, TypeOK, Ledgers, PositionInv, Ready
  <2>2. \A p \in Appends' : p + 1 \in Appends /\ queue'[p] = queue[p + 1]
    BY <1>1, <1>9, Popped
  <2>3. End(1) <= ledger.persisted /\ Len(File) <= First(1) /\ \A q \in Appends : 1 < q => End(1) <= First(q)
    BY <1>3 DEF PositionInv, Ready, QueueFits, FreeFrom
  <2>4. ASSUME NEW m \in Nat, End(1) <= m PROVE FreeFrom(m)'
    <3>1. Len(File) <= m /\ \A i \in 1 .. Len(Rows) + n : log'[i].seq < m
      <4>1. First(1) + n <= m
        BY <1>3, <2>4 DEF End
      <4>2. \A i \in 1 .. Len(log') : log'[i] \in Row
        BY <1>5, ElementOfSeq
      <4>3. Len(File) \in Nat
        BY DiskTyped
      <4> QED
        BY <1>3, <1>5, <2>3, <4>1, <4>2, <4>3 DEF Row
    <3> QED
      BY <1>5, <1>6, <3>1 DEF FreeFrom
  <2>5. ASSUME NEW p \in Appends'
        PROVE  /\ queue'[p].rows # << >> /\ End(p)' <= ledger.persisted /\ FreeFrom(First(p))'
               /\ \A i \in 1 .. Len(queue'[p].rows) : queue'[p].rows[i].seq = First(p)' + i - 1
               /\ \A q \in Appends' : p < q => End(p)' <= First(q)'
    <3>1. p + 1 \in Appends /\ p + 1 > 1 /\ \A q \in Appends' : p < q => q + 1 \in Appends /\ p + 1 < q + 1
      BY <2>2 DEF Appends
    <3>2. \A q \in Appends' : First(q)' = First(q + 1) /\ End(q)' = End(q + 1)
      BY <2>2 DEF First, End
    <3>3. /\ queue[p + 1].rows # << >> /\ End(p + 1) <= ledger.persisted
          /\ \A i \in 1 .. Len(queue[p + 1].rows) : queue[p + 1].rows[i].seq = First(p + 1) + i - 1
          /\ \A q \in Appends : p + 1 < q => End(p + 1) <= First(q)
      BY <1>3, <3>1 DEF PositionInv, Ready, QueueFits
    <3>4. First(p + 1) \in Nat
      <4>1. p + 1 \in 1 .. Len(queue) /\ queue[p + 1].kind = "append"
        BY <3>1 DEF Appends
      <4>2. 1 \in 1 .. Len(queue[p + 1].rows)
        BY <3>3, <4>1, OpTyped
      <4> QED
        BY <4>1, <4>2, OpTyped DEF First
    <3>5. FreeFrom(First(p))'
      <4>1. End(1) <= First(p + 1)
        BY <2>3, <3>1
      <4>2. Len(File') <= First(p + 1) /\ \A i \in 1 .. Len(Rows') : Rows'[i].seq < First(p + 1)
        BY <2>4, <3>4, <4>1 DEF FreeFrom
      <4> QED
        BY <3>2, <4>2 DEF FreeFrom
    <3> QED
      BY <2>2, <3>1, <3>2, <3>3, <3>5
  <2>6. FreeFrom(ledger.persisted)'
    BY <1>2, <2>1, <2>3, <2>4 DEF FreeFrom
  <2> QED
    BY <1>2, <2>1, <2>5, <2>6 DEF PositionInv, Ready, QueueFits
<1> QED
  BY <1>12, <1>13, <1>14

LEMMA DoSyncKeepsK ==
  ASSUME KInv, TypeOK', DoSync
  PROVE  KInv'
<1> USE DEF KInv
<1>1. /\ queue # << >> /\ Head(queue).kind = "sync" /\ queue' = Tail(queue)
      /\ synced' = Len(Rows) /\ kept' = kept \cup TurnsOf(Rows)
      /\ undo' = IF log = None THEN undo ELSE None
      /\ UNCHANGED <<loopVars, foldVars, json, log, indexed, gone, disturbed, crashes>>
  BY DEF DoSync, Next1, Done, Rows
<1>2. UNCHANGED <<said, ledger, forgotten, reading, booting, folding, merged, deleting, json, log, indexed, gone, disturbed, crashes>>
  BY <1>1 DEF loopVars, foldVars
<1>3. /\ Rows' = Rows /\ File' = File /\ View' = View /\ Rows \in Seq(Row) /\ Len(Rows) \in Nat
      /\ \A i \in 1 .. Len(Rows) : Rows[i].turn \in Turn
  BY <1>2, DiskTyped DEF Rows, File, View
<1>4. folding = "no" /\ ~ deleting /\ queue # <<FoldOp>>
  BY <1>1 DEF ControlInv, FoldOp, DeleteOp, TypeOK
<1>5. PositionInv' /\ queue' \in Seq(Ops)
  <2>1. \A m \in Nat : FreeFrom(m) => FreeFrom(m)'
    BY <1>3 DEF FreeFrom
  <2> QED
    BY <1>1, <1>2, <2>1, PositionsStay, Popped
<1>6. TurnsOf(Rows) \subseteq Turn /\ TurnsOf(Rows) = {Rows[i].turn : i \in 1 .. Len(Rows)}
  BY <1>3 DEF TurnsOf
<1>8. ControlInv'
  <2>1. reading # None => DeleteOp \notin ToSet(queue')
    BY <1>1, Popped DEF ControlInv
  <2> QED
    BY <1>1, <1>2, <1>4, <2>1 DEF ControlInv, Started
<1>9. DiskInv'
  <2>1. kept' \ gone' \subseteq ToSet(File) \cup {Rows[i].turn : i \in 1 .. Len(Rows)}
    <3>1. synced \in 0 .. Len(Rows)
      BY DEF TypeOK, Rows
    <3>2. {Rows[i].turn : i \in 1 .. synced} \subseteq {Rows[i].turn : i \in 1 .. Len(Rows)}
      BY <1>3, <3>1
    <3> QED
      BY <1>1, <1>2, <1>6, <3>2 DEF DiskInv
  <2>2. log = None => TurnsOf(Rows) = {}
    BY NoFile DEF Rows, TurnsOf
  <2>3. undo' # None => undo' = undo /\ kept' = kept
    BY <1>1, <2>2
  <2> QED
    BY <1>1, <1>2, <1>3, <1>4, <2>1, <2>3 DEF DiskInv
<1> QED
  BY <1>5, <1>8, <1>9

\* A fold starts: nothing to fold, answers alone, or a session to write.
LEMMA DoFoldKeepsK ==
  ASSUME KInv, TypeOK', DoFold
  PROVE  KInv'
<1> USE DEF KInv
<1>1. /\ queue # << >> /\ Head(queue).kind = "fold" /\ folding = "no"
      /\ UNCHANGED <<loopVars, deleting, json, indexed, disturbed, crashes>>
  BY DEF DoFold, Next1
<1>2. UNCHANGED <<said, ledger, forgotten, reading, booting, deleting, json, indexed, disturbed, crashes>> /\ File' = File
  BY <1>1 DEF loopVars, File
<1>3. Head(queue) = FoldOp /\ ~ deleting
  BY <1>1, HeadTyped DEF ControlInv, FoldOp, DeleteOp
<1>4. File \in Seq(Turn) /\ Rows \in Seq(Row) /\ View \in Seq(Turn) /\ Len(Rows) \in Nat
      /\ \A i \in 1 .. Len(Rows) : Rows[i].turn \in Turn
  BY DiskTyped
<1>5. synced \in 0 .. Len(Rows) /\ TurnsOf(Rows) \subseteq Turn
      /\ TurnsOf(Rows) = {Rows[i].turn : i \in 1 .. Len(Rows)}
  <2>1. synced \in 0 .. Len(Rows)
    BY DEF TypeOK, Rows
  <2>2. DOMAIN Rows = 1 .. Len(Rows)
    BY <1>4
  <2>3. TurnsOf(Rows) = {Rows[i].turn : i \in 1 .. Len(Rows)}
    BY <2>2 DEF TurnsOf
  <2> QED
    BY <1>4, <2>1, <2>3
<1>6. {Rows[i].turn : i \in 1 .. synced} \subseteq TurnsOf(Rows)
  BY <1>4, <1>5
<1>7. Started' <=> Started
  BY <1>2 DEF Started
<1>8. CASE log = None /\ queue' = Tail(queue) /\ UNCHANGED <<folding, merged, log, synced, kept, gone, undo>>
  <2>1. Rows' = Rows /\ View' = View
    BY <1>2, <1>8 DEF Rows, View
  <2>2. queue' \in Seq(Ops) /\ ToSet(queue') \subseteq ToSet(queue)
    BY <1>1, <1>8, Popped
  <2>4. booting => queue' = << >>
    BY <1>1, <1>8 DEF ControlInv
  <2>5. ControlInv'
    BY <1>1, <1>2, <1>3, <1>7, <1>8, <2>2, <2>4 DEF ControlInv
  <2>6. PositionInv'
    <3>1. \A m \in Nat : FreeFrom(m) => FreeFrom(m)'
      BY <1>2, <2>1 DEF FreeFrom
    <3> QED
      BY <1>1, <1>2, <1>8, <3>1, PositionsStay
  <2>7. DiskInv'
    BY <1>2, <1>8, <2>1 DEF DiskInv
  <2> QED
    BY <2>5, <2>6, <2>7
<1>9. CASE /\ log # None /\ json = None
           /\ log' = None /\ synced' = 0 /\ gone' = gone \cup TurnsOf(log)
           /\ queue' = Tail(queue) /\ UNCHANGED <<folding, merged, kept, undo>>
  <2>1. Rows' = << >> /\ Len(Rows') = 0 /\ File = << >> /\ Rows = log
    BY <1>9, NoFile DEF Rows, File, Turns
  <2>2. queue' \in Seq(Ops) /\ ToSet(queue') \subseteq ToSet(queue)
    BY <1>1, <1>9, Popped
  <2>4. booting => queue' = << >>
    BY <1>1, <1>9 DEF ControlInv
  <2>5. ControlInv'
    BY <1>1, <1>2, <1>3, <1>7, <1>9, <2>2, <2>4 DEF ControlInv
  <2>6. PositionInv'
    <3>1. \A m \in Nat : FreeFrom(m) => FreeFrom(m)'
      BY <1>2, <2>1 DEF FreeFrom
    <3> QED
      BY <1>1, <1>2, <1>9, <3>1, PositionsStay
  <2>7. DiskInv'
    <3>1. ToSet(File) = {}
      <4>1. 1 .. Len(File) = {}
        BY <2>1
      <4>2. \A x : x \notin ToSet(File)
        BY <1>4, <4>1, ToSetElements
      <4> QED
        BY <4>2
    <3>2. kept' \ gone' = {}
      BY <1>6, <1>9, <2>1, <3>1 DEF DiskInv
    <3>3. undo' = None
      BY <1>9 DEF DiskInv
    <3>4. Covered(File', Rows')
      BY <2>1 DEF Covered
    <3> QED
      BY <1>1, <1>2, <1>3, <1>9, <3>2, <3>3, <3>4 DEF DiskInv
  <2> QED
    BY <2>5, <2>6, <2>7
<1>10. CASE /\ log # None /\ synced' = Len(log) /\ kept' = kept \cup TurnsOf(log)
            /\ merged' = View /\ folding' = "merged" /\ undo' = None /\ UNCHANGED <<log, gone, queue>>
  <2>1. Rows' = Rows /\ View' = View /\ Rows = log
    BY <1>2, <1>10 DEF Rows, View, Turns
  <2>3. ControlInv'
    BY <1>1, <1>2, <1>3, <1>7, <1>10 DEF ControlInv
  <2>4. PositionInv'
    <3>1. \A m \in Nat : FreeFrom(m) => FreeFrom(m)'
      BY <1>2, <2>1 DEF FreeFrom
    <3> QED
      BY <1>2, <1>10, <3>1, PositionsStay
  <2>5. DiskInv'
    <3>1. kept' \ gone' \subseteq ToSet(File) \cup {Rows[i].turn : i \in 1 .. synced'}
      <4>1. synced' = Len(Rows)
        BY <1>10, <2>1
      <4> QED
        BY <1>5, <1>6, <1>10, <2>1, <4>1 DEF DiskInv
    <3> QED
      BY <1>2, <1>3, <1>10, <2>1, <3>1 DEF DiskInv
  <2> QED
    BY <2>3, <2>4, <2>5
<1> QED
  BY <1>8, <1>9, <1>10 DEF DoFold, Done

\* Where folding is under way.
LEMMA FoldUnderWay ==
  ASSUME KInv, folding # "no"
  PROVE  /\ queue # << >> /\ Head(queue) = FoldOp /\ log # None /\ Rows = log /\ synced = Len(Rows)
         /\ ~ deleting
         /\ booting => queue = <<FoldOp>>
         /\ kept \ gone \subseteq ToSet(File) \cup TurnsOf(Rows)
         /\ TurnsOf(Rows) \subseteq ToSet(View) /\ ToSet(File) \subseteq ToSet(View)
<1> USE DEF KInv
<1>1. queue # << >> /\ Head(queue) = FoldOp /\ log # None /\ Rows = log /\ synced = Len(Rows)
  BY DEF ControlInv, Rows, Turns
<1>2. ~ deleting /\ (booting => queue = <<FoldOp>>)
  BY <1>1 DEF ControlInv, FoldOp, DeleteOp
<1>3. File \in Seq(Turn) /\ Rows \in Seq(Row) /\ View \in Seq(Turn) /\ View = Merge(File, Rows) /\ Begins(File, View)
  BY DiskTyped
<1>4. kept \ gone \subseteq ToSet(File) \cup TurnsOf(Rows)
  <2>1. TurnsOf(Rows) = {Rows[i].turn : i \in 1 .. Len(Rows)}
    BY <1>3 DEF TurnsOf
  <2> QED
    BY <1>1, <2>1 DEF DiskInv
<1>5. TurnsOf(Rows) \subseteq ToSet(View)
  <2>1. Covered(File, Rows)
    BY DEF DiskInv
  <2> QED
    BY <1>3, <2>1, MergeCovers
<1>6. ToSet(File) \subseteq ToSet(View)
  <2> SUFFICES ASSUME NEW x \in ToSet(File) PROVE x \in ToSet(View)
    OBVIOUS
  <2>1. PICK i \in 1 .. Len(File) : File[i] = x
    BY <1>3, ToSetElements
  <2>2. i \in 1 .. Len(View) /\ View[i] = x
    BY <1>3, <2>1 DEF Begins
  <2> QED
    BY <1>3, <2>2, ToSetElements
<1> QED
  BY <1>1, <1>2, <1>4, <1>5, <1>6

LEMMA WriteSessionKeepsK ==
  ASSUME KInv, TypeOK', WriteSession
  PROVE  KInv'
<1> USE DEF KInv
<1>1. /\ folding = "merged" /\ json' = merged /\ indexed' = ToSet(merged)
      /\ undo' = [json |-> json, log |-> log] /\ folding' = "written"
      /\ UNCHANGED <<loopVars, queue, merged, deleting, log, synced, pastVars>>
  BY DEF WriteSession
<1>2. UNCHANGED <<said, ledger, forgotten, reading, booting, queue, merged, deleting, log, synced, kept, gone, disturbed, crashes>>
  BY <1>1 DEF loopVars, pastVars
<1>3. /\ queue # << >> /\ Head(queue) = FoldOp /\ log # None /\ Rows = log /\ synced = Len(Rows)
      /\ ~ deleting
      /\ booting => queue = <<FoldOp>>
      /\ kept \ gone \subseteq ToSet(File) \cup TurnsOf(Rows)
      /\ TurnsOf(Rows) \subseteq ToSet(View) /\ ToSet(File) \subseteq ToSet(View)
  BY <1>1, FoldUnderWay
<1>4. /\ File \in Seq(Turn) /\ Rows \in Seq(Row) /\ View \in Seq(Turn) /\ View = Merge(File, Rows)
      /\ \A i \in 1 .. Len(Rows) : Rows[i].seq \in Nat
  BY DiskTyped
<1>5. merged = View
  BY <1>1 DEF DiskInv
<1>6. json' # None /\ File' = View /\ Rows' = Rows
  BY <1>1, <1>2, <1>4, <1>5, NoFile DEF File, Rows
<1>7. ToSet(merged) \subseteq Turn /\ ToSet(merged) # None
  <2>1. ToSet(merged) \subseteq Turn
    BY <1>4, <1>5, ToSetElements
  <2> QED
    BY <2>1, NoneAssumption DEF Turn
<1>8. undo' \in [json : Files, log : Logs] /\ undo'.json = json /\ undo'.log = log
  BY <1>1 DEF TypeOK
<1>10. ControlInv'
  BY <1>1, <1>2, <1>3, <1>7 DEF ControlInv, Started
<1>11. PositionInv'
  <2>1. ASSUME NEW m \in Nat, FreeFrom(m) PROVE FreeFrom(m)'
    <3>1. Len(View) <= m
      BY <1>4, <2>1, MergeBound DEF FreeFrom
    <3> QED
      BY <1>6, <2>1, <3>1 DEF FreeFrom
  <2> QED
    BY <1>2, <2>1, PositionsStay
<1>12. DiskInv'
  <2>1. Covered(View, Rows)
    <3>1. ASSUME NEW i \in 1 .. Len(Rows) PROVE Rows[i].turn \in ToSet(View)
      <4>1. TurnsOf(Rows) = {Rows[k].turn : k \in 1 .. Len(Rows)}
        BY <1>4 DEF TurnsOf
      <4> QED
        BY <1>3, <4>1
    <3> QED
      BY <3>1 DEF DiskInv, Covered
  <2>2. json' = Merge(undo'.json, undo'.log)
    BY <1>1, <1>5, <1>8 DEF View
  <2>3. /\ Covered(Turns(undo'.json), Turns(undo'.log))
        /\ kept \ gone \subseteq ToSet(Turns(undo'.json)) \cup TurnsOf(Turns(undo'.log))
    BY <1>3, <1>8 DEF DiskInv, File, Rows
  <2>4. kept \ gone \subseteq ToSet(View)
    BY <1>3
  <2> QED
    BY <1>1, <1>2, <1>3, <1>6, <2>1, <2>2, <2>3, <2>4 DEF DiskInv
<1> QED
  BY <1>10, <1>11, <1>12

LEMMA RemoveLogKeepsK ==
  ASSUME KInv, TypeOK', RemoveLog
  PROVE  KInv'
<1> USE DEF KInv
<1>1. /\ folding = "written" /\ log' = None /\ synced' = 0 /\ folding' = "no" /\ queue' = Tail(queue)
      /\ UNCHANGED <<loopVars, merged, deleting, json, undo, indexed, pastVars>>
  BY DEF RemoveLog, Done
<1>2. UNCHANGED <<said, ledger, forgotten, reading, booting, merged, deleting, json, undo, indexed, kept, gone, disturbed, crashes>>
  BY <1>1 DEF loopVars, pastVars
<1>3. /\ queue # << >> /\ ~ deleting /\ (booting => queue = <<FoldOp>>)
      /\ kept \ gone \subseteq ToSet(File) \cup TurnsOf(Rows)
  BY <1>1, FoldUnderWay
<1>4. File' = File /\ Rows' = << >> /\ Len(Rows') = 0
  BY <1>1, <1>2, NoFile DEF File, Rows
<1>5. ToSet(queue') \subseteq ToSet(queue)
  BY <1>1, <1>3, Popped
<1>7. booting => queue' = << >>
  <2>1. Tail(<<FoldOp>>) = << >>
    OBVIOUS
  <2> QED
    BY <1>1, <1>3, <2>1
<1>8. ControlInv'
  BY <1>1, <1>2, <1>3, <1>5, <1>7 DEF ControlInv, Started
<1>9. PositionInv'
  <2>1. \A m \in Nat : FreeFrom(m) => FreeFrom(m)'
    BY <1>4 DEF FreeFrom
  <2> QED
    BY <1>1, <1>2, <1>3, <2>1, PositionsStay
<1>10. DiskInv'
  <2>1. kept \ gone \subseteq ToSet(File)
    BY <1>1, <1>3 DEF DiskInv
  <2>2. Covered(File', Rows')
    BY <1>4 DEF Covered
  <2> QED
    BY <1>1, <1>2, <1>3, <1>4, <2>1, <2>2 DEF DiskInv
<1> QED
  BY <1>8, <1>9, <1>10

LEMMA FoldFailsKeepsK ==
  ASSUME KInv, TypeOK', FoldFails
  PROVE  KInv'
<1> USE DEF KInv
<1>1. /\ folding # "no" /\ folding' = "no" /\ disturbed' = TRUE
      /\ queue' = IF booting THEN queue ELSE Tail(queue)
      /\ UNCHANGED <<loopVars, merged, deleting, diskVars, kept, gone, crashes>>
  BY DEF FoldFails, AfterFailure, Done
<1>2. UNCHANGED <<said, ledger, forgotten, reading, booting, merged, deleting, json, log, synced, undo, indexed, kept, gone, crashes>>
  BY <1>1 DEF loopVars, diskVars
<1>3. queue # << >> /\ ~ deleting /\ (booting => queue = <<FoldOp>>)
  BY <1>1, FoldUnderWay
<1>4. File' = File /\ Rows' = Rows /\ View' = View
  BY <1>2 DEF File, Rows, View
<1>5. ToSet(queue') \subseteq ToSet(queue)
  BY <1>1, <1>3, Popped DEF TypeOK
<1>7. ControlInv'
  BY <1>1, <1>2, <1>3, <1>5 DEF ControlInv, Started
<1>8. PositionInv'
  <2>1. \A m \in Nat : FreeFrom(m) => FreeFrom(m)'
    BY <1>4 DEF FreeFrom
  <2> QED
    BY <1>1, <1>2, <1>3, <2>1, PositionsStay
<1>9. DiskInv'
  BY <1>1, <1>2, <1>4 DEF DiskInv
<1> QED
  BY <1>7, <1>8, <1>9

LEMMA DeleteFileKeepsK ==
  ASSUME KInv, TypeOK', DeleteFile
  PROVE  KInv'
<1> USE DEF KInv
<1>1. /\ queue # << >> /\ Head(queue).kind = "delete" /\ ~ deleting
      /\ indexed' = None /\ json' = None /\ deleting' = TRUE /\ undo' = None /\ gone' = gone \cup kept
      /\ disturbed' = TRUE /\ UNCHANGED <<loopVars, queue, folding, merged, log, synced, kept, crashes>>
  BY DEF DeleteFile, Next1
<1>2. UNCHANGED <<said, ledger, forgotten, reading, booting>>
  BY <1>1 DEF loopVars
<1>3. Head(queue) = DeleteOp /\ DeleteOp \in ToSet(queue)
  <2>1. queue \in Seq(Ops) /\ Head(queue) = DeleteOp /\ queue[1] = DeleteOp /\ 1 \in 1 .. Len(queue)
    BY <1>1, HeadTyped DEF TypeOK
  <2> QED
    BY <2>1, ToSetElements
<1>4. folding = "no" /\ reading = None /\ ~ booting
  BY <1>1, <1>3 DEF ControlInv, FoldOp, DeleteOp
<1>5. File' = << >> /\ Len(File') = 0 /\ Rows' = Rows
  BY <1>1, NoFile DEF File, Rows
<1>7. ControlInv'
  BY <1>1, <1>2, <1>3, <1>4 DEF ControlInv, Started
<1>8. PositionInv'
  <2>1. \A m \in Nat : FreeFrom(m) => FreeFrom(m)'
    BY <1>5 DEF FreeFrom
  <2> QED
    BY <1>1, <1>2, <2>1, PositionsStay
<1>9. DiskInv'
  <2>1. Covered(File', Rows')
    BY <1>5, DiskTyped DEF DiskInv, Covered
  <2> QED
    BY <1>1, <1>4, <2>1 DEF DiskInv
<1> QED
  BY <1>7, <1>8, <1>9

LEMMA DeleteLogKeepsK ==
  ASSUME KInv, TypeOK', DeleteLog
  PROVE  KInv'
<1> USE DEF KInv
<1>1. /\ deleting /\ log' = None /\ synced' = 0 /\ deleting' = FALSE /\ queue' = Tail(queue)
      /\ UNCHANGED <<loopVars, folding, merged, json, undo, indexed, pastVars>>
  BY DEF DeleteLog, Done
<1>2. UNCHANGED <<said, ledger, forgotten, reading, booting, folding, merged, json, undo, indexed, kept, gone, disturbed, crashes>>
  BY <1>1 DEF loopVars, pastVars
<1>3. queue # << >> /\ folding = "no" /\ ~ booting /\ json = None /\ kept \subseteq gone
  BY <1>1 DEF ControlInv, FoldOp, DeleteOp, DiskInv
<1>4. File' = File /\ Rows' = << >> /\ Len(Rows') = 0
  BY <1>1, <1>2, NoFile DEF File, Rows
<1>5. queue' \in Seq(Ops) /\ ToSet(queue') \subseteq ToSet(queue)
  BY <1>1, <1>3, Popped
<1>7. ControlInv'
  BY <1>1, <1>2, <1>3, <1>5 DEF ControlInv, Started
<1>8. PositionInv'
  <2>1. \A m \in Nat : FreeFrom(m) => FreeFrom(m)'
    BY <1>4 DEF FreeFrom
  <2> QED
    BY <1>1, <1>2, <1>3, <2>1, PositionsStay
<1>9. DiskInv'
  <2>1. Covered(File', Rows')
    BY <1>4 DEF Covered
  <2> QED
    BY <1>1, <1>2, <1>3, <2>1 DEF DiskInv
<1> QED
  BY <1>7, <1>8, <1>9

-----------------------------------------------------------------------------
(* Crash and restart *)

\* The rows at the head of the log.
LEMMA LogPrefix ==
  ASSUME TypeOK, NEW n \in 0 .. Len(Rows)
  PROVE  /\ SubSeq(Rows, 1, n) \in Seq(Row) /\ Len(SubSeq(Rows, 1, n)) = n
         /\ \A i \in 1 .. n : i \in 1 .. Len(Rows) /\ SubSeq(Rows, 1, n)[i] = Rows[i]
BY DiskTyped

\* What may be on the disk after a crash: rows of the log that were not fsynced
\* are missing; rows of the append in hand are there; the last fold is undone;
\* its log is there again.
LEMMA DisksAre ==
  ASSUME TypeOK, NEW d \in Disks
  PROVE  \/ /\ d.json = json
            /\ \E n \in synced .. Len(Rows) : Turns(d.log) = SubSeq(Rows, 1, n)
            /\ d.log = None <=> log = None
            /\ d.log = None \/ d.log \in Seq(Row)
         \/ /\ d.json = json /\ Next1("append")
            /\ \E n \in 0 .. Len(Head(queue).rows) : d.log = Rows \o SubSeq(Head(queue).rows, 1, n)
         \/ d = undo /\ undo # None
         \/ d.json = json /\ d.log = undo.log /\ undo # None
<1>1. Rows \in Seq(Row) /\ Len(Rows) \in Nat /\ synced \in 0 .. Len(Rows)
  BY DiskTyped DEF TypeOK, Rows
<1>2. ASSUME NEW n \in synced .. Len(Turns(log)),
             d = [json |-> json, log |-> IF log = None THEN None ELSE SubSeq(log, 1, n)]
      PROVE  /\ d.json = json
             /\ \E m \in synced .. Len(Rows) : Turns(d.log) = SubSeq(Rows, 1, m)
             /\ d.log = None <=> log = None
             /\ d.log = None \/ d.log \in Seq(Row)
  <2>1. n \in 0 .. Len(Rows) /\ n \in synced .. Len(Rows)
    BY <1>1, <1>2 DEF Rows
  <2>2. SubSeq(Rows, 1, n) \in Seq(Row) /\ Len(SubSeq(Rows, 1, n)) = n
    BY <2>1, LogPrefix
  <2>3. CASE log = None
    <3>1. Rows = << >> /\ Turns(d.log) = << >> /\ d.log = None
      BY <1>2, <2>3, NoFile DEF Rows
    <3>2. SubSeq(Rows, 1, n) = << >>
      BY <2>1, <2>2, <3>1
    <3> QED
      BY <1>2, <2>1, <2>3, <3>1, <3>2
  <2>4. CASE log # None
    <3>1. Rows = log /\ d.log = SubSeq(Rows, 1, n)
      BY <1>2, <2>4 DEF Rows, Turns
    <3>2. d.log # None /\ Turns(d.log) = SubSeq(Rows, 1, n)
      BY <2>2, <3>1, NoFile
    <3> QED
      BY <1>2, <2>1, <2>2, <2>4, <3>1, <3>2
  <2> QED
    BY <2>3, <2>4
<1>3. ASSUME Next1("append"), NEW n \in 0 .. Len(Head(queue).rows),
             d = [json |-> json, log |-> Turns(log) \o SubSeq(Head(queue).rows, 1, n)]
      PROVE  d.json = json /\ d.log = Rows \o SubSeq(Head(queue).rows, 1, n)
  BY <1>3 DEF Rows
<1>4. CASE d \in {[json |-> json, log |-> IF log = None THEN None ELSE SubSeq(log, 1, n)] :
                      n \in synced .. Len(Turns(log))}
  BY <1>2, <1>4
<1>5. CASE /\ Next1("append")
           /\ d \in {[json |-> json, log |-> Turns(log) \o SubSeq(Head(queue).rows, 1, n)] :
                       n \in 0 .. Len(Head(queue).rows)}
  BY <1>3, <1>5
<1>6. CASE undo # None /\ d \in {undo, [json |-> json, log |-> undo.log]}
  BY <1>6
<1> QED
  BY <1>4, <1>5, <1>6 DEF Disks

\* No disk lacks a turn that was safe, and none holds rows out of place.
LEMMA DisksSafe ==
  ASSUME KInv, NEW d \in Disks
  PROVE  /\ d.json \in Files /\ d.log \in Logs
         /\ Covered(Turns(d.json), Turns(d.log))
         /\ kept \ gone \subseteq ToSet(Turns(d.json)) \cup TurnsOf(Turns(d.log))
<1> USE DEF KInv
<1>1. /\ Rows \in Seq(Row) /\ Len(Rows) \in Nat /\ synced \in 0 .. Len(Rows) /\ json \in Files
      /\ Covered(File, Rows)
      /\ kept \ gone \subseteq ToSet(File) \cup {Rows[i].turn : i \in 1 .. synced}
  BY DiskTyped DEF TypeOK, Rows, DiskInv
<1>2. CASE /\ d.json = json
           /\ \E n \in synced .. Len(Rows) : Turns(d.log) = SubSeq(Rows, 1, n)
           /\ d.log = None \/ d.log \in Seq(Row)
  <2>1. PICK n \in synced .. Len(Rows) : Turns(d.log) = SubSeq(Rows, 1, n)
    BY <1>2
  <2> DEFINE rows == SubSeq(Rows, 1, n)
  <2>2. n \in 0 .. Len(Rows) /\ synced <= n /\ n \in Nat
    BY <1>1
  <2>3. rows \in Seq(Row) /\ Len(rows) = n /\ \A i \in 1 .. n : i \in 1 .. Len(Rows) /\ rows[i] = Rows[i]
    BY <2>2, LogPrefix
  <2> HIDE DEF rows
  <2>4. Covered(File, rows)
    <3> SUFFICES ASSUME NEW k \in 1 .. n
                 PROVE  /\ \A i \in 1 .. k - 1 : rows[i].seq < rows[k].seq
                        /\ rows[k].turn \in ToSet(File) \/ Len(File) <= rows[k].seq
      BY <2>3 DEF Covered
    <3>1. \A i \in 1 .. k - 1 : i \in 1 .. n
      BY <2>2
    <3> QED
      BY <1>1, <2>3, <3>1 DEF Covered
  <2>5. {Rows[i].turn : i \in 1 .. synced} \subseteq TurnsOf(rows)
    <3>1. TurnsOf(rows) = {rows[i].turn : i \in 1 .. n}
      <4>1. DOMAIN rows = 1 .. n
        BY <2>3
      <4> QED
        BY <4>1 DEF TurnsOf
    <3>2. \A i \in 1 .. synced : i \in 1 .. n
      BY <1>1, <2>2
    <3> QED
      BY <2>3, <3>1, <3>2
  <2> QED
    BY <1>1, <1>2, <2>1, <2>4, <2>5 DEF Logs, File, rows
<1>3. CASE /\ d.json = json /\ Next1("append")
           /\ \E n \in 0 .. Len(Head(queue).rows) : d.log = Rows \o SubSeq(Head(queue).rows, 1, n)
  <2>1. Head(queue) = queue[1]
    BY <1>3, AppendNext
  <2>2. PICK n \in 0 .. Len(queue[1].rows) : d.log = Rows \o SubSeq(queue[1].rows, 1, n)
    BY <1>3, <2>1
  <2> DEFINE rows == Rows \o SubSeq(queue[1].rows, 1, n)
  <2>3. /\ rows \in Seq(Row) /\ Len(rows) = Len(Rows) + n /\ Covered(File, rows)
        /\ \A i \in 1 .. Len(Rows) + n : rows[i] = IF i <= Len(Rows) THEN Rows[i] ELSE queue[1].rows[i - Len(Rows)]
    BY <1>3, LogGrows
  <2> HIDE DEF rows
  <2>4. Turns(d.log) = rows /\ d.log \in Logs
    BY <2>2, <2>3, NoFile DEF Logs, rows
  <2>5. n \in Nat
    BY <1>3, AppendNext
  <2>6. {Rows[i].turn : i \in 1 .. synced} \subseteq TurnsOf(rows)
    <3>1. TurnsOf(rows) = {rows[i].turn : i \in 1 .. Len(Rows) + n}
      <4>1. DOMAIN rows = 1 .. Len(Rows) + n
        BY <2>3
      <4> QED
        BY <4>1 DEF TurnsOf
    <3>2. \A i \in 1 .. synced : i \in 1 .. Len(Rows) + n /\ rows[i] = Rows[i]
      BY <1>1, <2>3, <2>5
    <3> QED
      BY <3>1, <3>2
  <2> QED
    BY <1>1, <1>3, <2>3, <2>4, <2>6 DEF File
<1>4. ASSUME undo # None
      PROVE  /\ undo.json \in Files /\ undo.log \in Logs
             /\ Covered(Turns(undo.json), Turns(undo.log))
             /\ kept \ gone \subseteq ToSet(Turns(undo.json)) \cup TurnsOf(Turns(undo.log))
             /\ json = Merge(undo.json, undo.log) /\ json # None
  BY <1>4 DEF TypeOK, DiskInv
<1>5. CASE d.json = json /\ d.log = undo.log /\ undo # None
  <2> DEFINE t == Turns(undo.json)
             r == Turns(undo.log)
  <2>1. t \in Seq(Turn) /\ r \in Seq(Row)
    BY <1>4, <1>5, NoFile DEF Files, Logs, Turns
  <2>2. json = Merge(t, r) /\ json \in Seq(Turn) /\ File = json
    <3>1. json = Merge(t, r)
      BY <1>4, <1>5, MergeTurns DEF Files, Logs
    <3>2. json \in Seq(Turn)
      BY <1>4, <1>5 DEF TypeOK, Files
    <3> QED
      BY <3>1, <3>2, NoFile DEF File
  <2> HIDE DEF t, r
  <2>3. Covered(t, r) /\ kept \ gone \subseteq ToSet(t) \cup TurnsOf(r)
    BY <1>4, <1>5 DEF t, r
  <2>4. TurnsOf(r) \subseteq ToSet(json) /\ Begins(t, json)
    BY <2>1, <2>2, <2>3, MergeCovers, MergeBegins
  <2>5. ToSet(t) \subseteq ToSet(json)
    <3> SUFFICES ASSUME NEW x \in ToSet(t) PROVE x \in ToSet(json)
      OBVIOUS
    <3>1. PICK i \in 1 .. Len(t) : t[i] = x
      BY <2>1, ToSetElements
    <3>2. i \in 1 .. Len(json) /\ json[i] = x
      BY <2>1, <2>2, <2>4, <3>1 DEF Begins
    <3> QED
      BY <2>2, <3>2, ToSetElements
  <2>6. Covered(json, r)
    <3>1. ASSUME NEW i \in 1 .. Len(r) PROVE r[i].turn \in ToSet(json)
      <4>1. TurnsOf(r) = {r[k].turn : k \in 1 .. Len(r)}
        BY <2>1 DEF TurnsOf
      <4> QED
        BY <2>4, <4>1
    <3> QED
      BY <2>3, <3>1 DEF Covered
  <2> QED
    BY <1>1, <1>4, <1>5, <2>2, <2>3, <2>4, <2>5, <2>6 DEF File, r
<1>6. CASE d = undo /\ undo # None
  BY <1>4, <1>6
<1> QED
  BY <1>2, <1>3, <1>5, <1>6, DisksAre

LEMMA CrashKeepsK ==
  ASSUME KInv, TypeOK', Crash
  PROVE  KInv'
<1> USE DEF KInv
<1>1. /\ crashes < MaxCrashes /\ crashes' = crashes + 1
      /\ undo' = None /\ booting' = TRUE /\ ledger' = None /\ forgotten' = FALSE /\ reading' = None
      /\ folding' = "no" /\ merged' = << >> /\ deleting' = FALSE
      /\ UNCHANGED <<said, kept, gone, disturbed>>
  BY DEF Crash
<1>2. PICK d \in Disks :
        /\ json' = d.json /\ log' = d.log /\ synced' = Len(Turns(d.log))
        /\ indexed' = IF d.json = None THEN None ELSE ToSet(d.json)
        /\ queue' = IF d.log # None THEN <<FoldOp>> ELSE << >>
  BY DEF Crash
<1>3. /\ d.json \in Files /\ d.log \in Logs
      /\ Covered(Turns(d.json), Turns(d.log))
      /\ kept \ gone \subseteq ToSet(Turns(d.json)) \cup TurnsOf(Turns(d.log))
  BY DisksSafe
<1>4. File' = Turns(d.json) /\ Rows' = Turns(d.log) /\ synced' = Len(Rows')
  BY <1>2 DEF File, Rows
<1>5. Rows' \in Seq(Row) /\ Len(Rows') \in Nat
  BY <1>3, <1>4, NoFile DEF Logs, Turns
<1>6. indexed' = None \/ indexed' \subseteq Turn
  <2>1. d.json # None => d.json \in Seq(Turn)
    BY <1>3 DEF Files
  <2> QED
    BY <1>2, <2>1, ToSetElements
<1>7. queue' \in Seq(Ops) /\ Appends' = {}
  <2>1. FoldOp \in Ops /\ FoldOp.kind # "append"
    BY DEF Ops, FoldOp
  <2>2. CASE queue' = << >>
    BY <2>2 DEF Appends
  <2>3. CASE queue' = <<FoldOp>>
    <3>1. queue' \in Seq(Ops) /\ Len(queue') = 1 /\ queue'[1] = FoldOp
      BY <2>1, <2>3
    <3> QED
      BY <2>1, <3>1 DEF Appends
  <2> QED
    BY <1>2, <2>2, <2>3
<1>9. ControlInv'
  <2>1. d.json # None => indexed' # None
    <3>1. d.json # None => d.json \in Seq(Turn)
      BY <1>3 DEF Files
    <3>2. d.json # None => ToSet(d.json) \subseteq 1 .. MaxTurns
      BY <3>1, ToSetElements DEF Turn
    <3> QED
      BY <1>2, <3>2, NoneAssumption
  <2>2. ~ Started'
    BY <1>1 DEF Started
  <2>3. queue' = << >> => log' = None
    <3>1. <<FoldOp>> # << >>
      OBVIOUS
    <3> QED
      BY <1>2, <3>1
  <2>4. json' # None => indexed' # None
    BY <1>2, <2>1
  <2>5. queue' \in {<< >>, <<FoldOp>>}
    BY <1>2
  <2>6. booting' /\ folding' = "no" /\ ~ deleting' /\ reading' = None /\ ledger' = None /\ ~ forgotten'
    BY <1>1
  <2> HIDE DEF KInv
  <2> QED
    BY <2>2, <2>3, <2>4, <2>5, <2>6 DEF ControlInv
<1>10. PositionInv'
  BY <1>1, <1>7 DEF PositionInv, Started
<1>11. DiskInv'
  <2>1. TurnsOf(Rows') = {Rows'[i].turn : i \in 1 .. synced'}
    BY <1>4, <1>5 DEF TurnsOf
  <2> QED
    BY <1>1, <1>3, <1>4, <2>1 DEF DiskInv
<1> QED
  BY <1>9, <1>10, <1>11

LEMMA InitK ==
  ASSUME Init
  PROVE  KInv
<1> USE DEF Init
<1>1. File = << >> /\ Rows = << >> /\ Len(File) = 0 /\ Len(Rows) = 0
  BY NoFile DEF File, Rows
<1>2. TypeOK
  <2>1. << >> \in Seq(Ops) /\ << >> \in Seq(Turn)
    OBVIOUS
  <2>2. synced \in 0 .. Len(Turns(log))
    BY <1>1 DEF Rows
  <2>3. said \in 0 .. MaxTurns /\ crashes \in 0 .. MaxCrashes
    BY BoundsAssumption
  <2>4. {forgotten, booting, deleting, disturbed, misread} \subseteq BOOLEAN
    OBVIOUS
  <2>5. queue \in Seq(Ops) /\ merged \in Seq(Turn)
    BY <2>1
  <2>6. json \in Files /\ log \in Logs /\ kept \subseteq Turn /\ gone \subseteq Turn
    BY DEF Files, Logs
  <2>7. /\ ledger \in Ledgers \cup {None} /\ undo \in [json : Files, log : Logs] \cup {None}
        /\ reading \in [what : {"say", "save"}, file : Files] \cup {None}
        /\ folding \in {"no", "merged", "written"} /\ indexed = None
    OBVIOUS
  <2> HIDE DEF Init
  <2> QED
    BY <2>2, <2>3, <2>4, <2>5, <2>6, <2>7 DEF TypeOK
<1>3. ControlInv /\ PositionInv
  BY DEF ControlInv, PositionInv, Started, Appends
<1>4. DiskInv
  BY <1>1 DEF DiskInv, Covered
<1> QED
  BY <1>2, <1>3, <1>4 DEF KInv

-----------------------------------------------------------------------------
(* Types *)

\* What the types of a step rest on: the operation at the head of the queue is
\* the one that is under way, and a ledger waits for what is read.
TypedInv ==
  /\ TypeOK
  /\ folding # "no" => queue # << >> /\ Head(queue) = FoldOp
  /\ deleting => queue # << >> /\ Head(queue) = DeleteOp
  /\ reading # None => ledger # None

LEMMA InitTyped ==
  ASSUME Init
  PROVE  TypedInv
BY InitK DEF TypedInv, KInv, Init

LEMMA RecordTyped ==
  ASSUME TypeOK, NEW led \in Ledgers, NEW what, Record(what, led)
  PROVE  /\ said' \in 0 .. MaxTurns /\ ledger' \in Ledgers /\ queue' \in Seq(Ops)
         /\ queue # << >> => queue' # << >> /\ Head(queue') = Head(queue)
<1>1. led.turns \in Seq(Turn) /\ led.persisted \in Nat /\ Len(led.turns) \in Nat /\ led.started \in BOOLEAN
  BY DEF Ledgers
<1>2. CASE Say(led)
  <2>1. PICK turn \in Turn : said' = turn /\ ledger' = [led EXCEPT !.turns = Append(@, turn)] /\ queue' = queue
    BY <1>2 DEF Say
  <2>2. Append(led.turns, turn) \in Seq(Turn) /\ said' \in 0 .. MaxTurns
    BY <1>1, <2>1, BoundsAssumption DEF Turn
  <2>3. ledger' \in Ledgers
    BY <2>1, <2>2 DEF Ledgers
  <2> QED
    BY <2>1, <2>2, <2>3 DEF TypeOK
<1>3. CASE Save(led)
  <2>1. PICK op \in Ops : queue' = queue \o <<op, SyncOp>> /\ op.kind = "append"
    BY <1>3, Saved
  <2>2. ledger' \in Ledgers /\ said' = said
    BY <1>1, <1>3 DEF Save, Ledgers
  <2> QED
    BY <2>1, <2>2, PushedRows DEF TypeOK
<1> QED
  BY <1>2, <1>3 DEF Record

LEMMA EnterTyped ==
  ASSUME TypeOK, NEW what \in {"say", "save"}, Enter(what)
  PROVE  /\ said' \in 0 .. MaxTurns /\ ledger' \in Ledgers /\ queue' \in Seq(Ops)
         /\ reading' \in [what : {"say", "save"}, file : Files] \cup {None}
         /\ queue # << >> => queue' # << >> /\ Head(queue') = Head(queue)
<1> DEFINE led == AtHand
<1>1. led \in Ledgers
  BY DEF NewLedger, Ledgers, TypeOK, AtHand
<1>2. \/ (Say(led) \/ Record(what, led)) /\ UNCHANGED reading
      \/ reading' = [what |-> what, file |-> json] /\ ledger' = led /\ UNCHANGED <<said, queue>>
  BY DEF Enter, AtHand
<1> HIDE DEF led
<1>3. CASE (Say(led) \/ Record(what, led)) /\ UNCHANGED reading
  <2>1. Record("say", led) \/ Record(what, led)
    BY <1>3 DEF Record
  <2> QED
    BY <1>1, <1>3, <2>1, RecordTyped DEF TypeOK
<1>4. CASE reading' = [what |-> what, file |-> json] /\ ledger' = led /\ UNCHANGED <<said, queue>>
  BY <1>1, <1>4 DEF TypeOK
<1> QED
  BY <1>2, <1>3, <1>4

LEMMA ReadLogTyped ==
  ASSUME TypedInv, ReadLog
  PROVE  /\ said' \in 0 .. MaxTurns /\ ledger' \in Ledgers /\ queue' \in Seq(Ops)
         /\ queue # << >> => queue' # << >> /\ Head(queue') = Head(queue)
<1> DEFINE session == Merge(reading.file, log)
           led == Restored(ledger, session)
<1> USE DEF TypedInv
<1>1. /\ reading \in [what : {"say", "save"}, file : Files] /\ ledger \in Ledgers
      /\ reading.file \in Seq(Turn) \cup {None} /\ log \in Seq(Row) \cup {None}
  BY DEF ReadLog, TypeOK, Files, Logs
<1>2. session \in Seq(Turn)
  <2>1. Turns(reading.file) \in Seq(Turn) /\ Turns(log) \in Seq(Row)
    BY <1>1, NoFile DEF Turns
  <2> QED
    BY <1>1, <2>1, MergeTurns, MergeBegins
<1>3. \/ Record(reading.what, led)
      \/ ledger' = led /\ UNCHANGED <<said, queue>>
  BY DEF ReadLog
<1> HIDE DEF session
<1>4. led \in Ledgers
  <2>1. ledger.turns \in Seq(Turn) /\ ledger.persisted \in Nat
    BY <1>1 DEF Ledgers
  <2>2. session \o ledger.turns \in Seq(Turn) /\ Len(session) \in Nat
    BY <1>2, <2>1
  <2>3. ledger.persisted + Len(session) \in Nat
    BY <2>1, <2>2
  <2> QED
    BY <2>2, <2>3 DEF Restored, Ledgers
<1> HIDE DEF led
<1> QED
  BY <1>3, <1>4, RecordTyped DEF TypeOK

LEMMA LoopKeepsTypes ==
  ASSUME TypedInv,
         \/ \E what \in {"say", "save"} : Enter(what)
         \/ ReadLog \/ Booted \/ Delete \/ SleepFold
         \/ \E ended \in BOOLEAN : Drop(ended)
  PROVE  TypedInv'
<1> USE DEF TypedInv
<1>1. UNCHANGED <<foldVars, diskVars, pastVars>>
  BY DEF Enter, ReadLog, Booted, Delete, SleepFold, Drop
<1>2. ASSUME said' \in 0 .. MaxTurns, ledger' \in Ledgers \cup {None}, queue' \in Seq(Ops),
             reading' \in [what : {"say", "save"}, file : Files] \cup {None},
             forgotten' \in BOOLEAN, booting' \in BOOLEAN, misread' \in BOOLEAN,
             queue # << >> => queue' # << >> /\ Head(queue') = Head(queue),
             reading' # None => ledger' # None
      PROVE  TypedInv'
  BY <1>1, <1>2 DEF TypeOK, foldVars, diskVars, pastVars
<1>3. ASSUME NEW what \in {"say", "save"}, Enter(what) PROVE TypedInv'
  <2>1. forgotten' = FALSE /\ booting' = booting /\ misread' \in BOOLEAN
    BY <1>3 DEF Enter, TypeOK
  <2>2. booting' \in BOOLEAN
    BY <2>1 DEF TypeOK
  <2> QED
    BY <1>2, <1>3, <2>1, <2>2, EnterTyped, NoLedger
<1>4. CASE ReadLog
  <2>1. reading' = None /\ forgotten' = forgotten /\ booting' = booting /\ misread' \in BOOLEAN
    BY <1>4 DEF ReadLog, TypeOK
  <2>2. booting' \in BOOLEAN /\ forgotten' \in BOOLEAN
    BY <2>1 DEF TypeOK
  <2> QED
    BY <1>2, <1>4, <2>1, <2>2, ReadLogTyped
<1>5. CASE Booted
  BY <1>2, <1>5 DEF Booted, TypeOK
<1>6. ASSUME queue' = queue \/ \E op \in {FoldOp, DeleteOp} : queue' = Append(queue, op)
      PROVE  queue' \in Seq(Ops) /\ (queue # << >> => queue' # << >> /\ Head(queue') = Head(queue))
  BY <1>6, Pushed DEF TypeOK
<1>7. CASE Delete \/ SleepFold
  <2>1. /\ queue' = queue \/ \E op \in {FoldOp, DeleteOp} : queue' = Append(queue, op)
        /\ UNCHANGED <<said, ledger, forgotten, reading, booting, misread>>
    BY <1>7 DEF Delete, SleepFold, loopVars
  <2> QED
    BY <1>2, <1>6, <2>1 DEF TypeOK
<1>8. ASSUME NEW ended \in BOOLEAN, Drop(ended) PROVE TypedInv'
  <2>1. /\ queue' = queue \/ \E op \in {FoldOp, DeleteOp} : queue' = Append(queue, op)
        /\ forgotten' = TRUE /\ UNCHANGED <<said, ledger, reading, booting, misread>>
    BY <1>8 DEF Drop
  <2> QED
    BY <1>2, <1>6, <2>1 DEF TypeOK
<1> QED
  BY <1>3, <1>4, <1>5, <1>7, <1>8

LEMMA WriterKeepsTypes ==
  ASSUME TypedInv, Writer \/ FoldFails
  PROVE  TypedInv'
<1> USE DEF TypedInv
<1>1. UNCHANGED <<said, ledger, forgotten, reading, booting, misread, crashes>>
  BY DEF Writer, DoAppend, DoSync, DoFold, WriteSession, RemoveLog, DeleteFile, DeleteLog, FoldFails, loopVars,
         pastVars
<1>2. /\ File \in Seq(Turn) /\ Rows \in Seq(Row) /\ View \in Seq(Turn) /\ Len(Rows) \in Nat
      /\ synced \in 0 .. Len(Rows) /\ TurnsOf(Rows) \subseteq Turn
      /\ log # None => Rows = log
      /\ Turns(None) = << >> /\ Len(<< >>) = 0
  <2>1. TurnsOf(Rows) \subseteq Turn
    <3>1. Rows \in Seq(Row) /\ \A i \in 1 .. Len(Rows) : Rows[i].turn \in Turn
      BY DiskTyped
    <3> QED
      BY <3>1 DEF TurnsOf
  <2> QED
    BY <2>1, DiskTyped, NoFile DEF TypeOK, Rows, Turns
<1>3. queue # << >> /\ queue' = Tail(queue) => queue' \in Seq(Ops)
  BY Popped
<1>4. CASE DoAppend
  <2>1. /\ queue # << >> /\ Head(queue).kind = "append" /\ queue' = Tail(queue)
        /\ UNCHANGED <<folding, merged, deleting, json, synced, undo, kept, gone>>
        /\ indexed' = Head(queue).contents /\ disturbed' \in BOOLEAN
    BY <1>4 DEF DoAppend, Next1, Done, foldVars, TypeOK
  <2>2. /\ Head(queue).rows \in Seq(Row) /\ Head(queue).contents \subseteq Turn
        /\ folding = "no" /\ ~ deleting
    BY <2>1, HeadTyped, OpTyped DEF FoldOp, DeleteOp
  <2>3. \E rows \in Seq(Row) : WriteRows(rows)
    <3>1. CASE WriteRows(Head(queue).rows)
      BY <2>2, <3>1
    <3>2. ASSUME NEW n \in 0 .. Len(Head(queue).rows) - 1, WriteRows(SubSeq(Head(queue).rows, 1, n))
          PROVE  \E rows \in Seq(Row) : WriteRows(rows)
      <4>1. SubSeq(Head(queue).rows, 1, n) \in Seq(Row)
        BY <2>2
      <4> QED
        BY <3>2, <4>1
    <3> QED
      BY <1>4, <3>1, <3>2 DEF DoAppend
  <2>4. log' \in Seq(Row) /\ synced \in 0 .. Len(log')
    <3>1. PICK rows \in Seq(Row) : log' = Rows \o rows
      BY <2>3 DEF WriteRows, Rows
    <3>2. Rows \o rows \in Seq(Row) /\ Len(Rows \o rows) = Len(Rows) + Len(rows)
      BY <1>2
    <3> QED
      BY <1>2, <3>1, <3>2
  <2>5. Turns(log') = log'
    BY <2>4, NoFile
  <2> QED
    BY <1>1, <1>3, <2>1, <2>2, <2>4, <2>5 DEF TypeOK, Logs
<1>5. CASE DoSync
  <2>1. /\ queue # << >> /\ Head(queue).kind = "sync" /\ queue' = Tail(queue)
        /\ synced' = Len(Rows) /\ kept' = kept \cup TurnsOf(Rows) /\ undo' \in {undo, None}
        /\ UNCHANGED <<folding, merged, deleting, json, log, indexed, gone, disturbed>>
    BY <1>5 DEF DoSync, Next1, Done, foldVars, Rows
  <2>2. folding = "no" /\ ~ deleting
    BY <2>1 DEF FoldOp, DeleteOp
  <2> QED
    BY <1>1, <1>2, <1>3, <2>1, <2>2 DEF TypeOK, Rows
<1>6. CASE DoFold
  <2>1. /\ queue # << >> /\ Head(queue).kind = "fold" /\ folding = "no"
        /\ UNCHANGED <<deleting, json, indexed, disturbed>>
    BY <1>6 DEF DoFold, Next1
  <2>2. Head(queue) = FoldOp /\ ~ deleting
    BY <2>1, HeadTyped DEF FoldOp, DeleteOp
  <2>3. CASE log = None /\ queue' = Tail(queue) /\ UNCHANGED <<folding, merged, log, synced, kept, gone, undo>>
    BY <1>1, <1>3, <2>1, <2>2, <2>3 DEF TypeOK
  <2>4. CASE /\ log # None /\ log' = None /\ synced' = 0 /\ gone' = gone \cup TurnsOf(log)
             /\ queue' = Tail(queue) /\ UNCHANGED <<folding, merged, kept, undo>>
    BY <1>1, <1>2, <1>3, <2>1, <2>2, <2>4 DEF TypeOK, Logs
  <2>5. CASE /\ log # None /\ synced' = Len(log) /\ kept' = kept \cup TurnsOf(log) /\ merged' = View
             /\ folding' = "merged" /\ undo' = None /\ UNCHANGED <<log, gone, queue>>
    BY <1>1, <1>2, <2>1, <2>2, <2>5 DEF TypeOK, Rows
  <2> QED
    BY <1>6, <2>3, <2>4, <2>5 DEF DoFold, Done
<1>7. CASE WriteSession
  <2>1. /\ folding = "merged" /\ json' = merged /\ indexed' = ToSet(merged) /\ folding' = "written"
        /\ undo' = [json |-> json, log |-> log]
        /\ UNCHANGED <<queue, merged, deleting, log, synced, kept, gone, disturbed>>
    BY <1>7 DEF WriteSession, pastVars
  <2>2. merged \in Seq(Turn) /\ ToSet(merged) \subseteq Turn
    BY ToSetElements DEF TypeOK
  <2> QED
    BY <1>1, <2>1, <2>2 DEF TypeOK, Files
<1>8. CASE RemoveLog \/ DeleteLog
  <2>1. /\ log' = None /\ synced' = 0 /\ queue # << >> /\ queue' = Tail(queue)
        /\ folding' = "no" /\ deleting' = FALSE
        /\ UNCHANGED <<merged, json, undo, indexed, kept, gone, disturbed>>
    <3>1. FoldOp # DeleteOp
      BY DEF FoldOp, DeleteOp
    <3> QED
      BY <1>8, <3>1 DEF RemoveLog, DeleteLog, Done, pastVars, TypeOK
  <2>2. synced' \in 0 .. Len(Turns(log')) /\ log' \in Logs
    <3>1. Turns(log') = << >> /\ Len(<< >>) = 0
      BY <2>1 DEF Turns
    <3> QED
      BY <2>1, <3>1 DEF Logs
  <2>3. queue' \in Seq(Ops)
    BY <1>3, <2>1
  <2> QED
    BY <1>1, <2>1, <2>2, <2>3 DEF TypeOK
<1>9. CASE FoldFails
  <2>1. /\ queue # << >> /\ queue' = (IF booting THEN queue ELSE Tail(queue))
        /\ folding' = "no" /\ deleting' = deleting /\ ~ deleting /\ disturbed' = TRUE
        /\ UNCHANGED <<merged, json, log, synced, undo, indexed, kept, gone>>
    <3>1. FoldOp # DeleteOp
      BY DEF FoldOp, DeleteOp
    <3> QED
      BY <1>9, <3>1 DEF FoldFails, AfterFailure, Done, diskVars, TypeOK
  <2> QED
    BY <1>1, <1>3, <2>1 DEF TypeOK
<1>10. CASE DeleteFile
  <2>1. /\ queue # << >> /\ Head(queue).kind = "delete" /\ indexed' = None /\ json' = None /\ deleting' = TRUE
        /\ undo' = None /\ gone' = gone \cup kept /\ disturbed' = TRUE
        /\ UNCHANGED <<queue, folding, merged, log, synced, kept>>
    BY <1>10 DEF DeleteFile, Next1
  <2>2. Head(queue) = DeleteOp
    BY <2>1, HeadTyped
  <2> QED
    BY <1>1, <2>1, <2>2 DEF TypeOK, Files
<1> QED
  BY <1>4, <1>5, <1>6, <1>7, <1>8, <1>9, <1>10 DEF Writer

LEMMA CrashKeepsTypes ==
  ASSUME TypedInv, Crash
  PROVE  TypedInv'
<1> USE DEF TypedInv
<1>1. /\ crashes < MaxCrashes /\ crashes' = crashes + 1
      /\ undo' = None /\ booting' = TRUE /\ ledger' = None /\ forgotten' = FALSE /\ reading' = None
      /\ folding' = "no" /\ merged' = << >> /\ deleting' = FALSE
      /\ UNCHANGED <<said, kept, gone, disturbed, misread>>
  BY DEF Crash
<1>2. PICK d \in Disks :
        /\ json' = d.json /\ log' = d.log /\ synced' = Len(Turns(d.log))
        /\ indexed' = IF d.json = None THEN None ELSE ToSet(d.json)
        /\ queue' = IF d.log # None THEN <<FoldOp>> ELSE << >>
  BY DEF Crash
<1>3. d.json \in Files /\ d.log \in Logs
  <2>1. json \in Files /\ Rows \in Seq(Row) /\ (undo # None => undo.json \in Files /\ undo.log \in Logs)
    BY DiskTyped DEF TypeOK
  <2>2. CASE d.json = json /\ (d.log = None \/ d.log \in Seq(Row))
    BY <2>1, <2>2 DEF Logs
  <2>3. ASSUME d.json = json, Next1("append"), NEW n \in 0 .. Len(Head(queue).rows),
               d.log = Rows \o SubSeq(Head(queue).rows, 1, n)
        PROVE  d.json \in Files /\ d.log \in Logs
    <3>1. Head(queue).rows \in Seq(Row)
      BY <2>3, HeadTyped, OpTyped DEF Next1
    <3>2. SubSeq(Head(queue).rows, 1, n) \in Seq(Row)
      BY <3>1
    <3>3. d.log \in Seq(Row)
      BY <2>1, <2>3, <3>2
    <3> QED
      BY <2>1, <2>3, <3>3 DEF Logs
  <2> QED
    BY <2>1, <2>2, <2>3, DisksAre
<1>4. indexed' = None \/ indexed' \subseteq Turn
  <2>1. d.json # None => d.json \in Seq(Turn)
    BY <1>3 DEF Files
  <2> QED
    BY <1>2, <2>1, ToSetElements
<1>5. queue' \in Seq(Ops) /\ merged' \in Seq(Turn)
  <2>1. FoldOp \in Ops
    BY DEF Ops
  <2>2. <<FoldOp>> \in Seq(Ops) /\ << >> \in Seq(Ops) /\ << >> \in Seq(Turn)
    BY <2>1
  <2> QED
    BY <1>1, <1>2, <2>2
<1>6. synced' \in 0 .. Len(Turns(log'))
  <2>1. Turns(d.log) \in Seq(Row)
    BY <1>3, NoFile DEF Logs, Turns
  <2> QED
    BY <1>2, <2>1
<1>7. crashes' \in 0 .. MaxCrashes
  BY <1>1, BoundsAssumption DEF TypeOK
<1> QED
  BY <1>1, <1>2, <1>3, <1>4, <1>5, <1>6, <1>7 DEF TypeOK

LEMMA NextKeepsTypes ==
  ASSUME TypedInv, [Next]_vars
  PROVE  TypedInv'
<1>1. CASE UNCHANGED vars
  BY <1>1 DEF TypedInv, TypeOK, vars
<1> QED
  BY <1>1, LoopKeepsTypes, WriterKeepsTypes, CrashKeepsTypes DEF Next

\* Every state is typed, whatever crashes, folds, deletions and drops there are:
\* the files, the log and the queue of history_manager.py, the ledger of
\* chat_recorder.py, and what a power loss can undo.
THEOREM HistoryTyped == Spec => []TypeOK
<1>1. Init => TypedInv
  BY InitTyped
<1>2. TypedInv /\ [Next]_vars => TypedInv'
  BY NextKeepsTypes
<1>3. TypedInv => TypeOK
  BY DEF TypedInv
<1> QED
  BY <1>1, <1>2, <1>3, PTL DEF Spec

-----------------------------------------------------------------------------
(* The disk never loses a turn *)

LEMMA NextKeepsK ==
  ASSUME KInv, TypeOK', [Next]_vars, ~ misread'
  PROVE  KInv'
<1>1. CASE UNCHANGED vars
  BY <1>1 DEF KInv, vars, TypeOK, ControlInv, PositionInv, DiskInv, Started, Appends, Ready, QueueFits, FreeFrom,
              First, End, File, Rows, View
<1>2. ASSUME NEW what \in {"say", "save"}, Enter(what) PROVE KInv'
  BY <1>2, EnterKeepsK
<1>3. ASSUME NEW ended \in BOOLEAN, Drop(ended) PROVE KInv'
  BY <1>3, DropKeepsK
<1>4. CASE ReadLog \/ Booted \/ Delete \/ SleepFold \/ FoldFails \/ Crash
  BY <1>4, ReadLogKeepsK, BootedKeepsK, DeleteKeepsK, SleepFoldKeepsK, FoldFailsKeepsK, CrashKeepsK
<1>5. CASE Writer
  BY <1>5, DoAppendKeepsK, DoSyncKeepsK, DoFoldKeepsK, WriteSessionKeepsK, RemoveLogKeepsK, DeleteFileKeepsK,
     DeleteLogKeepsK DEF Writer
<1> QED
  BY <1>1, <1>2, <1>3, <1>4, <1>5 DEF Next

\* What is safe is in the session.
LEMMA SafeIsSeen ==
  ASSUME KInv
  PROVE  ReopenedGoesOn
<1> USE DEF KInv
<1>1. File \in Seq(Turn) /\ Rows \in Seq(Row) /\ View \in Seq(Turn) /\ View = Merge(File, Rows) /\ Begins(File, View)
  BY DiskTyped
<1>2. synced \in 0 .. Len(Rows) /\ Len(Rows) \in Nat
  BY <1>1 DEF TypeOK, Rows
<1>3. TurnsOf(Rows) \subseteq ToSet(View)
  BY <1>1, MergeCovers DEF DiskInv
<1>4. {Rows[i].turn : i \in 1 .. synced} \subseteq TurnsOf(Rows)
  <2>1. TurnsOf(Rows) = {Rows[i].turn : i \in 1 .. Len(Rows)}
    BY <1>1 DEF TurnsOf
  <2>2. \A i \in 1 .. synced : i \in 1 .. Len(Rows)
    BY <1>2
  <2> QED
    BY <2>1, <2>2
<1>5. ToSet(File) \subseteq ToSet(View)
  <2> SUFFICES ASSUME NEW x \in ToSet(File) PROVE x \in ToSet(View)
    OBVIOUS
  <2>1. PICK i \in 1 .. Len(File) : File[i] = x
    BY <1>1, ToSetElements
  <2>2. i \in 1 .. Len(View) /\ View[i] = x
    BY <1>1, <2>1 DEF Begins
  <2> QED
    BY <1>1, <2>2, ToSetElements
<1> QED
  BY <1>3, <1>4, <1>5 DEF ReopenedGoesOn, DiskInv

\* A session misread stays one.
LEMMA MisreadStays ==
  ASSUME [Next]_vars, misread
  PROVE  misread'
BY DEF Next, vars, Writer, Enter, ReadLog, Booted, Drop, Delete, SleepFold, DoAppend, DoSync, DoFold, WriteSession,
       RemoveLog, FoldFails, DeleteFile, DeleteLog, Crash, loopVars

\* A turn that was on the disk, fsynced, is in the session until the user
\* deletes it, for any number of turns and crashes, a ledger dropped at any time
\* included, but for a session restored while rows of it were queued, while a
\* fold moved them, or from a log with a gap.
THEOREM KeptTurnsAlwaysStay == Spec => []KeptTurnsStay
<1> DEFINE Inv == TypedInv /\ (misread \/ KInv)
<1>1. Init => Inv
  BY InitTyped, InitK
<1>2. Inv /\ [Next]_vars => Inv'
  BY NextKeepsTypes, NextKeepsK, MisreadStays DEF TypedInv
<1>3. Inv => KeptTurnsStay
  BY SafeIsSeen DEF KeptTurnsStay
<1> QED
  BY <1>1, <1>2, <1>3, PTL DEF Spec

-----------------------------------------------------------------------------
(* The session while nothing has disturbed it *)

\* What a reader sees of rows that go on where the turns end, and of rows that
\* are in the turns.
LEMMA FreshView ==
  ASSUME NEW t \in Seq(Turn), NEW r \in Seq(Row), Fresh(t, r)
  PROVE  /\ Len(Merge(t, r)) = Len(t) + Len(r) /\ Begins(t, Merge(t, r))
         /\ \A i \in 1 .. Len(r) : Merge(t, r)[Len(t) + i] = r[i].turn
         /\ Folded(Merge(t, r), r)
<1>1. /\ Len(Merge(t, r)) = Len(t) + Len(r)
      /\ \A i \in 1 .. Len(r) : Merge(t, r)[Len(t) + i] = r[i].turn
  BY MergeFresh
<1>2. ASSUME NEW i \in 1 .. Len(r)
      PROVE  r[i].seq + 1 \in 1 .. Len(Merge(t, r)) /\ Merge(t, r)[r[i].seq + 1] = r[i].turn
  <2>1. r[i].seq + 1 = Len(t) + i
    BY DEF Fresh
  <2>2. Len(t) + i \in 1 .. Len(t) + Len(r)
    OBVIOUS
  <2> QED
    BY <1>1, <2>1, <2>2
<1> QED
  BY <1>1, <1>2, MergeBegins DEF Folded

LEMMA FoldedView ==
  ASSUME NEW t \in Seq(Turn), NEW r \in Seq(Row), Folded(t, r)
  PROVE  Merge(t, r) = t
<1>1. ASSUME NEW i \in 1 .. Len(r) PROVE r[i].seq < Len(t)
  <2>1. r[i].seq + 1 \in 1 .. Len(t) /\ r[i].seq \in Nat
    <3>1. r[i] \in Row
      BY ElementOfSeq
    <3> QED
      BY <3>1 DEF Folded, Row
  <2> QED
    BY <2>1
<1> QED
  BY <1>1, MergeSkips

\* A log that has been folded can be folded again.
LEMMA FoldedTwice ==
  ASSUME NEW t \in Seq(Turn), NEW r \in Seq(Row), Fresh(t, r) \/ Folded(t, r)
  PROVE  Folded(Merge(t, r), r) /\ Merge(Merge(t, r), r) = Merge(t, r)
<1>1. Folded(Merge(t, r), r)
  BY FreshView, FoldedView
<1> QED
  BY <1>1, MergeBegins, FoldedView

LEMMA NoRowsView ==
  ASSUME NEW t \in Seq(Turn), NEW r \in Seq(Row), Len(r) = 0
  PROVE  Merge(t, r) = t /\ Fresh(t, r)
<1>1. 1 .. Len(r) = {}
  OBVIOUS
<1> QED
  BY <1>1, MergeSkips DEF Fresh

\* The beginning of turns in order is in order.
LEMMA PrefixChronological ==
  ASSUME NEW s \in Seq(Turn), NEW t \in Seq(Turn), Begins(s, t), Chronological(t)
  PROVE  Chronological(s)
<1>1. \A i \in 1 .. Len(s) : i \in 1 .. Len(t) /\ s[i] = t[i]
  BY DEF Begins
<1>2. s # << >> => t # << >> /\ 1 \in 1 .. Len(s)
  BY <1>1
<1> QED
  BY <1>1, <1>2 DEF Chronological, Increasing, AsksFirst

\* Where the queue is, as far as rows go.
LEMMA QueueShifts ==
  ASSUME TypeOK,
         \/ queue' = queue
         \/ queue # << >> /\ Head(queue).kind # "append" /\ queue' = Tail(queue)
         \/ \E op \in {FoldOp, DeleteOp} : queue' = Append(queue, op)
  PROVE  \E d \in {0, 1} : /\ \A p \in Appends' : p + d \in Appends /\ queue'[p] = queue[p + d]
                           /\ \A p \in Appends : p - d \in Appends'
<1>0. \A p \in Appends : p \in Nat /\ p + 0 = p /\ p - 0 = p
  BY DEF Appends
<1>1. CASE queue' = queue
  <2>1. /\ \A p \in Appends' : p + 0 \in Appends /\ queue'[p] = queue[p + 0]
        /\ \A p \in Appends : p - 0 \in Appends'
    BY <1>0, <1>1 DEF Appends
  <2> QED
    BY <2>1
<1>2. CASE queue # << >> /\ Head(queue).kind # "append" /\ queue' = Tail(queue)
  <2>1. 1 \notin Appends
    BY <1>2, HeadTyped DEF Appends
  <2>2. /\ \A p \in Appends' : p + 1 \in Appends /\ queue'[p] = queue[p + 1]
        /\ \A p \in Appends : p - 1 \in Appends'
    BY <1>2, <2>1, Popped
  <2> QED
    BY <2>2
<1>3. CASE \E op \in {FoldOp, DeleteOp} : queue' = Append(queue, op)
  <2>1. Appends' = Appends /\ \A p \in 1 .. Len(queue) : queue'[p] = queue[p]
    BY <1>3, Pushed
  <2>2. /\ \A p \in Appends' : p + 0 \in Appends /\ queue'[p] = queue[p + 0]
        /\ \A p \in Appends : p - 0 \in Appends'
    BY <1>0, <2>1 DEF Appends
  <2> QED
    BY <2>2
<1> QED
  BY <1>1, <1>2, <1>3

\* The loop and what a reader sees are left alone, and the rows that are queued.
LEMMA LedgerStays ==
  ASSUME KInv, LedgerInv, ledger' = ledger, said' = said, View' = View,
         \/ queue' = queue
         \/ queue # << >> /\ Head(queue).kind # "append" /\ queue' = Tail(queue)
         \/ \E op \in {FoldOp, DeleteOp} : queue' = Append(queue, op)
  PROVE  LedgerInv'
<1> USE DEF KInv
<1>1. PICK d \in {0, 1} : /\ \A p \in Appends' : p + d \in Appends /\ queue'[p] = queue[p + d]
                          /\ \A p \in Appends : p - d \in Appends'
  BY QueueShifts
<1>2. \A p \in Appends' : First(p)' = First(p + d) /\ End(p)' = End(p + d)
  BY <1>1 DEF First, End
<1>3. Started' <=> Started
  BY DEF Started
<1>4. ASSUME Linked(ledger) PROVE Linked(ledger)'
  <2>1. ASSUME NEW n \in Len(View) .. ledger.persisted - 1
        PROVE  \E p \in Appends' : First(p)' <= n /\ n < End(p)'
    <3>1. PICK p \in Appends : First(p) <= n /\ n < End(p)
      BY <1>4 DEF Linked
    <3>2. p - d \in Appends' /\ (p - d) + d = p
      BY <1>1 DEF Appends
    <3> QED
      BY <1>2, <3>1, <3>2
  <2>2. ASSUME NEW p \in Appends'
        PROVE  /\ \A i \in 1 .. Len(queue'[p].rows) : queue'[p].rows[i].turn = ledger.turns[First(p)' + i]
               /\ queue'[p].contents = {ledger.turns[n] : n \in 1 .. End(p)'}
    BY <1>1, <1>2, <1>4 DEF Linked
  <2> QED
    BY <1>4, <2>1, <2>2 DEF Linked
<1> QED
  BY <1>3, <1>4 DEF LedgerInv, Chronological

\* The disk and the fold are left alone.
LEMMA OrderStays ==
  ASSUME KInv, OrderInv, UNCHANGED <<foldVars, diskVars, pastVars, booting>>, said' \in Nat, said <= said'
  PROVE  OrderInv'
<1>1. UNCHANGED <<folding, json, log, synced, undo, indexed, gone, booting>>
  BY DEF foldVars, diskVars, pastVars
<1>2. File' = File /\ Rows' = Rows /\ View' = View
  BY <1>1 DEF File, Rows, View
<1>3. Chronological(View)'
  <2>1. View \in Seq(Turn) /\ said \in Nat
    BY DiskTyped DEF KInv, TypeOK
  <2>2. \A i \in 1 .. Len(View) : View[i] \in Nat
    BY <2>1, ElementOfSeq, BoundsAssumption DEF Turn
  <2> QED
    BY <1>2, <2>1, <2>2 DEF OrderInv, Chronological
<1> QED
  BY <1>1, <1>2, <1>3 DEF OrderInv, EntryShows

\* What is on the disk, and queued, is no more than the ledger has handed over.
LEMMA ReadyBounds ==
  ASSUME KInv, NEW led \in Ledgers, Ready(led)
  PROVE  /\ Len(View) \in Nat /\ Len(View) <= led.persisted /\ led.persisted <= Len(led.turns)
         /\ led.persisted \in Nat /\ Len(led.turns) \in Nat
         /\ \A p \in Appends : /\ First(p) \in Nat /\ End(p) \in Nat /\ First(p) < End(p)
                               /\ Len(View) <= First(p) /\ End(p) <= led.persisted
                               /\ End(p) = First(p) + Len(queue[p].rows) /\ Len(queue[p].rows) \in Nat
<1> USE DEF KInv
<1>1. led.persisted \in Nat /\ led.turns \in Seq(Turn) /\ led.persisted <= Len(led.turns) /\ FreeFrom(led.persisted)
  BY DEF Ledgers, Ready
<1>2. File \in Seq(Turn) /\ Rows \in Seq(Row) /\ View = Merge(File, Rows) /\ View \in Seq(Turn)
  BY DiskTyped
<1>3. \A n \in Nat : FreeFrom(n) => Len(View) <= n
  BY <1>2, MergeBound DEF FreeFrom
<1>4. ASSUME NEW p \in Appends
      PROVE  /\ First(p) \in Nat /\ End(p) \in Nat /\ First(p) < End(p)
             /\ Len(View) <= First(p) /\ End(p) <= led.persisted
             /\ End(p) = First(p) + Len(queue[p].rows) /\ Len(queue[p].rows) \in Nat
  <2>1. queue[p].rows # << >> /\ End(p) <= led.persisted /\ FreeFrom(First(p))
    BY <1>4 DEF Ready, QueueFits
  <2>2. p \in 1 .. Len(queue) /\ queue[p].kind = "append"
    BY DEF Appends
  <2>3. /\ queue[p].rows \in Seq(Row)
        /\ \A i \in 1 .. Len(queue[p].rows) : queue[p].rows[i].seq \in Nat
    BY <2>2, OpTyped
  <2>4. 1 \in 1 .. Len(queue[p].rows) /\ Len(queue[p].rows) \in Nat /\ Len(queue[p].rows) > 0
    BY <2>1, <2>3
  <2>5. First(p) \in Nat
    BY <2>3, <2>4 DEF First
  <2> QED
    BY <1>3, <2>1, <2>4, <2>5 DEF End
<1> QED
  BY <1>1, <1>2, <1>3, <1>4

\* A turn is said or rows are handed over: the ledger stays one with the session.
LEMMA RecordLinks ==
  ASSUME KInv, NEW led \in Ledgers, NEW what, Record(what, led), Ready(led), UNCHANGED <<json, log>>,
         Chronological(led.turns), Linked(led)
  PROVE  Chronological(ledger.turns)' /\ Linked(ledger)' /\ said <= said'
<1> USE DEF KInv
<1>1. /\ led.turns \in Seq(Turn) /\ led.persisted \in Nat /\ Len(led.turns) \in Nat /\ said \in Nat
      /\ \A i \in 1 .. Len(led.turns) : led.turns[i] \in Nat
  <2>1. led.turns \in Seq(Turn) /\ led.persisted \in Nat /\ said \in Nat
    BY DEF Ledgers, TypeOK
  <2> QED
    BY <2>1, ElementOfSeq, BoundsAssumption DEF Turn
<1>2. View' = View
  BY DEF View
<1>3. /\ Len(View) \in Nat /\ Len(View) <= led.persisted /\ led.persisted <= Len(led.turns)
      /\ \A p \in Appends : /\ First(p) \in Nat /\ End(p) \in Nat /\ First(p) < End(p)
                            /\ Len(View) <= First(p) /\ End(p) <= led.persisted
                            /\ End(p) = First(p) + Len(queue[p].rows) /\ Len(queue[p].rows) \in Nat
  BY ReadyBounds
<1>4. CASE Say(led)
  <2>1. PICK turn \in {said + 1, said + 2} \cap Turn :
           /\ IsAnswer(turn) => led.turns # << >>
           /\ said' = turn /\ ledger' = [led EXCEPT !.turns = Append(@, turn)] /\ queue' = queue
    BY <1>4 DEF Say
  <2>2. /\ ledger'.turns = Append(led.turns, turn) /\ ledger'.persisted = led.persisted
        /\ turn \in Turn /\ said < turn
    BY <1>1, <2>1 DEF Ledgers
  <2>3. /\ Len(ledger'.turns) = Len(led.turns) + 1 /\ ledger'.turns[Len(led.turns) + 1] = turn
        /\ \A i \in 1 .. Len(led.turns) : ledger'.turns[i] = led.turns[i]
    BY <1>1, <2>2
  <2>4. Chronological(ledger.turns)'
    <3>1. \A i \in 1 .. Len(led.turns) + 1 : i \in 1 .. Len(led.turns) \/ i = Len(led.turns) + 1
      BY <1>1
    <3>2. Increasing(ledger'.turns)
      BY <1>1, <2>2, <2>3, <3>1 DEF Chronological, Increasing
    <3>3. AsksFirst(ledger'.turns)
      <4>1. CASE led.turns = << >>
        <5>1. Len(led.turns) = 0 /\ ledger'.turns[1] = turn
          BY <2>3, <4>1
        <5> QED
          BY <2>1, <4>1, <5>1 DEF AsksFirst
      <4>2. CASE led.turns # << >>
        <5>1. 1 \in 1 .. Len(led.turns)
          BY <1>1, <4>2
        <5> QED
          BY <2>3, <4>2, <5>1 DEF Chronological, AsksFirst
      <4> QED
        BY <4>1, <4>2
    <3>4. \A i \in 1 .. Len(ledger'.turns) : ledger'.turns[i] <= said'
      BY <1>1, <2>1, <2>2, <2>3, <3>1 DEF Chronological
    <3> QED
      BY <3>2, <3>3, <3>4 DEF Chronological
  <2>5. Appends' = Appends /\ \A p \in Appends : First(p)' = First(p) /\ End(p)' = End(p)
    BY <2>1 DEF Appends, First, End
  <2>6. Linked(ledger)'
    <3>1. \A i \in 1 .. Len(View) : View[i] = ledger'.turns[i]
      BY <1>1, <1>3, <2>3 DEF Linked
    <3>2. ASSUME NEW p \in Appends
          PROVE  /\ \A i \in 1 .. Len(queue[p].rows) : queue[p].rows[i].turn = ledger'.turns[First(p) + i]
                 /\ queue[p].contents = {ledger'.turns[n] : n \in 1 .. End(p)}
      <4>1. \A n \in 1 .. End(p) : n \in 1 .. Len(led.turns) /\ ledger'.turns[n] = led.turns[n]
        BY <1>1, <1>3, <2>3
      <4>2. \A i \in 1 .. Len(queue[p].rows) : First(p) + i \in 1 .. End(p)
        BY <1>3
      <4>3. /\ \A i \in 1 .. Len(queue[p].rows) : queue[p].rows[i].turn = led.turns[First(p) + i]
            /\ queue[p].contents = {led.turns[n] : n \in 1 .. End(p)}
        BY DEF Linked
      <4>4. {ledger'.turns[n] : n \in 1 .. End(p)} = {led.turns[n] : n \in 1 .. End(p)}
        BY <4>1
      <4> QED
        BY <4>1, <4>2, <4>3, <4>4
    <3>3. ASSUME NEW n \in Len(View) .. led.persisted - 1
          PROVE  \E p \in Appends' : First(p)' <= n /\ n < End(p)'
      BY <2>5 DEF Linked
    <3>4. ASSUME NEW p \in Appends'
          PROVE  /\ \A i \in 1 .. Len(queue'[p].rows) : queue'[p].rows[i].turn = ledger'.turns[First(p)' + i]
                 /\ queue'[p].contents = {ledger'.turns[n] : n \in 1 .. End(p)'}
      BY <2>1, <2>5, <3>2
    <3> QED
      BY <1>2, <2>2, <3>1, <3>3, <3>4 DEF Linked
  <2> QED
    BY <1>1, <2>1, <2>2, <2>4, <2>6
<1>5. CASE Save(led)
  <2>1. PICK op \in Ops :
           /\ queue' = queue \o <<op, SyncOp>> /\ op.kind = "append"
           /\ op.rows \in Seq(Row) /\ Len(op.rows) = Len(led.turns) - led.persisted /\ op.rows # << >>
           /\ \A i \in 1 .. Len(op.rows) : /\ op.rows[i].seq = led.persisted + i - 1
                                           /\ op.rows[i].turn = led.turns[led.persisted + i]
           /\ op.contents = ToSet(led.turns)
    BY <1>5, Saved
  <2>2. /\ \A p \in 1 .. Len(queue) : queue'[p] = queue[p]
        /\ Appends' = Appends \cup {Len(queue) + 1} /\ queue'[Len(queue) + 1] = op
    BY <2>1, PushedRows
  <2>0. PICK last : last = Len(queue) + 1
    OBVIOUS
  <2>3. /\ ledger'.turns = led.turns /\ ledger'.persisted = Len(led.turns) /\ said' = said
    BY <1>5 DEF Save, Ledgers
  <2>4. \A p \in Appends : First(p)' = First(p) /\ End(p)' = End(p) /\ queue'[p] = queue[p]
    BY <2>2 DEF First, End, Appends
  <2>5. First(last)' = led.persisted /\ End(last)' = Len(led.turns)
    <3>1. 1 \in 1 .. Len(op.rows) /\ op.rows[1].seq = led.persisted /\ led.persisted + Len(op.rows) = Len(led.turns)
      BY <1>1, <2>1
    <3> QED
      BY <2>0, <2>2, <3>1 DEF First, End
  <2>6. ASSUME NEW n \in Len(View) .. Len(led.turns) - 1
        PROVE  \E p \in Appends' : First(p)' <= n /\ n < End(p)'
    <3>1. CASE n < led.persisted
      <4>1. n \in Len(View) .. led.persisted - 1
        BY <1>1, <1>3, <3>1
      <4> QED
        BY <2>2, <2>4, <4>1 DEF Linked
    <3>2. CASE ~ n < led.persisted
      BY <1>1, <1>3, <2>0, <2>2, <2>5, <3>2
    <3> QED
      BY <3>1, <3>2
  <2>7. ASSUME NEW p \in Appends'
        PROVE  /\ \A i \in 1 .. Len(queue'[p].rows) : queue'[p].rows[i].turn = led.turns[First(p)' + i]
               /\ queue'[p].contents = {led.turns[n] : n \in 1 .. End(p)'}
    <3>1. CASE p \in Appends
      BY <2>4, <3>1 DEF Linked
    <3>2. CASE p = last
      <4>1. ToSet(led.turns) = {led.turns[n] : n \in 1 .. Len(led.turns)}
        BY <1>1 DEF ToSet
      <4>2. queue'[p] = op /\ First(p)' = led.persisted /\ End(p)' = Len(led.turns)
        BY <2>0, <2>2, <2>5, <3>2
      <4>3. op.contents = {led.turns[n] : n \in 1 .. Len(led.turns)}
        BY <2>1, <4>1
      <4>4. \A i \in 1 .. Len(op.rows) : op.rows[i].turn = led.turns[led.persisted + i]
        BY <2>1
      <4> QED
        BY <4>2, <4>3, <4>4
    <3> QED
      BY <2>0, <2>2, <3>1, <3>2
  <2>8. Linked(ledger)'
    BY <1>2, <2>3, <2>6, <2>7 DEF Linked
  <2> QED
    BY <1>1, <2>3, <2>8 DEF Chronological
<1> QED
  BY <1>4, <1>5 DEF Record

LEMMA EnterKeepsU ==
  ASSUME KInv, LedgerInv, OrderInv, NEW what \in {"say", "save"}, Enter(what), ~ misread'
  PROVE  LedgerInv' /\ OrderInv'
<1> DEFINE led == AtHand
<1> USE DEF KInv
<1>1. UNCHANGED <<booting, foldVars, diskVars, pastVars>>
  BY DEF Enter
<1>2. UNCHANGED <<json, log, booting>> /\ View' = View
  BY <1>1 DEF diskVars, View
<1>3. /\ led \in Ledgers /\ led # None /\ (Started' /\ ledger' = led => led.started)
      /\ led.turns \in Seq(Turn) /\ Len(led.turns) \in Nat /\ Chronological(led.turns)
      /\ led.started => Started /\ led = ledger
      /\ ~ led.started => /\ led.persisted = 0 /\ Appends = {}
                          /\ \A i \in 1 .. Len(View), j \in 1 .. Len(led.turns) : View[i] < led.turns[j]
  <2>1. /\ led \in Ledgers /\ led # None /\ led.turns \in Seq(Turn) /\ Len(led.turns) \in Nat
        /\ led.started => Started /\ led = ledger
        /\ ~ led.started => led.persisted = 0 /\ Appends = {}
        /\ \/ led = ledger /\ ledger # None
           \/ led = NewLedger /\ led.turns = << >>
    BY AtHandTyped
  <2> HIDE DEF led
  <2>2. CASE led = ledger /\ ledger # None
    BY <2>1, <2>2 DEF Started, LedgerInv
  <2>3. CASE led = NewLedger /\ led.turns = << >>
    <3>1. Len(led.turns) = 0 /\ 1 .. Len(led.turns) = {} /\ ~ led.started
      BY <2>3 DEF NewLedger
    <3>2. Chronological(led.turns)
      BY <2>3, <3>1 DEF Chronological, Increasing, AsksFirst
    <3> QED
      BY <2>1, <3>1, <3>2 DEF Started
  <2> QED
    BY <2>1, <2>2, <2>3
<1> HIDE DEF led
<1>4. View \in Seq(Turn) /\ Len(View) \in Nat /\ said \in Nat /\ \A i \in 1 .. Len(View) : View[i] \in Nat
  <2>1. View \in Seq(Turn) /\ said \in Nat
    BY DiskTyped DEF TypeOK
  <2> QED
    BY <2>1, ElementOfSeq, BoundsAssumption DEF Turn
<1>5. CASE booting /\ what = "say" /\ Say(led) /\ UNCHANGED reading
  <2>1. PICK turn \in {said + 1, said + 2} \cap Turn :
           /\ IsAnswer(turn) => led.turns # << >>
           /\ said' = turn /\ ledger' = [led EXCEPT !.turns = Append(@, turn)] /\ queue' = queue
    BY <1>5 DEF Say
  <2>2. ~ led.started
    BY <1>3, <1>5 DEF ControlInv
  <2>3. ledger'.turns = Append(led.turns, turn) /\ ledger'.started = led.started /\ turn \in Turn /\ said < turn
    BY <1>3, <1>4, <2>1 DEF Ledgers
  <2>4. /\ Len(ledger'.turns) = Len(led.turns) + 1 /\ ledger'.turns[Len(led.turns) + 1] = turn
        /\ \A i \in 1 .. Len(led.turns) : ledger'.turns[i] = led.turns[i] /\ led.turns[i] \in Nat
        /\ turn \in Nat
    <3>1. \A i \in 1 .. Len(led.turns) : led.turns[i] \in Nat
      BY <1>3, ElementOfSeq, BoundsAssumption DEF Turn
    <3> QED
      BY <1>3, <2>3, <3>1, BoundsAssumption DEF Turn
  <2>5. \A i \in 1 .. Len(led.turns) + 1 : i \in 1 .. Len(led.turns) \/ i = Len(led.turns) + 1
    BY <1>3
  <2>6. Chronological(ledger.turns)'
    <3>1. Increasing(ledger'.turns)
      <4>1. SUFFICES ASSUME NEW i \in 1 .. Len(led.turns) + 1, NEW j \in 1 .. Len(led.turns) + 1, i < j
                     PROVE  ledger'.turns[i] < ledger'.turns[j]
        BY <2>4 DEF Increasing
      <4>2. i \in 1 .. Len(led.turns)
        BY <1>3, <4>1
      <4>3. led.turns[i] \in Nat /\ led.turns[i] <= said
        BY <1>3, <2>4, <4>2 DEF Chronological
      <4>4. CASE j \in 1 .. Len(led.turns)
        BY <1>3, <2>4, <4>1, <4>2, <4>4 DEF Chronological, Increasing
      <4>5. CASE j = Len(led.turns) + 1
        BY <1>4, <2>3, <2>4, <4>2, <4>3, <4>5
      <4> QED
        BY <2>5, <4>4, <4>5
    <3>2. AsksFirst(ledger'.turns)
      <4>1. CASE led.turns = << >>
        <5>1. Len(led.turns) = 0 /\ ledger'.turns[1] = turn
          BY <2>4, <4>1
        <5> QED
          BY <2>1, <4>1, <5>1 DEF AsksFirst
      <4>2. CASE led.turns # << >>
        <5>1. 1 \in 1 .. Len(led.turns)
          BY <1>3, <4>2
        <5> QED
          BY <1>3, <2>4, <4>2, <5>1 DEF Chronological, AsksFirst
      <4> QED
        BY <4>1, <4>2
    <3>3. \A i \in 1 .. Len(ledger'.turns) : ledger'.turns[i] <= said'
      BY <1>3, <1>4, <2>1, <2>3, <2>4, <2>5 DEF Chronological
    <3> QED
      BY <3>1, <3>2, <3>3 DEF Chronological
  <2>7. \A i \in 1 .. Len(View), j \in 1 .. Len(ledger'.turns) : View[i] < ledger'.turns[j]
    BY <1>3, <1>4, <2>2, <2>3, <2>4, <2>5 DEF OrderInv, Chronological
  <2>8. ~ Started'
    BY <1>3, <2>2, <2>3 DEF Started
  <2>9. LedgerInv'
    BY <1>2, <2>6, <2>7, <2>8 DEF LedgerInv
  <2>10. OrderInv'
    BY <1>1, <1>4, <2>1, <2>3, <2>4, OrderStays
  <2> QED
    BY <2>9, <2>10
<1>6. CASE ~ booting /\ (led.started \/ indexed = None) /\ Record(what, led)
  <2>1. Ready(led) /\ Linked(led)
    <3>1. CASE led.started
      BY <1>3, <3>1 DEF PositionInv, LedgerInv
    <3>2. CASE ~ led.started
      <4>1. Ready(led) /\ Appends = {}
        BY <1>3, <1>6, <3>2, NothingToRestore DEF Enter, Free
      <4>2. Len(View) = 0 /\ led.persisted = 0
        BY <1>3, <1>4, <3>2, <4>1, ReadyBounds
      <4>3. 1 .. Len(View) = {} /\ Len(View) .. led.persisted - 1 = {}
        BY <4>2
      <4> QED
        BY <4>1, <4>3 DEF Linked
    <3> QED
      BY <3>1, <3>2
  <2>2. Chronological(ledger.turns)' /\ Linked(ledger)' /\ said <= said'
    BY <1>2, <1>3, <1>6, <2>1, RecordLinks
  <2>3. ~ Started' => Len(View) = 0
    <3>1. /\ ledger' \in Ledgers
          /\ \/ ledger'.started = led.started
             \/ ledger'.started
      BY <1>2, <1>3, <1>6, <2>1, RecordKeeps
    <3>2. ~ Started' => ~ led.started /\ led.persisted = 0
      BY <1>3, <3>1, NoLedger DEF Started
    <3> QED
      BY <1>3, <1>4, <2>1, <3>2, ReadyBounds
  <2>4. LedgerInv'
    <3>1. Len(View) = 0 => 1 .. Len(View) = {}
      OBVIOUS
    <3> QED
      BY <1>2, <2>2, <2>3, <3>1 DEF LedgerInv
  <2>5. said' \in Nat
    BY <1>2, <1>3, <1>6, <2>1, RecordKeeps
  <2>6. OrderInv'
    BY <1>1, <2>2, <2>5, OrderStays
  <2> QED
    BY <2>4, <2>6
<1>7. CASE ~ led.started /\ ledger' = led /\ UNCHANGED <<said, queue>>
  <2>1. ~ Started'
    BY <1>7 DEF Started
  <2>2. LedgerInv'
    BY <1>2, <1>3, <1>7, <2>1 DEF LedgerInv, Chronological
  <2>3. OrderInv'
    BY <1>1, <1>4, <1>7, OrderStays
  <2> QED
    BY <2>2, <2>3
<1> QED
  BY <1>5, <1>6, <1>7 DEF Enter, led, AtHand

\* The session that is restored stands before what was said since.
LEMMA RestoredLinks ==
  ASSUME KInv, LedgerInv, OrderInv, ledger # None, ~ Started, Appends = {}, ledger.persisted = 0
  PROVE  LET led == Restored(ledger, View)
         IN  /\ led.turns \in Seq(Turn) /\ led.persisted = Len(View) /\ led.started
             /\ Chronological(led.turns) /\ Linked(led)
<1> DEFINE turns == View \o ledger.turns
<1> USE DEF KInv
<1>1. /\ View \in Seq(Turn) /\ Len(View) \in Nat /\ ledger.turns \in Seq(Turn) /\ Len(ledger.turns) \in Nat
  BY DiskTyped DEF TypeOK, Ledgers
<1>2. /\ turns \in Seq(Turn) /\ Len(turns) = Len(View) + Len(ledger.turns)
      /\ \A i \in 1 .. Len(View) + Len(ledger.turns) :
           turns[i] = IF i <= Len(View) THEN View[i] ELSE ledger.turns[i - Len(View)]
  BY <1>1, ConcatProperties
<1> HIDE DEF turns
<1>3. /\ \A i \in 1 .. Len(View) : i \in 1 .. Len(turns) /\ turns[i] = View[i]
      /\ \A i \in 1 .. Len(turns) : ~ i <= Len(View) => /\ i - Len(View) \in 1 .. Len(ledger.turns)
                                                        /\ turns[i] = ledger.turns[i - Len(View)]
  BY <1>1, <1>2
<1>4. /\ Chronological(View) /\ Chronological(ledger.turns)
      /\ \A i \in 1 .. Len(View), j \in 1 .. Len(ledger.turns) : View[i] < ledger.turns[j]
  BY DEF LedgerInv, OrderInv
<1>5. Increasing(turns)
  <2> SUFFICES ASSUME NEW i \in 1 .. Len(turns), NEW j \in 1 .. Len(turns), i < j
               PROVE  turns[i] < turns[j]
    BY DEF Increasing
  <2>1. CASE j <= Len(View)
    <3>1. i \in 1 .. Len(View) /\ j \in 1 .. Len(View)
      BY <1>1, <2>1
    <3> QED
      BY <1>3, <1>4, <3>1 DEF Chronological, Increasing
  <2>2. CASE i <= Len(View) /\ ~ j <= Len(View)
    <3>1. i \in 1 .. Len(View) /\ j - Len(View) \in 1 .. Len(ledger.turns)
      BY <1>1, <1>3, <2>2
    <3> QED
      BY <1>3, <1>4, <2>2, <3>1
  <2>3. CASE ~ i <= Len(View) /\ ~ j <= Len(View)
    <3>1. i - Len(View) \in 1 .. Len(ledger.turns) /\ j - Len(View) \in 1 .. Len(ledger.turns)
          /\ i - Len(View) < j - Len(View)
      BY <1>1, <1>3, <2>3
    <3> QED
      BY <1>3, <1>4, <2>3, <3>1 DEF Chronological, Increasing
  <2> QED
    BY <1>1, <2>1, <2>2, <2>3
<1>6. AsksFirst(turns)
  <2> SUFFICES ASSUME turns # << >> PROVE ~ IsAnswer(turns[1])
    BY DEF AsksFirst
  <2>1. 1 \in 1 .. Len(turns)
    BY <1>2
  <2>2. CASE Len(View) = 0
    <3>1. turns[1] = ledger.turns[1] /\ ledger.turns # << >>
      BY <1>1, <1>2, <1>3, <2>1, <2>2
    <3> QED
      BY <1>4, <3>1 DEF Chronological, AsksFirst
  <2>3. CASE Len(View) > 0
    <3>1. turns[1] = View[1] /\ View # << >>
      BY <1>1, <1>3, <2>3
    <3> QED
      BY <1>4, <3>1 DEF Chronological, AsksFirst
  <2> QED
    BY <1>1, <2>2, <2>3
<1>7. ASSUME NEW i \in 1 .. Len(turns) PROVE turns[i] <= said
  <2>1. CASE i <= Len(View)
    <3>1. i \in 1 .. Len(View)
      BY <1>1, <2>1
    <3> QED
      BY <1>3, <1>4, <3>1 DEF Chronological
  <2>2. CASE ~ i <= Len(View)
    BY <1>3, <1>4, <2>2 DEF Chronological
  <2> QED
    BY <2>1, <2>2
<1>8. Restored(ledger, View) = [turns |-> turns, persisted |-> Len(View), started |-> TRUE]
  BY <1>1 DEF Restored, turns
<1>9. Linked(Restored(ledger, View))
  <2>1. Len(View) .. Len(View) - 1 = {}
    BY <1>1
  <2> QED
    BY <1>3, <1>8, <2>1 DEF Linked
<1> QED
  BY <1>2, <1>5, <1>6, <1>7, <1>8, <1>9 DEF Chronological

LEMMA ReadLogKeepsU ==
  ASSUME KInv, LedgerInv, OrderInv, ReadLog, ~ misread'
  PROVE  LedgerInv' /\ OrderInv'
<1> DEFINE led == Restored(ledger, View)
<1> USE DEF KInv
<1>1. /\ ledger # None /\ ~ Started /\ ledger.persisted = 0 /\ Appends = {}
      /\ led \in Ledgers /\ Ready(led)
      /\ \/ Record(reading.what, led)
         \/ ledger' = led /\ UNCHANGED <<said, queue>>
  BY RestoredReady
<1>2. UNCHANGED <<booting, foldVars, diskVars, pastVars>>
  BY DEF ReadLog
<1>3. UNCHANGED <<json, log, booting>> /\ View' = View
  BY <1>2 DEF diskVars, View
<1>4. /\ led.turns \in Seq(Turn) /\ led.persisted = Len(View) /\ led.started
      /\ Chronological(led.turns) /\ Linked(led)
  BY <1>1, RestoredLinks
<1> HIDE DEF led
<1>5. Chronological(ledger.turns)' /\ Linked(ledger)' /\ said <= said' /\ said' \in Nat /\ ledger'.started
  <2>1. CASE Record(reading.what, led)
    BY <1>1, <1>3, <1>4, <2>1, RecordLinks, RecordKeeps
  <2>2. CASE ledger' = led /\ UNCHANGED <<said, queue>>
    BY <1>3, <1>4, <2>2 DEF Chronological, Linked, Appends, First, End, TypeOK
  <2> QED
    BY <1>1, <2>1, <2>2
<1>6. LedgerInv'
  BY <1>5 DEF LedgerInv, Started
<1>7. OrderInv'
  BY <1>2, <1>5, OrderStays
<1> QED
  BY <1>6, <1>7

LEMMA DropKeepsU ==
  ASSUME KInv, LedgerInv, OrderInv, NEW ended \in BOOLEAN, Drop(ended)
  PROVE  LedgerInv' /\ OrderInv'
<1>1. /\ queue' = queue \/ \E op \in {FoldOp, DeleteOp} : queue' = Append(queue, op)
      /\ UNCHANGED <<said, ledger, booting, foldVars, diskVars, pastVars>>
  BY DEF Drop
<1>2. UNCHANGED <<json, log>> /\ View' = View /\ said \in Nat
  BY <1>1 DEF diskVars, View, KInv, TypeOK
<1> QED
  BY <1>1, <1>2, LedgerStays, OrderStays

LEMMA PushKeepsU ==
  ASSUME KInv, LedgerInv, OrderInv, Delete \/ SleepFold
  PROVE  LedgerInv' /\ OrderInv'
<1>1. /\ \E op \in {FoldOp, DeleteOp} : queue' = Append(queue, op)
      /\ UNCHANGED <<loopVars, foldVars, diskVars, pastVars>>
  BY DEF Delete, SleepFold
<1>2. UNCHANGED <<ledger, said, booting, json, log>> /\ View' = View /\ said \in Nat
  BY <1>1 DEF loopVars, diskVars, View, KInv, TypeOK
<1> QED
  BY <1>1, <1>2, LedgerStays, OrderStays

LEMMA BootedKeepsU ==
  ASSUME KInv, LedgerInv, OrderInv, Booted
  PROVE  LedgerInv' /\ OrderInv'
<1> USE DEF KInv
<1>1. /\ booting /\ queue = << >> /\ booting' = FALSE
      /\ UNCHANGED <<said, ledger, queue, foldVars, diskVars, pastVars>>
  BY DEF Booted
<1>2. UNCHANGED <<folding, json, log, synced, undo, indexed, gone>>
  BY <1>1 DEF foldVars, diskVars, pastVars
<1>3. File' = File /\ Rows' = Rows /\ View' = View
  BY <1>2 DEF File, Rows, View
<1>4. log = None /\ Rows \in Seq(Row) /\ Len(Rows) = 0 /\ File \in Seq(Turn)
  BY <1>1, DiskTyped, NoFile DEF ControlInv, Rows
<1>5. Fresh(File, Rows)
  BY <1>4, NoRowsView
<1>6. LedgerInv'
  BY <1>1, <1>3, LedgerStays
<1>7. OrderInv'
  BY <1>1, <1>2, <1>3, <1>4, <1>5 DEF OrderInv, Chronological, EntryShows
<1> QED
  BY <1>6, <1>7

\* The next append goes on where the session ends.
LEMMA AppendFits ==
  ASSUME KInv, LedgerInv, OrderInv, Next1("append"), NEW n \in 0 .. Len(queue[1].rows)
  PROVE  LET grown == Rows \o SubSeq(queue[1].rows, 1, n)
         IN  /\ grown \in Seq(Row) /\ Fresh(File, grown) /\ Len(View) = First(1)
             /\ Merge(File, grown) \in Seq(Turn) /\ Begins(View, Merge(File, grown))
             /\ Len(Merge(File, grown)) = First(1) + n
             /\ Begins(Merge(File, grown), ledger.turns)
<1> DEFINE grown == Rows \o SubSeq(queue[1].rows, 1, n)
           rows == queue[1].rows
           seen == Merge(File, grown)
<1> USE DEF KInv
<1>1. /\ 1 \in Appends /\ Started /\ ~ booting /\ folding = "no" /\ First(1) \in Nat /\ Len(rows) \in Nat
      /\ \A i \in 1 .. Len(rows) : rows[i].seq = First(1) + i - 1
  BY AppendNext
<1>2. /\ grown \in Seq(Row) /\ Len(grown) = Len(Rows) + n
      /\ \A i \in 1 .. Len(Rows) + n : grown[i] = IF i <= Len(Rows) THEN Rows[i] ELSE rows[i - Len(Rows)]
  BY LogGrows
<1> HIDE DEF grown, rows
<1>3. File \in Seq(Turn) /\ Rows \in Seq(Row) /\ View = Merge(File, Rows) /\ Len(File) \in Nat /\ Len(Rows) \in Nat
  BY DiskTyped
<1>4. Fresh(File, Rows)
  BY <1>1 DEF OrderInv
<1>5. /\ Len(View) = Len(File) + Len(Rows) /\ Begins(File, View)
      /\ \A i \in 1 .. Len(Rows) : View[Len(File) + i] = Rows[i].turn
  BY <1>3, <1>4, FreshView
<1>6. ledger \in Ledgers /\ Ready(ledger) /\ Linked(ledger) /\ ledger.turns \in Seq(Turn)
  BY <1>1 DEF Started, TypeOK, PositionInv, LedgerInv, Ledgers
<1>7. /\ Len(View) \in Nat /\ ledger.persisted \in Nat /\ ledger.persisted <= Len(ledger.turns) /\ Len(ledger.turns) \in Nat
      /\ \A p \in Appends : /\ First(p) \in Nat /\ End(p) \in Nat /\ First(p) < End(p)
                            /\ Len(View) <= First(p) /\ End(p) <= ledger.persisted
                            /\ End(p) = First(p) + Len(queue[p].rows)
  BY <1>6, ReadyBounds
<1>8. Len(View) = First(1) /\ First(1) + n <= Len(ledger.turns)
  <2>1. Len(View) \in Len(View) .. ledger.persisted - 1
    BY <1>1, <1>7
  <2>2. PICK p \in Appends : First(p) <= Len(View) /\ Len(View) < End(p)
    BY <1>6, <2>1 DEF Linked
  <2>3. 1 < p => End(1) <= First(p)
    BY <1>1, <1>6 DEF Ready, QueueFits
  <2>4. p \in Nat /\ 1 <= p
    BY DEF Appends
  <2>5. p = 1
    BY <1>1, <1>7, <2>2, <2>3, <2>4
  <2> QED
    BY <1>1, <1>7, <2>2, <2>5 DEF rows
<1>0. First(1) = Len(File) + Len(Rows)
  BY <1>5, <1>8
<1>9. /\ \A i \in 1 .. Len(Rows) : grown[i] = Rows[i]
      /\ \A i \in 1 .. Len(Rows) + n :
           ~ i <= Len(Rows) => i - Len(Rows) \in 1 .. n /\ i - Len(Rows) \in 1 .. Len(rows)
                               /\ grown[i] = rows[i - Len(Rows)]
  <2>1. n \in Nat /\ n <= Len(rows)
    BY <1>1 DEF rows
  <2>2. \A i \in 1 .. Len(Rows) : i \in 1 .. Len(Rows) + n /\ i <= Len(Rows)
    BY <1>3, <2>1
  <2>3. \A i \in 1 .. Len(Rows) + n : ~ i <= Len(Rows) =>
          i - Len(Rows) \in 1 .. n /\ i - Len(Rows) \in 1 .. Len(rows)
    BY <1>1, <1>3, <2>1
  <2> QED
    BY <1>2, <2>2, <2>3
<1>10. Fresh(File, grown)
  <2> SUFFICES ASSUME NEW i \in 1 .. Len(Rows) + n PROVE grown[i].seq = Len(File) + i - 1
    BY <1>2 DEF Fresh
  <2>1. CASE i <= Len(Rows)
    <3>1. i \in 1 .. Len(Rows)
      BY <1>3, <2>1
    <3> QED
      BY <1>4, <1>9, <3>1 DEF Fresh
  <2>2. CASE ~ i <= Len(Rows)
    <3>1. grown[i].seq = First(1) + (i - Len(Rows)) - 1
      BY <1>1, <1>9, <2>2
    <3>2. \A k \in Int : (Len(File) + Len(Rows)) + (k - Len(Rows)) - 1 = Len(File) + k - 1
      BY <1>3
    <3>3. i \in Int
      BY <1>3
    <3> QED
      BY <1>0, <3>1, <3>2, <3>3
  <2> QED
    BY <2>1, <2>2
<1>11. /\ seen \in Seq(Turn) /\ Len(seen) = Len(File) + (Len(Rows) + n) /\ Begins(File, seen)
       /\ \A i \in 1 .. Len(Rows) + n : seen[Len(File) + i] = grown[i].turn
  <2>1. /\ Len(seen) = Len(File) + Len(grown) /\ Begins(File, seen)
        /\ \A i \in 1 .. Len(grown) : seen[Len(File) + i] = grown[i].turn
    BY <1>2, <1>3, <1>10, FreshView
  <2>2. seen \in Seq(Turn)
    BY <1>2, <1>3, MergeBegins
  <2> HIDE DEF seen
  <2> QED
    BY <1>2, <2>1, <2>2
<1> HIDE DEF seen
<1>12. Len(seen) = First(1) + n
  <2>1. Len(seen) = Len(File) + (Len(Rows) + n)
    BY <1>11
  <2> QED
    BY <1>0, <1>3, <2>1
<1>13. ASSUME NEW i \in 1 .. Len(View) PROVE i \in 1 .. Len(seen) /\ seen[i] = View[i]
  <2>1. i \in 1 .. Len(seen)
    BY <1>1, <1>8, <1>12
  <2>2. CASE i <= Len(File)
    <3>1. i \in 1 .. Len(File)
      BY <1>3, <2>2
    <3> QED
      BY <1>5, <1>11, <2>1, <3>1 DEF Begins
  <2>3. CASE ~ i <= Len(File)
    <3>1. PICK j \in 1 .. Len(Rows) : i = Len(File) + j
      <4>1. i - Len(File) \in 1 .. Len(Rows) /\ i = Len(File) + (i - Len(File))
        BY <1>3, <1>5, <2>3
      <4> QED
        BY <4>1
    <3>2. j \in 1 .. Len(Rows) + n
      BY <1>3
    <3> QED
      BY <1>5, <1>9, <1>11, <2>1, <3>1, <3>2
  <2> QED
    BY <2>2, <2>3
<1>14. ASSUME NEW i \in 1 .. Len(seen) PROVE seen[i] = ledger.turns[i]
  <2>1. CASE i <= Len(View)
    <3>1. i \in 1 .. Len(View)
      BY <1>7, <2>1
    <3> QED
      BY <1>6, <1>13, <3>1 DEF Linked
  <2>2. CASE ~ i <= Len(View)
    <3>1. PICK j \in 1 .. n : i = First(1) + j
      <4>1. i - First(1) \in 1 .. n /\ i = First(1) + (i - First(1))
        BY <1>1, <1>8, <1>12, <2>2
      <4> QED
        BY <4>1
    <3>2. /\ Len(Rows) + j \in 1 .. Len(Rows) + n /\ i = Len(File) + (Len(Rows) + j) /\ ~ Len(Rows) + j <= Len(Rows)
          /\ (Len(Rows) + j) - Len(Rows) = j
      <4>1. j \in Nat /\ 1 <= j /\ j <= n /\ n \in Nat
        OBVIOUS
      <4>2. i = (Len(File) + Len(Rows)) + j
        BY <1>0, <3>1
      <4> QED
        BY <1>3, <4>1, <4>2
    <3>3. seen[i] = rows[j].turn /\ j \in 1 .. Len(rows)
      BY <1>9, <1>11, <3>2
    <3>4. rows[j].turn = ledger.turns[First(1) + j]
      BY <1>1, <1>6, <3>3 DEF Linked, rows
    <3> QED
      BY <3>1, <3>3, <3>4
  <2> QED
    BY <2>1, <2>2
<1>15. Begins(View, seen)
  BY <1>1, <1>8, <1>12, <1>13 DEF Begins
<1>16. Begins(seen, ledger.turns)
  BY <1>8, <1>12, <1>14 DEF Begins
<1> QED
  BY <1>2, <1>8, <1>10, <1>11, <1>12, <1>15, <1>16 DEF grown, seen

LEMMA DoAppendKeepsU ==
  ASSUME KInv, LedgerInv, OrderInv, DoAppend, ~ disturbed'
  PROVE  LedgerInv' /\ OrderInv' /\ Begins(View, View')
<1> DEFINE size == Len(queue[1].rows)
<1> USE DEF KInv
<1>1. /\ Next1("append") /\ WriteRows(Head(queue).rows) /\ indexed' = Head(queue).contents /\ queue' = Tail(queue)
      /\ UNCHANGED <<loopVars, foldVars, json, synced, undo, kept, gone, crashes>>
  BY DEF DoAppend, Done
<1>2. UNCHANGED <<said, ledger, forgotten, reading, booting, folding, json, synced, undo, gone>>
  BY <1>1 DEF loopVars, foldVars
<1>3. /\ 1 \in Appends /\ Head(queue) = queue[1] /\ Started /\ ~ booting /\ folding = "no"
      /\ queue[1].rows \in Seq(Row) /\ queue[1].contents # None /\ First(1) \in Nat /\ size \in Nat
  BY <1>1, AppendNext
<1>4. log' = Rows \o SubSeq(queue[1].rows, 1, size)
  <2>1. SubSeq(queue[1].rows, 1, size) = queue[1].rows
    BY <1>3, SubSeqFull
  <2> QED
    BY <1>1, <1>3, <2>1 DEF WriteRows, Rows
<1>5. /\ log' \in Seq(Row) /\ Fresh(File, log') /\ Len(View) = First(1)
      /\ Merge(File, log') \in Seq(Turn) /\ Begins(View, Merge(File, log'))
      /\ Len(Merge(File, log')) = First(1) + size
      /\ Begins(Merge(File, log'), ledger.turns)
  <2>1. size \in 0 .. Len(queue[1].rows)
    BY <1>3
  <2> HIDE DEF size
  <2> QED
    BY <1>1, <1>4, <2>1, AppendFits
<1>6. Rows' = log' /\ File' = File /\ log' # None
  BY <1>2, <1>5, NoFile DEF Rows, File
<1>7. View' = Merge(File, log')
  <2>1. json \in Seq(Turn) \cup {None} /\ log' \in Seq(Row) \cup {None}
    BY <1>5 DEF TypeOK, Files
  <2>2. Merge(json, log') = Merge(Turns(json), Turns(log'))
    BY <2>1, MergeTurns
  <2> QED
    BY <1>2, <1>6, <2>2 DEF View, File, Rows
<1>8. ledger \in Ledgers /\ Ready(ledger) /\ Linked(ledger) /\ ledger.turns \in Seq(Turn) /\ ledger # None
      /\ Chronological(ledger.turns) /\ Started'
  BY <1>2, <1>3 DEF Started, TypeOK, PositionInv, LedgerInv, Ledgers
<1>9. /\ Len(View) \in Nat /\ ledger.persisted \in Nat /\ ledger.persisted <= Len(ledger.turns) /\ Len(ledger.turns) \in Nat
      /\ \A p \in Appends : /\ First(p) \in Nat /\ End(p) \in Nat /\ First(p) < End(p)
                            /\ Len(View) <= First(p) /\ End(p) <= ledger.persisted
                            /\ End(p) = First(p) + Len(queue[p].rows) /\ Len(queue[p].rows) \in Nat
  BY <1>8, ReadyBounds
<1>10. /\ \A p \in Appends' : p + 1 \in Appends /\ queue'[p] = queue[p + 1]
       /\ \A p \in Appends : p # 1 => p - 1 \in Appends'
  BY <1>1, Popped DEF Next1
<1>11. \A p \in Appends' : First(p)' = First(p + 1) /\ End(p)' = End(p + 1)
  BY <1>10 DEF First, End
<1>12. Linked(ledger)'
  <2>1. \A i \in 1 .. Len(View') : View'[i] = ledger.turns[i]
    BY <1>5, <1>7 DEF Begins
  <2>2. ASSUME NEW n \in Len(View') .. ledger.persisted - 1
        PROVE  \E p \in Appends' : First(p)' <= n /\ n < End(p)'
    <3>1. n \in Len(View) .. ledger.persisted - 1 /\ End(1) <= n
      BY <1>3, <1>5, <1>7, <1>9
    <3>2. PICK p \in Appends : First(p) <= n /\ n < End(p)
      BY <1>8, <3>1 DEF Linked
    <3>3. p # 1
      BY <1>9, <3>1, <3>2
    <3>4. p - 1 \in Appends' /\ (p - 1) + 1 = p
      BY <1>10, <3>3 DEF Appends
    <3> QED
      BY <1>11, <3>2, <3>4
  <2>3. ASSUME NEW p \in Appends'
        PROVE  /\ \A i \in 1 .. Len(queue'[p].rows) : queue'[p].rows[i].turn = ledger.turns[First(p)' + i]
               /\ queue'[p].contents = {ledger.turns[n] : n \in 1 .. End(p)'}
    BY <1>8, <1>10, <1>11 DEF Linked
  <2> QED
    BY <1>2, <2>1, <2>2, <2>3 DEF Linked
<1>13. LedgerInv'
  BY <1>2, <1>8, <1>12 DEF LedgerInv, Chronological
<1>14. Chronological(View)'
  BY <1>2, <1>5, <1>7, <1>8, PrefixChronological DEF Chronological
<1>15. indexed' = ToSet(View') /\ indexed' # None
  <2>1. indexed' = {ledger.turns[n] : n \in 1 .. End(1)}
    BY <1>1, <1>3, <1>8 DEF Linked
  <2>2. /\ Len(View') = End(1) /\ View' \in Seq(Turn)
        /\ \A n \in 1 .. End(1) : View'[n] = ledger.turns[n]
    BY <1>3, <1>5, <1>7, <1>9 DEF Begins
  <2>3. ToSet(View') = {View'[n] : n \in 1 .. End(1)}
    BY <2>2 DEF ToSet
  <2> QED
    BY <1>1, <1>3, <2>1, <2>2, <2>3
<1>16. OrderInv'
  BY <1>2, <1>3, <1>5, <1>6, <1>14, <1>15 DEF OrderInv, EntryShows
<1> QED
  BY <1>5, <1>7, <1>13, <1>16

LEMMA DoSyncKeepsU ==
  ASSUME KInv, LedgerInv, OrderInv, DoSync
  PROVE  LedgerInv' /\ OrderInv' /\ View' = View
<1> USE DEF KInv
<1>1. /\ queue # << >> /\ Head(queue).kind = "sync" /\ queue' = Tail(queue)
      /\ synced' = Len(Rows) /\ undo' \in {undo, None}
      /\ UNCHANGED <<loopVars, foldVars, json, log, indexed, gone>>
  BY DEF DoSync, Next1, Done, Rows
<1>2. UNCHANGED <<said, ledger, booting, folding, json, log, indexed, gone>>
  BY <1>1 DEF loopVars, foldVars
<1>3. Rows' = Rows /\ File' = File /\ View' = View
  BY <1>2 DEF Rows, File, View
<1>4. LedgerInv'
  BY <1>1, <1>2, <1>3, LedgerStays
<1>5. OrderInv'
  BY <1>1, <1>2, <1>3 DEF OrderInv, Chronological, EntryShows
<1> QED
  BY <1>3, <1>4, <1>5

LEMMA DoFoldKeepsU ==
  ASSUME KInv, LedgerInv, OrderInv, DoFold
  PROVE  LedgerInv' /\ OrderInv' /\ View' = View
<1> USE DEF KInv
<1>1. /\ queue # << >> /\ Head(queue).kind = "fold" /\ folding = "no"
      /\ UNCHANGED <<loopVars, json, indexed, disturbed>>
  BY DEF DoFold, Next1
<1>2. UNCHANGED <<said, ledger, booting, json, indexed, disturbed>> /\ File' = File
  BY <1>1 DEF loopVars, File
<1>3. /\ File \in Seq(Turn) /\ Rows \in Seq(Row) /\ View = Merge(File, Rows) /\ View \in Seq(Turn)
      /\ Len(Rows) \in Nat
  BY DiskTyped
<1>4. CASE log = None /\ queue' = Tail(queue) /\ UNCHANGED <<folding, log, synced, gone, undo>>
  <2>1. Rows' = Rows /\ View' = View
    BY <1>2, <1>4 DEF Rows, View
  <2>2. LedgerInv'
    BY <1>1, <1>2, <1>4, <2>1, LedgerStays
  <2>3. OrderInv'
    BY <1>2, <1>4, <2>1 DEF OrderInv, Chronological, EntryShows
  <2> QED
    BY <2>1, <2>2, <2>3
<1>5. CASE /\ log # None /\ json = None /\ \A turn \in TurnsOf(log) : IsAnswer(turn)
           /\ log' = None /\ synced' = 0 /\ gone' = gone \cup TurnsOf(log)
           /\ queue' = Tail(queue) /\ UNCHANGED <<folding, undo>>
  <2>1. /\ Rows' = << >> /\ Len(Rows') = 0 /\ Rows' \in Seq(Row) /\ File = << >> /\ Len(File) = 0 /\ Rows = log
    BY <1>5, NoFile DEF Rows, File, Turns
  <2>2. Len(Rows) = 0
    <3>1. CASE Fresh(File, Rows)
      <4>1. /\ Len(View) = Len(Rows)
            /\ \A i \in 1 .. Len(Rows) : View[i] = Rows[i].turn
        <5>1. \A i \in 1 .. Len(Rows) : Len(File) + i = i
          BY <2>1
        <5>2. Len(View) = Len(File) + Len(Rows) /\ \A i \in 1 .. Len(Rows) : View[Len(File) + i] = Rows[i].turn
          BY <1>3, <3>1, FreshView
        <5> QED
          BY <1>3, <2>1, <5>1, <5>2
      <4>2. SUFFICES ASSUME Len(Rows) # 0 PROVE FALSE
        OBVIOUS
      <4>3. 1 \in 1 .. Len(Rows) /\ View # << >>
        BY <1>3, <4>1, <4>2
      <4>4. View[1] \in TurnsOf(log)
        <5>1. TurnsOf(Rows) = {Rows[i].turn : i \in 1 .. Len(Rows)}
          BY <1>3 DEF TurnsOf
        <5> QED
          BY <2>1, <4>1, <4>3, <5>1
      <4> QED
        BY <1>5, <4>3, <4>4 DEF OrderInv, Chronological, AsksFirst
    <3>2. CASE Folded(File, Rows)
      <4>1. SUFFICES ASSUME Len(Rows) # 0 PROVE FALSE
        OBVIOUS
      <4>2. 1 \in 1 .. Len(Rows) /\ 1 .. Len(File) = {}
        BY <1>3, <2>1, <4>1
      <4> QED
        BY <3>2, <4>2 DEF Folded
    <3> QED
      BY <3>1, <3>2 DEF OrderInv
  <2>3. View = File /\ View' = File
    <3>1. View = File
      BY <1>3, <2>2, NoRowsView
    <3>2. View' = Merge(File, Rows')
      <4>1. json \in Seq(Turn) \cup {None} /\ log' \in Seq(Row) \cup {None}
        BY <1>5
      <4> QED
        BY <1>2, <4>1, MergeTurns DEF View, File, Rows
    <3> QED
      BY <1>3, <2>1, <3>1, <3>2, NoRowsView
  <2>4. TurnsOf(log) = {}
    <3>1. TurnsOf(Rows) = {Rows[i].turn : i \in 1 .. Len(Rows)} /\ 1 .. Len(Rows) = {}
      BY <1>3, <2>2 DEF TurnsOf
    <3> QED
      BY <2>1, <3>1
  <2>5. LedgerInv'
    BY <1>1, <1>2, <1>5, <2>3, LedgerStays
  <2>6. OrderInv'
    <3>1. Fresh(File', Rows')
      BY <1>2, <1>3, <2>1, NoRowsView
    <3>2. EntryShows(View)
      BY <2>3 DEF OrderInv
    <3> QED
      BY <1>1, <1>2, <1>5, <2>3, <2>4, <3>1, <3>2 DEF OrderInv, Chronological, EntryShows
  <2> QED
    BY <2>3, <2>5, <2>6
<1>6. CASE /\ log # None /\ synced' = Len(log) /\ folding' = "merged" /\ undo' = None
           /\ UNCHANGED <<log, gone, queue>>
  <2>1. Rows' = Rows /\ View' = View /\ synced' = Len(Rows)
    BY <1>2, <1>6 DEF Rows, View, Turns
  <2>2. LedgerInv'
    BY <1>2, <1>6, <2>1, LedgerStays
  <2>3. OrderInv'
    BY <1>1, <1>2, <1>6, <2>1 DEF OrderInv, Chronological, EntryShows
  <2> QED
    BY <2>1, <2>2, <2>3
<1> QED
  BY <1>4, <1>5, <1>6 DEF DoFold, Done

LEMMA WriteSessionKeepsU ==
  ASSUME KInv, LedgerInv, OrderInv, WriteSession
  PROVE  LedgerInv' /\ OrderInv' /\ View' = View
<1> USE DEF KInv
<1>1. /\ folding = "merged" /\ json' = merged /\ indexed' = ToSet(merged)
      /\ undo' = [json |-> json, log |-> log] /\ folding' = "written"
      /\ UNCHANGED <<loopVars, queue, log, synced, pastVars>>
  BY DEF WriteSession
<1>2. UNCHANGED <<said, ledger, booting, queue, log, synced, gone>>
  BY <1>1 DEF loopVars, pastVars
<1>3. merged = View /\ synced = Len(Rows)
  BY <1>1, FoldUnderWay DEF DiskInv
<1>4. File \in Seq(Turn) /\ Rows \in Seq(Row) /\ View \in Seq(Turn) /\ View = Merge(File, Rows)
  BY DiskTyped
<1>5. File' = View /\ Rows' = Rows
  BY <1>1, <1>2, <1>3, <1>4, NoFile DEF File, Rows
<1>6. Folded(View, Rows) /\ View' = View
  <2>1. Folded(View, Rows) /\ Merge(View, Rows) = View
    BY <1>4, FoldedTwice DEF OrderInv
  <2>2. View' = Merge(View, Rows)
    <3>1. log \in Seq(Row) \cup {None}
      BY DEF TypeOK, Logs
    <3>2. Merge(View, log) = Merge(Turns(View), Rows)
      BY <1>4, <3>1, MergeTurns DEF Rows
    <3>3. Turns(View) = View
      BY <1>4, NoFile
    <3> QED
      BY <1>1, <1>2, <1>3, <3>2, <3>3 DEF View
  <2> QED
    BY <2>1, <2>2
<1>7. LedgerInv'
  BY <1>2, <1>6, LedgerStays
<1>8. undo' # None => \/ Fresh(Turns(undo'.json), Turns(undo'.log))
                      \/ Folded(Turns(undo'.json), Turns(undo'.log))
  <2>1. undo'.json = json /\ undo'.log = log
    BY <1>1
  <2> QED
    BY <2>1 DEF OrderInv, File, Rows
<1>9. indexed' = ToSet(View) /\ indexed' # None
  <2>1. ToSet(View) \subseteq Turn
    BY <1>4, ToSetElements
  <2> QED
    BY <1>1, <1>3, <2>1, NoneAssumption DEF Turn
<1>10. OrderInv'
  BY <1>1, <1>2, <1>3, <1>5, <1>6, <1>8, <1>9 DEF OrderInv, Chronological, EntryShows
<1> QED
  BY <1>6, <1>7, <1>10

LEMMA RemoveLogKeepsU ==
  ASSUME KInv, LedgerInv, OrderInv, RemoveLog
  PROVE  LedgerInv' /\ OrderInv' /\ View' = View
<1> USE DEF KInv
<1>1. /\ folding = "written" /\ log' = None /\ synced' = 0 /\ folding' = "no" /\ queue' = Tail(queue)
      /\ UNCHANGED <<loopVars, json, undo, indexed, pastVars>>
  BY DEF RemoveLog, Done
<1>2. UNCHANGED <<said, ledger, booting, json, undo, indexed, gone>>
  BY <1>1 DEF loopVars, pastVars
<1>3. queue # << >> /\ Head(queue).kind # "append"
  BY <1>1, FoldUnderWay DEF FoldOp
<1>4. /\ File \in Seq(Turn) /\ Rows \in Seq(Row) /\ View = Merge(File, Rows)
      /\ File' = File /\ Rows' \in Seq(Row) /\ Len(Rows') = 0
  BY <1>1, <1>2, DiskTyped, NoFile DEF File, Rows
<1>5. View = File /\ View' = File /\ Fresh(File, Rows')
  <2>1. View = File
    BY <1>1, <1>4, FoldedView DEF OrderInv
  <2>2. View' = Merge(File, Rows')
    <3>1. json \in Seq(Turn) \cup {None} /\ log' \in Seq(Row) \cup {None}
      BY <1>1 DEF TypeOK, Files
    <3> QED
      BY <1>2, <3>1, MergeTurns DEF View, File, Rows
  <2> QED
    BY <1>4, <2>1, <2>2, NoRowsView
<1>6. LedgerInv'
  BY <1>1, <1>2, <1>3, <1>5, LedgerStays
<1>7. OrderInv'
  BY <1>1, <1>2, <1>4, <1>5 DEF OrderInv, Chronological, EntryShows
<1> QED
  BY <1>5, <1>6, <1>7

\* Whatever a crash leaves: rows that go on where the file ends, or a log that is
\* in the file already, and the beginning of what was to be seen.
LEMMA DisksInOrder ==
  ASSUME KInv, LedgerInv, OrderInv, NEW d \in Disks
  PROVE  LET t == Turns(d.json)
             r == Turns(d.log)
         IN  /\ t \in Seq(Turn) /\ r \in Seq(Row) /\ Merge(t, r) \in Seq(Turn)
             /\ Fresh(t, r) \/ Folded(t, r)
             /\ Chronological(Merge(t, r))
             /\ Begins(Merge(t, r), View) \/ Begins(View, Merge(t, r))
<1> DEFINE t == Turns(d.json)
           r == Turns(d.log)
<1> USE DEF KInv
<1>1. t \in Seq(Turn) /\ r \in Seq(Row)
  <2>1. d.json \in Files /\ d.log \in Logs
    BY DisksSafe
  <2> QED
    BY <2>1, NoFile DEF Files, Logs, Turns
<1>2. Merge(t, r) \in Seq(Turn)
  BY <1>1, MergeBegins
<1>3. /\ File \in Seq(Turn) /\ Rows \in Seq(Row) /\ View = Merge(File, Rows) /\ View \in Seq(Turn) /\ Begins(File, View)
      /\ Len(Rows) \in Nat /\ synced \in 0 .. Len(Rows) /\ Len(File) \in Nat
  BY DiskTyped DEF TypeOK, Rows
<1>4. Chronological(View)
  BY DEF OrderInv
<1> HIDE DEF t, r
<1>5. ASSUME Begins(Merge(t, r), View) PROVE Chronological(Merge(t, r))
  BY <1>2, <1>3, <1>4, <1>5, PrefixChronological
<1>6. CASE t = File /\ \E n \in synced .. Len(Rows) : r = SubSeq(Rows, 1, n)
  <2>1. PICK n \in synced .. Len(Rows) : r = SubSeq(Rows, 1, n)
    BY <1>6
  <2>2. n \in 0 .. Len(Rows) /\ n \in Nat
    BY <1>3
  <2>3. Len(r) = n /\ \A i \in 1 .. n : i \in 1 .. Len(Rows) /\ r[i] = Rows[i]
    BY <2>1, <2>2, LogPrefix
  <2>4. CASE Fresh(File, Rows)
    <3>1. Fresh(t, r)
      BY <1>6, <2>3, <2>4 DEF Fresh
    <3>2. /\ Len(Merge(t, r)) = Len(File) + n /\ Begins(File, Merge(t, r))
          /\ \A i \in 1 .. n : Merge(t, r)[Len(File) + i] = r[i].turn
      BY <1>1, <1>6, <2>3, <3>1, FreshView
    <3>3. /\ Len(View) = Len(File) + Len(Rows)
          /\ \A i \in 1 .. Len(Rows) : View[Len(File) + i] = Rows[i].turn
      BY <1>3, <2>4, FreshView
    <3>4. ASSUME NEW i \in 1 .. Len(File) + n PROVE View[i] = Merge(t, r)[i]
      <4>1. CASE i <= Len(File)
        <5>1. i \in 1 .. Len(File)
          BY <1>3, <4>1
        <5> QED
          BY <1>3, <3>2, <5>1 DEF Begins
      <4>2. CASE ~ i <= Len(File)
        <5>1. PICK k \in 1 .. n : i = Len(File) + k
          <6>1. i - Len(File) \in 1 .. n /\ i = Len(File) + (i - Len(File))
            BY <1>3, <2>2, <4>2
          <6> QED
            BY <6>1
        <5> QED
          BY <2>3, <3>2, <3>3, <5>1
      <4> QED
        BY <4>1, <4>2
    <3>5. Begins(Merge(t, r), View)
      BY <1>3, <2>2, <3>2, <3>3, <3>4 DEF Begins
    <3> QED
      BY <1>1, <1>2, <1>5, <3>1, <3>5 DEF t, r
  <2>5. CASE Folded(File, Rows) /\ synced = Len(Rows)
    <3>1. n = Len(Rows)
      BY <1>3, <2>2, <2>5
    <3>2. r = Rows
      BY <1>3, <2>1, <3>1, SubSeqFull
    <3>3. Folded(t, r) /\ Begins(Merge(t, r), View)
      <4>1. Merge(t, r) = File
        BY <1>3, <1>6, <2>5, <3>2, FoldedView
      <4> QED
        BY <1>3, <1>6, <2>5, <3>2, <4>1
    <3> QED
      BY <1>1, <1>2, <1>5, <3>3 DEF t, r
  <2> QED
    BY <2>4, <2>5 DEF OrderInv
<1>7. CASE /\ t = File /\ Next1("append")
           /\ \E n \in 0 .. Len(Head(queue).rows) : r = Rows \o SubSeq(Head(queue).rows, 1, n)
  <2>1. Head(queue) = queue[1] /\ Started
    BY <1>7, AppendNext
  <2>2. PICK n \in 0 .. Len(queue[1].rows) : r = Rows \o SubSeq(queue[1].rows, 1, n)
    BY <1>7, <2>1
  <2>3. Fresh(t, r) /\ Begins(View, Merge(t, r)) /\ Begins(Merge(t, r), ledger.turns)
    BY <1>7, <2>2, AppendFits
  <2>4. Chronological(ledger.turns) /\ ledger.turns \in Seq(Turn)
    BY <2>1 DEF Started, LedgerInv, TypeOK, Ledgers
  <2> QED
    <3>1. Chronological(Merge(t, r))
      BY <1>2, <2>3, <2>4, PrefixChronological
    <3> QED
      BY <1>1, <1>2, <2>3, <3>1 DEF t, r
<1>8. ASSUME undo # None
      PROVE  /\ Turns(undo.json) \in Seq(Turn) /\ Turns(undo.log) \in Seq(Row)
             /\ json = Merge(Turns(undo.json), Turns(undo.log)) /\ File = json
             /\ \/ Fresh(Turns(undo.json), Turns(undo.log))
                \/ Folded(Turns(undo.json), Turns(undo.log))
  <2>1. undo.json \in Files /\ undo.log \in Logs /\ json # None /\ json = Merge(undo.json, undo.log)
    BY <1>8 DEF TypeOK, DiskInv
  <2>2. Turns(undo.json) \in Seq(Turn) /\ Turns(undo.log) \in Seq(Row)
    BY <2>1, NoFile DEF Files, Logs, Turns
  <2>3. json = Merge(Turns(undo.json), Turns(undo.log))
    BY <2>1, MergeTurns DEF Files, Logs
  <2>4. File = json
    BY <2>1 DEF File, Turns
  <2> QED
    BY <1>8, <2>2, <2>3, <2>4 DEF OrderInv
<1>9. CASE t = File /\ r = Turns(undo.log) /\ undo # None
  <2>1. Folded(t, r) /\ Merge(t, r) = File
    BY <1>8, <1>9, FoldedTwice
  <2> QED
    BY <1>1, <1>2, <1>3, <1>5, <2>1 DEF t, r
<1>10. CASE t = Turns(undo.json) /\ r = Turns(undo.log) /\ undo # None
  <2>1. Merge(t, r) = File /\ (Fresh(t, r) \/ Folded(t, r))
    BY <1>8, <1>10
  <2> QED
    BY <1>1, <1>2, <1>3, <1>5, <2>1 DEF t, r
<1>11. \/ t = File /\ \E n \in synced .. Len(Rows) : r = SubSeq(Rows, 1, n)
       \/ /\ t = File /\ Next1("append")
          /\ \E n \in 0 .. Len(Head(queue).rows) : r = Rows \o SubSeq(Head(queue).rows, 1, n)
       \/ t = File /\ r = Turns(undo.log) /\ undo # None
       \/ t = Turns(undo.json) /\ r = Turns(undo.log) /\ undo # None
  <2>1. CASE /\ d.json = json
             /\ \E n \in synced .. Len(Rows) : Turns(d.log) = SubSeq(Rows, 1, n)
    BY <2>1 DEF t, r, File
  <2>2. CASE /\ d.json = json /\ Next1("append")
             /\ \E n \in 0 .. Len(Head(queue).rows) : d.log = Rows \o SubSeq(Head(queue).rows, 1, n)
    <3>1. Head(queue) = queue[1]
      BY <2>2, AppendNext
    <3>2. PICK n \in 0 .. Len(Head(queue).rows) : d.log = Rows \o SubSeq(Head(queue).rows, 1, n)
      BY <2>2
    <3>3. d.log \in Seq(Row)
      BY <2>2, <3>1, <3>2, LogGrows
    <3>4. r = d.log
      BY <3>3, NoFile DEF r
    <3> QED
      BY <2>2, <3>2, <3>4 DEF t, File
  <2>3. CASE d = undo /\ undo # None
    BY <2>3 DEF t, r
  <2>4. CASE d.json = json /\ d.log = undo.log /\ undo # None
    BY <2>4 DEF t, r, File
  <2> QED
    BY <2>1, <2>2, <2>3, <2>4, DisksAre
<1> QED
  BY <1>1, <1>2, <1>6, <1>7, <1>9, <1>10, <1>11 DEF t, r

LEMMA CrashKeepsU ==
  ASSUME KInv, LedgerInv, OrderInv, Crash
  PROVE  LedgerInv' /\ OrderInv' /\ (Begins(View', View) \/ Begins(View, View'))
<1> USE DEF KInv
<1>1. /\ undo' = None /\ booting' = TRUE /\ ledger' = None /\ folding' = "no"
      /\ UNCHANGED <<said, gone>>
  BY DEF Crash
<1>2. PICK d \in Disks :
        /\ json' = d.json /\ log' = d.log /\ synced' = Len(Turns(d.log))
        /\ indexed' = IF d.json = None THEN None ELSE ToSet(d.json)
  BY DEF Crash
<1>3. File' = Turns(d.json) /\ Rows' = Turns(d.log) /\ synced' = Len(Rows')
  BY <1>2 DEF File, Rows
<1>4. View' = Merge(File', Rows')
  <2>1. d.json \in Files /\ d.log \in Logs
    BY DisksSafe
  <2> QED
    BY <1>2, <1>3, <2>1, MergeTurns DEF View, Files, Logs
<1>5. /\ File' \in Seq(Turn) /\ Rows' \in Seq(Row)
      /\ Fresh(File', Rows') \/ Folded(File', Rows')
      /\ Chronological(View') /\ (Begins(View', View) \/ Begins(View, View'))
  BY <1>3, <1>4, DisksInOrder
<1>6. EntryShows(File)'
  <2>1. CASE d.json = None
    <3>1. indexed' = None /\ File' = << >>
      BY <1>2, <1>3, <2>1, NoFile
    <3> QED
      BY <3>1 DEF EntryShows
  <2>2. CASE d.json # None
    <3>1. File' = d.json /\ indexed' = ToSet(File')
      BY <1>2, <1>3, <2>2 DEF Turns
    <3>2. ToSet(File') \subseteq 1 .. MaxTurns
      BY <1>5, ToSetElements DEF Turn
    <3>3. indexed' # None
      BY <3>1, <3>2, NoneAssumption
    <3> QED
      BY <3>1, <3>3 DEF EntryShows
  <2> QED
    BY <2>1, <2>2
<1>7. log' = None => View' = File'
  <2>1. log' = None => Len(Rows') = 0
    BY <1>2, <1>3, NoFile
  <2> QED
    BY <1>4, <1>5, <2>1, NoRowsView
<1>8. LedgerInv'
  BY <1>1 DEF LedgerInv
<1>9. IF booting' /\ log' # None THEN EntryShows(File)' ELSE EntryShows(View)'
  BY <1>1, <1>6, <1>7 DEF EntryShows
<1>10. OrderInv'
  BY <1>1, <1>3, <1>5, <1>9 DEF OrderInv, Chronological
<1> QED
  BY <1>5, <1>8, <1>10

\* What a step does to the session while nothing disturbs it.
LEMMA StepKeepsU ==
  ASSUME KInv, LedgerInv, OrderInv, [Next]_vars, ~ disturbed, ~ disturbed', ~ misread'
  PROVE  /\ LedgerInv' /\ OrderInv' /\ kept \subseteq kept'
         /\ \/ View' = View
            \/ kept' = kept /\ (Begins(View, View') \/ Begins(View', View))
<1>1. CASE UNCHANGED vars
  BY <1>1 DEF vars, LedgerInv, OrderInv, Chronological, Linked, EntryShows, Started, Appends, First, End, File, Rows,
              View
<1>2. ASSUME UNCHANGED <<diskVars, pastVars>> PROVE View' = View /\ kept' = kept
  BY <1>2 DEF diskVars, pastVars, View
<1>3. ASSUME NEW what \in {"say", "save"}, Enter(what)
      PROVE  LedgerInv' /\ OrderInv' /\ View' = View /\ kept' = kept
  BY <1>2, <1>3, EnterKeepsU DEF Enter
<1>4. ASSUME NEW ended \in BOOLEAN, Drop(ended)
      PROVE  LedgerInv' /\ OrderInv' /\ View' = View /\ kept' = kept
  BY <1>2, <1>4, DropKeepsU DEF Drop
<1>5. CASE ReadLog
  BY <1>2, <1>5, ReadLogKeepsU DEF ReadLog
<1>6. CASE Booted
  BY <1>2, <1>6, BootedKeepsU DEF Booted
<1>7. CASE Delete \/ SleepFold
  BY <1>2, <1>7, PushKeepsU DEF Delete, SleepFold
<1>8. CASE DoAppend
  BY <1>8, DoAppendKeepsU DEF DoAppend
<1>9. CASE DoSync
  BY <1>9, DoSyncKeepsU DEF DoSync
<1>10. CASE DoFold
  BY <1>10, DoFoldKeepsU DEF DoFold
<1>11. CASE WriteSession
  BY <1>11, WriteSessionKeepsU DEF WriteSession, pastVars
<1>12. CASE RemoveLog
  BY <1>12, RemoveLogKeepsU DEF RemoveLog, pastVars
<1>13. CASE FoldFails \/ DeleteFile
  BY <1>13 DEF FoldFails, DeleteFile
<1>14. CASE DeleteLog
  BY <1>14 DEF DeleteLog, KInv, ControlInv
<1>15. CASE Crash
  BY <1>15, CrashKeepsU DEF Crash
<1> QED
  BY <1>1, <1>3, <1>4, <1>5, <1>6, <1>7, <1>8, <1>9, <1>10, <1>11, <1>12, <1>13, <1>14, <1>15 DEF Next, Writer

\* A disturbance is never forgotten.
LEMMA DisturbedStays ==
  ASSUME TypeOK, [Next]_vars, disturbed
  PROVE  disturbed'
BY DEF Next, vars, Writer, Enter, ReadLog, Booted, Drop, Delete, SleepFold, DoAppend, DoSync, DoFold, WriteSession,
       RemoveLog, FoldFails, DeleteFile, DeleteLog, Crash, pastVars

LEMMA InitI ==
  ASSUME Init
  PROVE  IInv /\ View = << >>
<1>1. KInv
  BY InitK
<1>2. Rows = << >> /\ File = << >> /\ Len(Rows) = 0 /\ Rows \in Seq(Row) /\ File \in Seq(Turn)
  BY NoFile DEF Init, Rows, File
<1>3. View = File /\ Fresh(File, Rows)
  BY <1>1, <1>2, NoRowsView, DiskTyped DEF KInv
<1>4. Chronological(<< >>)
  BY DEF Chronological, Increasing, AsksFirst
<1>5. LedgerInv
  BY DEF LedgerInv, Init
<1>6. OrderInv
  BY <1>2, <1>3, <1>4 DEF OrderInv, EntryShows, Init
<1> QED
  BY <1>1, <1>2, <1>3, <1>5, <1>6 DEF IInv, UInv

LEMMA NextKeepsI ==
  ASSUME IInv, TypeOK', [Next]_vars, ~ misread'
  PROVE  IInv'
<1>1. KInv /\ KInv'
  BY NextKeepsK DEF IInv
<1>2. ~ disturbed' => ~ disturbed
  BY <1>1, DisturbedStays DEF KInv
<1> QED
  BY <1>1, <1>2, StepKeepsU DEF IInv, UInv

LEMMA SeenInOrder ==
  ASSUME IInv
  PROVE  InOrder
<1>1. View \in Seq(Turn)
  BY DiskTyped DEF IInv, KInv
<1> QED
  BY <1>1 DEF InOrder, IInv, UInv, OrderInv, Chronological, Increasing

LEMMA EntryIsTrue ==
  ASSUME IInv
  PROVE  IndexShowsSession
BY DEF IndexShowsSession, IInv, KInv, ControlInv, UInv, OrderInv, EntryShows

\* The turns of a session are in the order in which they were said, each once,
\* however often a fold is repeated and wherever a crash falls, until a write
\* fails, the session is deleted, or it is misread.
THEOREM SessionInOrder == Spec => []InOrder
<1> DEFINE Inv == TypedInv /\ (misread \/ IInv)
<1>1. Init => Inv
  BY InitTyped, InitI
<1>2. Inv /\ [Next]_vars => Inv'
  BY NextKeepsTypes, NextKeepsI, MisreadStays DEF TypedInv
<1>3. Inv => InOrder
  BY SeenInOrder DEF InOrder
<1> QED
  BY <1>1, <1>2, <1>3, PTL DEF Spec

\* Once the writer is idle the entry of the index shows what a reader of the
\* session sees, though an append writes it from the ledger, a fold from the file
\* and a restart from what it finds; with the exceptions of SessionInOrder.
THEOREM EntryShowsSession == Spec => []IndexShowsSession
<1> DEFINE Inv == TypedInv /\ (misread \/ IInv)
<1>1. Init => Inv
  BY InitTyped, InitI
<1>2. Inv /\ [Next]_vars => Inv'
  BY NextKeepsTypes, NextKeepsI, MisreadStays DEF TypedInv
<1>3. Inv => IndexShowsSession
  BY EntryIsTrue DEF IndexShowsSession
<1> QED
  BY <1>1, <1>2, <1>3, PTL DEF Spec

-----------------------------------------------------------------------------
(* The archive *)

LEMMA SafeFits ==
  ASSUME KInv, gone = {}
  PROVE  IsFiniteSet(kept) /\ Cardinality(kept) \in Nat /\ Cardinality(kept) <= Len(View)
<1>1. View \in Seq(Turn) /\ Len(View) \in Nat
  BY DiskTyped DEF KInv
<1>2. kept \subseteq ToSet(View)
  BY SafeIsSeen DEF ReopenedGoesOn
<1> DEFINE f == [i \in 1 .. Len(View) |-> View[i]]
<1>3. ToSet(View) = {View[i] : i \in 1 .. Len(View)}
  BY <1>1 DEF ToSet
<1>4. f \in Surjection(1 .. Len(View), ToSet(View))
  BY <1>3 DEF Surjection
<1>5. IsFiniteSet(1 .. Len(View)) /\ Cardinality(1 .. Len(View)) = Len(View)
  <2> DEFINE n == Len(View)
  <2>1. n \in Nat
    BY <1>1
  <2> HIDE DEF n
  <2>2. IsFiniteSet(1 .. n) /\ Cardinality(1 .. n) = IF 1 > n THEN 0 ELSE n - 1 + 1
    BY <2>1, FS_Interval
  <2>3. IsFiniteSet(1 .. n) /\ Cardinality(1 .. n) = n
    BY <2>1, <2>2
  <2> QED
    BY <2>3 DEF n
<1> HIDE DEF f
<1>6. IsFiniteSet(ToSet(View)) /\ Cardinality(ToSet(View)) <= Len(View)
  BY <1>4, <1>5, FS_Surjection
<1>7. IsFiniteSet(kept) /\ Cardinality(kept) <= Cardinality(ToSet(View))
  BY <1>2, <1>6, FS_Subset
<1>8. Cardinality(kept) \in Nat /\ Cardinality(ToSet(View)) \in Nat
  BY <1>6, <1>7, FS_CardinalityType
<1> QED
  BY <1>1, <1>6, <1>7, <1>8

\* The beginning of a sequence is a subsequence of it.
LEMMA BeginsIsPrefix ==
  ASSUME NEW s \in Seq(Turn), NEW t \in Seq(Turn), Begins(s, t)
  PROVE  s = SubSeq(t, 1, Len(s))
<1> DEFINE u == SubSeq(t, 1, Len(s))
<1>1. Len(s) \in Nat /\ Len(s) <= Len(t) /\ Len(t) \in Nat
  BY DEF Begins
<1>2. u \in Seq(Turn) /\ Len(u) = Len(s) /\ \A i \in 1 .. Len(s) : u[i] = t[i]
  BY <1>1
<1> HIDE DEF u
<1>3. \A i \in 1 .. Len(s) : s[i] = u[i]
  BY <1>2 DEF Begins
<1>4. s = u
  BY <1>2, <1>3, SeqEqual
<1> QED
  BY <1>4 DEF u

\* No more turns are safe than a reader sees.
Sized ==
  ~ misread => /\ View \in Seq(Turn) /\ IsFiniteSet(kept)
               /\ ~ disturbed => Cardinality(kept) \in 0 .. Len(View)

LEMMA SessionSized ==
  ASSUME misread \/ IInv
  PROVE  Sized
<1> SUFFICES ASSUME IInv PROVE Sized
  BY DEF Sized
<1>1. View \in Seq(Turn) /\ kept \subseteq 1 .. MaxTurns /\ IsFiniteSet(1 .. MaxTurns)
  BY DiskTyped, FS_Interval, BoundsAssumption DEF IInv, KInv, TypeOK, Turn
<1>2. IsFiniteSet(kept)
  BY <1>1, FS_Subset
<1>3. ASSUME ~ disturbed PROVE Cardinality(kept) \in 0 .. Len(View)
  BY <1>3, <1>1, SafeFits DEF IInv, UInv, OrderInv
<1> QED
  BY <1>1, <1>2, <1>3 DEF Sized

LEMMA StepOfArchive ==
  ASSUME misread \/ IInv, Sized, Sized', [Next]_vars
  PROVE  [Archive!Next]_(Archive!vars)
<1> DEFINE safe == Cardinality(kept)
<1>1. CASE disturbed' \/ misread'
  BY <1>1 DEF Archive!Next
<1>2. CASE ~ disturbed' /\ ~ misread'
  <2>0. IInv /\ ~ misread
    BY <1>2, MisreadStays
  <2>1. ~ disturbed
    BY <1>2, <2>0, DisturbedStays DEF IInv, KInv
  <2>2. /\ kept \subseteq kept'
        /\ \/ View' = View
           \/ kept' = kept /\ (Begins(View, View') \/ Begins(View', View))
    BY <1>2, <2>0, <2>1, StepKeepsU DEF IInv, UInv
  <2>3. View \in Seq(Turn) /\ View' \in Seq(Turn) /\ Len(View) \in Nat /\ Len(View') \in Nat
    BY <1>2, <2>0 DEF Sized
  <2>4. /\ safe \in Nat /\ safe <= Len(View)
        /\ IsFiniteSet(kept') /\ safe' \in Nat /\ safe' <= Len(View')
    <3>1. safe \in 0 .. Len(View) /\ safe' \in 0 .. Len(View') /\ IsFiniteSet(kept')
      BY <1>2, <2>0, <2>1 DEF Sized
    <3> HIDE DEF safe
    <3> QED
      BY <2>3, <3>1
  <2>5. safe <= safe'
    BY <2>2, <2>4, FS_Subset
  <2> HIDE DEF safe
  <2>6. CASE View' = View
    <3>1. safe' \in safe .. Len(View)
      BY <2>3, <2>4, <2>5, <2>6
    <3>2. Archive!Harden
      BY <2>6, <3>1 DEF Archive!Harden, safe
    <3> QED
      BY <1>2, <2>0, <2>1, <3>2 DEF Archive!Next
  <2>7. CASE kept' = kept /\ Begins(View, View') /\ View' # View
    <3>1. View = SubSeq(View', 1, Len(View))
      BY <2>3, <2>7, BeginsIsPrefix
    <3>2. Len(View) # Len(View')
      <4>1. SubSeq(View', 1, Len(View')) = View'
        BY <2>3, SubSeqFull
      <4> QED
        BY <2>7, <3>1, <4>1
    <3>3. /\ Len(View') - Len(View) \in 1 .. Len(View')
          /\ Len(View') - (Len(View') - Len(View)) = Len(View)
      BY <2>3, <2>7, <3>2 DEF Begins
    <3>4. \E n \in 1 .. Len(View') : SubSeq(View', 1, Len(View') - n) = View
      BY <3>1, <3>3
    <3>5. Archive!Grow
      BY <2>3, <2>7, <3>4 DEF Archive!Grow
    <3> QED
      BY <1>2, <2>0, <2>1, <3>5 DEF Archive!Next
  <2>8. CASE kept' = kept /\ Begins(View', View)
    <3>1. View' = SubSeq(View, 1, Len(View'))
      BY <2>3, <2>8, BeginsIsPrefix
    <3>2. safe' = safe
      BY <2>8 DEF safe
    <3>3. Len(View') \in safe .. Len(View)
      BY <2>3, <2>4, <2>8, <3>2 DEF Begins
    <3>4. Archive!Lose
      BY <3>1, <3>2, <3>3 DEF Archive!Lose, safe
    <3> QED
      BY <1>2, <2>0, <2>1, <3>4 DEF Archive!Next
  <2> QED
    BY <2>2, <2>6, <2>7, <2>8
<1> QED
  BY <1>1, <1>2

\* The ledger, the log, the file and their folds implement the archive: it grows
\* at its end, a fold is invisible, and a crash takes away at most an end that was
\* not fsynced, with the exceptions of SessionInOrder.
THEOREM HistoryImplementsArchive == Spec => ImplementsArchive
<1> DEFINE Inv == TypedInv /\ (misread \/ IInv)
<1>1. Init => Inv
  BY InitTyped, InitI
<1>2. Inv /\ [Next]_vars => Inv'
  BY NextKeepsTypes, NextKeepsI, MisreadStays DEF TypedInv
<1>3. Init => Archive!Init
  <2> SUFFICES ASSUME Init PROVE Archive!Init
    OBVIOUS
  <2>1. View = << >>
    BY InitI
  <2>2. Cardinality(kept) = 0 /\ disturbed = FALSE /\ misread = FALSE
    BY FS_EmptySet DEF Init
  <2> QED
    BY <2>1, <2>2 DEF Archive!Init
<1>4. Inv /\ Sized /\ Sized' /\ [Next]_vars => [Archive!Next]_(Archive!vars)
  BY StepOfArchive
<1>5. Inv => Sized
  BY SessionSized
<1> QED
  BY <1>1, <1>2, <1>3, <1>4, <1>5, PTL DEF Spec, ImplementsArchive, Archive!Spec
=============================================================================
