-------------------------- MODULE InstallLockProofs --------------------------
(***************************************************************************)
(* A command never writes the configuration beside a server whose file is  *)
(* in the directory, and no change is lost but between servers: for any    *)
(* number of processes, with kills anywhere, on systems that unlink open   *)
(* files and on those that do not.  ScanInv carries the argument: whoever  *)
(* a writer has not looked at yet is the only one that may count on its    *)
(* absence, since a server that comes later finds the writers' lock held.  *)
(***************************************************************************)
EXTENDS InstallLock, TLAPS

\* The typing of the state is an invariant of the steps alone.
LEMMA TypeStep == TypeOK /\ [Next]_vars => TypeOK'
<1> SUFFICES ASSUME TypeOK, [Next]_vars PROVE TypeOK'
  OBVIOUS
<1> USE ProcessesAssumption DEF TypeOK, ServeStates, WriterStates, Process, serveVars, writerVars,
    lockVars, confVars
<1>1. ASSUME NEW s \in Serve, ServeStep(s) PROVE TypeOK'
  <2>1. CASE ServeOpens(s)
    BY <2>1 DEF ServeOpens
  <2>2. CASE ServeLocks(s)
    BY <2>2 DEF ServeLocks
  <2>3. CASE ServeProbes(s)
    BY <2>3 DEF ServeProbes
  <2>4. CASE ServeProbed(s)
    BY <2>4 DEF ServeProbed
  <2>5. CASE ServeReads(s)
    BY <2>5 DEF ServeReads
  <2>6. CASE ServeEnds(s)
    BY <2>6 DEF ServeEnds, Forgets
  <2>7. ASSUME NEW u \in Update, SaveReads(s, u) PROVE TypeOK'
    BY <2>7 DEF SaveReads, Merges
  <2>8. CASE SaveRefused(s)
    BY <2>8 DEF SaveRefused, Forgets
  <2>9. CASE SaveWrites(s)
    BY <2>9 DEF SaveWrites, Replaces
  <2>10. CASE SaveEnds(s)
    BY <2>10 DEF SaveEnds, Forgets
  <2> QED
    BY <1>1, <2>1, <2>2, <2>3, <2>4, <2>5, <2>6, <2>7, <2>8, <2>9, <2>10 DEF ServeStep
<1>2. ASSUME NEW w \in Writer, WriterStep(w) PROVE TypeOK'
  <2>1. CASE WriterOpens(w)
    BY <2>1 DEF WriterOpens
  <2>2. CASE WriterLocks(w)
    BY <2>2 DEF WriterLocks
  <2>3. CASE WriterLists(w)
    BY <2>3 DEF WriterLists
  <2>4. ASSUME NEW s \in Serve, WriterProbes(w, s) PROVE TypeOK'
    BY <2>4 DEF WriterProbes
  <2>5. CASE WriterProbed(w)
    BY <2>5 DEF WriterProbed
  <2>6. CASE WriterUnlinks(w)
    BY <2>6 DEF WriterUnlinks
  <2>7. CASE WriterStarts(w)
    BY <2>7 DEF WriterStarts
  <2>8. ASSUME NEW u \in Update, WriterReads(w, u) PROVE TypeOK'
    BY <2>8 DEF WriterReads, Merges
  <2>9. CASE WriterWrites(w)
    BY <2>9 DEF WriterWrites, Replaces, Forgets
  <2>10. CASE WriterEnds(w)
    BY <2>10 DEF WriterEnds, Forgets
  <2> QED
    BY <1>2, <2>1, <2>2, <2>3, <2>4, <2>5, <2>6, <2>7, <2>8, <2>9, <2>10 DEF WriterStep
<1>3. CASE UNCHANGED vars
  BY <1>3 DEF vars
<1> QED
  BY <1>1, <1>2, <1>3 DEF Next

\* The two sides exclude each other in every state of the invariant.
LEMMA Exclude ==
  ASSUME TypeOK, LockInv, ScanInv
  PROVE  NeverBoth
BY ProcessesAssumption DEF NeverBoth, TypeOK, ScanInv, LockInv, Writing, Locked, Process

\* A step of a server keeps the invariant.
LEMMA ServeKeeps ==
  ASSUME IInv, NEW s \in Serve, ServeStep(s), TypeOK'
  PROVE  FilesInv' /\ LockInv' /\ ScanInv' /\ DraftInv' /\ MemoryInv' /\ SavedStays'
<1> USE ProcessesAssumption DEF IInv, TypeOK, ServeStates, WriterStates, Process, serveVars, writerVars,
    lockVars, confVars, Locked, Serving, Writing
<1>0. NeverBoth
  BY Exclude
<1>1. CASE ServeOpens(s)
  <2>1. FilesInv'
    BY <1>1 DEF ServeOpens, FilesInv
  <2>2. LockInv'
    BY <1>1 DEF ServeOpens, LockInv
  <2>3. ScanInv'
    BY <1>1 DEF ServeOpens, ScanInv
  <2>4. DraftInv'
    BY <1>1 DEF ServeOpens, DraftInv
  <2>5. MemoryInv'
    BY <1>1 DEF ServeOpens, MemoryInv
  <2>6. SavedStays'
    BY <1>1 DEF ServeOpens, SavedStays
  <2> QED
    BY <2>1, <2>2, <2>3, <2>4, <2>5, <2>6
<1>2. CASE ServeLocks(s)
  <2>1. FilesInv'
    BY <1>2 DEF ServeLocks, FilesInv
  <2>2. LockInv'
    BY <1>2 DEF ServeLocks, LockInv
  <2>3. ScanInv'
    BY <1>2 DEF ServeLocks, ScanInv
  <2>4. DraftInv'
    BY <1>2 DEF ServeLocks, DraftInv
  <2>5. MemoryInv'
    BY <1>2 DEF ServeLocks, MemoryInv
  <2>6. SavedStays'
    BY <1>2 DEF ServeLocks, SavedStays
  <2> QED
    BY <2>1, <2>2, <2>3, <2>4, <2>5, <2>6
<1>3. CASE ServeProbes(s)
  <2>1. FilesInv'
    BY <1>3 DEF ServeProbes, FilesInv
  <2>2. LockInv'
    BY <1>3 DEF ServeProbes, LockInv
  <2>3. ScanInv'
    BY <1>3 DEF ServeProbes, ScanInv, LockInv, FilesInv
  <2>4. DraftInv'
    BY <1>3 DEF ServeProbes, DraftInv
  <2>5. MemoryInv'
    BY <1>3 DEF ServeProbes, MemoryInv
  <2>6. SavedStays'
    BY <1>3 DEF ServeProbes, SavedStays
  <2> QED
    BY <2>1, <2>2, <2>3, <2>4, <2>5, <2>6
<1>4. CASE ServeProbed(s)
  <2>1. FilesInv'
    BY <1>4 DEF ServeProbed, FilesInv
  <2>2. LockInv'
    BY <1>4 DEF ServeProbed, LockInv
  <2>3. ScanInv'
    BY <1>4 DEF ServeProbed, ScanInv, LockInv
  <2>4. DraftInv'
    BY <1>4 DEF ServeProbed, DraftInv
  <2>5. MemoryInv'
    BY <1>4 DEF ServeProbed, MemoryInv
  <2>6. SavedStays'
    BY <1>4 DEF ServeProbed, SavedStays
  <2> QED
    BY <2>1, <2>2, <2>3, <2>4, <2>5, <2>6
<1>5. CASE ServeReads(s)
  <2>1. FilesInv'
    BY <1>5 DEF ServeReads, FilesInv
  <2>2. LockInv'
    BY <1>5 DEF ServeReads, LockInv
  <2>3. ScanInv'
    BY <1>5 DEF ServeReads, ScanInv
  <2>4. DraftInv'
    BY <1>5 DEF ServeReads, DraftInv, SavedStays
  <2>5. MemoryInv'
    BY <1>5 DEF ServeReads, MemoryInv
  <2>6. SavedStays'
    BY <1>5 DEF ServeReads, SavedStays
  <2> QED
    BY <2>1, <2>2, <2>3, <2>4, <2>5, <2>6
<1>6. CASE ServeEnds(s)
  <2>1. FilesInv'
    BY <1>6 DEF ServeEnds, Forgets, FilesInv
  <2>2. LockInv'
    BY <1>6 DEF ServeEnds, Forgets, LockInv
  <2>3. ScanInv'
    BY <1>6 DEF ServeEnds, Forgets, ScanInv
  <2>4. DraftInv'
    BY <1>6 DEF ServeEnds, Forgets, DraftInv
  <2>5. MemoryInv'
    BY <1>6 DEF ServeEnds, Forgets, MemoryInv
  <2>6. SavedStays'
    BY <1>6 DEF ServeEnds, Forgets, SavedStays
  <2> QED
    BY <2>1, <2>2, <2>3, <2>4, <2>5, <2>6
<1>7. ASSUME NEW u \in Update, SaveReads(s, u)
      PROVE  FilesInv' /\ LockInv' /\ ScanInv' /\ DraftInv' /\ MemoryInv' /\ SavedStays'
  <2>1. FilesInv'
    BY <1>7 DEF SaveReads, Merges, FilesInv
  <2>2. LockInv'
    BY <1>7 DEF SaveReads, Merges, LockInv
  <2>3. ScanInv'
    BY <1>7 DEF SaveReads, Merges, ScanInv
  <2>4. DraftInv'
    BY <1>7 DEF SaveReads, Merges, DraftInv, SavedStays
  <2>5. MemoryInv'
    BY <1>7 DEF SaveReads, Merges, MemoryInv
  <2>6. SavedStays'
    BY <1>7 DEF SaveReads, Merges, SavedStays
  <2> QED
    BY <2>1, <2>2, <2>3, <2>4, <2>5, <2>6
<1>8. CASE SaveRefused(s)
  <2>1. FilesInv'
    BY <1>8 DEF SaveRefused, Forgets, FilesInv
  <2>2. LockInv'
    BY <1>8 DEF SaveRefused, Forgets, LockInv
  <2>3. ScanInv'
    BY <1>8 DEF SaveRefused, Forgets, ScanInv
  <2>4. DraftInv'
    BY <1>8 DEF SaveRefused, Forgets, DraftInv
  <2>5. MemoryInv'
    BY <1>8 DEF SaveRefused, Forgets, MemoryInv
  <2>6. SavedStays'
    BY <1>8 DEF SaveRefused, Forgets, SavedStays
  <2> QED
    BY <2>1, <2>2, <2>3, <2>4, <2>5, <2>6
<1>9. CASE SaveWrites(s)
  <2>1. FilesInv'
    BY <1>9 DEF SaveWrites, Replaces, FilesInv
  <2>2. LockInv'
    BY <1>9 DEF SaveWrites, Replaces, LockInv
  <2>3. ScanInv'
    BY <1>9 DEF SaveWrites, Replaces, ScanInv
  <2>4. DraftInv'
    BY <1>9, <1>0 DEF SaveWrites, Replaces, DraftInv, Crossing, NeverBoth, MemoryInv, SavedStays
  <2>5. MemoryInv'
    BY <1>9, <1>0 DEF SaveWrites, Replaces, MemoryInv, Crossing, NeverBoth, DraftInv, SavedStays
  <2>6. SavedStays'
    BY <1>9, <1>0 DEF SaveWrites, Replaces, SavedStays, Crossing, NeverBoth, DraftInv, MemoryInv
  <2> QED
    BY <2>1, <2>2, <2>3, <2>4, <2>5, <2>6
<1>10. CASE SaveEnds(s)
  <2>1. FilesInv'
    BY <1>10 DEF SaveEnds, Forgets, FilesInv
  <2>2. LockInv'
    BY <1>10 DEF SaveEnds, Forgets, LockInv
  <2>3. ScanInv'
    BY <1>10 DEF SaveEnds, Forgets, ScanInv
  <2>4. DraftInv'
    BY <1>10 DEF SaveEnds, Forgets, DraftInv, SavedStays
  <2>5. MemoryInv'
    <3> SUFFICES ASSUME NEW t \in Serve \ (robbed' \cup behind')
                 PROVE  /\ spc'[t] \in {"running", "saving"} => served'[t] = disk'
                        /\ spc'[t] = "saving" => draft'[t] = disk' \cup {change'[t]}
                        /\ spc'[t] = "saved" => served'[t] \cup {change'[t]} = disk'
      BY DEF MemoryInv
    <3>1. CASE t # s
      BY <1>10, <3>1 DEF SaveEnds, Forgets, MemoryInv
    <3>2. CASE t = s /\ served' = [served EXCEPT ![s] = disk]
      BY <1>10, <3>2 DEF SaveEnds
    <3>3. CASE t = s /\ behind' = behind /\ served' = [served EXCEPT ![s] = @ \cup {change[s]}]
      BY <1>10, <3>3 DEF SaveEnds, MemoryInv
    <3> QED
      BY <1>10, <3>1, <3>2, <3>3 DEF SaveEnds
  <2>6. SavedStays'
    BY <1>10 DEF SaveEnds, Forgets, SavedStays
  <2> QED
    BY <2>1, <2>2, <2>3, <2>4, <2>5, <2>6
<1> QED
  BY <1>1, <1>2, <1>3, <1>4, <1>5, <1>6, <1>7, <1>8, <1>9, <1>10 DEF ServeStep

\* A step of a writer keeps it: only a writer that has looked at everybody
\* writes, and a file it unlinks is that of no server that counts on it.
LEMMA WriterKeeps ==
  ASSUME IInv, NEW w \in Writer, WriterStep(w), TypeOK'
  PROVE  FilesInv' /\ LockInv' /\ ScanInv' /\ DraftInv' /\ MemoryInv' /\ SavedStays'
<1> USE ProcessesAssumption DEF IInv, TypeOK, ServeStates, WriterStates, Process, serveVars, writerVars,
    lockVars, confVars, Locked, Serving, Writing
<1>0. NeverBoth
  BY Exclude
<1>1. CASE WriterOpens(w)
  <2>1. FilesInv'
    BY <1>1 DEF WriterOpens, FilesInv
  <2>2. LockInv'
    BY <1>1 DEF WriterOpens, LockInv
  <2>3. ScanInv'
    BY <1>1 DEF WriterOpens, ScanInv
  <2>4. DraftInv'
    BY <1>1 DEF WriterOpens, DraftInv
  <2>5. MemoryInv'
    BY <1>1 DEF WriterOpens, MemoryInv
  <2>6. SavedStays'
    BY <1>1 DEF WriterOpens, SavedStays
  <2> QED
    BY <2>1, <2>2, <2>3, <2>4, <2>5, <2>6
<1>2. CASE WriterLocks(w)
  <2>1. FilesInv'
    BY <1>2 DEF WriterLocks, FilesInv
  <2>2. LockInv'
    BY <1>2 DEF WriterLocks, LockInv
  <2>3. ScanInv'
    BY <1>2 DEF WriterLocks, ScanInv
  <2>4. DraftInv'
    BY <1>2 DEF WriterLocks, DraftInv
  <2>5. MemoryInv'
    BY <1>2 DEF WriterLocks, MemoryInv
  <2>6. SavedStays'
    BY <1>2 DEF WriterLocks, SavedStays
  <2> QED
    BY <2>1, <2>2, <2>3, <2>4, <2>5, <2>6
<1>3. CASE WriterLists(w)
  <2>1. FilesInv'
    BY <1>3 DEF WriterLists, FilesInv
  <2>2. LockInv'
    BY <1>3 DEF WriterLists, LockInv
  <2>3. ScanInv'
    BY <1>3 DEF WriterLists, ScanInv, FilesInv
  <2>4. DraftInv'
    BY <1>3 DEF WriterLists, DraftInv
  <2>5. MemoryInv'
    BY <1>3 DEF WriterLists, MemoryInv
  <2>6. SavedStays'
    BY <1>3 DEF WriterLists, SavedStays
  <2> QED
    BY <2>1, <2>2, <2>3, <2>4, <2>5, <2>6
<1>4. ASSUME NEW s \in Serve, WriterProbes(w, s)
      PROVE  FilesInv' /\ LockInv' /\ ScanInv' /\ DraftInv' /\ MemoryInv' /\ SavedStays'
  <2>1. FilesInv'
    BY <1>4 DEF WriterProbes, FilesInv
  <2>2. LockInv'
    BY <1>4 DEF WriterProbes, LockInv
  <2>3. ScanInv'
    BY <1>4 DEF WriterProbes, ScanInv, FilesInv
  <2>4. DraftInv'
    BY <1>4 DEF WriterProbes, DraftInv
  <2>5. MemoryInv'
    BY <1>4 DEF WriterProbes, MemoryInv
  <2>6. SavedStays'
    BY <1>4 DEF WriterProbes, SavedStays
  <2> QED
    BY <2>1, <2>2, <2>3, <2>4, <2>5, <2>6
<1>5. CASE WriterProbed(w)
  <2>1. FilesInv'
    BY <1>5 DEF WriterProbed, FilesInv, ScanInv
  <2>2. LockInv'
    BY <1>5 DEF WriterProbed, LockInv
  <2>3. ScanInv'
    BY <1>5 DEF WriterProbed, ScanInv
  <2>4. DraftInv'
    BY <1>5 DEF WriterProbed, DraftInv
  <2>5. MemoryInv'
    BY <1>5 DEF WriterProbed, MemoryInv
  <2>6. SavedStays'
    BY <1>5 DEF WriterProbed, SavedStays
  <2> QED
    BY <2>1, <2>2, <2>3, <2>4, <2>5, <2>6
<1>6. CASE WriterUnlinks(w)
  <2>1. FilesInv'
    BY <1>6 DEF WriterUnlinks, FilesInv, LockInv, ScanInv
  <2>2. LockInv'
    BY <1>6 DEF WriterUnlinks, LockInv
  <2>3. ScanInv'
    BY <1>6 DEF WriterUnlinks, ScanInv
  <2>4. DraftInv'
    BY <1>6 DEF WriterUnlinks, DraftInv
  <2>5. MemoryInv'
    BY <1>6 DEF WriterUnlinks, MemoryInv
  <2>6. SavedStays'
    BY <1>6 DEF WriterUnlinks, SavedStays
  <2> QED
    BY <2>1, <2>2, <2>3, <2>4, <2>5, <2>6
<1>7. CASE WriterStarts(w)
  <2>1. FilesInv'
    BY <1>7 DEF WriterStarts, FilesInv
  <2>2. LockInv'
    BY <1>7 DEF WriterStarts, LockInv
  <2>3. ScanInv'
    BY <1>7 DEF WriterStarts, ScanInv
  <2>4. DraftInv'
    BY <1>7 DEF WriterStarts, DraftInv
  <2>5. MemoryInv'
    BY <1>7 DEF WriterStarts, MemoryInv
  <2>6. SavedStays'
    BY <1>7 DEF WriterStarts, SavedStays
  <2> QED
    BY <2>1, <2>2, <2>3, <2>4, <2>5, <2>6
<1>8. ASSUME NEW u \in Update, WriterReads(w, u)
      PROVE  FilesInv' /\ LockInv' /\ ScanInv' /\ DraftInv' /\ MemoryInv' /\ SavedStays'
  <2>1. FilesInv'
    BY <1>8 DEF WriterReads, Merges, FilesInv
  <2>2. LockInv'
    BY <1>8 DEF WriterReads, Merges, LockInv
  <2>3. ScanInv'
    BY <1>8 DEF WriterReads, Merges, ScanInv
  <2>4. DraftInv'
    BY <1>8 DEF WriterReads, Merges, DraftInv, SavedStays
  <2>5. MemoryInv'
    BY <1>8 DEF WriterReads, Merges, MemoryInv
  <2>6. SavedStays'
    BY <1>8 DEF WriterReads, Merges, SavedStays
  <2> QED
    BY <2>1, <2>2, <2>3, <2>4, <2>5, <2>6
<1>9. CASE WriterWrites(w)
  <2>1. FilesInv'
    BY <1>9 DEF WriterWrites, Replaces, Forgets, FilesInv
  <2>2. LockInv'
    BY <1>9 DEF WriterWrites, Replaces, Forgets, LockInv
  <2>3. ScanInv'
    BY <1>9 DEF WriterWrites, Replaces, Forgets, ScanInv
  <2>4. DraftInv'
    BY <1>9, <1>0 DEF WriterWrites, Replaces, Forgets, DraftInv, Crossing, NeverBoth, MemoryInv, SavedStays
  <2>5. MemoryInv'
    BY <1>9, <1>0, <1>0 DEF WriterWrites, Replaces, Forgets, MemoryInv, Crossing, NeverBoth, DraftInv, SavedStays
  <2>6. SavedStays'
    BY <1>9, <1>0 DEF WriterWrites, Replaces, Forgets, SavedStays, Crossing, NeverBoth, DraftInv, MemoryInv
  <2> QED
    BY <2>1, <2>2, <2>3, <2>4, <2>5, <2>6
<1>10. CASE WriterEnds(w)
  <2>1. FilesInv'
    BY <1>10 DEF WriterEnds, Forgets, FilesInv
  <2>2. LockInv'
    BY <1>10 DEF WriterEnds, Forgets, LockInv
  <2>3. ScanInv'
    BY <1>10 DEF WriterEnds, Forgets, ScanInv
  <2>4. DraftInv'
    BY <1>10 DEF WriterEnds, Forgets, DraftInv
  <2>5. MemoryInv'
    BY <1>10 DEF WriterEnds, Forgets, MemoryInv
  <2>6. SavedStays'
    BY <1>10 DEF WriterEnds, Forgets, SavedStays
  <2> QED
    BY <2>1, <2>2, <2>3, <2>4, <2>5, <2>6
<1> QED
  BY <1>1, <1>2, <1>3, <1>4, <1>5, <1>6, <1>7, <1>8, <1>9, <1>10 DEF WriterStep

LEMMA IInvHolds == Spec => []IInv
<1>1. Init => IInv
  <2> SUFFICES ASSUME Init PROVE IInv
    OBVIOUS
  <2>1. TypeOK
    BY DEF Init, TypeOK, ServeStates, WriterStates, Process
  <2>2. FilesInv /\ LockInv
    BY DEF Init, FilesInv, LockInv, Locked
  <2>3. ScanInv
    BY DEF Init, ScanInv, Writing
  <2>4. DraftInv /\ MemoryInv /\ SavedStays
    BY DEF Init, DraftInv, MemoryInv, SavedStays
  <2> QED
    BY <2>1, <2>2, <2>3, <2>4 DEF IInv
<1>2. IInv /\ [Next]_vars => IInv'
  <2> SUFFICES ASSUME IInv, [Next]_vars PROVE IInv'
    OBVIOUS
  <2>1. TypeOK'
    BY TypeStep DEF IInv
  <2>2. FilesInv' /\ LockInv' /\ ScanInv' /\ DraftInv' /\ MemoryInv' /\ SavedStays'
    <3>1. ASSUME NEW s \in Serve, ServeStep(s)
          PROVE  FilesInv' /\ LockInv' /\ ScanInv' /\ DraftInv' /\ MemoryInv' /\ SavedStays'
      BY <2>1, <3>1, ServeKeeps
    <3>2. ASSUME NEW w \in Writer, WriterStep(w)
          PROVE  FilesInv' /\ LockInv' /\ ScanInv' /\ DraftInv' /\ MemoryInv' /\ SavedStays'
      BY <2>1, <3>2, WriterKeeps
    <3>3. CASE UNCHANGED vars
      BY <3>3 DEF vars, lockVars, confVars, IInv, FilesInv, LockInv, ScanInv, DraftInv, MemoryInv, SavedStays,
         Serving, Writing, Locked
    <3> QED
      BY <3>1, <3>2, <3>3 DEF Next
  <2> QED
    BY <2>1, <2>2 DEF IInv
<1> QED
  BY <1>1, <1>2, PTL DEF Spec

\* The state stays well typed (acquire_serve_presence,
\* acquire_config_write_lock and save_config_section).
THEOREM Typed == Spec => []TypeOK
<1>1. IInv => TypeOK
  BY DEF IInv
<1> QED
  BY <1>1, IInvHolds, PTL

\* Two commands that write config.yaml never both go ahead, nor do a command and
\* a server whose presence file is in the directory: one of the two always sees
\* the other.
THEOREM Exclusion == Spec => []NeverBoth
<1>1. IInv => NeverBoth
  BY Exclude DEF IInv
<1> QED
  BY <1>1, IInvHolds, PTL

\* A server that runs serves the configuration that is on the disk, unless
\* another server has replaced it or its own file was unlinked while open.
THEOREM Current == Spec => []ServedIsCurrent
<1>1. IInv => ServedIsCurrent
  BY DEF IInv, MemoryInv, ServedIsCurrent
<1> QED
  BY <1>1, IInvHolds, PTL

\* A writer that comes later finds the file of every running server, locked,
\* unless it was unlinked before that server had looked for a writer.
THEOREM Visible == Spec => []RunningIsSeen
<1>1. IInv => RunningIsSeen
  BY DEF IInv, RunningIsSeen, FilesInv, Serving
<1> QED
  BY <1>1, IInvHolds, PTL

\* A change that has been written stays in config.yaml, except for what servers
\* (or a command and a robbed server) overwrite for each other.
THEOREM NothingLost == Spec => []SavedStays
<1>1. IInv => SavedStays
  BY DEF IInv
<1> QED
  BY <1>1, IInvHolds, PTL
=============================================================================
