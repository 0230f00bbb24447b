----------------------------- MODULE InstallLock -----------------------------
(***************************************************************************)
(* Servers and writers of config.yaml in one installation                  *)
(* (backend/io/writer_lock.py).  A server holds a presence file of its own *)
(* and then looks whether a command writes the configuration; a command    *)
(* holds the writers' lock and then looks at every presence file.  Both    *)
(* look by taking the other's lock for a moment.  A running server writes  *)
(* the configuration too (PUT /api/config, runtimes, prompts, themes), and *)
(* takes no lock for it.                                                   *)
(*                                                                         *)
(* Each step is a call into the operating system, which frees the locks of *)
(* a process that ends.  Abstracted: the listing of the directory is one   *)
(* step; config.yaml is the set of the updates it holds; the data root's   *)
(* own lock, a plain mutual exclusion, is left out.                        *)
(***************************************************************************)
EXTENDS Naturals

CONSTANTS Serve,      \* processes of a server, each with its presence file
          Writer,     \* commands that write the configuration
          Nobody,
          Update      \* changes of the configuration, each made at most once

ASSUME ProcessesAssumption ==
  Serve \cap Writer = {} /\ Nobody \notin Serve \cup Writer \cup Update

VARIABLES
  spc,       \* where each server is
  wpc,       \* where each writer is
  files,     \* presence files in the directory
  holder,    \* who holds the lock of a presence file
  wfile,     \* does the writers' lock file exist?
  wlock,     \* who holds the writers' lock
  left,      \* presence files a writer has still to look at
  looksAt,   \* the one it looks at
  disk,      \* config.yaml
  served,    \* the configuration in the memory of a server
  draft,     \* what a process that saves has read, with its own update
  change,    \* the update a process makes
  made,      \* updates begun so far (each is made once)
  \* History, read by the properties only.
  saved,     \* updates that have reached the disk
  robbed,    \* servers whose file was unlinked before they had looked for writers
  crossed,   \* updates written while another server was in the middle of a save
  behind     \* servers that another server has overtaken since their last read

lockVars == <<files, holder, wfile, wlock, left, looksAt, robbed>>
confVars == <<disk, served, draft, change, made, saved, crossed, behind>>
vars == <<spc, wpc, lockVars, confVars>>

\* "present": its presence is locked.  "probing": it holds the writers' lock
\* for a moment.  "clear": it has found no writer.  "saving", "saved": it
\* changes the configuration, before and after the file is replaced.
ServeStates ==
  {"none", "opened", "present", "probing", "clear", "running", "saving", "saved", "over"}

\* "probing": it holds the lock of a presence file.  "unlinking": it has
\* released it, since nobody else held it.  "merging": it has read the file.
WriterStates ==
  {"none", "opened", "locked", "scanning", "probing", "unlinking", "writing", "merging",
   "written", "over"}

Process == Serve \cup Writer

TypeOK ==
  /\ spc \in [Serve -> ServeStates] /\ wpc \in [Writer -> WriterStates]
  /\ files \subseteq Serve
  /\ holder \in [Serve -> Process \cup {Nobody}]
  /\ wfile \in BOOLEAN
  /\ wlock \in Process \cup {Nobody}
  /\ left \in [Writer -> SUBSET Serve]
  /\ looksAt \in [Writer -> Serve \cup {Nobody}]
  /\ \A w \in Writer : wpc[w] \in {"probing", "unlinking"} => looksAt[w] \in Serve
  /\ disk \subseteq Update /\ made \subseteq Update
  /\ served \in [Serve -> SUBSET Update]
  /\ draft \in [Process -> SUBSET Update]
  /\ change \in [Process -> Update \cup {Nobody}]
  /\ \A s \in Serve : spc[s] \in {"saving", "saved"} => change[s] \in Update
  /\ \A w \in Writer : wpc[w] = "merging" => change[w] \in Update
  /\ saved \subseteq Update /\ crossed \subseteq Update
  /\ robbed \subseteq Serve /\ behind \subseteq Serve

Init ==
  /\ spc = [s \in Serve |-> "none"] /\ wpc = [w \in Writer |-> "none"]
  /\ files = {} /\ holder = [s \in Serve |-> Nobody]
  /\ wfile = FALSE /\ wlock = Nobody
  /\ left = [w \in Writer |-> {}] /\ looksAt = [w \in Writer |-> Nobody]
  /\ disk = {} /\ served = [s \in Serve |-> {}] /\ made = {}
  /\ draft = [p \in Process |-> {}] /\ change = [p \in Process |-> Nobody]
  /\ saved = {} /\ robbed = {} /\ crossed = {} /\ behind = {}

\* It has found no writer, and counts on there being none.
Serving(s) == spc[s] \in {"clear", "running", "saving", "saved"}

\* It has found no server and no other writer.
Writing(w) == wpc[w] \in {"writing", "merging", "written"}

-----------------------------------------------------------------------------
\* save_config_section: the file is read, checked and replaced.

Merges(p, u) ==
  /\ u \in Update \ made
  /\ draft' = [draft EXCEPT ![p] = disk \cup {u}]
  /\ change' = [change EXCEPT ![p] = u]
  /\ made' = made \cup {u}

Forgets(p) ==
  /\ draft' = [draft EXCEPT ![p] = {}]
  /\ change' = [change EXCEPT ![p] = Nobody]

\* Another process that has read the file and will replace it: the servers do
\* not exclude each other, nor does a robbed one and a command.
Crossing(p) ==
  \/ \E s \in Serve : /\ s # p /\ spc[s] = "saving"
                      /\ p \in Serve \/ s \in robbed
  \/ p \in robbed /\ \E w \in Writer : wpc[w] = "merging"

Replaces(p) ==
  /\ disk' = draft[p]
  /\ saved' = saved \cup {change[p]}
  /\ crossed' = IF Crossing(p) THEN crossed \cup {change[p]} ELSE crossed

-----------------------------------------------------------------------------
\* acquire_serve_presence.

writerVars == <<wpc, wfile, left, looksAt, robbed, confVars>>
serveVars == <<spc, files, robbed, confVars>>

\* The file is created and opened.
ServeOpens(s) ==
  /\ spc[s] = "none"
  /\ spc' = [spc EXCEPT ![s] = "opened"]
  /\ files' = files \cup {s}
  /\ UNCHANGED <<writerVars, holder, wlock>>

\* It is locked; if a writer looks at it just now, the server gives up.
ServeLocks(s) ==
  /\ spc[s] = "opened"
  /\ \/ /\ holder[s] = Nobody
        /\ holder' = [holder EXCEPT ![s] = s]
        /\ spc' = [spc EXCEPT ![s] = "present"]
     \/ /\ holder[s] # Nobody
        /\ holder' = holder
        /\ spc' = [spc EXCEPT ![s] = "over"]
  /\ UNCHANGED <<writerVars, wlock, files>>

\* Fault: the writers' lock is not looked at.
ServeProbes_Skipped(s) ==
  /\ spc[s] = "present"
  /\ spc' = [spc EXCEPT ![s] = "clear"]
  /\ UNCHANGED <<writerVars, wlock, holder, files>>

\* _probe_held of the writers' lock: no such file, free, or held.
ServeProbes(s) ==
  /\ spc[s] = "present"
  /\ \/ /\ ~ wfile
        /\ spc' = [spc EXCEPT ![s] = "clear"]
        /\ UNCHANGED <<wlock, holder>>
     \/ /\ wfile /\ wlock = Nobody
        /\ spc' = [spc EXCEPT ![s] = "probing"]
        /\ wlock' = s /\ holder' = holder
     \/ /\ wfile /\ wlock # Nobody
        /\ spc' = [spc EXCEPT ![s] = "over"]
        /\ holder' = [holder EXCEPT ![s] = Nobody]
        /\ wlock' = wlock
  /\ UNCHANGED <<writerVars, files>>

\* The probe releases what it has taken.
ServeProbed(s) ==
  /\ spc[s] = "probing"
  /\ spc' = [spc EXCEPT ![s] = "clear"]
  /\ wlock' = Nobody
  /\ UNCHANGED <<writerVars, holder, files>>

\* The start goes on and loads the configuration.
ServeReads(s) ==
  /\ spc[s] = "clear"
  /\ spc' = [spc EXCEPT ![s] = "running"]
  /\ served' = [served EXCEPT ![s] = disk]
  /\ behind' = behind \ {s}
  /\ UNCHANGED <<wpc, lockVars, disk, draft, change, made, saved, crossed>>

\* It stops, at the end or by a kill anywhere: its locks are free, its memory
\* is gone, its file stays.
ServeEnds(s) ==
  /\ spc[s] \notin {"none", "over"}
  /\ spc' = [spc EXCEPT ![s] = "over"]
  /\ served' = [served EXCEPT ![s] = {}]
  /\ Forgets(s)
  /\ behind' = behind \ {s} /\ robbed' = robbed \ {s}
  /\ holder' = IF holder[s] = s THEN [holder EXCEPT ![s] = Nobody] ELSE holder
  /\ wlock' = IF wlock = s THEN Nobody ELSE wlock
  /\ UNCHANGED <<wpc, files, wfile, left, looksAt, disk, made, saved, crossed>>

-----------------------------------------------------------------------------
\* A save in a running server.

\* A request to a running server that changes the configuration; its handler
\* has no await, so that a server makes one at a time.
SaveReads(s, u) ==
  /\ spc[s] = "running"
  /\ spc' = [spc EXCEPT ![s] = "saving"]
  /\ Merges(s, u)
  /\ UNCHANGED <<wpc, lockVars, disk, served, saved, crossed, behind>>

\* The change is not valid, or the file is of a newer version.
SaveRefused(s) ==
  /\ spc[s] = "saving"
  /\ spc' = [spc EXCEPT ![s] = "running"]
  /\ Forgets(s)
  /\ UNCHANGED <<wpc, lockVars, disk, served, made, saved, crossed, behind>>

SaveWrites(s) ==
  /\ spc[s] = "saving"
  /\ spc' = [spc EXCEPT ![s] = "saved"]
  /\ Replaces(s)
  /\ behind' = behind \cup {t \in Serve \ {s} : Serving(t)}
  /\ UNCHANGED <<wpc, lockVars, served, draft, change, made>>

\* The file is loaded again, or (themes) the change is copied into memory.
SaveEnds(s) ==
  /\ spc[s] = "saved"
  /\ spc' = [spc EXCEPT ![s] = "running"]
  /\ \/ served' = [served EXCEPT ![s] = disk] /\ behind' = behind \ {s}
     \/ served' = [served EXCEPT ![s] = @ \cup {change[s]}] /\ behind' = behind
  /\ Forgets(s)
  /\ UNCHANGED <<wpc, lockVars, disk, made, saved, crossed>>

-----------------------------------------------------------------------------
\* acquire_config_write_lock, the write, and the release.

WriterOpens(w) ==
  /\ wpc[w] = "none"
  /\ wpc' = [wpc EXCEPT ![w] = "opened"]
  /\ wfile' = TRUE
  /\ UNCHANGED <<serveVars, holder, wlock, left, looksAt>>

\* Fault: a lock that another has is passed over.
WriterLocks_Shares(w) ==
  /\ wpc[w] = "opened"
  /\ wlock' = IF wlock = Nobody THEN w ELSE wlock
  /\ wpc' = [wpc EXCEPT ![w] = "locked"]
  /\ UNCHANGED <<serveVars, holder, wfile, left, looksAt>>

\* The lock is taken; if another writer has it, or a server looks at it just
\* now, the writer gives up.
WriterLocks(w) ==
  /\ wpc[w] = "opened"
  /\ \/ /\ wlock = Nobody
        /\ wlock' = w
        /\ wpc' = [wpc EXCEPT ![w] = "locked"]
     \/ /\ wlock # Nobody
        /\ wlock' = wlock
        /\ wpc' = [wpc EXCEPT ![w] = "over"]
  /\ UNCHANGED <<serveVars, holder, wfile, left, looksAt>>

WriterLists(w) ==
  /\ wpc[w] = "locked"
  /\ wpc' = [wpc EXCEPT ![w] = "scanning"]
  /\ left' = [left EXCEPT ![w] = files]
  /\ UNCHANGED <<serveVars, holder, wfile, wlock, looksAt>>

\* Fault: a presence file that is held is passed over.
WriterProbes_GoesOn(w, s) ==
  /\ wpc[w] = "scanning" /\ s \in left[w]
  /\ \/ /\ holder[s] = Nobody
        /\ holder' = [holder EXCEPT ![s] = w]
        /\ wpc' = [wpc EXCEPT ![w] = "probing"]
        /\ looksAt' = [looksAt EXCEPT ![w] = s]
        /\ UNCHANGED <<wlock, left>>
     \/ /\ holder[s] # Nobody
        /\ left' = [left EXCEPT ![w] = @ \ {s}]
        /\ UNCHANGED <<holder, looksAt, wpc, wlock>>
  /\ UNCHANGED <<serveVars, wfile>>

\* _probe_held of a presence file: free, or held, and the writer gives up.
WriterProbes(w, s) ==
  /\ wpc[w] = "scanning" /\ s \in left[w]
  /\ \/ /\ holder[s] = Nobody
        /\ holder' = [holder EXCEPT ![s] = w]
        /\ wpc' = [wpc EXCEPT ![w] = "probing"]
        /\ looksAt' = [looksAt EXCEPT ![w] = s]
        /\ wlock' = wlock
     \/ /\ holder[s] # Nobody
        /\ UNCHANGED <<holder, looksAt>>
        /\ wpc' = [wpc EXCEPT ![w] = "over"]
        /\ wlock' = Nobody
  /\ UNCHANGED <<serveVars, wfile, left>>

WriterProbed(w) ==
  /\ wpc[w] = "probing"
  /\ wpc' = [wpc EXCEPT ![w] = "unlinking"]
  /\ holder' = [holder EXCEPT ![looksAt[w]] = Nobody]
  /\ UNCHANGED <<serveVars, wfile, wlock, left, looksAt>>

\* Fault: everything that was listed is removed.
WriterUnlinks_AllOld(w) ==
  /\ wpc[w] = "unlinking"
  /\ wpc' = [wpc EXCEPT ![w] = "scanning"]
  /\ files' = files \ left[w]
  /\ robbed' = IF spc[looksAt[w]] \in {"opened", "present"} THEN robbed \cup {looksAt[w]} ELSE robbed
  /\ left' = [left EXCEPT ![w] = @ \ {looksAt[w]}]
  /\ UNCHANGED <<spc, holder, wfile, wlock, looksAt, confVars>>

\* A file that nobody held is removed, or cannot be (Windows refuses while a
\* process has it open): the error is ignored.
WriterUnlinks(w) ==
  /\ wpc[w] = "unlinking"
  /\ wpc' = [wpc EXCEPT ![w] = "scanning"]
  /\ \/ UNCHANGED <<files, robbed>>
     \/ /\ files' = files \ {looksAt[w]}
        /\ robbed' = IF spc[looksAt[w]] \in {"opened", "present"}
                       THEN robbed \cup {looksAt[w]} ELSE robbed
  /\ left' = [left EXCEPT ![w] = @ \ {looksAt[w]}]
  /\ UNCHANGED <<spc, holder, wfile, wlock, looksAt, confVars>>

WriterStarts(w) ==
  /\ wpc[w] = "scanning" /\ left[w] = {}
  /\ wpc' = [wpc EXCEPT ![w] = "writing"]
  /\ UNCHANGED <<serveVars, holder, wfile, wlock, left, looksAt>>

\* It reads the file and merges its change.
WriterReads(w, u) ==
  /\ wpc[w] = "writing"
  /\ wpc' = [wpc EXCEPT ![w] = "merging"]
  /\ Merges(w, u)
  /\ UNCHANGED <<spc, lockVars, disk, served, saved, crossed, behind>>

\* The configuration is replaced.
WriterWrites(w) ==
  /\ wpc[w] = "merging"
  /\ wpc' = [wpc EXCEPT ![w] = "written"]
  /\ Replaces(w)
  /\ Forgets(w)
  /\ UNCHANGED <<spc, lockVars, served, made, behind>>

\* It releases its lock, or is killed anywhere.
WriterEnds(w) ==
  /\ wpc[w] \notin {"none", "over"}
  /\ wpc' = [wpc EXCEPT ![w] = "over"]
  /\ wlock' = IF wlock = w THEN Nobody ELSE wlock
  /\ holder' = [s \in Serve |-> IF holder[s] = w THEN Nobody ELSE holder[s]]
  /\ left' = [left EXCEPT ![w] = {}] /\ looksAt' = [looksAt EXCEPT ![w] = Nobody]
  /\ Forgets(w)
  /\ UNCHANGED <<spc, files, wfile, robbed, disk, served, made, saved, crossed, behind>>

-----------------------------------------------------------------------------

ServeStep(s) ==
  \/ ServeOpens(s) \/ ServeLocks(s) \/ ServeProbes(s) \/ ServeProbed(s)
  \/ ServeReads(s) \/ ServeEnds(s)
  \/ \E u \in Update : SaveReads(s, u)
  \/ SaveRefused(s) \/ SaveWrites(s) \/ SaveEnds(s)

WriterStep(w) ==
  \/ WriterOpens(w) \/ WriterLocks(w) \/ WriterLists(w)
  \/ \E s \in Serve : WriterProbes(w, s)
  \/ WriterProbed(w) \/ WriterUnlinks(w) \/ WriterStarts(w)
  \/ \E u \in Update : WriterReads(w, u)
  \/ WriterWrites(w) \/ WriterEnds(w)

Next == (\E s \in Serve : ServeStep(s)) \/ (\E w \in Writer : WriterStep(w))

Spec == Init /\ [][Next]_vars

-----------------------------------------------------------------------------

\* A command never writes the configuration while a server starts from it or
\* runs, nor do two commands at once, whichever process is killed when: one of
\* the two always sees the other (acquire_serve_presence,
\* acquire_config_write_lock).  The exception is a robbed server, where the
\* system unlinks a file that is open: it has locked a file that is no longer
\* in the directory, and no command can see it.
NeverBoth ==
  \A w \in Writer : Writing(w) =>
     /\ \A s \in Serve \ robbed : ~ Serving(s)
     /\ \A v \in Writer : Writing(v) => v = w

\* A running server serves the configuration that is on the disk, through every
\* save of its own and every command beside it, unless another server has
\* replaced the file since it last read it, or it is a robbed one.
ServedIsCurrent ==
  \A s \in Serve \ (robbed \cup behind) : spc[s] = "running" => served[s] = disk

\* A running server can be seen: the lock of its file is its own, and the file
\* is in the directory unless it was unlinked before the server had looked for
\* a writer; afterwards nobody removes it.
RunningIsSeen ==
  \A s \in Serve : Serving(s) => /\ holder[s] = s
                                 /\ s \notin robbed => s \in files

\* A change of the configuration that has been written is not lost to a save
\* that had read the file before (save_config_section reads, merges and
\* replaces), except to one of another server, or between a command and a
\* robbed server: those take no common lock.
SavedStays == saved \ crossed \subseteq disk

-----------------------------------------------------------------------------
\* The inductive invariant.

Locked == {"locked", "scanning", "probing", "unlinking", "writing", "merging", "written"}

\* A server that has opened its file has it in the directory, or was robbed of
\* it, and holds it from "present" on.
FilesInv ==
  \A s \in Serve :
     /\ spc[s] \notin {"none", "over"} => s \in files \cup robbed
     /\ spc[s] \notin {"none", "opened", "over"} => holder[s] = s
     /\ spc[s] = "none" => s \notin robbed

\* Who holds the writers' lock is where it has it.
LockInv ==
  /\ \A s \in Serve : spc[s] = "probing" => wlock = s
  /\ \A w \in Writer : /\ wpc[w] \in Locked => wlock = w
                       /\ wpc[w] # "none" => wfile

\* A writer has still to look at every server that counts on there being none.
ScanInv ==
  \A w \in Writer :
     /\ wpc[w] \in {"scanning", "probing", "unlinking", "writing", "merging", "written"} =>
          \A s \in Serve \ robbed : Serving(s) => s \in left[w]
     /\ wpc[w] \in {"probing", "unlinking"} => ~ Serving(looksAt[w])
     /\ wpc[w] = "probing" => holder[looksAt[w]] = w
     /\ Writing(w) => left[w] = {}

\* Who is in the middle of a save has read all that is not crossed.
DraftInv ==
  /\ \A s \in Serve : spc[s] = "saving" => saved \ crossed \subseteq draft[s]
  /\ \A w \in Writer : wpc[w] = "merging" => saved \ crossed \subseteq draft[w]
  /\ \A s \in Serve : spc[s] \in {"saving", "saved"} => change[s] \in draft[s]
  /\ \A w \in Writer : wpc[w] = "merging" => change[w] \in draft[w]

\* A server that has not been overtaken knows the file, but for its own change.
MemoryInv ==
  \A s \in Serve \ (robbed \cup behind) :
     /\ spc[s] \in {"running", "saving"} => served[s] = disk
     /\ spc[s] = "saving" => draft[s] = disk \cup {change[s]}
     /\ spc[s] = "saved" => served[s] \cup {change[s]} = disk

IInv ==
  /\ TypeOK /\ FilesInv /\ LockInv /\ ScanInv /\ DraftInv /\ MemoryInv /\ SavedStays
=============================================================================
