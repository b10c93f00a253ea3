--------------------------- MODULE BackupRestore ---------------------------
(***************************************************************************)
(* Backups, and the restore that is staged by one launch of the backend    *)
(* and applied by the next (src/rust/db/src/backup.rs,                     *)
(* src/rust/api/src/backups.rs, startup in src/rust/server/src/main.rs).   *)
(*                                                                         *)
(* A process is a backend on one data directory.  It may die between any   *)
(* two steps: the shell's SIGTERM, the watch on the parent and a crash all *)
(* end it where it stands.  What survives is the directory: the database,  *)
(* the journal beside it, the staged file and the backups.  The kernel     *)
(* releases the lock.                                                      *)
(*                                                                         *)
(* A database file is an element of the sequence disk; the last one is the *)
(* file at the path avoir.db.  A process that opened an earlier one goes   *)
(* on writing to a file that no path leads to.  The ledger in a file is    *)
(* abstracted to the number of the write that made it.                     *)
(***************************************************************************)
EXTENDS Integers, Sequences, FiniteSets

CONSTANTS
    Workloads,  \* what a behaviour may be made of
    MaxSwaps,   \* restores applied in a run
    Retention,  \* BackupConfig.retentionCount
    None        \* no file, no process

ASSUME BackupRestoreAssumption ==
    /\ MaxSwaps \in Nat /\ Retention \in Nat
    /\ \A w \in Workloads :
        /\ IsFiniteSet(w.procs) /\ IsFiniteSet(w.jobs)
        /\ w.writes \in Nat /\ w.backups \in Nat /\ None \notin w.procs
        /\ w.requests \subseteq {"manual", "scheduled", "restore", "upload", "delete"}
        /\ w.diesIn \subseteq {"serving", "startup"}

VARIABLES
    disk,    \* the database files there have been, the last one at the path
    journal, \* the journal at the path: the file it belongs to, or None
    pending, \* avoir.restore-pending, or None
    files,   \* the files there have been in backups/, by number
    writes,  \* the last number given to a write
    lock,    \* the process that holds avoir.lock
    procs,   \* process -> where it is
    jobs,    \* job -> the backup or restore it is doing
    workload \* what this behaviour is made of

vars == <<disk, journal, pending, files, writes, lock, procs, jobs, workload>>

Procs == workload.procs         \* backends that may be started on the directory
Jobs == workload.jobs           \* backup requests and ticks of the schedule that may overlap
Requests == workload.requests   \* what is asked for
MaxWrites == workload.writes    \* bound on the writes to the ledger
MaxBackups == workload.backups  \* bound on the files put in backups/
DiesIn == workload.diesIn       \* phases in which a process may die

Ids == 1..MaxBackups
Upload == 0     \* stands for the uploaded file where a backup's number is due
Sources == {"MANUAL", "SCHEDULED", "PRE_RESTORE", "IMPORTED"}
Routine == {"MANUAL", "SCHEDULED"}
Startup == {"staged", "swap", "clean", "credentials", "lock", "open"}

Database == [data : 0..MaxWrites,      \* the ledger
             credentials : BOOLEAN,    \* a key is stored in ConnectedService
             listed : SUBSET Ids,      \* the rows of Backup, by the file each is of
             sound : BOOLEAN]          \* no foreign journal was applied to it

BackupFile == [source : Sources, data : 0..MaxWrites, listed : SUBSET Ids,
               created : 0..MaxBackups, \* the createdAt of its row, 0 before it has one
               there : BOOLEAN]         \* it has not been deleted

Staged == [whole : BOOLEAN,            \* the copy is complete
           data : 0..MaxWrites, listed : SUBSET Ids,
           from : {Upload} \cup Ids,   \* the file it is a copy of
           safety : Ids]               \* the snapshot taken before it

Proc == [at : {"down", "serving", "tx"} \cup Startup,
         file : Nat,                   \* the database file it has open, 0 if none
         carried : BOOLEAN]            \* the credentials it read before the swap

Job == [at : {"none", "record", "adopt", "stage", "copy", "select", "prune"},
        source : Sources,              \* of the file it has just written
        id : {0} \cup Ids,             \* that file
        safety : {0} \cup Ids,         \* its snapshot, when it is a restore
        from : {Upload} \cup Ids,      \* what it is to stage
        evict : SUBSET Ids]            \* what retention has selected

Path == Len(disk)
Down == [at |-> "down", file |-> 0, carried |-> FALSE]
NoJob == [at |-> "none", source |-> "MANUAL", id |-> 0, safety |-> 0,
          from |-> Upload, evict |-> {}]
Blank == [data |-> 0, listed |-> {}]         \* what an uploaded database holds

Goto(p, at) == procs' = [procs EXCEPT ![p].at = at]

(* A journal that no transaction on the file at the path is using: the next *)
(* to open that file rolls it back.                                         *)
Hot == journal # None /\ \A p \in Procs : ~(procs[p].at = "tx" /\ procs[p].file = Path)

(* SQLite's recovery: the pages in a hot journal go into the file at the    *)
(* path, whichever file they came from.                                     *)
Recovered(d) == [d EXCEPT !.sound = @ /\ (Hot => journal = Path)]

Init ==
    /\ workload \in Workloads
    /\ disk = <<[data |-> 0, credentials |-> FALSE, listed |-> {}, sound |-> TRUE]>>
    /\ journal = None
    /\ pending = None
    /\ files = << >>
    /\ writes = 0
    /\ lock = None
    /\ procs = [p \in Procs |-> Down]
    /\ jobs = [j \in Jobs |-> NoJob]

-----------------------------------------------------------------------------
(* Startup: apply_staged_restore, then the lock, then the pool. *)

Launch(p) ==
    /\ procs[p].at = "down"
    /\ Goto(p, IF pending = None THEN "lock" ELSE "staged")
    /\ UNCHANGED <<disk, journal, pending, files, writes, lock, jobs>>

(* validate, which fails the launch and keeps the file, and then the        *)
(* credentials, which cannot be read past a hot journal.                    *)
ReadStaged(p) ==
    /\ procs[p].at = "staged"
    /\ procs' = [procs EXCEPT ![p] =
                   IF pending = None THEN Down
                   ELSE IF ~pending.whole THEN Down
                   ELSE [@ EXCEPT !.at = "swap",
                                  !.carried = ~Hot /\ disk[Path].credentials]]
    /\ UNCHANGED <<disk, journal, pending, files, writes, lock, jobs>>

(* The rename, which fails the launch when the staged file has gone.        *)
Swap(p) ==
    /\ procs[p].at = "swap"
    /\ IF pending = None
       THEN /\ procs' = [procs EXCEPT ![p] = Down]
            /\ UNCHANGED <<disk, pending>>
       ELSE /\ Path <= MaxSwaps
            /\ disk' = Append(disk, [data |-> pending.data, credentials |-> FALSE,
                                     listed |-> pending.listed, sound |-> pending.whole])
            /\ pending' = None
            /\ Goto(p, "clean")
    /\ UNCHANGED <<journal, files, writes, lock, jobs>>

(* Wrong: only the journals of WAL mode are removed.                        *)
CleanWal(p) ==
    /\ procs[p].at = "clean"
    /\ Goto(p, "credentials")
    /\ UNCHANGED <<disk, journal, pending, files, writes, lock, jobs>>

(* The sidecars, the one of the default journal mode among them.            *)
Clean(p) ==
    /\ procs[p].at = "clean"
    /\ journal' = None
    /\ Goto(p, "credentials")
    /\ UNCHANGED <<disk, pending, files, writes, lock, jobs>>

(* Wrong: a restore takes the silence of the file for an instruction.       *)
CredentialsDropped(p) ==
    /\ procs[p].at = "credentials"
    /\ Goto(p, "lock")
    /\ UNCHANGED <<disk, journal, pending, files, writes, lock, jobs>>

(* write_credentials, which opens the file only when there are some.        *)
CarryCredentials(p) ==
    /\ procs[p].at = "credentials"
    /\ IF procs[p].carried
       THEN /\ disk' = [disk EXCEPT ![Path] = [Recovered(@) EXCEPT !.credentials = TRUE]]
            /\ journal' = IF Hot THEN None ELSE journal
       ELSE UNCHANGED <<disk, journal>>
    /\ Goto(p, "lock")
    /\ UNCHANGED <<pending, files, writes, lock, jobs>>

(* Wrong: the lock is asked for and the answer not looked at.               *)
LockAnyway(p) ==
    /\ procs[p].at = "lock"
    /\ lock' = p
    /\ Goto(p, "open")
    /\ UNCHANGED <<disk, journal, pending, files, writes, jobs>>

(* flock, which fails the launch when another backend has it.  This is the  *)
(* lock of unix: on other systems main takes one that refuses nobody.       *)
Lock(p) ==
    /\ procs[p].at = "lock"
    /\ IF lock = None
       THEN lock' = p /\ Goto(p, "open")
       ELSE procs' = [procs EXCEPT ![p] = Down] /\ UNCHANGED lock
    /\ UNCHANGED <<disk, journal, pending, files, writes, jobs>>

(* connect. *)
Open(p) ==
    /\ procs[p].at = "open"
    /\ disk' = [disk EXCEPT ![Path] = Recovered(@)]
    /\ journal' = IF Hot THEN None ELSE journal
    /\ procs' = [procs EXCEPT ![p].at = "serving", ![p].file = Path]
    /\ UNCHANGED <<pending, files, writes, lock, jobs>>

-----------------------------------------------------------------------------
(* Serving.  The pool has one connection: what needs it waits while a       *)
(* transaction is open.                                                     *)

BeginWrite(p) ==
    /\ procs[p].at = "serving"
    /\ writes < MaxWrites
    /\ journal' = procs[p].file
    /\ Goto(p, "tx")
    /\ UNCHANGED <<disk, pending, files, writes, lock, jobs>>

(* It commits; the one that stores a key under Connected services too.      *)
CommitWrite(p, credentials) ==
    /\ procs[p].at = "tx"
    /\ writes' = writes + 1
    /\ disk' = [disk EXCEPT ![procs[p].file].data = writes',
                            ![procs[p].file].credentials = @ \/ credentials]
    /\ journal' = None
    /\ Goto(p, "serving")
    /\ UNCHANGED <<pending, files, lock, jobs>>

Db(p) == disk[procs[p].file]

(* A file appears in backups/ under a name no other has had.                *)
WriteFile(source, content) ==
    files' = Append(files, [source |-> source, data |-> content.data,
                            listed |-> content.listed, created |-> 0, there |-> TRUE])

There(i) == i \in DOMAIN files /\ files[i].there

(* Bound: what is asked for leaves a number for an upload on its way in.    *)
RoomFor(n) ==
    n + Cardinality({j \in Jobs : jobs[j].at # "none" /\ jobs[j].source = "PRE_RESTORE"
                                /\ jobs[j].from = Upload}) + Len(files) <= MaxBackups

(* run and run_if_due: create is VACUUM INTO, without the credentials.      *)
Take(p, j, source) ==
    /\ procs[p].at = "serving" /\ jobs[j].at = "none"
    /\ \/ source = "MANUAL" /\ "manual" \in Requests
       \/ source = "SCHEDULED" /\ "scheduled" \in Requests
    /\ RoomFor(1)
    /\ WriteFile(source, Db(p))
    /\ jobs' = [jobs EXCEPT ![j].at = "record", ![j].source = source, ![j].id = Len(files')]
    /\ UNCHANGED <<disk, journal, pending, writes, lock, procs>>

Restoring(j) == jobs[j].safety # 0

Available(p, from) ==
    \/ from = Upload /\ "upload" \in Requests
    \/ /\ "restore" \in Requests
       /\ from \in Db(p).listed /\ There(from)

(* Wrong: the file is staged without a safety snapshot of its own.          *)
RestoreUnsaved(p, j, from) ==
    /\ procs[p].at = "serving" /\ jobs[j].at = "none"
    /\ ~ \E k \in Jobs : Restoring(k)
    /\ Available(p, from)
    /\ jobs' = [jobs EXCEPT ![j].at = "stage", ![j].safety = Len(files), ![j].from = from]
    /\ UNCHANGED <<disk, journal, pending, files, writes, lock, procs>>

(* restore and restore_upload: validate, then the safety snapshot.          *)
(* Bound: one restore is asked for at a time, as the modal dialog has it;   *)
(* the route itself would take another.                                     *)
Restore(p, j, from) ==
    /\ procs[p].at = "serving" /\ jobs[j].at = "none"
    /\ ~ \E k \in Jobs : Restoring(k)
    /\ Available(p, from)
    /\ Path <= MaxSwaps /\ RoomFor(IF from = Upload THEN 2 ELSE 1)
    /\ WriteFile("PRE_RESTORE", Db(p))
    /\ jobs' = [jobs EXCEPT ![j].at = "record", ![j].source = "PRE_RESTORE",
                            ![j].id = Len(files'), ![j].safety = Len(files'),
                            ![j].from = from]
    /\ UNCHANGED <<disk, journal, pending, writes, lock, procs>>

(* Where a job goes once its file is listed. *)
AfterRecord(job) ==
    CASE job.source \in Routine -> "select"
      [] job.source = "PRE_RESTORE" /\ job.from = Upload -> "adopt"
      [] OTHER -> "stage"

(* record, and the INSERT of adopt_upload, with the time for createdAt: the *)
(* number of rows there have been stands for it, jobs that wait for the     *)
(* connection taking it in the order in which they get there.               *)
Now == Cardinality({i \in DOMAIN files : files[i].created # 0}) + 1

Record(p, j) ==
    /\ procs[p].at = "serving" /\ jobs[j].at = "record"
    /\ disk' = [disk EXCEPT ![procs[p].file].listed = @ \cup {jobs[j].id}]
    /\ files' = [files EXCEPT ![jobs[j].id].created = Now]
    /\ jobs' = [jobs EXCEPT ![j].at = AfterRecord(jobs[j])]
    /\ UNCHANGED <<journal, pending, writes, lock, procs>>

(* The copy of adopt_upload. *)
Adopt(p, j) ==
    /\ procs[p].at # "down" /\ jobs[j].at = "adopt"
    /\ WriteFile("IMPORTED", Blank)
    /\ jobs' = [jobs EXCEPT ![j].at = "record", ![j].source = "IMPORTED",
                            ![j].id = Len(files')]
    /\ UNCHANGED <<disk, journal, pending, writes, lock, procs>>

Content(from) == IF from = Upload THEN Blank ELSE files[from]

(* stage_restore: the copy truncates the staged file, then fills it.  It    *)
(* fails before that when the backup is gone.                               *)
Stage(p, j) ==
    /\ procs[p].at # "down" /\ jobs[j].at = "stage"
    /\ LET from == jobs[j].from
       IN  IF from = Upload \/ There(from)
           THEN /\ pending' = [whole |-> FALSE, data |-> Content(from).data,
                               listed |-> Content(from).listed,
                               from |-> from, safety |-> jobs[j].safety]
                /\ jobs' = [jobs EXCEPT ![j].at = "copy"]
           ELSE jobs' = [jobs EXCEPT ![j] = NoJob] /\ UNCHANGED pending
    /\ UNCHANGED <<disk, journal, files, writes, lock, procs>>

Copied(p, j) ==
    /\ procs[p].at # "down" /\ jobs[j].at = "copy"
    /\ pending' = IF pending = None THEN None ELSE [pending EXCEPT !.whole = TRUE]
    /\ jobs' = [jobs EXCEPT ![j] = NoJob]
    /\ UNCHANGED <<disk, journal, files, writes, lock, procs>>

(* The rows of a source that Retention newer ones come before, by createdAt *)
(* descending.                                                              *)
Surplus(listed, sources) ==
    LET rows == {i \in listed : files[i].source \in sources}
    IN  {i \in rows :
           Cardinality({k \in rows : files[k].created > files[i].created}) >= Retention}

(* Wrong: the oldest are kept, in the order the rows were made.             *)
EvictableNewest(p, j) ==
    LET rows == {i \in Db(p).listed : files[i].source = jobs[j].source}
    IN  {i \in rows :
           Cardinality({k \in rows : files[k].created < files[i].created}) >= Retention}

Evictable(p, j) == Surplus(Db(p).listed, {jobs[j].source})

(* enforce_retention: the rows are selected, then gone through one by one,  *)
(* the file first and then its row.                                         *)
SelectSurplus(p, j) ==
    /\ procs[p].at = "serving" /\ jobs[j].at = "select"
    /\ jobs' = [jobs EXCEPT ![j].at = "prune", ![j].evict = Evictable(p, j)]
    /\ UNCHANGED <<disk, journal, pending, files, writes, lock, procs>>

Without(i) == [files EXCEPT ![i].there = FALSE]

PruneFile(p, j) ==
    /\ procs[p].at # "down" /\ jobs[j].at = "prune"
    /\ \E i \in jobs[j].evict : There(i) /\ files' = Without(i)
    /\ UNCHANGED <<disk, journal, pending, writes, lock, procs, jobs>>

PruneRow(p, j) ==
    /\ procs[p].at = "serving" /\ jobs[j].at = "prune"
    /\ \E i \in jobs[j].evict :
          /\ ~There(i)
          /\ disk' = [disk EXCEPT ![procs[p].file].listed = @ \ {i}]
          /\ jobs' = [jobs EXCEPT ![j].evict = @ \ {i}]
    /\ UNCHANGED <<journal, pending, files, writes, lock, procs>>

Pruned(p, j) ==
    /\ procs[p].at # "down" /\ jobs[j].at = "prune" /\ jobs[j].evict = {}
    /\ jobs' = [jobs EXCEPT ![j] = NoJob]
    /\ UNCHANGED <<disk, journal, pending, files, writes, lock, procs>>

(* DELETE /backups/:id, its two steps taken together.                       *)
Delete(p, i) ==
    /\ "delete" \in Requests
    /\ procs[p].at = "serving"
    /\ i \in Db(p).listed
    /\ files' = Without(i)
    /\ disk' = [disk EXCEPT ![procs[p].file].listed = @ \ {i}]
    /\ UNCHANGED <<journal, pending, writes, lock, procs, jobs>>

-----------------------------------------------------------------------------
(* stopServer, watch_parent, or a crash.  A process that is not to die at   *)
(* work dies when it has none.                                              *)
Die(p) ==
    /\ \/ procs[p].at = "serving" /\ \A j \in Jobs : jobs[j].at = "none"
       \/ procs[p].at \in {"serving", "tx"} /\ "serving" \in DiesIn
       \/ procs[p].at \in Startup /\ "startup" \in DiesIn
    /\ procs' = [procs EXCEPT ![p] = Down]
    /\ lock' = IF lock = p THEN None ELSE lock
    /\ jobs' = IF procs[p].at \in {"serving", "tx"} THEN [j \in Jobs |-> NoJob] ELSE jobs
    /\ UNCHANGED <<disk, journal, pending, files, writes>>

StartUp(p) ==
    \/ Launch(p)
    \/ ReadStaged(p)
    \/ Swap(p)
    \/ Clean(p)
    \/ CarryCredentials(p)
    \/ Lock(p)
    \/ Open(p)

Serve(p) ==
    \/ BeginWrite(p)
    \/ \E credentials \in BOOLEAN : CommitWrite(p, credentials)
    \/ \E i \in Ids : Delete(p, i)

(* The jobs are those of the one process that serves, which has the lock.   *)
Work(p, j) ==
    /\ lock = p
    /\ procs[p].at \in {"serving", "tx"}
    /\ \/ \E source \in Routine : Take(p, j, source)
       \/ \E from \in {Upload} \cup Ids : Restore(p, j, from)
       \/ Record(p, j)
       \/ Adopt(p, j)
       \/ Stage(p, j)
       \/ Copied(p, j)
       \/ SelectSurplus(p, j)
       \/ PruneFile(p, j)
       \/ PruneRow(p, j)
       \/ Pruned(p, j)

Next ==
    /\ workload' = workload
    /\ \E p \in Procs :
        \/ StartUp(p)
        \/ Serve(p)
        \/ Die(p)
        \/ \E j \in Jobs : Work(p, j)

Spec == Init /\ [][Next]_vars
-----------------------------------------------------------------------------
TypeOK ==
    /\ disk \in Seq(Database)
    /\ journal \in 1..Path \cup {None}
    /\ pending \in Staged \cup {None}
    /\ files \in Seq(BackupFile)
    /\ writes \in 0..MaxWrites
    /\ lock \in Procs \cup {None}
    /\ procs \in [Procs -> Proc]
    /\ \A p \in Procs : procs[p].at \in {"serving", "tx"} => procs[p].file \in DOMAIN disk
    /\ jobs \in [Jobs -> Job]

(* One backend on the directory, that dies only while it serves, and nobody *)
(* deletes a backup by hand.                                                *)
Alone == Cardinality(Procs) = 1 /\ "startup" \notin DiesIn /\ "delete" \notin Requests

(* No journal of a replaced database is ever rolled back into the one that  *)
(* replaced it, and no partial copy ever becomes the database, wherever     *)
(* the process died: the removal of the sidecars and the second validation  *)
(* of apply_staged_restore.                                                 *)
NeverCorrupt == \A f \in DOMAIN disk : disk[f].sound

(* So it is while the process dies only as it serves.                       *)
SwapIsClean == Alone => NeverCorrupt

(* Never two backends on one database, though they start at the same time   *)
(* and die anywhere: the lock main takes and keeps.                         *)
OneBackend ==
    \A p, q \in Procs :
        procs[p].at \in {"serving", "tx"} /\ procs[q].at \in {"serving", "tx"} => p = q

(* Stored keys come through a restore of a file that carries none:          *)
(* apply_staged_restore reads them before the swap, unless a journal is in  *)
(* the way, and what it read is in the database that is served.             *)
CredentialsSurvive ==
    Alone => \A p \in Procs :
        /\ procs[p].at = "swap" /\ ~Hot => procs[p].carried = disk[Path].credentials
        /\ procs[p].at \in {"serving", "tx"} /\ procs[p].carried => Db(p).credentials

(* While a restore is staged the snapshot taken before it is in backups/    *)
(* and listed in the database it will replace, whatever retention removed   *)
(* in between: restore and enforce_retention.                               *)
SnapshotIsKept ==
    Alone /\ pending # None =>
        /\ There(pending.safety) /\ files[pending.safety].source = "PRE_RESTORE"
        /\ pending.safety \in disk[Path].listed

(* Retention only removes a routine backup, and only one that Retention     *)
(* newer ones of the same source, still in the directory, come after: the   *)
(* newest are never the ones to go, with two backups and a restore in       *)
(* progress at a time (enforce_retention).                                  *)
RetentionSpares ==
    [][\A i \in DOMAIN files :
         Alone /\ There(i) /\ ~files'[i].there =>
            /\ files[i].source \in Routine
            /\ Cardinality({k \in DOMAIN files' :
                             /\ files'[k].there
                             /\ files'[k].source = files[i].source
                             /\ files'[k].created > files[i].created}) >= Retention
      ]_vars

=============================================================================
