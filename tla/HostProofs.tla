----------------------------- MODULE HostProofs -----------------------------
(***************************************************************************)
(* The host a user runs: the backend with its files (BackupRestore) and    *)
(* the shell with its updater (Shell).                                     *)
(*                                                                         *)
(* For every number of backends and of requests, whatever is asked for and *)
(* wherever a process dies: never two backends on one database.            *)
(*                                                                         *)
(* For one backend that dies only while it serves, with any number of jobs *)
(* and restores: what a restore swaps in is sound and keeps the keys       *)
(* (Orderly, KeysAreCarried), its snapshot stays, and retention leaves the *)
(* newest of each source (Books).                                          *)
(*                                                                         *)
(* For every set of backends and versions, every length of the history and *)
(* every number of crashes: the variables of Shell keep their types, the   *)
(* update history claims no version that was never started, and an open    *)
(* window offers no restart into a version that is running already.        *)
(***************************************************************************)
EXTENDS BackupRestore, Shell, SumsProofs, SequenceTheorems

-----------------------------------------------------------------------------
(* The lock is held by whoever is past it, which is more than OneBackend    *)
(* says: a process about to open the database counts too.  That a backend   *)
(* has a place is all that is needed of the types.                          *)

Holds(p) == procs[p].at \in {"open", "serving", "tx"}

HasPlace(r) == "at" \in DOMAIN r

LockIsHeld ==
    /\ workload \in Workloads
    /\ procs = [p \in Procs |-> procs[p]]
    /\ \A p \in Procs : HasPlace(procs[p]) /\ (Holds(p) => lock = p)

(* The updates of a backend that the actions make.                          *)
LEMMA PlaceFacts ==
    ASSUME NEW r, HasPlace(r), NEW x
    PROVE  [r EXCEPT !.at = x].at = x /\ HasPlace([r EXCEPT !.at = x])
  BY DEF HasPlace

LEMMA FileFacts ==
    ASSUME NEW r, HasPlace(r), NEW x, NEW y
    PROVE  /\ [r EXCEPT !.at = x, !.file = y].at = x
           /\ HasPlace([r EXCEPT !.at = x, !.file = y])
  BY DEF HasPlace

LEMMA CarriedFacts ==
    ASSUME NEW r, HasPlace(r), NEW x, NEW y
    PROVE  /\ [r EXCEPT !.at = x, !.carried = y].at = x
           /\ HasPlace([r EXCEPT !.at = x, !.carried = y])
  BY DEF HasPlace

LEMMA NobodyIsNone == ASSUME workload \in Workloads PROVE None \notin Procs
  BY BackupRestoreAssumption DEF Procs

LEMMA InitLock == Init => LockIsHeld
<1>. SUFFICES ASSUME Init PROVE LockIsHeld
  OBVIOUS
<1>1. procs = [p \in Procs |-> Down] /\ workload \in Workloads
  BY DEF Init
<1>2. procs = [p \in Procs |-> procs[p]]
  BY <1>1
<1>3. \A p \in Procs : HasPlace(procs[p]) /\ ~Holds(p)
  BY <1>1 DEF Down, HasPlace, Holds
<1>. QED BY <1>1, <1>2, <1>3 DEF LockIsHeld

(* A step that moves one process only, to a place before the lock or, when  *)
(* it holds the lock, to a place past it.                                   *)
LEMMA MoveStep ==
    ASSUME LockIsHeld, workload' = workload, NEW p \in Procs, NEW r, HasPlace(r),
           procs' = [procs EXCEPT ![p] = r],
           r.at \in {"open", "serving", "tx"} => lock' = p,
           \A q \in Procs \ {p} : lock = q => lock' = q
    PROVE  LockIsHeld'
<1>1. Procs' = Procs
  BY DEF Procs
<1>2. procs'[p] = r /\ \A q \in Procs \ {p} : procs'[q] = procs[q]
  BY DEF LockIsHeld
<1>3. procs' = [q \in Procs |-> procs'[q]]
  BY DEF LockIsHeld
<1>4. ASSUME NEW q \in Procs PROVE HasPlace(procs'[q]) /\ (Holds(q)' => lock' = q)
  <2>1. CASE q = p
    BY <1>2, <2>1 DEF LockIsHeld, Holds
  <2>2. CASE q # p
    BY <1>2, <2>2 DEF LockIsHeld, Holds
  <2>. QED BY <2>1, <2>2
<1>5. \A q \in Procs' : HasPlace(procs[q])' /\ (Holds(q)' => lock' = q)
  BY <1>1, <1>4 DEF HasPlace
<1>. QED BY <1>3, <1>5, <1>1 DEF LockIsHeld

(* A step that moves no process and leaves the lock.                        *)
LEMMA StillStep ==
    ASSUME LockIsHeld, UNCHANGED <<procs, lock, workload>>
    PROVE  LockIsHeld'
  BY DEF LockIsHeld, Holds, HasPlace, Procs

(* Goto is such a move.                                                     *)
LEMMA GotoStep ==
    ASSUME LockIsHeld, workload' = workload, NEW p \in Procs, NEW at,
           Goto(p, at), lock' = lock, at \in {"open", "serving", "tx"} => Holds(p)
    PROVE  LockIsHeld'
<1> DEFINE r == [procs[p] EXCEPT !.at = at]
<1>1. procs' = [procs EXCEPT ![p] = r]
  BY DEF Goto, LockIsHeld
<1>2. HasPlace(r) /\ r.at = at
  BY PlaceFacts DEF LockIsHeld
<1>3. at \in {"open", "serving", "tx"} => lock' = p
  BY DEF LockIsHeld
<1>. HIDE DEF r
<1>. QED BY <1>1, <1>2, <1>3, MoveStep

LEMMA DownStep ==
    ASSUME LockIsHeld, workload' = workload, NEW p \in Procs,
           procs' = [procs EXCEPT ![p] = Down],
           \A q \in Procs \ {p} : lock = q => lock' = q
    PROVE  LockIsHeld'
<1>1. HasPlace(Down) /\ Down.at = "down"
  BY DEF Down, HasPlace
<1>. QED BY <1>1, MoveStep

LEMMA LockStep == LockIsHeld /\ [Next]_vars => LockIsHeld'
<1>. SUFFICES ASSUME LockIsHeld, [Next]_vars PROVE LockIsHeld'
  OBVIOUS
<1>1. CASE UNCHANGED vars
  BY <1>1, StillStep DEF vars
<1>. SUFFICES ASSUME Next PROVE LockIsHeld'
  BY <1>1
<1>. workload' = workload
  BY DEF Next
<1>. SUFFICES ASSUME NEW p \in Procs,
                     StartUp(p) \/ Serve(p) \/ Die(p) \/ \E j \in Jobs : Work(p, j)
              PROVE  LockIsHeld'
  BY DEF Next
<1>2. CASE Launch(p)
  BY <1>2, GotoStep DEF Launch
<1>3. CASE ReadStaged(p)
  <2>1. CASE pending = None \/ ~pending.whole
    <3>1. procs' = [procs EXCEPT ![p] = Down] /\ lock' = lock
      BY <1>3, <2>1 DEF ReadStaged
    <3>. QED BY <3>1, DownStep
  <2>2. CASE ~(pending = None \/ ~pending.whole)
    <3> DEFINE carried == ~Hot /\ disk[Path].credentials
               r == [procs[p] EXCEPT !.at = "swap", !.carried = carried]
    <3>1. procs' = [procs EXCEPT ![p].at = "swap", ![p].carried = carried] /\ lock' = lock
      BY <1>3, <2>2 DEF ReadStaged
    <3>. HIDE DEF carried
    <3>2. procs' = [procs EXCEPT ![p] = r]
      BY <3>1 DEF LockIsHeld
    <3>3. HasPlace(r) /\ r.at = "swap"
      BY CarriedFacts DEF LockIsHeld
    <3>. HIDE DEF r
    <3>. QED BY <3>1, <3>2, <3>3, MoveStep
  <2>. QED BY <2>1, <2>2
<1>4. CASE Swap(p)
  <2>1. CASE pending = None
    BY <1>4, <2>1, DownStep DEF Swap
  <2>2. CASE pending # None
    BY <1>4, <2>2, GotoStep DEF Swap
  <2>. QED BY <2>1, <2>2
<1>5. CASE Clean(p)
  BY <1>5, GotoStep DEF Clean
<1>6. CASE CarryCredentials(p)
  BY <1>6, GotoStep DEF CarryCredentials
<1>7. CASE Lock(p)
  <2>1. CASE lock = None
    <3> DEFINE r == [procs[p] EXCEPT !.at = "open"]
    <3>1. lock' = p /\ procs' = [procs EXCEPT ![p] = r]
      BY <1>7, <2>1 DEF Lock, Goto, LockIsHeld
    <3>2. \A q \in Procs : lock # q
      BY <2>1, NobodyIsNone DEF LockIsHeld
    <3>3. HasPlace(r)
      BY PlaceFacts DEF LockIsHeld
    <3>. HIDE DEF r
    <3>. QED BY <3>1, <3>2, <3>3, MoveStep
  <2>2. CASE lock # None
    BY <1>7, <2>2, DownStep DEF Lock
  <2>. QED BY <2>1, <2>2
<1>8. CASE Open(p)
  <2> DEFINE path == Path
             r == [procs[p] EXCEPT !.at = "serving", !.file = path]
  <2>1. /\ procs' = [procs EXCEPT ![p].at = "serving", ![p].file = path]
        /\ lock' = lock /\ Holds(p)
    BY <1>8 DEF Open, Holds
  <2>. HIDE DEF path
  <2>2. procs' = [procs EXCEPT ![p] = r]
    BY <2>1 DEF LockIsHeld
  <2>3. HasPlace(r) /\ r.at = "serving" /\ lock' = p
    BY <2>1, FileFacts DEF LockIsHeld
  <2>. HIDE DEF r
  <2>. QED BY <2>1, <2>2, <2>3, MoveStep
<1>9. CASE Serve(p)
  <2>1. CASE BeginWrite(p)
    BY <2>1, GotoStep DEF BeginWrite, Holds
  <2>2. ASSUME NEW credentials \in BOOLEAN, CommitWrite(p, credentials) PROVE LockIsHeld'
    BY <2>2, GotoStep DEF CommitWrite, Holds
  <2>3. ASSUME NEW i \in Ids, Delete(p, i) PROVE LockIsHeld'
    BY <2>3, StillStep DEF Delete
  <2>. QED BY <1>9, <2>1, <2>2, <2>3 DEF Serve
<1>10. CASE Die(p)
  <2>1. /\ procs' = [procs EXCEPT ![p] = Down]
        /\ lock' = IF lock = p THEN None ELSE lock
    BY <1>10 DEF Die
  <2>. QED BY <2>1, DownStep
<1>11. ASSUME NEW j \in Jobs, Work(p, j) PROVE LockIsHeld'
  <2>1. UNCHANGED <<procs, lock>>
    BY <1>11
       DEF Work, Take, Restore, Record, Adopt, Stage, Copied, SelectSurplus, PruneFile, PruneRow, Pruned
  <2>. QED BY <2>1, StillStep
<1>. QED
  BY <1>2, <1>3, <1>4, <1>5, <1>6, <1>7, <1>8, <1>9, <1>10, <1>11 DEF StartUp

(* However many backends are started on a directory, with a restore staged  *)
(* or not, and wherever they die: two never serve at once (the lock that    *)
(* main takes before it opens the database).                                *)
THEOREM NeverTwoBackends == Spec => []OneBackend
<1>1. LockIsHeld => OneBackend
  BY DEF LockIsHeld, OneBackend, Holds
<1>. QED BY <1>1, InitLock, LockStep, PTL DEF Spec

-----------------------------------------------------------------------------
(* The kind of thing that each variable holds, without the bounds of TypeOK, *)
(* which are the runs' own: numbers are natural numbers.                    *)

Numbers == SUBSET Nat

SomeDatabase == [data : Nat, credentials : BOOLEAN, listed : Numbers, sound : BOOLEAN]

SomeFile == [source : Sources, data : Nat, listed : Numbers, created : Nat, there : BOOLEAN]

SomeStaged == [whole : BOOLEAN, data : Nat, listed : Numbers, from : Nat, safety : Nat]

SomeProc == [at : {"down", "serving", "tx"} \cup Startup, file : Nat, carried : BOOLEAN]

SomeJob == [at : {"none", "record", "adopt", "stage", "copy", "select", "prune"},
            source : Sources, id : Nat, safety : Nat, from : Nat, evict : Numbers]

Kinds ==
    /\ workload \in Workloads
    /\ disk \in Seq(SomeDatabase) /\ disk # << >>
    /\ pending # None => pending \in SomeStaged
    /\ files \in Seq(SomeFile)
    /\ writes \in Nat
    /\ procs \in [Procs -> SomeProc]
    /\ jobs \in [Jobs -> SomeJob]

LEMMA WorkloadFacts ==
    ASSUME workload \in Workloads
    PROVE  /\ Retention \in Nat /\ MaxSwaps \in Nat
           /\ MaxBackups \in Nat /\ Ids \subseteq Nat
           /\ IsFiniteSet(Procs) /\ IsFiniteSet(Jobs) /\ None \notin Procs
  BY BackupRestoreAssumption DEF MaxBackups, Ids, Procs, Jobs

(* The replacement of one element of a sequence.                            *)
LEMMA ReplaceOne ==
    ASSUME NEW S, NEW s \in Seq(S), NEW n, NEW x, n \in DOMAIN s => x \in S
    PROVE  /\ [s EXCEPT ![n] = x] \in Seq(S)
           /\ Len([s EXCEPT ![n] = x]) = Len(s)
           /\ DOMAIN [s EXCEPT ![n] = x] = DOMAIN s
           /\ s # << >> => [s EXCEPT ![n] = x] # << >>
           /\ n \in DOMAIN s => [s EXCEPT ![n] = x][n] = x
           /\ \A i \in DOMAIN s \ {n} : [s EXCEPT ![n] = x][i] = s[i]
<1>1. DOMAIN s = 1..Len(s) /\ Len(s) \in Nat /\ s \in [1..Len(s) -> S]
  BY LenProperties
<1>2. CASE n \in DOMAIN s
  <2>. DEFINE t == [s EXCEPT ![n] = x]
  <2>1. t \in Seq(S) /\ Len(t) = Len(s)
    BY <1>1, <1>2, ExceptSeq
  <2>2. DOMAIN t = DOMAIN s /\ t[n] = x /\ \A i \in DOMAIN s \ {n} : t[i] = s[i]
    BY <1>1, <1>2
  <2>3. s # << >> => t # << >>
    <3>. HIDE DEF t
    <3>. QED BY <2>1, EmptySeq
  <2>. QED BY <1>2, <2>1, <2>2, <2>3
<1>3. CASE n \notin DOMAIN s
  <2>1. [s EXCEPT ![n] = x] = s
    BY <1>1, <1>3
  <2>. QED BY <1>3, <2>1
<1>. QED BY <1>2, <1>3

(* The element put after a sequence.                                        *)
LEMMA OneMoreElement ==
    ASSUME NEW S, NEW s \in Seq(S), NEW x \in S
    PROVE  /\ Append(s, x) \in Seq(S) /\ Append(s, x) # << >>
           /\ Len(Append(s, x)) = Len(s) + 1 /\ Len(s) + 1 \notin DOMAIN s
           /\ DOMAIN Append(s, x) = DOMAIN s \cup {Len(s) + 1}
           /\ Append(s, x)[Len(s) + 1] = x
           /\ \A i \in DOMAIN s : Append(s, x)[i] = s[i]
<1>1. Len(s) \in Nat /\ DOMAIN s = 1..Len(s)
  BY LenProperties
<1>2. /\ Append(s, x) \in Seq(S)
      /\ Len(Append(s, x)) = Len(s) + 1
      /\ \A i \in 1..Len(s) : Append(s, x)[i] = s[i]
      /\ Append(s, x)[Len(s) + 1] = x
  BY AppendProperties
<1>3. DOMAIN Append(s, x) = 1..(Len(s) + 1)
  BY <1>2, LenProperties
<1>4. Append(s, x) # << >>
  BY <1>1, <1>2, EmptySeq
<1>. QED BY <1>1, <1>2, <1>3, <1>4

LEMMA InitKinds == Init => Kinds
<1>. SUFFICES ASSUME Init PROVE Kinds
  OBVIOUS
<1>1. disk \in Seq(SomeDatabase) /\ disk # << >>
  <2>. DEFINE d == [data |-> 0, credentials |-> FALSE, listed |-> {}, sound |-> TRUE]
  <2>1. d \in SomeDatabase
    BY DEF SomeDatabase, Numbers
  <2>2. disk = <<d>>
    BY DEF Init
  <2>. HIDE DEF d
  <2>. QED BY <2>1, <2>2
<1>2. files \in Seq(SomeFile)
  BY EmptySeq DEF Init
<1>3. procs \in [Procs -> SomeProc]
  BY DEF Init, Down, SomeProc, Startup
<1>4. jobs \in [Jobs -> SomeJob]
  BY DEF Init, NoJob, SomeJob, Numbers, Sources, Upload
<1>. QED BY <1>1, <1>2, <1>3, <1>4 DEF Init, Kinds

(* The three ways a record of a sequence is changed in place.               *)
LEMMA CommitKeepsKinds ==
    ASSUME NEW d \in Seq(SomeDatabase), d # << >>, NEW n, NEW w \in Nat, NEW c \in BOOLEAN
    PROVE  /\ [d EXCEPT ![n].data = w, ![n].credentials = @ \/ c] \in Seq(SomeDatabase)
           /\ [d EXCEPT ![n].data = w, ![n].credentials = @ \/ c] # << >>
<1> DEFINE x == [d[n] EXCEPT !.data = w, !.credentials = @ \/ c]
<1>1. d \in [1..Len(d) -> SomeDatabase] /\ DOMAIN d = 1..Len(d)
  BY LenProperties
<1>2. n \in DOMAIN d => x \in SomeDatabase
  BY <1>1 DEF SomeDatabase
<1>3. [d EXCEPT ![n].data = w, ![n].credentials = @ \/ c] = [d EXCEPT ![n] = x]
  BY <1>1
<1>. HIDE DEF x
<1>4. [d EXCEPT ![n] = x] \in Seq(SomeDatabase) /\ [d EXCEPT ![n] = x] # << >>
  BY <1>2, ReplaceOne
<1>. QED BY <1>3, <1>4

LEMMA ListingKeepsKinds ==
    ASSUME NEW d \in Seq(SomeDatabase), d # << >>, NEW n, NEW ids,
           n \in DOMAIN d => ids \in Numbers
    PROVE  /\ [d EXCEPT ![n].listed = ids] \in Seq(SomeDatabase)
           /\ [d EXCEPT ![n].listed = ids] # << >>
<1> DEFINE x == [d[n] EXCEPT !.listed = ids]
<1>1. d \in [1..Len(d) -> SomeDatabase] /\ DOMAIN d = 1..Len(d)
  BY LenProperties
<1>2. n \in DOMAIN d => x \in SomeDatabase
  BY <1>1 DEF SomeDatabase
<1>3. [d EXCEPT ![n].listed = ids] = [d EXCEPT ![n] = x]
  BY <1>1
<1>. HIDE DEF x
<1>. QED BY <1>2, <1>3, ReplaceOne

LEMMA RecoveredKeepsKinds ==
    ASSUME NEW d \in SomeDatabase, NEW c \in BOOLEAN
    PROVE  Recovered(d) \in SomeDatabase /\ [Recovered(d) EXCEPT !.credentials = c] \in SomeDatabase
  BY DEF Recovered, SomeDatabase, Hot

LEMMA ListedAreNumbers ==
    ASSUME NEW d \in Seq(SomeDatabase), NEW n \in DOMAIN d, NEW i \in Nat
    PROVE  d[n].listed \cup {i} \in Numbers /\ d[n].listed \ {i} \in Numbers
<1>1. d[n] \in SomeDatabase
  BY LenProperties, ElementOfSeq
<1>. QED BY <1>1 DEF SomeDatabase, Numbers

LEMMA FilesKeepKinds ==
    ASSUME NEW f \in Seq(SomeFile), NEW i, NEW now \in Nat
    PROVE  /\ [f EXCEPT ![i].there = FALSE] \in Seq(SomeFile)
           /\ [f EXCEPT ![i].created = now] \in Seq(SomeFile)
<1>1. f \in [1..Len(f) -> SomeFile] /\ DOMAIN f = 1..Len(f)
  BY LenProperties
<1>2. [f EXCEPT ![i].there = FALSE] \in Seq(SomeFile)
  <2> DEFINE x == [f[i] EXCEPT !.there = FALSE]
  <2>1. i \in DOMAIN f => x \in SomeFile
    BY <1>1 DEF SomeFile
  <2>2. [f EXCEPT ![i].there = FALSE] = [f EXCEPT ![i] = x]
    BY <1>1
  <2>. HIDE DEF x
  <2>. QED BY <2>1, <2>2, ReplaceOne
<1>3. [f EXCEPT ![i].created = now] \in Seq(SomeFile)
  <2> DEFINE x == [f[i] EXCEPT !.created = now]
  <2>1. i \in DOMAIN f => x \in SomeFile
    BY <1>1 DEF SomeFile
  <2>2. [f EXCEPT ![i].created = now] = [f EXCEPT ![i] = x]
    BY <1>1
  <2>. HIDE DEF x
  <2>. QED BY <2>1, <2>2, ReplaceOne
<1>. QED BY <1>2, <1>3

(* The number of rows there have been.                                      *)
LEMMA NowIsPositive == ASSUME files \in Seq(SomeFile) PROVE Now \in Nat /\ Now > 0
<1> DEFINE stamped == {i \in DOMAIN files : files[i].created # 0}
<1>1. stamped \in SUBSET (1..Len(files)) /\ Len(files) \in Nat
  BY LenProperties
<1>2. IsFiniteSet(1..Len(files))
  BY <1>1, FS_Interval
<1>3. Cardinality(stamped) \in Nat
  <2>. HIDE DEF stamped
  <2>. QED BY <1>1, <1>2, FS_Subset, FS_CardinalityType
<1>4. Now = Cardinality(stamped) + 1
  BY DEF Now
<1>. HIDE DEF stamped
<1>. QED BY <1>3, <1>4

(* A step that leaves the workload changes no more than what it names.      *)
LEMMA KindsOfRest ==
    ASSUME Kinds, workload' = workload,
           disk' \in Seq(SomeDatabase) /\ disk' # << >>,
           pending' # None => pending' \in SomeStaged,
           files' \in Seq(SomeFile), writes' \in Nat,
           procs' \in [Procs -> SomeProc], jobs' \in [Jobs -> SomeJob]
    PROVE  Kinds'
  BY DEF Kinds, Procs, Jobs

LEMMA PathIsThere ==
    ASSUME Kinds
    PROVE  Path \in DOMAIN disk /\ Path \in Nat /\ disk[Path] \in SomeDatabase
<1>1. Path \in Nat \ {0}
  BY EmptySeq DEF Kinds, Path
<1>2. DOMAIN disk = 1..Path
  BY LenProperties DEF Kinds, Path
<1>3. Path \in 1..Path
  BY <1>1
<1>. QED BY <1>1, <1>2, <1>3, ElementOfSeq DEF Kinds, Path

LEMMA StartUpKinds ==
    ASSUME Kinds, workload' = workload, NEW p \in Procs, StartUp(p)
    PROVE  Kinds'
<1>. USE DEF Goto, Startup
<1>p. procs[p] \in SomeProc
  BY DEF Kinds
<1>d. Down \in SomeProc
  BY DEF Down, SomeProc
<1>u. \A at \in {"staged", "swap", "clean", "credentials", "lock", "open", "serving", "tx"} :
         [procs EXCEPT ![p].at = at] \in [Procs -> SomeProc]
  BY DEF Kinds, SomeProc
<1>w. [procs EXCEPT ![p] = Down] \in [Procs -> SomeProc]
  BY <1>d DEF Kinds
<1>h. Hot \in BOOLEAN
  BY DEF Hot
<1>r. /\ [disk EXCEPT ![Path] = Recovered(@)] \in Seq(SomeDatabase)
      /\ [disk EXCEPT ![Path] = Recovered(@)] # << >>
      /\ [disk EXCEPT ![Path] = [Recovered(@) EXCEPT !.credentials = TRUE]] \in Seq(SomeDatabase)
      /\ [disk EXCEPT ![Path] = [Recovered(@) EXCEPT !.credentials = TRUE]] # << >>
  <2> DEFINE a == Recovered(disk[Path])
             b == [a EXCEPT !.credentials = TRUE]
  <2>1. a \in SomeDatabase /\ b \in SomeDatabase
    BY PathIsThere, RecoveredKeepsKinds
  <2>. HIDE DEF a, b
  <2>2. /\ [disk EXCEPT ![Path] = a] \in Seq(SomeDatabase) /\ [disk EXCEPT ![Path] = a] # << >>
        /\ [disk EXCEPT ![Path] = b] \in Seq(SomeDatabase) /\ [disk EXCEPT ![Path] = b] # << >>
    BY <2>1, ReplaceOne DEF Kinds
  <2>. QED BY <2>2 DEF a, b
<1>1. CASE Launch(p)
  BY <1>1, <1>u, KindsOfRest DEF Launch, Kinds
<1>2. CASE ReadStaged(p)
  <2>1. procs' \in [Procs -> SomeProc]
    <3> DEFINE carried == ~Hot /\ disk[Path].credentials
               r == [procs[p] EXCEPT !.at = "swap", !.carried = carried]
    <3>1. carried \in BOOLEAN
      BY <1>h
    <3>2. procs' = [procs EXCEPT ![p] = Down] \/ procs' = [procs EXCEPT ![p] = r]
      BY <1>2 DEF ReadStaged
    <3>. HIDE DEF carried
    <3>3. r \in SomeProc
      BY <3>1, <1>p DEF SomeProc
    <3>. HIDE DEF r
    <3>. QED BY <3>2, <3>3, <1>w DEF Kinds
  <2>. QED BY <1>2, <2>1, KindsOfRest DEF ReadStaged, Kinds
<1>3. CASE Swap(p)
  <2>1. CASE pending = None
    BY <1>3, <2>1, <1>w, KindsOfRest DEF Swap, Kinds
  <2>2. CASE pending # None
    <3> DEFINE x == [data |-> pending.data, credentials |-> FALSE,
                     listed |-> pending.listed, sound |-> pending.whole]
    <3>1. x \in SomeDatabase
      BY <2>2 DEF Kinds, SomeStaged, SomeDatabase
    <3>2. disk' = Append(disk, x) /\ pending' = None
      BY <1>3, <2>2 DEF Swap
    <3>. HIDE DEF x
    <3>3. disk' \in Seq(SomeDatabase) /\ disk' # << >>
      BY <3>1, <3>2, OneMoreElement DEF Kinds
    <3>. QED BY <1>3, <2>2, <1>u, <3>2, <3>3, KindsOfRest DEF Swap, Kinds
  <2>. QED BY <2>1, <2>2
<1>4. CASE Clean(p)
  BY <1>4, <1>u, KindsOfRest DEF Clean, Kinds
<1>5. CASE CarryCredentials(p)
  <2>1. disk' \in Seq(SomeDatabase) /\ disk' # << >>
    BY <1>5, <1>r DEF CarryCredentials, Kinds
  <2>. QED BY <1>5, <2>1, <1>u, KindsOfRest DEF CarryCredentials, Kinds
<1>6. CASE Lock(p)
  <2>1. procs' \in [Procs -> SomeProc]
    BY <1>6, <1>u, <1>w DEF Lock
  <2>. QED BY <1>6, <2>1, KindsOfRest DEF Lock, Kinds
<1>7. CASE Open(p)
  <2>1. disk' \in Seq(SomeDatabase) /\ disk' # << >>
    BY <1>7, <1>r DEF Open
  <2>2. procs' \in [Procs -> SomeProc]
    <3> DEFINE path == Path
               r == [procs[p] EXCEPT !.at = "serving", !.file = path]
    <3>1. procs' = [procs EXCEPT ![p] = r]
      BY <1>7 DEF Open, Kinds
    <3>2. path \in Nat
      BY PathIsThere
    <3>. HIDE DEF path
    <3>3. r \in SomeProc
      BY <3>2, <1>p DEF SomeProc
    <3>. HIDE DEF r
    <3>. QED BY <3>1, <3>3 DEF Kinds
  <2>. QED BY <1>7, <2>1, <2>2, KindsOfRest DEF Open, Kinds
<1>. QED BY <1>1, <1>2, <1>3, <1>4, <1>5, <1>6, <1>7 DEF StartUp

LEMMA ServeKinds ==
    ASSUME Kinds, workload' = workload, NEW p \in Procs, Serve(p)
    PROVE  Kinds'
<1>. USE DEF Goto
<1>u. \A at \in {"serving", "tx"} : [procs EXCEPT ![p].at = at] \in [Procs -> SomeProc]
  BY DEF Kinds, SomeProc
<1>1. CASE BeginWrite(p)
  BY <1>1, <1>u, KindsOfRest DEF BeginWrite, Kinds
<1>2. ASSUME NEW credentials \in BOOLEAN, CommitWrite(p, credentials) PROVE Kinds'
  <2>1. disk' \in Seq(SomeDatabase) /\ disk' # << >> /\ writes' \in Nat
    <3>1. PICK w \in Nat : w = writes + 1
      BY DEF Kinds
    <3>2. PICK file : file = procs[p].file
      OBVIOUS
    <3>3. /\ writes' = w
          /\ disk' = [disk EXCEPT ![file].data = w, ![file].credentials = @ \/ credentials]
      BY <1>2, <3>1, <3>2 DEF CommitWrite
    <3>. QED BY <3>3, CommitKeepsKinds DEF Kinds
  <2>. QED BY <1>2, <2>1, <1>u, KindsOfRest DEF CommitWrite, Kinds
<1>3. ASSUME NEW i \in Ids, Delete(p, i) PROVE Kinds'
  <2>1. disk' \in Seq(SomeDatabase) /\ disk' # << >>
    <3>1. PICK file : file = procs[p].file
      OBVIOUS
    <3>2. PICK ids : ids = disk[file].listed \ {i}
      OBVIOUS
    <3>3. disk' = [disk EXCEPT ![file].listed = ids]
      BY <1>3, <3>1, <3>2 DEF Delete
    <3>4. file \in DOMAIN disk => ids \in Numbers
      BY <3>2, WorkloadFacts, ListedAreNumbers DEF Kinds
    <3>. QED BY <3>3, <3>4, ListingKeepsKinds DEF Kinds
  <2>2. files' \in Seq(SomeFile)
    <3>1. files' = [files EXCEPT ![i].there = FALSE]
      BY <1>3 DEF Delete, Without
    <3>. QED BY <3>1, FilesKeepKinds DEF Kinds
  <2>. QED BY <1>3, <2>1, <2>2, KindsOfRest DEF Delete, Kinds
<1>. QED BY <1>1, <1>2, <1>3 DEF Serve

LEMMA DieKinds ==
    ASSUME Kinds, workload' = workload, NEW p \in Procs, Die(p)
    PROVE  Kinds'
<1>1. procs' \in [Procs -> SomeProc]
  <2>1. Down \in SomeProc
    BY DEF Down, SomeProc
  <2>. QED BY <2>1 DEF Die, Kinds
<1>2. jobs' \in [Jobs -> SomeJob]
  <2>1. NoJob \in SomeJob
    BY DEF NoJob, SomeJob, Numbers, Sources, Upload
  <2>. QED BY <2>1 DEF Die, Kinds
<1>. QED BY <1>1, <1>2, KindsOfRest DEF Die, Kinds

(* A file that appears in backups/.                                         *)
LEMMA WrittenKinds ==
    ASSUME files \in Seq(SomeFile), NEW source \in Sources, NEW content,
           content.data \in Nat, content.listed \in Numbers, WriteFile(source, content)
    PROVE  files' \in Seq(SomeFile) /\ Len(files') \in Nat
<1> DEFINE x == [source |-> source, data |-> content.data,
                 listed |-> content.listed, created |-> 0, there |-> TRUE]
<1>1. x \in SomeFile
  BY DEF SomeFile
<1>2. files' = Append(files, x)
  BY DEF WriteFile
<1>. HIDE DEF x
<1>3. files' \in Seq(SomeFile)
  BY <1>1, <1>2, OneMoreElement
<1>. QED BY <1>3, LenProperties

(* What a serving backend reads is a database.                              *)
LEMMA ServedKinds ==
    ASSUME Kinds, NEW p \in Procs, procs[p].file \in DOMAIN disk
    PROVE  Db(p) \in SomeDatabase /\ Db(p).data \in Nat /\ Db(p).listed \in Numbers
<1>1. Db(p) \in SomeDatabase
  BY LenProperties, ElementOfSeq DEF Db, Kinds
<1>. QED BY <1>1 DEF SomeDatabase

LEMMA ContentKinds ==
    ASSUME Kinds, NEW from, from = Upload \/ There(from)
    PROVE  Content(from).data \in Nat /\ Content(from).listed \in Numbers
<1>1. CASE from = Upload
  BY <1>1 DEF Content, Blank, Numbers
<1>2. CASE from # Upload
  <2>1. files[from] \in SomeFile
    BY <1>2, LenProperties, ElementOfSeq DEF There, Kinds
  <2>. QED BY <1>2, <2>1 DEF Content, SomeFile
<1>. QED BY <1>1, <1>2

LEMMA WorkKinds ==
    ASSUME Kinds, workload' = workload, NEW p \in Procs, procs[p].file \in DOMAIN disk,
           NEW j \in Jobs, Work(p, j)
    PROVE  Kinds'
<1>j. jobs[j] \in SomeJob
  BY DEF Kinds
<1>n. [jobs EXCEPT ![j] = NoJob] \in [Jobs -> SomeJob]
  <2>1. NoJob \in SomeJob
    BY DEF NoJob, SomeJob, Numbers, Sources, Upload
  <2>. QED BY <2>1 DEF Kinds
<1>1. ASSUME NEW source \in Routine, Take(p, j, source) PROVE Kinds'
  <2>1. source \in Sources
    BY DEF Routine, Sources
  <2>2. WriteFile(source, Db(p))
    BY <1>1 DEF Take
  <2>3. files' \in Seq(SomeFile) /\ Len(files') \in Nat
    BY <2>1, <2>2, ServedKinds, WrittenKinds DEF Kinds
  <2>4. jobs' \in [Jobs -> SomeJob]
    <3>1. PICK n \in Nat : n = Len(files')
      BY <2>3
    <3>2. jobs' = [jobs EXCEPT ![j].at = "record", ![j].source = source, ![j].id = n]
      BY <1>1, <3>1 DEF Take
    <3>3. [jobs[j] EXCEPT !.at = "record", !.source = source, !.id = n] \in SomeJob
      BY <1>j, <2>1 DEF SomeJob
    <3>4. jobs' = [jobs EXCEPT ![j] = [jobs[j] EXCEPT !.at = "record", !.source = source, !.id = n]]
      BY <3>2 DEF Kinds
    <3>. QED BY <3>3, <3>4 DEF Kinds
  <2>. QED BY <1>1, <2>3, <2>4, KindsOfRest DEF Take, Kinds
<1>2. ASSUME NEW from \in {Upload} \cup Ids, Restore(p, j, from) PROVE Kinds'
  <2>1. "PRE_RESTORE" \in Sources /\ from \in Nat
    BY WorkloadFacts DEF Sources, Upload, Kinds
  <2>2. WriteFile("PRE_RESTORE", Db(p))
    BY <1>2 DEF Restore
  <2>3. files' \in Seq(SomeFile) /\ Len(files') \in Nat
    BY <2>1, <2>2, ServedKinds, WrittenKinds DEF Kinds
  <2>4. jobs' \in [Jobs -> SomeJob]
    <3>1. PICK n \in Nat : n = Len(files')
      BY <2>3
    <3> DEFINE r == [jobs[j] EXCEPT !.at = "record", !.source = "PRE_RESTORE",
                                    !.id = n, !.safety = n, !.from = from]
    <3>2. jobs' = [jobs EXCEPT ![j].at = "record", ![j].source = "PRE_RESTORE",
                               ![j].id = n, ![j].safety = n, ![j].from = from]
      BY <1>2, <3>1 DEF Restore
    <3>3. jobs' = [jobs EXCEPT ![j] = r]
      BY <3>2 DEF Kinds
    <3>4. r \in SomeJob
      BY <1>j, <2>1 DEF SomeJob
    <3>. HIDE DEF r
    <3>. QED BY <3>3, <3>4 DEF Kinds
  <2>. QED BY <1>2, <2>3, <2>4, KindsOfRest DEF Restore, Kinds
<1>3. CASE Record(p, j)
  <2>1. disk' \in Seq(SomeDatabase) /\ disk' # << >>
    <3>1. PICK file : file = procs[p].file
      OBVIOUS
    <3>2. PICK ids : ids = disk[file].listed \cup {jobs[j].id}
      OBVIOUS
    <3>3. disk' = [disk EXCEPT ![file].listed = ids]
      BY <1>3, <3>1, <3>2 DEF Record
    <3>4. jobs[j].id \in Nat
      BY <1>j DEF SomeJob
    <3>5. file \in DOMAIN disk => ids \in Numbers
      BY <3>2, <3>4, ListedAreNumbers DEF Kinds
    <3>. QED BY <3>3, <3>5, ListingKeepsKinds DEF Kinds
  <2>2. files' \in Seq(SomeFile)
    <3>1. PICK now \in Nat : now = Now
      BY NowIsPositive DEF Kinds
    <3>2. files' = [files EXCEPT ![jobs[j].id].created = now]
      BY <1>3, <3>1 DEF Record
    <3>. QED BY <3>2, FilesKeepKinds DEF Kinds
  <2>3. jobs' \in [Jobs -> SomeJob]
    <3>1. PICK at : at = AfterRecord(jobs[j])
      OBVIOUS
    <3>2. at \in {"select", "adopt", "stage"}
      BY <3>1 DEF AfterRecord
    <3>3. jobs' = [jobs EXCEPT ![j].at = at]
      BY <1>3, <3>1 DEF Record
    <3>. QED BY <3>2, <3>3 DEF Kinds, SomeJob
  <2>. QED BY <1>3, <2>1, <2>2, <2>3, KindsOfRest DEF Record, Kinds
<1>4. CASE Adopt(p, j)
  <2>1. "IMPORTED" \in Sources
    BY DEF Sources
  <2>2. WriteFile("IMPORTED", Blank) /\ Blank.data \in Nat /\ Blank.listed \in Numbers
    BY <1>4 DEF Adopt, Blank, Numbers
  <2>3. files' \in Seq(SomeFile) /\ Len(files') \in Nat
    BY <2>1, <2>2, WrittenKinds DEF Kinds
  <2>4. jobs' \in [Jobs -> SomeJob]
    <3>1. PICK n \in Nat : n = Len(files')
      BY <2>3
    <3>2. jobs' = [jobs EXCEPT ![j].at = "record", ![j].source = "IMPORTED", ![j].id = n]
      BY <1>4, <3>1 DEF Adopt
    <3>. QED BY <3>2, <2>1, ZenonT(40) DEF Kinds, SomeJob
  <2>. QED BY <1>4, <2>3, <2>4, KindsOfRest DEF Adopt, Kinds
<1>5. CASE Stage(p, j)
  <2>1. PICK from : from = jobs[j].from
    OBVIOUS
  <2>2. CASE from = Upload \/ There(from)
    <3>1. /\ pending' = [whole |-> FALSE, data |-> Content(from).data,
                         listed |-> Content(from).listed,
                         from |-> from, safety |-> jobs[j].safety]
          /\ jobs' = [jobs EXCEPT ![j].at = "copy"]
      BY <1>5, <2>1, <2>2 DEF Stage
    <3>2. pending' \in SomeStaged
      BY <3>1, <2>1, <2>2, <1>j, ContentKinds DEF SomeStaged, SomeJob
    <3>3. jobs' \in [Jobs -> SomeJob]
      BY <3>1 DEF Kinds, SomeJob
    <3>. QED BY <1>5, <3>2, <3>3, KindsOfRest DEF Stage, Kinds
  <2>3. CASE ~(from = Upload \/ There(from))
    <3>1. jobs' = [jobs EXCEPT ![j] = NoJob] /\ UNCHANGED pending
      BY <1>5, <2>1, <2>3 DEF Stage
    <3>. QED BY <1>5, <1>n, <3>1, KindsOfRest DEF Stage, Kinds
  <2>. QED BY <2>2, <2>3
<1>6. CASE Copied(p, j)
  <2>1. pending' # None => pending' \in SomeStaged
    BY <1>6 DEF Copied, Kinds, SomeStaged
  <2>. QED BY <1>6, <1>n, <2>1, KindsOfRest DEF Copied, Kinds
<1>7. CASE SelectSurplus(p, j)
  <2>1. Evictable(p, j) \in Numbers
    BY ServedKinds DEF Evictable, Surplus, Numbers
  <2>2. jobs' \in [Jobs -> SomeJob]
    <3>1. PICK e \in Numbers : e = Evictable(p, j)
      BY <2>1
    <3>2. jobs' = [jobs EXCEPT ![j].at = "prune", ![j].evict = e]
      BY <1>7, <3>1 DEF SelectSurplus
    <3>. QED BY <3>2 DEF Kinds, SomeJob
  <2>. QED BY <1>7, <2>2, KindsOfRest DEF SelectSurplus, Kinds
<1>8. CASE PruneFile(p, j)
  <2>1. PICK i : files' = [files EXCEPT ![i].there = FALSE]
    BY <1>8 DEF PruneFile, Without
  <2>2. files' \in Seq(SomeFile)
    BY <2>1, FilesKeepKinds DEF Kinds
  <2>. QED BY <1>8, <2>2, KindsOfRest DEF PruneFile, Kinds
<1>9. CASE PruneRow(p, j)
  <2>1. PICK i \in jobs[j].evict :
          /\ disk' = [disk EXCEPT ![procs[p].file].listed = @ \ {i}]
          /\ jobs' = [jobs EXCEPT ![j].evict = @ \ {i}]
    BY <1>9 DEF PruneRow
  <2>2. disk' \in Seq(SomeDatabase) /\ disk' # << >>
    <3>1. PICK file : file = procs[p].file
      OBVIOUS
    <3>2. PICK ids : ids = disk[file].listed \ {i}
      OBVIOUS
    <3>3. disk' = [disk EXCEPT ![file].listed = ids]
      BY <2>1, <3>1, <3>2
    <3>4. i \in Nat
      BY <1>j, <2>1 DEF SomeJob, Numbers
    <3>5. file \in DOMAIN disk => ids \in Numbers
      BY <3>2, <3>4, ListedAreNumbers DEF Kinds
    <3>. QED BY <3>3, <3>5, ListingKeepsKinds DEF Kinds
  <2>3. jobs' \in [Jobs -> SomeJob]
    BY <2>1, <1>j DEF Kinds, SomeJob, Numbers
  <2>. QED BY <1>9, <2>2, <2>3, KindsOfRest DEF PruneRow, Kinds
<1>10. CASE Pruned(p, j)
  BY <1>10, <1>n, KindsOfRest DEF Pruned, Kinds
<1>. QED BY <1>1, <1>2, <1>3, <1>4, <1>5, <1>6, <1>7, <1>8, <1>9, <1>10 DEF Work

-----------------------------------------------------------------------------
(* One backend, that dies only while it serves.                             *)

Serving(p) == procs[p].at \in {"serving", "tx"}

(* A backend that serves has the file at the path open; otherwise no job is *)
(* under way.  A journal belongs to the file at the path, but for the       *)
(* moment between the rename and the removal of the sidecars; and what is   *)
(* about to be renamed is a complete copy.                                  *)
Orderly ==
    /\ NeverCorrupt
    /\ \A p \in Procs :
        /\ procs[p].at # "clean" => journal \in {None, Path}
        /\ Serving(p) => procs[p].file = Path
        /\ procs[p].at = "swap" /\ pending # None => pending.whole
        /\ ~Serving(p) => \A j \in Jobs : jobs[j] = NoJob

(* What a startup has read before the swap is in the file it ends with.     *)
KeysAreCarried ==
    \A p \in Procs :
        /\ procs[p].at = "down" => ~procs[p].carried
        /\ procs[p].at = "swap" => procs[p].carried = (~Hot /\ disk[Path].credentials)
        /\ procs[p].at \in {"lock", "open", "serving", "tx"} /\ procs[p].carried =>
              disk[Path].credentials

LEMMA OnlyOne ==
    ASSUME workload \in Workloads, Alone, NEW p \in Procs
    PROVE  Procs = {p}
<1>1. IsFiniteSet(Procs)
  BY WorkloadFacts
<1>2. PICK q : Procs = {q}
  BY <1>1, FS_Singleton DEF Alone
<1>. QED BY <1>2

LEMMA StaysAlone == ASSUME workload' = workload PROVE Alone' <=> Alone
  BY DEF Alone, Procs, DiesIn, Requests

(* While a backend serves, the file at the path stays the one it is, no     *)
(* file becomes corrupt and no key goes.                                    *)
DiskIsServed ==
    /\ Path' = Path /\ DOMAIN disk' = DOMAIN disk
    /\ \A f \in DOMAIN disk :
         /\ disk'[f].sound = disk[f].sound
         /\ disk[f].credentials => disk'[f].credentials

LEMMA ReplacedIsServed ==
    ASSUME disk \in Seq(SomeDatabase), NEW n, NEW x,
           n \in DOMAIN disk => /\ x \in SomeDatabase
                                /\ x.sound = disk[n].sound
                                /\ disk[n].credentials => x.credentials,
           disk' = [disk EXCEPT ![n] = x]
    PROVE  DiskIsServed
<1>1. /\ Len(disk') = Len(disk) /\ DOMAIN disk' = DOMAIN disk
      /\ n \in DOMAIN disk => disk'[n] = x
      /\ \A i \in DOMAIN disk \ {n} : disk'[i] = disk[i]
  BY ReplaceOne
<1>2. ASSUME NEW f \in DOMAIN disk
      PROVE  /\ disk'[f].sound = disk[f].sound
             /\ disk[f].credentials => disk'[f].credentials
  <2>1. CASE f = n
    BY <1>1, <2>1
  <2>2. CASE f # n
    BY <1>1, <2>2
  <2>. QED BY <2>1, <2>2
<1>. QED BY <1>1, <1>2 DEF DiskIsServed, Path

LEMMA ListingIsServed ==
    ASSUME Kinds, NEW n, NEW ids, n \in DOMAIN disk => ids \in Numbers,
           disk' = [disk EXCEPT ![n].listed = ids]
    PROVE  DiskIsServed
<1> DEFINE x == [disk[n] EXCEPT !.listed = ids]
<1>1. disk \in [1..Len(disk) -> SomeDatabase] /\ DOMAIN disk = 1..Len(disk)
  BY LenProperties DEF Kinds
<1>2. n \in DOMAIN disk => /\ x \in SomeDatabase
                           /\ x.sound = disk[n].sound
                           /\ disk[n].credentials => x.credentials
  BY <1>1 DEF SomeDatabase
<1>3. disk' = [disk EXCEPT ![n] = x]
  BY <1>1
<1>. HIDE DEF x
<1>. QED BY <1>2, <1>3, ReplacedIsServed DEF Kinds

LEMMA ServedDisk ==
    ASSUME Kinds, NEW p \in Procs,
           Serve(p) \/ Die(p) \/ \E j \in Jobs : Work(p, j)
    PROVE  DiskIsServed
<1>0. CASE UNCHANGED disk
  BY <1>0 DEF DiskIsServed, Path
<1>1. ASSUME NEW credentials \in BOOLEAN, CommitWrite(p, credentials) PROVE DiskIsServed
  <2>1. PICK w \in Nat : w = writes + 1
    BY DEF Kinds
  <2>2. PICK n : n = procs[p].file
    OBVIOUS
  <2> DEFINE x == [disk[n] EXCEPT !.data = w, !.credentials = @ \/ credentials]
  <2>3. disk \in [1..Len(disk) -> SomeDatabase] /\ DOMAIN disk = 1..Len(disk)
    BY LenProperties DEF Kinds
  <2>4. n \in DOMAIN disk => /\ x \in SomeDatabase
                             /\ x.sound = disk[n].sound
                             /\ disk[n].credentials => x.credentials
    BY <2>3 DEF SomeDatabase
  <2>5. disk' = [disk EXCEPT ![n].data = w, ![n].credentials = @ \/ credentials]
    BY <1>1, <2>1, <2>2 DEF CommitWrite
  <2>6. disk' = [disk EXCEPT ![n] = x]
    BY <2>3, <2>5
  <2>. HIDE DEF x
  <2>. QED BY <2>4, <2>6, ReplacedIsServed DEF Kinds
<1>2. ASSUME NEW i \in Ids, Delete(p, i) PROVE DiskIsServed
  <2>1. PICK n : n = procs[p].file
    OBVIOUS
  <2>2. PICK ids : ids = disk[n].listed \ {i}
    OBVIOUS
  <2>3. disk' = [disk EXCEPT ![n].listed = ids]
    BY <1>2, <2>1, <2>2 DEF Delete
  <2>4. n \in DOMAIN disk => ids \in Numbers
    BY <2>2, WorkloadFacts, ListedAreNumbers DEF Kinds
  <2>. QED BY <2>3, <2>4, ListingIsServed
<1>3. ASSUME NEW j \in Jobs, Record(p, j) PROVE DiskIsServed
  <2>1. PICK n : n = procs[p].file
    OBVIOUS
  <2>2. PICK ids : ids = disk[n].listed \cup {jobs[j].id}
    OBVIOUS
  <2>3. disk' = [disk EXCEPT ![n].listed = ids]
    BY <1>3, <2>1, <2>2 DEF Record
  <2>4. jobs[j].id \in Nat
    BY DEF SomeJob, Kinds
  <2>5. n \in DOMAIN disk => ids \in Numbers
    BY <2>2, <2>4, ListedAreNumbers DEF Kinds
  <2>. QED BY <2>3, <2>5, ListingIsServed
<1>4. ASSUME NEW j \in Jobs, PruneRow(p, j) PROVE DiskIsServed
  <2>1. PICK i \in jobs[j].evict : disk' = [disk EXCEPT ![procs[p].file].listed = @ \ {i}]
    BY <1>4 DEF PruneRow
  <2>2. PICK n : n = procs[p].file
    OBVIOUS
  <2>3. PICK ids : ids = disk[n].listed \ {i}
    OBVIOUS
  <2>4. disk' = [disk EXCEPT ![n].listed = ids]
    BY <2>1, <2>2, <2>3
  <2>5. i \in Nat
    BY <2>1 DEF SomeJob, Kinds, Numbers
  <2>6. n \in DOMAIN disk => ids \in Numbers
    BY <2>3, <2>5, ListedAreNumbers DEF Kinds
  <2>. QED BY <2>4, <2>6, ListingIsServed
<1>5. CASE Serve(p)
  BY <1>0, <1>1, <1>2, <1>5 DEF Serve, BeginWrite
<1>6. CASE Die(p)
  BY <1>0, <1>6 DEF Die
<1>7. ASSUME NEW j \in Jobs, Work(p, j) PROVE DiskIsServed
  <2>1. Record(p, j) \/ PruneRow(p, j) \/ UNCHANGED disk
    BY <1>7 DEF Work, Take, Restore, Adopt, Stage, Copied, SelectSurplus, PruneFile, Pruned
  <2>. QED BY <1>0, <1>3, <1>4, <2>1
<1>. QED BY <1>5, <1>6, <1>7

(* What is to be shown of the one backend there is.                         *)
LEMMA OrderlyOfOne ==
    ASSUME workload \in Workloads, workload' = workload, Alone, NEW p \in Procs,
           NeverCorrupt',
           procs'[p].at # "clean" => journal' \in {None, Path'},
           procs'[p].at \in {"serving", "tx"} => procs'[p].file = Path',
           procs'[p].at = "swap" /\ pending' # None => pending'.whole,
           procs'[p].at \notin {"serving", "tx"} => \A j \in Jobs : jobs'[j] = NoJob
    PROVE  Orderly'
<1>1. Procs' = Procs /\ Jobs' = Jobs /\ Procs = {p}
  BY OnlyOne DEF Procs, Jobs
<1>. QED BY <1>1 DEF Orderly, Serving

LEMMA KeysOfOne ==
    ASSUME workload \in Workloads, workload' = workload, Alone, NEW p \in Procs,
           procs'[p].at = "down" => ~procs'[p].carried,
           procs'[p].at = "swap" => procs'[p].carried = (~Hot' /\ disk'[Path'].credentials),
           procs'[p].at \in {"lock", "open", "serving", "tx"} /\ procs'[p].carried =>
              disk'[Path'].credentials
    PROVE  KeysAreCarried'
<1>1. Procs' = Procs /\ Procs = {p}
  BY OnlyOne DEF Procs
<1>. QED BY <1>1 DEF KeysAreCarried

LEMMA NotServing ==
    ASSUME Kinds, Orderly, NEW p \in Procs, procs[p].at \in Startup \cup {"down"}
    PROVE  \A j \in Jobs : jobs[j] = NoJob
  BY DEF Orderly, Serving, Startup

(* A place that is changed, and a place that is changed with the file.      *)
LEMMA Moved ==
    ASSUME Kinds, NEW p \in Procs, NEW at, Goto(p, at)
    PROVE  /\ procs'[p].at = at /\ procs'[p].file = procs[p].file
           /\ procs'[p].carried = procs[p].carried
<1>1. procs[p] \in SomeProc /\ procs' = [procs EXCEPT ![p] = [procs[p] EXCEPT !.at = at]]
  BY DEF Kinds, Goto
<1>2. procs'[p] = [procs[p] EXCEPT !.at = at]
  BY <1>1 DEF Kinds
<1>. QED BY <1>1, <1>2 DEF SomeProc

(* A startup, through a swap or not.                                       *)
LEMMA StartUpOrder ==
    ASSUME Kinds, workload' = workload, Alone, Orderly, KeysAreCarried, NEW p \in Procs, StartUp(p)
    PROVE  Orderly' /\ KeysAreCarried'
<1>. workload \in Workloads
  BY DEF Kinds
<1>p. procs[p] \in SomeProc /\ p \in DOMAIN procs
  BY DEF Kinds
<1>o. Procs = {p} /\ Procs' = Procs
  BY OnlyOne DEF Procs
<1>h. procs[p].at # "tx" => Hot = (journal # None)
  BY <1>o DEF Hot
<1>h2. procs'[p].at # "tx" => Hot' = (journal' # None)
  BY <1>o DEF Hot
<1>j. procs[p].at # "clean" => journal \in {None, Path}
  BY DEF Orderly
<1>d. UNCHANGED disk => (NeverCorrupt' /\ Path' = Path)
  BY DEF Orderly, NeverCorrupt, Path
<1>s. Path \in DOMAIN disk /\ disk[Path] \in SomeDatabase /\ disk[Path].sound
  BY PathIsThere DEF Orderly, NeverCorrupt
<1>1. CASE Launch(p)
  <2>1. procs[p].at = "down" /\ (\A j \in Jobs : jobs[j] = NoJob) /\ ~procs[p].carried
    BY <1>1, NotServing DEF Launch, KeysAreCarried
  <2>2. procs'[p].at \in {"lock", "staged"} /\ procs'[p].carried = procs[p].carried
    BY <1>1, Moved DEF Launch
  <2>3. UNCHANGED <<disk, journal, pending, jobs>>
    BY <1>1 DEF Launch
  <2>4. Orderly'
    BY <1>j, <1>d, <2>1, <2>2, <2>3, OrderlyOfOne
  <2>. QED BY <2>1, <2>2, <2>4, KeysOfOne
<1>2. CASE ReadStaged(p)
  <2>1. procs[p].at = "staged" /\ \A j \in Jobs : jobs[j] = NoJob
    BY <1>2, NotServing DEF ReadStaged, Startup
  <2>2. UNCHANGED <<disk, journal, pending, jobs>>
    BY <1>2 DEF ReadStaged
  <2>3. CASE pending = None \/ ~pending.whole
    <3>1. procs'[p] = Down
      BY <1>2, <1>p, <2>3 DEF ReadStaged
    <3>2. procs'[p].at = "down" /\ procs'[p].carried = FALSE
      BY <3>1 DEF Down
    <3>3. Orderly'
      BY <1>j, <1>d, <2>1, <2>2, <3>2, OrderlyOfOne
    <3>. QED BY <3>2, <3>3, KeysOfOne
  <2>4. CASE ~(pending = None \/ ~pending.whole)
    <3>1. PICK carried \in BOOLEAN : carried = (~Hot /\ disk[Path].credentials)
      OBVIOUS
    <3>2. procs'[p] = [procs[p] EXCEPT !.at = "swap", !.carried = carried]
      BY <1>2, <1>p, <2>4, <3>1 DEF ReadStaged
    <3>3. procs'[p].at = "swap" /\ procs'[p].carried = carried
      BY <3>2, <1>p DEF SomeProc
    <3>4. Orderly'
      BY <1>j, <1>d, <2>1, <2>2, <2>4, <3>3, OrderlyOfOne
    <3>5. Hot' = Hot /\ disk'[Path'] = disk[Path]
      BY <1>h, <1>h2, <1>d, <2>1, <2>2, <3>3
    <3>. QED BY <3>1, <3>3, <3>4, <3>5, KeysOfOne
  <2>. QED BY <2>3, <2>4
<1>3. CASE Swap(p)
  <2>1. procs[p].at = "swap" /\ \A j \in Jobs : jobs[j] = NoJob
    BY <1>3, NotServing DEF Swap, Startup
  <2>2. UNCHANGED <<journal, jobs>>
    BY <1>3 DEF Swap
  <2>3. CASE pending = None
    <3>1. procs'[p].at = "down" /\ procs'[p].carried = FALSE /\ UNCHANGED <<disk, pending>>
      BY <1>3, <1>p, <2>3 DEF Swap, Down
    <3>2. Orderly'
      BY <1>j, <1>d, <2>1, <2>2, <3>1, OrderlyOfOne
    <3>. QED BY <3>1, <3>2, KeysOfOne
  <2>4. CASE pending # None
    <3> DEFINE x == [data |-> pending.data, credentials |-> FALSE,
                     listed |-> pending.listed, sound |-> pending.whole]
    <3>1. x \in SomeDatabase /\ x.sound
      BY <2>1, <2>4 DEF Kinds, SomeStaged, SomeDatabase, Orderly
    <3>2. disk' = Append(disk, x) /\ procs'[p].at = "clean"
      BY <1>3, <2>4, Moved DEF Swap
    <3>. HIDE DEF x
    <3>3. NeverCorrupt'
      <4>1. /\ DOMAIN disk' = DOMAIN disk \cup {Len(disk) + 1}
            /\ disk'[Len(disk) + 1] = x
            /\ \A i \in DOMAIN disk : disk'[i] = disk[i]
        BY <3>1, <3>2, OneMoreElement DEF Kinds
      <4>. QED BY <3>1, <4>1 DEF Orderly, NeverCorrupt
    <3>4. Orderly'
      BY <2>1, <2>2, <3>2, <3>3, OrderlyOfOne
    <3>. QED BY <3>2, <3>4, KeysOfOne
  <2>. QED BY <2>3, <2>4
<1>4. CASE Clean(p)
  <2>1. procs[p].at = "clean" /\ \A j \in Jobs : jobs[j] = NoJob
    BY <1>4, NotServing DEF Clean, Startup
  <2>2. UNCHANGED <<disk, jobs>> /\ journal' = None /\ procs'[p].at = "credentials"
    BY <1>4, Moved DEF Clean
  <2>3. Orderly'
    BY <1>d, <2>1, <2>2, OrderlyOfOne
  <2>. QED BY <2>2, <2>3, KeysOfOne
<1>5. CASE CarryCredentials(p)
  <2>1. procs[p].at = "credentials" /\ \A j \in Jobs : jobs[j] = NoJob
    BY <1>5, NotServing DEF CarryCredentials, Startup
  <2>2. /\ procs'[p].at = "lock" /\ procs'[p].carried = procs[p].carried
        /\ UNCHANGED <<pending, jobs>>
    BY <1>5, Moved DEF CarryCredentials
  <2>3. CASE procs[p].carried
    <3> DEFINE x == [Recovered(disk[Path]) EXCEPT !.credentials = TRUE]
    <3>1. x \in SomeDatabase
      BY <1>s, RecoveredKeepsKinds
    <3>2. x.sound /\ x.credentials
      BY <1>j, <1>h, <1>s, <2>1 DEF Recovered, SomeDatabase
    <3>3. disk' = [disk EXCEPT ![Path] = x]
      BY <1>5, <2>3 DEF CarryCredentials
    <3>4. journal' \in {None, Path}
      BY <1>5, <1>j, <2>1, <2>3 DEF CarryCredentials
    <3>. HIDE DEF x
    <3>5. /\ Len(disk') = Len(disk) /\ DOMAIN disk' = DOMAIN disk
          /\ disk'[Path] = x
          /\ \A i \in DOMAIN disk \ {Path} : disk'[i] = disk[i]
      BY <1>s, <3>1, <3>3, ReplaceOne DEF Kinds
    <3>6. NeverCorrupt' /\ Path' = Path
      BY <3>2, <3>5 DEF Orderly, NeverCorrupt, Path
    <3>7. Orderly'
      BY <2>1, <2>2, <3>4, <3>6, OrderlyOfOne
    <3>. QED BY <2>2, <3>2, <3>5, <3>6, <3>7, KeysOfOne
  <2>4. CASE ~procs[p].carried
    <3>1. UNCHANGED <<disk, journal>>
      BY <1>5, <2>4 DEF CarryCredentials
    <3>2. Orderly'
      BY <1>j, <1>d, <2>1, <2>2, <3>1, OrderlyOfOne
    <3>. QED BY <2>2, <2>4, <3>2, KeysOfOne
  <2>. QED BY <2>3, <2>4
<1>6. CASE Lock(p)
  <2>1. procs[p].at = "lock" /\ \A j \in Jobs : jobs[j] = NoJob
    BY <1>6, NotServing DEF Lock, Startup
  <2>2. UNCHANGED <<disk, journal, pending, jobs>>
    BY <1>6 DEF Lock
  <2>3. \/ procs'[p].at = "down" /\ procs'[p].carried = FALSE
        \/ procs'[p].at = "open" /\ procs'[p].carried = procs[p].carried
    BY <1>6, <1>p, Moved DEF Lock, Down
  <2>4. Orderly'
    BY <1>j, <1>d, <2>1, <2>2, <2>3, OrderlyOfOne
  <2>5. procs[p].carried => disk[Path].credentials
    BY <2>1 DEF KeysAreCarried
  <2>. QED BY <1>d, <2>2, <2>3, <2>4, <2>5, KeysOfOne
<1>7. CASE Open(p)
  <2>1. procs[p].at = "open" /\ \A j \in Jobs : jobs[j] = NoJob
    BY <1>7, NotServing DEF Open, Startup
  <2> DEFINE x == Recovered(disk[Path])
  <2>2. x \in SomeDatabase
    BY <1>s, RecoveredKeepsKinds
  <2>3. x.sound /\ x.credentials = disk[Path].credentials
    BY <1>j, <1>h, <1>s, <2>1 DEF Recovered, SomeDatabase
  <2>4. disk' = [disk EXCEPT ![Path] = x]
    BY <1>7 DEF Open
  <2>5. journal' \in {None, Path} /\ UNCHANGED pending
    BY <1>7, <1>j, <2>1 DEF Open
  <2>. HIDE DEF x
  <2>6. /\ Len(disk') = Len(disk) /\ DOMAIN disk' = DOMAIN disk
        /\ disk'[Path] = x
        /\ \A i \in DOMAIN disk \ {Path} : disk'[i] = disk[i]
    BY <1>s, <2>2, <2>4, ReplaceOne DEF Kinds
  <2>7. NeverCorrupt' /\ Path' = Path
    BY <2>3, <2>6 DEF Orderly, NeverCorrupt, Path
  <2>8. /\ procs'[p].at = "serving" /\ procs'[p].file = Path
        /\ procs'[p].carried = procs[p].carried
    <3>1. PICK path : path = Path
      OBVIOUS
    <3>2. procs'[p] = [procs[p] EXCEPT !.at = "serving", !.file = path]
      BY <1>7, <1>p, <3>1 DEF Open
    <3>. QED BY <1>p, <3>1, <3>2 DEF SomeProc
  <2>9. Orderly'
    BY <2>5, <2>7, <2>8, OrderlyOfOne
  <2>10. procs[p].carried => disk[Path].credentials
    BY <2>1 DEF KeysAreCarried
  <2>. QED BY <2>3, <2>6, <2>7, <2>8, <2>9, <2>10, KeysOfOne
<1>. QED BY <1>1, <1>2, <1>3, <1>4, <1>5, <1>6, <1>7 DEF StartUp

(* Service, which ends with the process.                                    *)
LEMMA ServiceOrder ==
    ASSUME Kinds, workload' = workload, Alone, Orderly, KeysAreCarried, NEW p \in Procs,
           Serve(p) \/ Die(p) \/ \E j \in Jobs : Work(p, j)
    PROVE  Orderly' /\ KeysAreCarried'
<1>. workload \in Workloads
  BY DEF Kinds
<1>p. procs[p] \in SomeProc /\ p \in DOMAIN procs
  BY DEF Kinds
<1>o. Procs = {p} /\ Procs' = Procs
  BY OnlyOne DEF Procs
<1>d. Path' = Path /\ NeverCorrupt' /\ (disk[Path].credentials => disk'[Path].credentials)
  BY ServedDisk, PathIsThere DEF DiskIsServed, Orderly, NeverCorrupt
<1>s. procs[p].at \in {"serving", "tx"}
  <2>1. CASE Serve(p)
    BY <2>1 DEF Serve, BeginWrite, CommitWrite, Delete
  <2>2. CASE Die(p)
    BY <2>2 DEF Die, Alone
  <2>3. CASE \E j \in Jobs : Work(p, j)
    BY <2>3 DEF Work
  <2>. QED BY <2>1, <2>2, <2>3
<1>f. /\ procs[p].file = Path /\ journal \in {None, Path}
      /\ procs[p].carried => disk[Path].credentials
  BY <1>s DEF Orderly, Serving, KeysAreCarried
<1>1. CASE Serve(p)
  <2>1. /\ procs'[p].at \in {"serving", "tx"} /\ procs'[p].file = procs[p].file
        /\ procs'[p].carried = procs[p].carried
    BY <1>s, <1>1, Moved DEF Serve, BeginWrite, CommitWrite, Delete
  <2>2. journal' \in {None, Path}
    BY <1>1, <1>f DEF Serve, BeginWrite, CommitWrite, Delete
  <2>3. Orderly'
    BY <1>d, <1>f, <2>1, <2>2, OrderlyOfOne
  <2>. QED BY <1>d, <1>f, <2>1, <2>3, KeysOfOne
<1>2. CASE Die(p)
  <2>1. procs'[p] = Down /\ UNCHANGED journal /\ \A j \in Jobs : jobs'[j] = NoJob
    BY <1>2, <1>p, <1>s DEF Die
  <2>2. procs'[p].at = "down" /\ procs'[p].carried = FALSE
    BY <2>1 DEF Down
  <2>3. Orderly'
    BY <1>d, <1>f, <2>1, <2>2, OrderlyOfOne
  <2>. QED BY <2>2, <2>3, KeysOfOne
<1>3. CASE \E j \in Jobs : Work(p, j)
  <2>1. UNCHANGED <<procs, journal>>
    BY <1>3, ZenonT(40) DEF Work, Take, Restore, Record, Adopt, Stage, Copied, SelectSurplus, PruneFile,
                PruneRow, Pruned
  <2>2. Orderly'
    BY <1>d, <1>f, <1>s, <2>1, OrderlyOfOne
  <2>. QED BY <1>d, <1>f, <1>s, <2>1, <2>2, KeysOfOne
<1>. QED BY <1>1, <1>2, <1>3

-----------------------------------------------------------------------------
(* The kinds of things and the order of a lone backend, together.           *)
Order == workload \in Workloads /\ (Alone => Kinds /\ Orderly /\ KeysAreCarried)

LEMMA InitOrder == Init => Order
<1>. SUFFICES ASSUME Init PROVE Orderly /\ KeysAreCarried
  BY InitKinds DEF Order, Kinds
<1>1. /\ \A p \in Procs : procs[p].at = "down" /\ procs[p].carried = FALSE
      /\ \A j \in Jobs : jobs[j] = NoJob
  BY DEF Init, Down
<1>2. NeverCorrupt
  BY DEF Init, NeverCorrupt
<1>. QED BY <1>1, <1>2 DEF Init, Orderly, KeysAreCarried, Serving

LEMMA OrderStep == Order /\ [Next]_vars => Order'
<1>. SUFFICES ASSUME Order, [Next]_vars PROVE Order'
  OBVIOUS
<1>1. workload' = workload /\ workload \in Workloads
  BY DEF Next, vars, Order
<1>. SUFFICES ASSUME Alone PROVE Kinds' /\ Orderly' /\ KeysAreCarried'
  BY <1>1, StaysAlone DEF Order
<1>2. Kinds /\ Orderly /\ KeysAreCarried
  BY DEF Order
<1>3. CASE UNCHANGED vars
  BY <1>2, <1>3
     DEF vars, Kinds, Orderly, KeysAreCarried, NeverCorrupt, Serving, Path, Hot, Procs, Jobs
<1>4. ASSUME NEW p \in Procs,
             StartUp(p) \/ Serve(p) \/ Die(p) \/ \E j \in Jobs : Work(p, j)
      PROVE  Kinds' /\ Orderly' /\ KeysAreCarried'
  <2>1. CASE StartUp(p)
    BY <1>1, <1>2, <2>1, StartUpKinds, StartUpOrder
  <2>2. CASE Serve(p)
    BY <1>1, <1>2, <2>2, ServeKinds, ServiceOrder
  <2>3. CASE Die(p)
    BY <1>1, <1>2, <2>3, DieKinds, ServiceOrder
  <2>4. ASSUME NEW j \in Jobs, Work(p, j) PROVE Kinds' /\ Orderly' /\ KeysAreCarried'
    <3>1. procs[p].file = Path
      BY <1>2, <2>4 DEF Work, Orderly, Serving
    <3>2. procs[p].file \in DOMAIN disk
      BY <1>2, <3>1, PathIsThere
    <3>. QED BY <1>1, <1>2, <2>4, <3>2, WorkKinds, ServiceOrder
  <2>. QED BY <1>4, <2>1, <2>2, <2>3, <2>4
<1>. QED BY <1>3, <1>4 DEF Next

(* No foreign journal is rolled back into a database and no partial copy    *)
(* becomes one, over any number of restores, whenever the one backend dies  *)
(* while it serves (apply_staged_restore).                                  *)
THEOREM SwapsAreClean == Spec => []SwapIsClean
<1>1. Order => SwapIsClean
  BY DEF Order, SwapIsClean, Orderly
<1>. QED BY <1>1, InitOrder, OrderStep, PTL DEF Spec

(* Stored keys come through every restore, unless a journal is in the way   *)
(* of reading them (read_credentials and write_credentials of               *)
(* apply_staged_restore).                                                   *)
THEOREM CredentialsAreKept == Spec => []CredentialsSurvive
<1>1. Order => CredentialsSurvive
  <2>. SUFFICES ASSUME Order, Alone, NEW p \in Procs
                PROVE  /\ procs[p].at = "swap" /\ ~Hot =>
                             procs[p].carried = disk[Path].credentials
                       /\ procs[p].at \in {"serving", "tx"} /\ procs[p].carried =>
                             Db(p).credentials
    BY DEF CredentialsSurvive
  <2>1. Kinds /\ Orderly /\ KeysAreCarried
    BY DEF Order
  <2>2. disk[Path].credentials \in BOOLEAN
    BY <2>1, PathIsThere DEF SomeDatabase
  <2>3. procs[p].at \in {"serving", "tx"} => Db(p) = disk[Path]
    BY <2>1 DEF Orderly, Serving, Db
  <2>. QED BY <2>1, <2>2, <2>3 DEF KeysAreCarried
<1>. QED BY <1>1, InitOrder, OrderStep, PTL DEF Spec

-----------------------------------------------------------------------------
(* The backups of a lone backend.                                           *)

(* It has a row, or had one.                                                *)
Stamped(i) == i \in DOMAIN files /\ files[i].created # 0

IsSnapshot(i) == i \in DOMAIN files /\ files[i].source = "PRE_RESTORE"

(* Removed, or about to be.                                                 *)
Marked(i) == \E j \in Jobs : i \in jobs[j].evict

Gone(i) == ~files[i].there \/ Marked(i)

(* The newer backups of its source that are to stay.                        *)
Successors(i) ==
    {k \in DOMAIN files : /\ ~Gone(k)
                          /\ files[k].source = files[i].source
                          /\ files[k].created > files[i].created}

ListsAreStamped ==
    /\ \A f \in DOMAIN disk : \A i \in disk[f].listed : Stamped(i)
    /\ \A f \in DOMAIN files : \A i \in files[f].listed : Stamped(i)
    /\ pending # None => \A i \in pending.listed : Stamped(i)

(* A job that records a file is the only one to, and a restore has its      *)
(* snapshot, listed once it is past the recording of it.                    *)
JobIsSound(j) ==
    /\ jobs[j].evict \subseteq DOMAIN files
    /\ jobs[j].at = "none" => jobs[j] = NoJob
    /\ jobs[j].at = "record" =>
         /\ jobs[j].id \in DOMAIN files
         /\ files[jobs[j].id].created = 0
         /\ files[jobs[j].id].source = jobs[j].source
         /\ jobs[j].source = "PRE_RESTORE" => jobs[j].safety = jobs[j].id
         /\ jobs[j].source \notin Routine => jobs[j].safety # 0
    /\ jobs[j].at = "select" => jobs[j].source \in Routine
    /\ jobs[j].at \in {"adopt", "stage"} => jobs[j].safety # 0
    /\ jobs[j].safety # 0 =>
         /\ IsSnapshot(jobs[j].safety)
         /\ \/ jobs[j].at = "record" /\ jobs[j].source = "PRE_RESTORE"
            \/ jobs[j].safety \in disk[Path].listed

RecordsDiffer ==
    \A j, k \in Jobs :
        jobs[j].at = "record" /\ jobs[k].at = "record" /\ jobs[j].id = jobs[k].id => j = k

StagedIsSound ==
    pending # None => IsSnapshot(pending.safety) /\ pending.safety \in disk[Path].listed

(* Retention as it stands before the property can tell: what is marked is   *)
(* as good as gone, and Retention that are not marked come after it.        *)
GoneHasSuccessors ==
    \A i \in DOMAIN files :
        Gone(i) => /\ files[i].source \in Routine
                   /\ files[i].created # 0
                   /\ Cardinality(Successors(i)) >= Retention

Books ==
    /\ ListsAreStamped
    /\ \A j \in Jobs : JobIsSound(j)
    /\ RecordsDiffer
    /\ StagedIsSound
    /\ GoneHasSuccessors

(* What no step does to the files there are: change the source, or the time *)
(* of a row.                                                                *)
FilesGrow ==
    /\ DOMAIN files \subseteq DOMAIN files'
    /\ \A i \in DOMAIN files :
         /\ files'[i].source = files[i].source
         /\ files'[i].listed = files[i].listed
         /\ files[i].created # 0 => files'[i].created = files[i].created

ListedStay ==
    \A i : IsSnapshot(i) /\ i \in disk[Path].listed => i \in disk'[Path'].listed

LEMMA StampedStays == ASSUME FilesGrow, NEW i, Stamped(i) PROVE Stamped(i)'
  BY DEF FilesGrow, Stamped

LEMMA SnapshotStays == ASSUME FilesGrow, NEW i, IsSnapshot(i) PROVE IsSnapshot(i)'
  BY DEF FilesGrow, IsSnapshot

(* A job that a step leaves alone.                                          *)
LEMMA OtherJob ==
    ASSUME FilesGrow, ListedStay, NEW j, JobIsSound(j), jobs'[j] = jobs[j],
           jobs[j].at = "record" => files'[jobs[j].id].created = 0
    PROVE  JobIsSound(j)'
<1>1. jobs[j].safety # 0 => IsSnapshot(jobs[j].safety) /\ IsSnapshot(jobs[j].safety)'
  <2>. SUFFICES ASSUME jobs[j].safety # 0
                PROVE  IsSnapshot(jobs[j].safety) /\ IsSnapshot(jobs[j].safety)'
    OBVIOUS
  <2>1. PICK s : s = jobs[j].safety
    OBVIOUS
  <2>2. IsSnapshot(s)
    BY <2>1 DEF JobIsSound
  <2>3. IsSnapshot(s)'
    BY <2>2, SnapshotStays
  <2>4. s = jobs'[j].safety
    BY <2>1
  <2>. QED BY <2>1, <2>2, <2>3, <2>4 DEF IsSnapshot
<1>2. jobs[j].safety # 0 =>
        \/ jobs[j].at = "record" /\ jobs[j].source = "PRE_RESTORE"
        \/ jobs[j].safety \in disk'[Path'].listed
  BY <1>1 DEF JobIsSound, ListedStay
<1>3. jobs[j].evict \subseteq DOMAIN files'
  BY DEF JobIsSound, FilesGrow
<1>4. jobs[j].at = "record" => /\ jobs[j].id \in DOMAIN files'
                               /\ files'[jobs[j].id].source = files[jobs[j].id].source
  BY DEF JobIsSound, FilesGrow
<1>. QED BY <1>1, <1>2, <1>3, <1>4 DEF JobIsSound

LEMMA IdleJob == ASSUME NEW j, jobs[j] = NoJob PROVE JobIsSound(j)
  BY DEF JobIsSound, NoJob

LEMMA StagedStays ==
    ASSUME FilesGrow, ListedStay, StagedIsSound, pending' # None =>
             pending # None /\ pending'.safety = pending.safety
    PROVE  StagedIsSound'
  BY SnapshotStays DEF StagedIsSound, ListedStay, IsSnapshot, FilesGrow

(* Retention is not the worse for a step that marks nothing.                *)
LEMMA NothingIsMarked ==
    ASSUME workload \in Workloads, files \in Seq(SomeFile), files' \in Seq(SomeFile),
           FilesGrow, GoneHasSuccessors,
           \A i \in DOMAIN files' : Gone(i)' => i \in DOMAIN files /\ Gone(i)
    PROVE  GoneHasSuccessors'
<1>. SUFFICES ASSUME NEW i \in DOMAIN files', Gone(i)'
              PROVE  /\ files'[i].source \in Routine
                     /\ files'[i].created # 0
                     /\ Cardinality(Successors(i)') >= Retention
  BY DEF GoneHasSuccessors
<1>1. i \in DOMAIN files /\ Gone(i)
  OBVIOUS
<1>2. /\ files[i].source \in Routine /\ files[i].created # 0
      /\ Cardinality(Successors(i)) >= Retention
  BY <1>1 DEF GoneHasSuccessors
<1>3. files'[i].source = files[i].source /\ files'[i].created = files[i].created
  BY <1>1, <1>2 DEF FilesGrow
<1>4. Successors(i) \subseteq Successors(i)'
  <2>. SUFFICES ASSUME NEW k \in Successors(i) PROVE k \in Successors(i)'
    OBVIOUS
  <2>1. /\ k \in DOMAIN files /\ ~Gone(k)
        /\ files[k].source = files[i].source /\ files[k].created > files[i].created
    BY DEF Successors
  <2>2. files[k].created \in Nat /\ files[i].created \in Nat
    <3>1. files \in [DOMAIN files -> SomeFile]
      BY LenProperties
    <3>. QED BY <1>1, <2>1, <3>1 DEF SomeFile
  <2>3. k \in DOMAIN files' /\ files'[k].source = files[k].source
        /\ files'[k].created = files[k].created
    BY <2>1, <2>2 DEF FilesGrow
  <2>4. ~Gone(k)'
    BY <2>1, <2>3
  <2>. QED BY <1>3, <2>1, <2>3, <2>4 DEF Successors
<1>5. IsFiniteSet(Successors(i)')
  <2>1. IsFiniteSet(DOMAIN files')
    BY LenProperties, FS_Interval
  <2>2. Successors(i)' \in SUBSET DOMAIN files'
    BY DEF Successors
  <2>. QED BY <2>1, <2>2, FS_Subset
<1>6. Cardinality(Successors(i)') >= Retention
  <2>1. PICK S : S = Successors(i)
    OBVIOUS
  <2>2. PICK T : T = Successors(i)'
    OBVIOUS
  <2>3. IsFiniteSet(T) /\ S \in SUBSET T /\ Cardinality(S) >= Retention
    BY <1>2, <1>4, <1>5, <2>1, <2>2
  <2>4. Cardinality(S) <= Cardinality(T) /\ IsFiniteSet(S)
    BY <2>3, FS_Subset
  <2>5. Cardinality(S) \in Nat /\ Cardinality(T) \in Nat /\ Retention \in Nat
    BY <2>3, <2>4, FS_CardinalityType, WorkloadFacts
  <2>. QED BY <2>2, <2>3, <2>4, <2>5
<1>. QED BY <1>2, <1>3, <1>6

(* The three ways the files change.                                         *)
LEMMA FilesStand == ASSUME UNCHANGED files PROVE FilesGrow
  BY DEF FilesGrow

LEMMA WrittenFiles ==
    ASSUME files \in Seq(SomeFile), NEW source \in Sources, NEW content,
           content.data \in Nat, content.listed \in Numbers, WriteFile(source, content)
    PROVE  /\ FilesGrow
           /\ Len(files') \notin DOMAIN files /\ Len(files') # 0
           /\ DOMAIN files' = DOMAIN files \cup {Len(files')}
           /\ \A i \in DOMAIN files : files'[i] = files[i]
           /\ files'[Len(files')].source = source /\ files'[Len(files')].created = 0
           /\ files'[Len(files')].there /\ files'[Len(files')].listed = content.listed
<1> DEFINE x == [source |-> source, data |-> content.data,
                 listed |-> content.listed, created |-> 0, there |-> TRUE]
<1>1. /\ x \in SomeFile
      /\ x.source = source /\ x.created = 0 /\ x.there /\ x.listed = content.listed
  BY DEF SomeFile
<1>2. files' = Append(files, x)
  BY DEF WriteFile
<1>. HIDE DEF x
<1>3. /\ Len(files') = Len(files) + 1 /\ Len(files) + 1 \notin DOMAIN files
      /\ DOMAIN files' = DOMAIN files \cup {Len(files) + 1}
      /\ files'[Len(files) + 1] = x
      /\ \A i \in DOMAIN files : files'[i] = files[i]
  BY <1>1, <1>2, OneMoreElement
<1>4. Len(files) \in Nat
  BY LenProperties
<1>5. FilesGrow
  BY <1>3 DEF FilesGrow
<1>. QED BY <1>1, <1>3, <1>4, <1>5

LEMMA StampedFiles ==
    ASSUME files \in Seq(SomeFile), NEW n \in DOMAIN files, files[n].created = 0,
           files' = [files EXCEPT ![n].created = Now]
    PROVE  /\ FilesGrow /\ DOMAIN files' = DOMAIN files
           /\ files'[n].created # 0 /\ files'[n].there = files[n].there
           /\ \A i \in DOMAIN files \ {n} : files'[i] = files[i]
<1>1. files \in [DOMAIN files -> SomeFile]
  BY LenProperties
<1>2. PICK now \in Nat : now = Now /\ now > 0
  BY NowIsPositive
<1>3. files' = [files EXCEPT ![n].created = now]
  BY <1>2
<1>4. /\ DOMAIN files' = DOMAIN files
      /\ files'[n] = [files[n] EXCEPT !.created = now]
      /\ \A i \in DOMAIN files \ {n} : files'[i] = files[i]
  BY <1>1, <1>3
<1>5. /\ files'[n].created = now /\ files'[n].there = files[n].there
      /\ files'[n].source = files[n].source /\ files'[n].listed = files[n].listed
  BY <1>1, <1>4 DEF SomeFile
<1>6. FilesGrow
  <2>. SUFFICES ASSUME NEW i \in DOMAIN files
                PROVE  /\ files'[i].source = files[i].source
                       /\ files'[i].listed = files[i].listed
                       /\ files[i].created # 0 => files'[i].created = files[i].created
    BY <1>4 DEF FilesGrow
  <2>1. CASE i = n
    BY <1>5, <2>1
  <2>2. CASE i # n
    BY <1>4, <2>2
  <2>. QED BY <2>1, <2>2
<1>. QED BY <1>2, <1>4, <1>5, <1>6

LEMMA RemovedFile ==
    ASSUME files \in Seq(SomeFile), NEW n \in DOMAIN files, files' = Without(n)
    PROVE  /\ FilesGrow /\ DOMAIN files' = DOMAIN files
           /\ ~files'[n].there
           /\ \A i \in DOMAIN files \ {n} : files'[i] = files[i]
           /\ \A i \in DOMAIN files : files'[i].created = files[i].created
<1>1. files \in [DOMAIN files -> SomeFile]
  BY LenProperties
<1>2. files' = [files EXCEPT ![n].there = FALSE]
  BY DEF Without
<1>3. /\ DOMAIN files' = DOMAIN files
      /\ files'[n] = [files[n] EXCEPT !.there = FALSE]
      /\ \A i \in DOMAIN files \ {n} : files'[i] = files[i]
  BY <1>1, <1>2
<1>4. /\ files'[n].created = files[n].created /\ ~files'[n].there
      /\ files'[n].source = files[n].source /\ files'[n].listed = files[n].listed
  BY <1>1, <1>3 DEF SomeFile
<1>5. \A i \in DOMAIN files : /\ files'[i].source = files[i].source
                              /\ files'[i].listed = files[i].listed
                              /\ files'[i].created = files[i].created
  <2>. SUFFICES ASSUME NEW i \in DOMAIN files
                PROVE  /\ files'[i].source = files[i].source
                       /\ files'[i].listed = files[i].listed
                       /\ files'[i].created = files[i].created
    OBVIOUS
  <2>1. CASE i = n
    BY <1>4, <2>1
  <2>2. CASE i # n
    BY <1>3, <2>2
  <2>. QED BY <2>1, <2>2
<1>6. FilesGrow
  BY <1>3, <1>5 DEF FilesGrow
<1>. QED BY <1>3, <1>4, <1>5, <1>6

(* The list in the file at the path changes, and nothing else on the disk.  *)
LEMMA ListChange ==
    ASSUME Kinds, NEW ids \in Numbers, disk' = [disk EXCEPT ![Path].listed = ids]
    PROVE  /\ Path' = Path /\ DOMAIN disk' = DOMAIN disk
           /\ disk'[Path'].listed = ids
           /\ \A f \in DOMAIN disk \ {Path} : disk'[f] = disk[f]
<1>1. PICK n : n = Path
  OBVIOUS
<1> DEFINE x == [disk[n] EXCEPT !.listed = ids]
<1>2. disk \in [1..Len(disk) -> SomeDatabase] /\ DOMAIN disk = 1..Len(disk) /\ n \in DOMAIN disk
  BY <1>1, LenProperties, PathIsThere DEF Kinds
<1>3. x \in SomeDatabase /\ x.listed = ids
  BY <1>2 DEF SomeDatabase
<1>4. disk' = [disk EXCEPT ![n] = x]
  BY <1>1, <1>2
<1>. HIDE DEF x
<1>5. /\ Len(disk') = Len(disk) /\ DOMAIN disk' = DOMAIN disk
      /\ disk'[n] = x
      /\ \A f \in DOMAIN disk \ {n} : disk'[f] = disk[f]
  BY <1>2, <1>3, <1>4, ReplaceOne DEF Kinds
<1>. QED BY <1>1, <1>3, <1>5 DEF Path

(* The lists stay lists of files with a row when what joins them is one.    *)
LEMMA ListsOf ==
    ASSUME ListsAreStamped, FilesGrow,
           \A f \in DOMAIN disk' : \A i \in disk'[f].listed :
               Stamped(i)' \/ \E g \in DOMAIN disk : i \in disk[g].listed,
           \A f \in DOMAIN files' : \A i \in files'[f].listed :
               \/ f \in DOMAIN files
               \/ \E g \in DOMAIN disk : i \in disk[g].listed,
           pending' # None => \A i \in pending'.listed :
               \/ pending # None /\ i \in pending.listed
               \/ \E f \in DOMAIN files : i \in files[f].listed
    PROVE  ListsAreStamped'
<1>1. \A i : Stamped(i) => Stamped(i)'
  BY StampedStays DEF Stamped
<1>2. \A f \in DOMAIN disk' : \A i \in disk'[f].listed : Stamped(i)'
  BY <1>1 DEF ListsAreStamped
<1>3. \A f \in DOMAIN files' : \A i \in files'[f].listed : Stamped(i)'
  BY <1>1 DEF ListsAreStamped, FilesGrow
<1>4. pending' # None => \A i \in pending'.listed : Stamped(i)'
  BY <1>1 DEF ListsAreStamped
<1>. QED BY <1>2, <1>3, <1>4 DEF ListsAreStamped

(* No job is under way, before and after.                                   *)
LEMMA IdleBooks ==
    ASSUME Kinds, workload' = workload, Books, UNCHANGED files, files' \in Seq(SomeFile),
           \A j \in Jobs : jobs'[j] = NoJob,
           ListsAreStamped', StagedIsSound'
    PROVE  Books'
<1>1. Jobs' = Jobs
  BY DEF Jobs
<1>2. \A j \in Jobs' : JobIsSound(j)'
  <2>. SUFFICES ASSUME NEW j \in Jobs PROVE JobIsSound(j)'
    BY <1>1
  <2>1. NoJob.evict = {} /\ NoJob.at = "none" /\ NoJob.safety = 0
    BY DEF NoJob
  <2>2. jobs'[j] = NoJob /\ NoJob' = NoJob
    BY DEF NoJob
  <2>. QED BY <2>1, <2>2 DEF JobIsSound
<1>3. RecordsDiffer'
  BY <1>1 DEF RecordsDiffer, NoJob
<1>4. GoneHasSuccessors'
  <2>1. \A i \in DOMAIN files' : Gone(i)' => i \in DOMAIN files /\ Gone(i)
    BY <1>1 DEF Gone, Marked, NoJob
  <2>. QED BY <2>1, FilesStand, NothingIsMarked DEF Books, Kinds
<1>. QED BY <1>2, <1>3, <1>4 DEF Books

LEMMA StartUpBooks ==
    ASSUME Kinds, Kinds', workload' = workload, Alone, Orderly, Books,
           NEW p \in Procs, StartUp(p)
    PROVE  Books'
<1>j. UNCHANGED <<files, jobs>> /\ \A j \in Jobs : jobs'[j] = NoJob
  <2>1. UNCHANGED <<files, jobs>>
    BY DEF StartUp, Launch, ReadStaged, Swap, Clean, CarryCredentials, Lock, Open
  <2>2. procs[p].at \in Startup \cup {"down"}
    BY DEF StartUp, Launch, ReadStaged, Swap, Clean, CarryCredentials, Lock, Open, Startup
  <2>. QED BY <2>1, <2>2, NotServing
<1>b. ListsAreStamped /\ StagedIsSound /\ FilesGrow
  BY <1>j, FilesStand DEF Books
<1>1. CASE UNCHANGED <<disk, pending>>
  <2>1. ListsAreStamped' /\ StagedIsSound'
    BY <1>j, <1>b, <1>1 DEF ListsAreStamped, StagedIsSound, Stamped, IsSnapshot, Path
  <2>. QED BY <1>j, <2>1, IdleBooks DEF Kinds
<1>2. CASE Swap(p) /\ pending # None
  <2> DEFINE x == [data |-> pending.data, credentials |-> FALSE,
                   listed |-> pending.listed, sound |-> pending.whole]
  <2>1. x \in SomeDatabase /\ x.listed = pending.listed
    BY <1>2 DEF Kinds, SomeStaged, SomeDatabase
  <2>2. disk' = Append(disk, x) /\ pending' = None
    BY <1>2 DEF Swap
  <2>. HIDE DEF x
  <2>3. /\ DOMAIN disk' = DOMAIN disk \cup {Len(disk) + 1}
        /\ disk'[Len(disk) + 1] = x
        /\ \A i \in DOMAIN disk : disk'[i] = disk[i]
    BY <2>1, <2>2, OneMoreElement DEF Kinds
  <2>4. \A i : Stamped(i) => Stamped(i)'
    BY <1>j DEF Stamped
  <2>5. ListsAreStamped'
    BY <1>j, <1>b, <1>2, <2>1, <2>2, <2>3, <2>4 DEF ListsAreStamped
  <2>. QED BY <1>j, <2>2, <2>5, IdleBooks DEF Kinds, StagedIsSound
<1>3. CASE ~UNCHANGED disk /\ (CarryCredentials(p) \/ Open(p))
  <2>1. PICK x \in SomeDatabase : x.listed = disk[Path].listed /\ disk' = [disk EXCEPT ![Path] = x]
    <3> DEFINE y == Recovered(disk[Path])
               z == [y EXCEPT !.credentials = TRUE]
    <3>1. y \in SomeDatabase /\ z \in SomeDatabase
      BY PathIsThere, RecoveredKeepsKinds
    <3>2. y.listed = disk[Path].listed /\ z.listed = disk[Path].listed
      BY PathIsThere DEF Recovered, SomeDatabase
    <3>3. disk' = [disk EXCEPT ![Path] = y] \/ disk' = [disk EXCEPT ![Path] = z]
      BY <1>3 DEF CarryCredentials, Open
    <3>. QED BY <3>1, <3>2, <3>3
  <2>2. /\ Len(disk') = Len(disk) /\ DOMAIN disk' = DOMAIN disk
        /\ disk'[Path] = x
        /\ \A i \in DOMAIN disk \ {Path} : disk'[i] = disk[i]
    BY <2>1, PathIsThere, ReplaceOne DEF Kinds
  <2>3. Path' = Path /\ \A f \in DOMAIN disk : disk'[f].listed = disk[f].listed
    BY <2>1, <2>2 DEF Path
  <2>4. UNCHANGED pending
    BY <1>3 DEF CarryCredentials, Open
  <2>5. ListsAreStamped' /\ StagedIsSound'
    BY <1>j, <1>b, <2>2, <2>3, <2>4, PathIsThere
       DEF ListsAreStamped, StagedIsSound, Stamped, IsSnapshot
  <2>. QED BY <1>j, <2>5, IdleBooks DEF Kinds
<1>4. UNCHANGED pending \/ (Swap(p) /\ pending # None)
  BY DEF StartUp, Launch, ReadStaged, Swap, Clean, CarryCredentials, Lock, Open
<1>5. UNCHANGED disk \/ CarryCredentials(p) \/ Open(p) \/ (Swap(p) /\ pending # None)
  BY DEF StartUp, Launch, ReadStaged, Swap, Clean, Lock
<1>. QED BY <1>1, <1>2, <1>3, <1>4, <1>5

LEMMA ServeBooks ==
    ASSUME Kinds, Kinds', workload' = workload, Alone, Orderly, Books,
           NEW p \in Procs, Serve(p)
    PROVE  Books'
<1>1. UNCHANGED <<files, jobs, pending>> /\ Jobs' = Jobs
  BY DEF Serve, BeginWrite, CommitWrite, Delete, Alone, Jobs
<1>2. /\ Path' = Path /\ DOMAIN disk' = DOMAIN disk
      /\ \A f \in DOMAIN disk : disk'[f].listed = disk[f].listed
  <2>1. CASE UNCHANGED disk
    BY <2>1 DEF Path
  <2>2. ASSUME NEW credentials \in BOOLEAN, CommitWrite(p, credentials)
        PROVE  /\ Path' = Path /\ DOMAIN disk' = DOMAIN disk
               /\ \A f \in DOMAIN disk : disk'[f].listed = disk[f].listed
    <3>1. PICK w \in Nat : w = writes + 1
      BY DEF Kinds
    <3>2. PICK n : n = procs[p].file
      OBVIOUS
    <3> DEFINE x == [disk[n] EXCEPT !.data = w, !.credentials = @ \/ credentials]
    <3>3. disk \in [1..Len(disk) -> SomeDatabase] /\ DOMAIN disk = 1..Len(disk)
      BY LenProperties DEF Kinds
    <3>4. n \in DOMAIN disk => x \in SomeDatabase /\ x.listed = disk[n].listed
      BY <3>3 DEF SomeDatabase
    <3>5. disk' = [disk EXCEPT ![n].data = w, ![n].credentials = @ \/ credentials]
      BY <2>2, <3>1, <3>2 DEF CommitWrite
    <3>6. disk' = [disk EXCEPT ![n] = x]
      BY <3>3, <3>5
    <3>. HIDE DEF x
    <3>7. /\ Len(disk') = Len(disk) /\ DOMAIN disk' = DOMAIN disk
          /\ n \in DOMAIN disk => disk'[n] = x
          /\ \A i \in DOMAIN disk \ {n} : disk'[i] = disk[i]
      BY <3>4, <3>6, ReplaceOne DEF Kinds
    <3>. QED BY <3>4, <3>7 DEF Path
  <2>. QED BY <2>1, <2>2 DEF Serve, BeginWrite, Delete, Alone
<1>3. FilesGrow /\ ListedStay
  BY <1>1, <1>2, FilesStand, PathIsThere DEF ListedStay
<1>4. ListsAreStamped' /\ StagedIsSound'
  BY <1>1, <1>2, PathIsThere DEF Books, ListsAreStamped, StagedIsSound, Stamped, IsSnapshot
<1>5. \A j \in Jobs' : JobIsSound(j)'
  <2>. SUFFICES ASSUME NEW j \in Jobs PROVE JobIsSound(j)'
    BY <1>1
  <2>1. JobIsSound(j) /\ jobs'[j] = jobs[j]
    BY <1>1 DEF Books
  <2>2. jobs[j].at = "record" => files'[jobs[j].id].created = 0
    BY <1>1, <2>1 DEF JobIsSound
  <2>. QED BY <1>3, <2>1, <2>2, OtherJob
<1>6. RecordsDiffer'
  BY <1>1 DEF Books, RecordsDiffer
<1>7. GoneHasSuccessors'
  <2>1. \A i \in DOMAIN files' : Gone(i)' => i \in DOMAIN files /\ Gone(i)
    BY <1>1 DEF Gone, Marked
  <2>. QED BY <1>3, <2>1, NothingIsMarked DEF Books, Kinds
<1>. QED BY <1>4, <1>5, <1>6, <1>7 DEF Books

LEMMA DieBooks ==
    ASSUME Kinds, Kinds', workload' = workload, Alone, Orderly, Books,
           NEW p \in Procs, Die(p)
    PROVE  Books'
<1>1. UNCHANGED <<files, disk, pending>> /\ \A j \in Jobs : jobs'[j] = NoJob
  BY DEF Die, Alone
<1>2. ListsAreStamped' /\ StagedIsSound'
  BY <1>1 DEF Books, ListsAreStamped, StagedIsSound, Stamped, IsSnapshot, Path
<1>. QED BY <1>1, <1>2, IdleBooks DEF Kinds

(* A step of one job.                                                       *)
LEMMA WorkedBooks ==
    ASSUME Kinds, Kinds', workload' = workload, Books, FilesGrow, ListedStay,
           NEW j \in Jobs, NEW r, jobs' = [jobs EXCEPT ![j] = r],
           JobIsSound(j)',
           r.at = "record" =>
             \A k \in Jobs \ {j} : jobs[k].at = "record" => jobs[k].id # r.id,
           \A k \in Jobs \ {j} : jobs[k].at = "record" => files'[jobs[k].id].created = 0,
           ListsAreStamped', StagedIsSound', GoneHasSuccessors'
    PROVE  Books'
<1>1. Jobs' = Jobs
  BY DEF Jobs
<1>2. jobs'[j] = r /\ \A k \in Jobs \ {j} : jobs'[k] = jobs[k]
  BY DEF Kinds
<1>3. ASSUME NEW k \in Jobs PROVE JobIsSound(k)'
  <2>1. CASE k = j
    BY <2>1
  <2>2. CASE k # j
    <3>1. jobs'[k] = jobs[k] /\ JobIsSound(k)
      BY <1>2, <2>2 DEF Books
    <3>2. jobs[k].at = "record" => files'[jobs[k].id].created = 0
      BY <2>2
    <3>. QED BY <3>1, <3>2, OtherJob
  <2>. QED BY <2>1, <2>2
<1>4. RecordsDiffer'
  <2>. SUFFICES ASSUME NEW k \in Jobs, NEW l \in Jobs,
                       jobs'[k].at = "record", jobs'[l].at = "record",
                       jobs'[k].id = jobs'[l].id
                PROVE  k = l
    BY <1>1 DEF RecordsDiffer
  <2>1. CASE k # j /\ l # j
    BY <1>2, <2>1 DEF Books, RecordsDiffer
  <2>2. CASE k = j /\ l # j
    BY <1>2, <2>2
  <2>3. CASE k # j /\ l = j
    BY <1>2, <2>3
  <2>. QED BY <2>1, <2>2, <2>3
<1>5. \A k \in Jobs' : JobIsSound(k)'
  BY <1>1, <1>3
<1>. QED BY <1>4, <1>5 DEF Books

LEMMA NoMoreMarks ==
    ASSUME jobs \in [Jobs -> SomeJob], workload' = workload, NEW j \in Jobs, NEW r,
           jobs' = [jobs EXCEPT ![j] = r], r.evict \subseteq jobs[j].evict,
           NEW i, Marked(i)'
    PROVE  Marked(i)
<1>1. Jobs' = Jobs
  BY DEF Jobs
<1>2. PICK k \in Jobs : i \in jobs'[k].evict
  BY <1>1 DEF Marked
<1>3. CASE k = j
  BY <1>2, <1>3 DEF Marked
<1>4. CASE k # j
  BY <1>2, <1>4 DEF Marked
<1>. QED BY <1>3, <1>4

LEMMA ListsStand == ASSUME UNCHANGED disk PROVE ListedStay
  BY DEF ListedStay, Path

(* A job that puts a file in backups/ is about to record it.                *)
Writes(j, r, source, content) ==
    /\ WriteFile(source, content) /\ UNCHANGED <<disk, pending>>
    /\ source \in Sources /\ content.data \in Nat /\ content.listed \in Numbers
    /\ \A i \in content.listed : \E g \in DOMAIN disk : i \in disk[g].listed
    /\ jobs' = [jobs EXCEPT ![j] = r]
    /\ r.at = "record" /\ r.source = source /\ r.id = Len(files')
    /\ r.evict \subseteq jobs[j].evict
    /\ source = "PRE_RESTORE" => r.safety = r.id
    /\ source = "IMPORTED" => r.safety # 0
    /\ r.safety # 0 => \/ source = "PRE_RESTORE"
                       \/ IsSnapshot(r.safety) /\ r.safety \in disk[Path].listed

LEMMA WriteBooks ==
    ASSUME Kinds, Kinds', workload' = workload, Books,
           NEW j \in Jobs, NEW r, NEW source, NEW content, Writes(j, r, source, content)
    PROVE  Books'
<1>. /\ WriteFile(source, content) /\ UNCHANGED <<disk, pending>>
     /\ source \in Sources /\ content.data \in Nat /\ content.listed \in Numbers
     /\ \A i \in content.listed : \E g \in DOMAIN disk : i \in disk[g].listed
     /\ jobs' = [jobs EXCEPT ![j] = r]
     /\ r.at = "record" /\ r.source = source /\ r.id = Len(files')
     /\ r.evict \subseteq jobs[j].evict
     /\ source = "PRE_RESTORE" => r.safety = r.id
     /\ source = "IMPORTED" => r.safety # 0
     /\ r.safety # 0 => \/ source = "PRE_RESTORE"
                        \/ IsSnapshot(r.safety) /\ r.safety \in disk[Path].listed
  BY DEF Writes
<1>1. PICK n : n = Len(files')
  OBVIOUS
<1>2. /\ FilesGrow /\ n \notin DOMAIN files /\ n # 0
      /\ DOMAIN files' = DOMAIN files \cup {n}
      /\ \A i \in DOMAIN files : files'[i] = files[i]
      /\ files'[n].source = source /\ files'[n].created = 0
      /\ files'[n].there /\ files'[n].listed = content.listed
  BY <1>1, WrittenFiles DEF Kinds
<1>3. jobs'[j] = r
  BY DEF Kinds
<1>4. JobIsSound(j)'
  <2>1. r.evict \subseteq DOMAIN files'
    BY <1>2 DEF Books, JobIsSound
  <2>2. r.safety # 0 =>
          /\ IsSnapshot(r.safety)'
          /\ source = "PRE_RESTORE" \/ r.safety \in disk'[Path'].listed
    <3>1. CASE source = "PRE_RESTORE"
      BY <1>1, <1>2, <3>1 DEF IsSnapshot
    <3>2. CASE source # "PRE_RESTORE"
      BY <1>2, <3>2 DEF IsSnapshot, Path
    <3>. QED BY <3>1, <3>2
  <2>3. source \notin Routine => r.safety # 0
    BY <1>1, <1>2 DEF Sources, Routine
  <2>4. r.at # "none" /\ r.at # "select" /\ r.at \notin {"adopt", "stage"}
    OBVIOUS
  <2>5. r.safety # 0 =>
          /\ IsSnapshot(jobs[j].safety)'
          /\ \/ r.at = "record" /\ r.source = "PRE_RESTORE"
             \/ r.safety \in disk'[Path'].listed
    BY <1>3, <2>2 DEF IsSnapshot
  <2>. QED BY <1>1, <1>2, <1>3, <2>1, <2>3, <2>4, <2>5 DEF JobIsSound
<1>5. \A k \in Jobs : jobs[k].at = "record" =>
        jobs[k].id # n /\ files'[jobs[k].id].created = 0
  BY <1>2 DEF Books, JobIsSound
<1>6. ListsAreStamped'
  BY <1>2, ListsOf DEF Books
<1>7. ListedStay /\ StagedIsSound'
  BY <1>2, ListsStand, StagedStays DEF Books
<1>8. GoneHasSuccessors'
  <2>1. ASSUME NEW i \in DOMAIN files', Gone(i)' PROVE i \in DOMAIN files /\ Gone(i)
    <3>1. Marked(i)' => Marked(i)
      BY NoMoreMarks DEF Kinds
    <3>2. Marked(i) => i \in DOMAIN files
      BY DEF Marked, Books, JobIsSound
    <3>3. CASE i = n
      BY <1>2, <2>1, <3>1, <3>2, <3>3 DEF Gone
    <3>4. CASE i # n
      BY <1>2, <2>1, <3>1, <3>4 DEF Gone
    <3>. QED BY <3>3, <3>4
  <2>. QED BY <1>2, <2>1, NothingIsMarked DEF Books, Kinds
<1>. QED BY <1>1, <1>2, <1>4, <1>5, <1>6, <1>7, <1>8, WorkedBooks

(* Among finitely many things there is a newest.                            *)
LEMMA Newest ==
    ASSUME NEW S, IsFiniteSet(S), S # {}, NEW f, \A s \in S : f[s] \in Nat
    PROVE  \E m \in S : \A s \in S : f[s] <= f[m]
<1> DEFINE Good == {U \in SUBSET S : U = {} \/ \E m \in U : \A s \in U : f[s] <= f[m]}
<1>1. {} \in Good
  OBVIOUS
<1>2. ASSUME NEW U \in SUBSET S, NEW x \in U, U \ {x} \in Good PROVE U \in Good
  <2>1. CASE U \ {x} = {}
    <3>1. \A s \in U : f[s] <= f[x]
      BY <2>1
    <3>. QED BY <3>1
  <2>2. CASE U \ {x} # {}
    <3>1. PICK m \in U \ {x} : \A s \in U \ {x} : f[s] <= f[m]
      BY <1>2, <2>2
    <3>2. CASE f[x] <= f[m]
      <4>1. \A s \in U : f[s] <= f[m]
        BY <3>1, <3>2
      <4>. QED BY <4>1
    <3>3. CASE ~(f[x] <= f[m])
      <4>1. \A s \in U : f[s] <= f[x]
        BY <3>1, <3>3
      <4>. QED BY <4>1
    <3>. QED BY <3>2, <3>3
  <2>. QED BY <2>1, <2>2
<1>3. S \in Good
  <2>1. \A U \in SUBSET S : \A x \in U : U \ {x} \in Good => U \in Good
    BY <1>2
  <2>. HIDE DEF Good
  <2>. QED BY <1>1, <2>1, SubsetInduction
<1>. QED BY <1>3

(* A job that selects what is to go from a list.                            *)
Selects(j, r, source, L) ==
    /\ source \in Routine /\ \A i \in L : Stamped(i)
    /\ jobs' = [jobs EXCEPT ![j] = r] /\ r.evict = Surplus(L, {source})

(* What is selected has successors: the newest of all that is gone or is    *)
(* selected has enough of them, and they come after the rest of it as well. *)
LEMMA SelectedHasSuccessors ==
    ASSUME Kinds, Kinds', workload' = workload, Books, UNCHANGED files,
           NEW j \in Jobs, NEW r, NEW source, NEW L, Selects(j, r, source, L)
    PROVE  GoneHasSuccessors'
<1>. /\ source \in Routine /\ \A i \in L : Stamped(i)
     /\ jobs' = [jobs EXCEPT ![j] = r] /\ r.evict = Surplus(L, {source})
  BY DEF Selects
<1>. DEFINE rows == {i \in L : files[i].source \in {source}}
            Newer(i) == {k \in rows : files[k].created > files[i].created}
<1>s. r.evict = {i \in rows : Cardinality(Newer(i)) >= Retention}
  BY DEF Surplus
<1>f. /\ IsFiniteSet(DOMAIN files) /\ files \in [DOMAIN files -> SomeFile]
      /\ \A i \in DOMAIN files : files[i].created \in Nat
  <2>1. IsFiniteSet(DOMAIN files) /\ files \in [DOMAIN files -> SomeFile]
    <3>1. Len(files) \in Nat /\ DOMAIN files = 1..Len(files) /\ files \in [1..Len(files) -> SomeFile]
      BY LenProperties DEF Kinds
    <3>2. IsFiniteSet(1..Len(files))
      BY <3>1, FS_Interval
    <3>. QED BY <3>1, <3>2
  <2>. QED BY <2>1 DEF SomeFile
<1>r. rows \subseteq DOMAIN files /\ \A i \in rows : files[i].created # 0 /\ files[i].source = source
  BY DEF Stamped
<1>g. \A i : Gone(i)' => Gone(i) \/ i \in r.evict
  <2>. SUFFICES ASSUME NEW i, Marked(i)' PROVE Marked(i) \/ i \in r.evict
    BY DEF Gone
  <2>1. PICK k \in Jobs : i \in jobs'[k].evict
    BY DEF Marked, Jobs
  <2>2. CASE k = j
    BY <2>1, <2>2 DEF Kinds
  <2>3. CASE k # j
    BY <2>1, <2>3 DEF Kinds, Marked
  <2>. QED BY <2>2, <2>3
<1>. SUFFICES ASSUME NEW i \in DOMAIN files, Gone(i)'
              PROVE  /\ files[i].source \in Routine
                     /\ files[i].created # 0
                     /\ Cardinality(Successors(i)') >= Retention
  BY DEF GoneHasSuccessors
<1>1. \A k \in DOMAIN files : Gone(k)' => files[k].source \in Routine /\ files[k].created # 0
  BY <1>g, <1>r, <1>s DEF Books, GoneHasSuccessors
<1> DEFINE B == {k \in DOMAIN files : Gone(k)' /\ files[k].source = files[i].source}
           when == [k \in B |-> files[k].created]
<1>2. PICK m \in B : \A k \in B : files[k].created <= files[m].created
  <2>1. IsFiniteSet(B) /\ B # {} /\ \A k \in B : when[k] \in Nat
    <3>1. B \in SUBSET DOMAIN files /\ i \in B
      OBVIOUS
    <3>2. \A k \in B : when[k] \in Nat
      BY <1>f
    <3>. HIDE DEF B, when
    <3>. QED BY <1>f, <3>1, <3>2, FS_Subset
  <2>2. \A k \in B : when[k] = files[k].created
    OBVIOUS
  <2>. HIDE DEF B, when
  <2>3. PICK m \in B : \A k \in B : when[k] <= when[m]
    BY <2>1, Newest
  <2>. QED BY <2>2, <2>3
<1>3. \A k \in DOMAIN files : files[k].created > files[m].created
                              /\ files[k].source = files[i].source =>
                                k \in Successors(i)'
  <2>. SUFFICES ASSUME NEW k \in DOMAIN files, files[k].created > files[m].created,
                       files[k].source = files[i].source
                PROVE  k \in Successors(i)'
    OBVIOUS
  <2>1. /\ files[m].created \in Nat /\ files[k].created \in Nat /\ files[i].created \in Nat
        /\ files[i].created <= files[m].created
    BY <1>f, <1>2
  <2>2. ~(k \in B)
    BY <1>2, <2>1
  <2>3. ~Gone(k)'
    BY <2>2
  <2>4. files[k].created > files[i].created
    BY <2>1
  <2>. QED BY <2>3, <2>4 DEF Successors
<1>4. PICK S : S \subseteq Successors(i)' /\ Cardinality(S) >= Retention
  <2>1. CASE m \in r.evict
    <3>1. Cardinality(Newer(m)) >= Retention /\ files[m].source = source
      BY <1>s, <1>r, <2>1
    <3>2. Newer(m) \subseteq Successors(i)'
      BY <1>2, <1>3, <1>r, <3>1
    <3>. QED BY <3>1, <3>2
  <2>2. CASE m \notin r.evict
    <3>1. m \in DOMAIN files /\ Gone(m) /\ files[m].source = files[i].source
      BY <1>2, <1>g, <2>2
    <3>2. Cardinality(Successors(m)) >= Retention
      BY <3>1 DEF Books, GoneHasSuccessors
    <3>3. Successors(m) \subseteq Successors(i)'
      BY <1>3, <3>1 DEF Successors
    <3>. QED BY <3>2, <3>3
  <2>. QED BY <2>1, <2>2
<1>5. Cardinality(Successors(i)') >= Retention
  <2>1. PICK T : T = Successors(i)'
    OBVIOUS
  <2>2. T \in SUBSET DOMAIN files
    BY <2>1 DEF Successors
  <2>3. IsFiniteSet(T) /\ S \in SUBSET T
    BY <1>4, <1>f, <2>1, <2>2, FS_Subset
  <2>4. Cardinality(S) <= Cardinality(T) /\ IsFiniteSet(S)
    BY <2>3, FS_Subset
  <2>5. Cardinality(S) \in Nat /\ Cardinality(T) \in Nat /\ Retention \in Nat
    BY <2>3, <2>4, FS_CardinalityType, WorkloadFacts DEF Kinds
  <2>. QED BY <1>4, <2>1, <2>4, <2>5
<1>. QED BY <1>1, <1>5

(* Nothing is recorded and no mark is made: what the rest of the steps of a *)
(* job have in common.                                                      *)
LEMMA OrdinaryWork ==
    ASSUME Kinds, Kinds', workload' = workload, Books, FilesGrow, ListedStay,
           DOMAIN files' = DOMAIN files,
           NEW j \in Jobs, NEW r, jobs' = [jobs EXCEPT ![j] = r],
           r.at # "record", r.evict \subseteq jobs[j].evict, JobIsSound(j)',
           \A i \in DOMAIN files : ~files'[i].there => Gone(i),
           \A k \in Jobs \ {j} : jobs[k].at = "record" =>
              files'[jobs[k].id].created = 0,
           ListsAreStamped', StagedIsSound'
    PROVE  Books'
<1>1. \A i \in DOMAIN files' : Gone(i)' => i \in DOMAIN files /\ Gone(i)
  <2>1. \A i : Marked(i)' => Marked(i)
    BY NoMoreMarks DEF Kinds
  <2>. QED BY <2>1 DEF Gone
<1>2. GoneHasSuccessors'
  BY <1>1, NothingIsMarked DEF Books, Kinds
<1>. QED BY <1>2, WorkedBooks

LEMMA RecordBooks ==
    ASSUME Kinds, Kinds', workload' = workload, Books, NEW p \in Procs, procs[p].file = Path,
           NEW j \in Jobs, Record(p, j)
    PROVE  Books'
<1>1. PICK n : n = jobs[j].id
  OBVIOUS
<1>2. PICK at : at = AfterRecord(jobs[j])
  OBVIOUS
<1> DEFINE r == [jobs[j] EXCEPT !.at = at]
<1>3. /\ jobs[j].at = "record"
      /\ disk' = [disk EXCEPT ![Path].listed = @ \cup {n}]
      /\ files' = [files EXCEPT ![n].created = Now]
      /\ jobs' = [jobs EXCEPT ![j].at = at]
      /\ UNCHANGED pending
  BY <1>1, <1>2 DEF Record
<1>4. /\ jobs' = [jobs EXCEPT ![j] = r] /\ jobs'[j] = r
      /\ r.at = at /\ r.evict = jobs[j].evict /\ r.safety = jobs[j].safety
      /\ r.source = jobs[j].source
  BY <1>3 DEF Kinds, SomeJob
<1>5. JobIsSound(j) /\ n \in DOMAIN files /\ files[n].created = 0
  BY <1>1, <1>3 DEF Books, JobIsSound
<1>6. /\ FilesGrow /\ DOMAIN files' = DOMAIN files
      /\ files'[n].created # 0 /\ files'[n].there = files[n].there
      /\ \A i \in DOMAIN files \ {n} : files'[i] = files[i]
  BY <1>3, <1>5, StampedFiles DEF Kinds
<1>7. PICK ids : ids = disk[Path].listed \cup {n}
  OBVIOUS
<1>8. ids \in Numbers
  <2>1. n \in Nat
    BY <1>1 DEF Kinds, SomeJob
  <2>. QED BY <1>7, <2>1, PathIsThere DEF SomeDatabase, Numbers
<1>9. /\ Path' = Path /\ DOMAIN disk' = DOMAIN disk
      /\ disk'[Path'].listed = ids
      /\ \A f \in DOMAIN disk \ {Path} : disk'[f] = disk[f]
  <2>1. disk' = [disk EXCEPT ![Path].listed = ids]
    BY <1>3, <1>7
  <2>. QED BY <1>8, <2>1, ListChange
<1>10. ListedStay
  BY <1>7, <1>9 DEF ListedStay
<1>11. ListsAreStamped'
  <2>1. Stamped(n)'
    BY <1>5, <1>6 DEF Stamped
  <2>2. \A f \in DOMAIN disk' : \A i \in disk'[f].listed :
           Stamped(i)' \/ \E g \in DOMAIN disk : i \in disk[g].listed
    <3>. SUFFICES ASSUME NEW f \in DOMAIN disk', NEW i \in disk'[f].listed
                  PROVE  Stamped(i)' \/ \E g \in DOMAIN disk : i \in disk[g].listed
      OBVIOUS
    <3>1. CASE f = Path /\ i = n
      BY <2>1, <3>1 DEF Stamped
    <3>2. CASE f = Path /\ i # n
      BY <1>7, <1>9, <3>2
    <3>3. CASE f # Path
      BY <1>9, <3>3
    <3>. QED BY <3>1, <3>2, <3>3
  <2>. QED BY <1>3, <1>6, <2>2, ListsOf DEF Books
<1>12. StagedIsSound'
  BY <1>3, <1>6, <1>10, StagedStays DEF Books
<1>13. JobIsSound(j)'
  <2>1. at \in {"select", "adopt", "stage"}
        /\ (at = "select" => jobs[j].source \in Routine)
        /\ (at # "select" => jobs[j].source \notin Routine)
    BY <1>2 DEF AfterRecord, Routine
  <2>2. jobs[j].source \notin Routine => jobs[j].safety # 0
    BY <1>3, <1>5 DEF JobIsSound
  <2>3. r.safety # 0 => IsSnapshot(r.safety)'
    <3>1. PICK s : s = jobs[j].safety
      OBVIOUS
    <3>2. s # 0 => IsSnapshot(s)
      BY <1>5, <3>1 DEF JobIsSound
    <3>. QED BY <1>4, <1>6, <3>1, <3>2, SnapshotStays DEF IsSnapshot
  <2>4. r.safety # 0 => r.safety \in disk'[Path'].listed
    <3>1. CASE jobs[j].source = "PRE_RESTORE"
      <4>1. r.safety = n
        BY <1>1, <1>3, <1>4, <1>5, <3>1 DEF JobIsSound
      <4>. QED BY <1>7, <1>9, <4>1
    <3>2. CASE jobs[j].source # "PRE_RESTORE"
      BY <1>4, <1>5, <1>7, <1>9, <3>2 DEF JobIsSound
    <3>. QED BY <3>1, <3>2
  <2>5. r.evict \subseteq DOMAIN files'
    BY <1>4, <1>5, <1>6 DEF JobIsSound
  <2>6. jobs'[j].safety # 0 => IsSnapshot(jobs[j].safety)'
    BY <1>4, <2>3 DEF IsSnapshot
  <2>. HIDE DEF r
  <2>. QED BY <1>4, <2>1, <2>2, <2>4, <2>5, <2>6 DEF JobIsSound
<1>14. \A k \in Jobs \ {j} : jobs[k].at = "record" => files'[jobs[k].id].created = 0
  <2>. SUFFICES ASSUME NEW k \in Jobs \ {j}, jobs[k].at = "record"
                PROVE  files'[jobs[k].id].created = 0
    OBVIOUS
  <2>1. JobIsSound(k) /\ jobs[k].id # n
    BY <1>1, <1>3 DEF Books, RecordsDiffer
  <2>. QED BY <1>6, <2>1 DEF JobIsSound
<1>15. \A i \in DOMAIN files : ~files'[i].there => Gone(i)
  BY <1>6 DEF Gone
<1>16. r.at # "record" /\ r.evict \subseteq jobs[j].evict
  BY <1>2, <1>4 DEF AfterRecord
<1>. HIDE DEF r
<1>. QED BY <1>4, <1>6, <1>10, <1>11, <1>12, <1>13, <1>14, <1>15, <1>16, OrdinaryWork

(* The rest of the steps of a job.                                          *)
LEMMA WorkBooks ==
    ASSUME Kinds, Kinds', workload' = workload, Alone, Orderly, Books,
           NEW p \in Procs, NEW j \in Jobs, Work(p, j)
    PROVE  Books'
<1>p. procs[p].file = Path /\ Db(p) = disk[Path] /\ Path \in DOMAIN disk
      /\ disk[Path].data \in Nat /\ disk[Path].listed \in Numbers
  BY PathIsThere DEF Work, Orderly, Serving, Db, SomeDatabase
<1>j. JobIsSound(j) /\ jobs[j] \in SomeJob
  BY DEF Books, Kinds
<1>k. \A k \in Jobs : jobs[k].at = "record" =>
         jobs[k].id \in DOMAIN files /\ files[jobs[k].id].created = 0
  BY DEF Books, JobIsSound
<1>l. ListsAreStamped /\ StagedIsSound /\ GoneHasSuccessors
  BY DEF Books
<1>i. NoJob.at = "none" /\ NoJob.evict = {} /\ NoJob.safety = 0
  BY DEF NoJob
<1>1. ASSUME NEW source \in Routine, Take(p, j, source) PROVE Books'
  <2>1. PICK n : n = Len(files')
    OBVIOUS
  <2> DEFINE r == [jobs[j] EXCEPT !.at = "record", !.source = source, !.id = n]
  <2>2. /\ WriteFile(source, disk[Path]) /\ UNCHANGED <<disk, pending>>
        /\ jobs' = [jobs EXCEPT ![j].at = "record", ![j].source = source, ![j].id = n]
        /\ jobs[j].at = "none"
    BY <1>1, <1>p, <2>1 DEF Take
  <2>3. jobs' = [jobs EXCEPT ![j] = r]
    BY <2>2 DEF Kinds
  <2>4. r.at = "record" /\ r.source = source /\ r.id = n
        /\ r.evict = jobs[j].evict /\ r.safety = jobs[j].safety
    BY <1>j DEF SomeJob
  <2>5. jobs[j].safety = 0
    BY <1>i, <1>j, <2>2 DEF JobIsSound
  <2>6. source \in Sources /\ source # "PRE_RESTORE" /\ source # "IMPORTED"
    BY DEF Routine, Sources
  <2>. HIDE DEF r
  <2>7. Writes(j, r, source, disk[Path])
    BY <1>p, <2>1, <2>2, <2>3, <2>4, <2>5, <2>6 DEF Writes
  <2>. QED BY <2>7, WriteBooks
<1>2. ASSUME NEW from \in {Upload} \cup Ids, Restore(p, j, from) PROVE Books'
  <2>1. PICK n : n = Len(files')
    OBVIOUS
  <2> DEFINE r == [jobs[j] EXCEPT !.at = "record", !.source = "PRE_RESTORE",
                                  !.id = n, !.safety = n, !.from = from]
  <2>2. /\ WriteFile("PRE_RESTORE", disk[Path]) /\ UNCHANGED <<disk, pending>>
        /\ jobs' = [jobs EXCEPT ![j].at = "record", ![j].source = "PRE_RESTORE",
                                ![j].id = n, ![j].safety = n, ![j].from = from]
    BY <1>2, <1>p, <2>1 DEF Restore
  <2>3. jobs' = [jobs EXCEPT ![j] = r]
    BY <2>2 DEF Kinds
  <2>4. r.at = "record" /\ r.source = "PRE_RESTORE" /\ r.id = n
        /\ r.evict = jobs[j].evict /\ r.safety = n
    BY <1>j DEF SomeJob
  <2>5. "PRE_RESTORE" \in Sources
    BY DEF Sources
  <2>. HIDE DEF r
  <2>6. Writes(j, r, "PRE_RESTORE", disk[Path])
    BY <1>p, <2>1, <2>2, <2>3, <2>4, <2>5 DEF Writes
  <2>. QED BY <2>6, WriteBooks
<1>3. CASE Record(p, j)
  BY <1>3, <1>p, RecordBooks
<1>4. CASE Adopt(p, j)
  <2>1. PICK n : n = Len(files')
    OBVIOUS
  <2> DEFINE r == [jobs[j] EXCEPT !.at = "record", !.source = "IMPORTED", !.id = n]
  <2>2. /\ WriteFile("IMPORTED", Blank) /\ UNCHANGED <<disk, pending>>
        /\ jobs' = [jobs EXCEPT ![j].at = "record", ![j].source = "IMPORTED", ![j].id = n]
        /\ jobs[j].at = "adopt"
    BY <1>4, <2>1 DEF Adopt
  <2>3. jobs' = [jobs EXCEPT ![j] = r]
    BY <2>2 DEF Kinds
  <2>4. r.at = "record" /\ r.source = "IMPORTED" /\ r.id = n
        /\ r.evict = jobs[j].evict /\ r.safety = jobs[j].safety
    BY <1>j DEF SomeJob
  <2>5. /\ jobs[j].safety # 0
        /\ IsSnapshot(jobs[j].safety) /\ jobs[j].safety \in disk[Path].listed
    BY <1>j, <2>2 DEF JobIsSound
  <2>6. "IMPORTED" \in Sources /\ Blank.data \in Nat /\ Blank.listed = {} /\ {} \in Numbers
    BY DEF Sources, Blank, Numbers
  <2>7. r.safety # 0 /\ IsSnapshot(r.safety) /\ r.safety \in disk[Path].listed
    BY <2>4, <2>5
  <2>. HIDE DEF r
  <2>8. Writes(j, r, "IMPORTED", Blank)
    BY <2>1, <2>2, <2>3, <2>4, <2>6, <2>7 DEF Writes
  <2>. QED BY <2>8, WriteBooks
<1>5. CASE Stage(p, j)
  <2>1. UNCHANGED <<disk, files>> /\ jobs[j].at = "stage"
    BY <1>5 DEF Stage
  <2>2. FilesGrow /\ ListedStay
    BY <2>1, FilesStand, ListsStand
  <2>3. PICK from : from = jobs[j].from
    OBVIOUS
  <2>4. CASE from = Upload \/ There(from)
    <3> DEFINE r == [jobs[j] EXCEPT !.at = "copy"]
    <3>1. /\ pending' = [whole |-> FALSE, data |-> Content(from).data,
                         listed |-> Content(from).listed,
                         from |-> from, safety |-> jobs[j].safety]
          /\ jobs' = [jobs EXCEPT ![j].at = "copy"]
      BY <1>5, <2>3, <2>4 DEF Stage
    <3>2. jobs' = [jobs EXCEPT ![j] = r] /\ jobs'[j] = r
      BY <3>1 DEF Kinds
    <3>3. /\ r.at = "copy" /\ r.evict = jobs[j].evict /\ r.safety = jobs[j].safety
      BY <1>j DEF SomeJob
    <3>4. /\ jobs[j].safety # 0
          /\ IsSnapshot(jobs[j].safety) /\ jobs[j].safety \in disk[Path].listed
      BY <1>j, <2>1 DEF JobIsSound
    <3>5. StagedIsSound'
      BY <2>1, <3>1, <3>4 DEF StagedIsSound, IsSnapshot, Path
    <3>6. ListsAreStamped'
      <4>1. pending'.listed = Content(from).listed
        BY <3>1
      <4>2. \A i \in Content(from).listed : \E f \in DOMAIN files : i \in files[f].listed
        BY <2>4 DEF Content, Blank, There
      <4>. QED BY <1>l, <2>1, <2>2, <4>1, <4>2, ListsOf
    <3>7. JobIsSound(j)'
      <4>1. r.evict \subseteq DOMAIN files'
        BY <1>j, <2>1, <3>3 DEF JobIsSound
      <4>2. jobs'[j].safety # 0 => IsSnapshot(jobs[j].safety)'
                                   /\ jobs'[j].safety \in disk'[Path'].listed
        BY <2>1, <3>2, <3>3, <3>4 DEF IsSnapshot, Path
      <4>. HIDE DEF r
      <4>. QED BY <3>2, <3>3, <4>1, <4>2 DEF JobIsSound
    <3>8. \A i \in DOMAIN files : ~files'[i].there => Gone(i)
      BY <2>1 DEF Gone
    <3>. HIDE DEF r
    <3>. QED BY <1>k, <2>1, <2>2, <3>2, <3>3, <3>5, <3>6, <3>7, <3>8, OrdinaryWork
  <2>5. CASE ~(from = Upload \/ There(from))
    <3>1. jobs' = [jobs EXCEPT ![j] = NoJob] /\ UNCHANGED pending
      BY <1>5, <2>3, <2>5 DEF Stage
    <3>2. jobs'[j] = NoJob
      BY <3>1 DEF Kinds
    <3>3. JobIsSound(j)'
      BY <1>i, <3>2 DEF JobIsSound, NoJob
    <3>4. StagedIsSound' /\ ListsAreStamped'
      BY <1>l, <2>1, <3>1 DEF StagedIsSound, ListsAreStamped, Stamped, IsSnapshot, Path
    <3>5. \A i \in DOMAIN files : ~files'[i].there => Gone(i)
      BY <2>1 DEF Gone
    <3>. QED BY <1>i, <1>k, <2>1, <2>2, <3>1, <3>3, <3>4, <3>5, OrdinaryWork
  <2>. QED BY <2>4, <2>5
<1>6. CASE Copied(p, j)
  <2>1. /\ UNCHANGED <<disk, files>> /\ jobs' = [jobs EXCEPT ![j] = NoJob]
        /\ pending' = IF pending = None THEN None ELSE [pending EXCEPT !.whole = TRUE]
    BY <1>6 DEF Copied
  <2>2. FilesGrow /\ ListedStay
    BY <2>1, FilesStand, ListsStand
  <2>3. JobIsSound(j)'
    <3>1. jobs'[j] = NoJob
      BY <2>1 DEF Kinds
    <3>. QED BY <1>i, <3>1 DEF JobIsSound, NoJob
  <2>4. pending' # None => /\ pending # None /\ pending'.safety = pending.safety
                           /\ pending'.listed = pending.listed
    BY <2>1 DEF Kinds, SomeStaged
  <2>5. StagedIsSound'
    BY <1>l, <2>2, <2>4, StagedStays
  <2>6. ListsAreStamped'
    BY <1>l, <2>1, <2>2, <2>4, ListsOf
  <2>7. \A i \in DOMAIN files : ~files'[i].there => Gone(i)
    BY <2>1 DEF Gone
  <2>. QED BY <1>i, <1>k, <2>1, <2>2, <2>3, <2>5, <2>6, <2>7, OrdinaryWork
<1>7. CASE SelectSurplus(p, j)
  <2>1. PICK source : source = jobs[j].source
    OBVIOUS
  <2>2. PICK L : L = disk[Path].listed
    OBVIOUS
  <2>3. PICK E : E = Surplus(L, {source})
    OBVIOUS
  <2> DEFINE r == [jobs[j] EXCEPT !.at = "prune", !.evict = E]
  <2>4. /\ jobs[j].at = "select" /\ UNCHANGED <<disk, files, pending>>
        /\ jobs' = [jobs EXCEPT ![j].at = "prune", ![j].evict = E]
    BY <1>7, <1>p, <2>1, <2>2, <2>3 DEF SelectSurplus, Evictable
  <2>5. jobs' = [jobs EXCEPT ![j] = r] /\ jobs'[j] = r
    BY <2>4 DEF Kinds
  <2>6. r.at = "prune" /\ r.evict = E /\ r.safety = jobs[j].safety
    BY <1>j DEF SomeJob
  <2>7. source \in Routine
    BY <1>j, <2>1, <2>4 DEF JobIsSound
  <2>8. \A i \in L : Stamped(i)
    BY <1>l, <1>p, <2>2 DEF ListsAreStamped
  <2>. HIDE DEF r
  <2>9. GoneHasSuccessors'
    <3>1. Selects(j, r, source, L)
      BY <2>3, <2>5, <2>6, <2>7, <2>8 DEF Selects
    <3>. QED BY <2>4, <3>1, SelectedHasSuccessors
  <2>10. E \subseteq DOMAIN files'
    BY <2>3, <2>4, <2>8 DEF Surplus, Stamped
  <2>11. JobIsSound(j)'
    <3>1. jobs'[j].safety # 0 => IsSnapshot(jobs[j].safety)'
                                 /\ jobs'[j].safety \in disk'[Path'].listed
      BY <1>j, <2>4, <2>5, <2>6 DEF JobIsSound, IsSnapshot, Path
    <3>. QED BY <2>5, <2>6, <2>10, <3>1 DEF JobIsSound
  <2>12. FilesGrow /\ ListedStay
    BY <2>4, FilesStand, ListsStand
  <2>13. StagedIsSound' /\ ListsAreStamped'
    BY <1>l, <2>4 DEF StagedIsSound, ListsAreStamped, Stamped, IsSnapshot, Path
  <2>14. \A k \in Jobs \ {j} : jobs[k].at = "record" => files'[jobs[k].id].created = 0
    BY <1>k, <2>4
  <2>. QED BY <2>5, <2>6, <2>9, <2>11, <2>12, <2>13, <2>14, WorkedBooks
<1>8. CASE PruneFile(p, j)
  <2>1. PICK i \in jobs[j].evict : There(i) /\ files' = Without(i)
    BY <1>8 DEF PruneFile
  <2>2. UNCHANGED <<disk, pending, jobs>> /\ jobs[j].at = "prune"
    BY <1>8 DEF PruneFile
  <2>3. /\ i \in DOMAIN files /\ FilesGrow /\ DOMAIN files' = DOMAIN files
        /\ \A k \in DOMAIN files \ {i} : files'[k] = files[k]
        /\ \A k \in DOMAIN files : files'[k].created = files[k].created
    BY <2>1, RemovedFile DEF There, Kinds
  <2>4. ListedStay
    BY <2>2, ListsStand
  <2>5. PICK r : r = jobs[j]
    OBVIOUS
  <2>6. jobs' = [jobs EXCEPT ![j] = r] /\ r.at # "record" /\ r.evict \subseteq jobs[j].evict
    BY <2>2, <2>5 DEF Kinds
  <2>7. JobIsSound(j)'
    BY <1>j, <2>2, <2>3, <2>4, OtherJob
  <2>8. StagedIsSound'
    BY <1>l, <2>2, <2>3, <2>4, StagedStays
  <2>9. ListsAreStamped'
    BY <1>l, <2>2, <2>3, ListsOf
  <2>10. \A k \in DOMAIN files : ~files'[k].there => Gone(k)
    BY <2>1, <2>3 DEF Gone, Marked
  <2>11. \A k \in Jobs \ {j} : jobs[k].at = "record" => files'[jobs[k].id].created = 0
    BY <1>k, <2>3
  <2>. QED BY <2>3, <2>4, <2>6, <2>7, <2>8, <2>9, <2>10, <2>11, OrdinaryWork
<1>9. CASE PruneRow(p, j)
  <2>1. PICK i \in jobs[j].evict :
          /\ ~There(i)
          /\ disk' = [disk EXCEPT ![Path].listed = @ \ {i}]
          /\ jobs' = [jobs EXCEPT ![j].evict = @ \ {i}]
    BY <1>9, <1>p DEF PruneRow
  <2>2. UNCHANGED <<files, pending>> /\ jobs[j].at = "prune"
    BY <1>9 DEF PruneRow
  <2>3. PICK ids \in Numbers : ids = disk[Path].listed \ {i}
    BY <1>p DEF Numbers
  <2>4. /\ Path' = Path /\ DOMAIN disk' = DOMAIN disk
        /\ disk'[Path'].listed = ids
        /\ \A f \in DOMAIN disk \ {Path} : disk'[f] = disk[f]
    <3>1. disk' = [disk EXCEPT ![Path].listed = ids]
      BY <2>1, <2>3
    <3>. QED BY <3>1, ListChange
  <2>5. ~IsSnapshot(i)
    <3>1. i \in DOMAIN files /\ Gone(i)
      BY <1>j, <2>1 DEF JobIsSound, Gone, Marked
    <3>. QED BY <1>l, <3>1 DEF GoneHasSuccessors, IsSnapshot, Routine
  <2>6. ListedStay /\ FilesGrow
    <3>1. ListedStay
      BY <2>3, <2>4, <2>5 DEF ListedStay
    <3>. QED BY <2>2, <3>1, FilesStand
  <2>7. PICK e : e = jobs[j].evict \ {i}
    OBVIOUS
  <2> DEFINE r == [jobs[j] EXCEPT !.evict = e]
  <2>8. jobs' = [jobs EXCEPT ![j] = r] /\ jobs'[j] = r
    BY <2>1, <2>7 DEF Kinds
  <2>9. r.at = "prune" /\ r.evict = e /\ r.safety = jobs[j].safety
    BY <1>j, <2>2 DEF SomeJob
  <2>. HIDE DEF r
  <2>10. JobIsSound(j)'
    <3>1. e \subseteq DOMAIN files'
      BY <1>j, <2>2, <2>7 DEF JobIsSound
    <3>2. jobs[j].safety # 0 => IsSnapshot(jobs[j].safety) /\ jobs[j].safety \in disk[Path].listed
      BY <1>j, <2>2 DEF JobIsSound
    <3>3. jobs'[j].safety # 0 => IsSnapshot(jobs[j].safety)'
                                 /\ jobs'[j].safety \in disk'[Path'].listed
      BY <2>2, <2>6, <2>8, <2>9, <3>2 DEF ListedStay, IsSnapshot
    <3>. QED BY <2>8, <2>9, <3>1, <3>3 DEF JobIsSound
  <2>11. ListsAreStamped'
    <3>1. \A f \in DOMAIN disk' : \A k \in disk'[f].listed : \E g \in DOMAIN disk : k \in disk[g].listed
      BY <1>p, <2>3, <2>4
    <3>. QED BY <1>l, <2>2, <2>6, <3>1, ListsOf
  <2>12. StagedIsSound'
    BY <1>l, <2>2, <2>6, StagedStays
  <2>13. \A k \in DOMAIN files : ~files'[k].there => Gone(k)
    BY <2>2 DEF Gone
  <2>. QED BY <1>k, <2>2, <2>6, <2>7, <2>8, <2>9, <2>10, <2>11, <2>12, <2>13, OrdinaryWork
<1>10. CASE Pruned(p, j)
  <2>1. UNCHANGED <<disk, files, pending>> /\ jobs' = [jobs EXCEPT ![j] = NoJob]
    BY <1>10 DEF Pruned
  <2>2. FilesGrow /\ ListedStay
    BY <2>1, FilesStand, ListsStand
  <2>3. JobIsSound(j)'
    <3>1. jobs'[j] = NoJob
      BY <2>1 DEF Kinds
    <3>. QED BY <1>i, <3>1 DEF JobIsSound, NoJob
  <2>4. StagedIsSound' /\ ListsAreStamped'
    BY <1>l, <2>1 DEF StagedIsSound, ListsAreStamped, Stamped, IsSnapshot, Path
  <2>5. \A i \in DOMAIN files : ~files'[i].there => Gone(i)
    BY <2>1 DEF Gone
  <2>. QED BY <1>i, <1>k, <2>1, <2>2, <2>3, <2>4, <2>5, OrdinaryWork
<1>. QED BY <1>1, <1>2, <1>3, <1>4, <1>5, <1>6, <1>7, <1>8, <1>9, <1>10 DEF Work

(* The files of a lone backend only ever grow in number.                    *)
LEMMA FilesOnlyGrow ==
    ASSUME Kinds, Alone, Orderly, Books, Next
    PROVE  FilesGrow
<1>. SUFFICES ASSUME NEW p \in Procs,
                     StartUp(p) \/ Serve(p) \/ Die(p) \/ \E j \in Jobs : Work(p, j)
              PROVE  FilesGrow
  BY DEF Next
<1>1. CASE StartUp(p)
  BY <1>1, FilesStand DEF StartUp, Launch, ReadStaged, Swap, Clean, CarryCredentials, Lock, Open
<1>2. CASE Serve(p)
  BY <1>2, FilesStand DEF Serve, BeginWrite, CommitWrite, Delete, Alone
<1>3. CASE Die(p)
  BY <1>3, FilesStand DEF Die
<1>4. ASSUME NEW j \in Jobs, Work(p, j) PROVE FilesGrow
  <2>0. /\ Db(p) = disk[Path] /\ disk[Path].data \in Nat /\ disk[Path].listed \in Numbers
        /\ files \in Seq(SomeFile) /\ JobIsSound(j)
    BY <1>4, PathIsThere DEF Work, Orderly, Serving, Db, SomeDatabase, Kinds, Books
  <2>1. ASSUME NEW source \in Routine, Take(p, j, source) PROVE FilesGrow
    <3>1. WriteFile(source, disk[Path]) /\ source \in Sources
      BY <2>0, <2>1 DEF Take, Routine, Sources
    <3>. QED BY <2>0, <3>1, WrittenFiles
  <2>2. ASSUME NEW from \in {Upload} \cup Ids, Restore(p, j, from) PROVE FilesGrow
    <3>1. WriteFile("PRE_RESTORE", disk[Path]) /\ "PRE_RESTORE" \in Sources
      BY <2>0, <2>2 DEF Restore, Sources
    <3>. QED BY <2>0, <3>1, WrittenFiles
  <2>3. CASE Record(p, j)
    <3>1. PICK n : n = jobs[j].id
      OBVIOUS
    <3>2. n \in DOMAIN files /\ files[n].created = 0 /\ files' = [files EXCEPT ![n].created = Now]
      BY <2>0, <2>3, <3>1 DEF Record, JobIsSound
    <3>. QED BY <2>0, <3>2, StampedFiles
  <2>4. CASE Adopt(p, j)
    <3>1. /\ WriteFile("IMPORTED", Blank) /\ "IMPORTED" \in Sources
          /\ Blank.data \in Nat /\ Blank.listed \in Numbers
      BY <2>4 DEF Adopt, Sources, Blank, Numbers
    <3>. QED BY <2>0, <3>1, WrittenFiles
  <2>5. CASE PruneFile(p, j)
    <3>1. PICK i : i \in DOMAIN files /\ files' = Without(i)
      BY <2>5 DEF PruneFile, There
    <3>. QED BY <2>0, <3>1, RemovedFile
  <2>6. CASE UNCHANGED files
    BY <2>6, FilesStand
  <2>7. \/ \E source \in Routine : Take(p, j, source)
        \/ \E from \in {Upload} \cup Ids : Restore(p, j, from)
        \/ Record(p, j) \/ Adopt(p, j) \/ PruneFile(p, j) \/ UNCHANGED files
    BY <1>4 DEF Work, Stage, Copied, SelectSurplus, PruneRow, Pruned
  <2>. QED BY <2>1, <2>2, <2>3, <2>4, <2>5, <2>6, <2>7
<1>. QED BY <1>1, <1>2, <1>3, <1>4

(* The whole of what holds of a lone backend.                               *)
Kept == Order /\ (Alone => Books)

LEMMA InitKept == Init => Kept
<1>. SUFFICES ASSUME Init PROVE Books
  BY InitOrder DEF Kept
<1>1. files = << >> /\ pending = None /\ \A j \in Jobs : jobs[j] = NoJob
  BY DEF Init
<1>2. DOMAIN files = {}
  BY <1>1
<1>3. disk = <<[data |-> 0, credentials |-> FALSE, listed |-> {}, sound |-> TRUE]>>
  BY DEF Init
<1>4. DOMAIN disk = {1} /\ disk[1].listed = {}
  BY <1>3
<1>5. ListsAreStamped
  BY <1>1, <1>2, <1>4 DEF ListsAreStamped
<1>6. \A j \in Jobs : JobIsSound(j)
  BY <1>1, IdleJob
<1>7. RecordsDiffer
  BY <1>1 DEF RecordsDiffer, NoJob
<1>. QED BY <1>1, <1>2, <1>5, <1>6, <1>7 DEF Books, StagedIsSound, GoneHasSuccessors

LEMMA KeptStep == Kept /\ [Next]_vars => Kept'
<1>. SUFFICES ASSUME Kept, [Next]_vars PROVE Kept'
  OBVIOUS
<1>1. Order /\ Order'
  BY OrderStep DEF Kept
<1>2. workload' = workload
  BY DEF Next, vars
<1>. SUFFICES ASSUME Alone PROVE Books'
  BY <1>1, <1>2, StaysAlone DEF Kept
<1>3. Kinds /\ Kinds' /\ Orderly /\ Books
  BY <1>1, <1>2, StaysAlone DEF Order, Kept
<1>4. CASE UNCHANGED vars
  <2>1. UNCHANGED <<disk, pending, files, jobs, workload>>
    BY <1>4 DEF vars
  <2>2. FilesGrow /\ ListedStay /\ Jobs' = Jobs
    BY <2>1, FilesStand, ListsStand DEF Jobs
  <2>3. ListsAreStamped' /\ StagedIsSound' /\ RecordsDiffer'
    BY <1>3, <2>1, <2>2
       DEF Books, ListsAreStamped, StagedIsSound, RecordsDiffer, Stamped, IsSnapshot, Path
  <2>4. ASSUME NEW j \in Jobs PROVE JobIsSound(j)'
    <3>1. JobIsSound(j) /\ jobs'[j] = jobs[j]
      BY <1>3, <2>1 DEF Books
    <3>2. jobs[j].at = "record" => files'[jobs[j].id].created = 0
      BY <2>1, <3>1 DEF JobIsSound
    <3>. QED BY <2>2, <3>1, <3>2, OtherJob
  <2>5. GoneHasSuccessors'
    <3>1. \A i \in DOMAIN files' : Gone(i)' => i \in DOMAIN files /\ Gone(i)
      BY <2>1, <2>2 DEF Gone, Marked
    <3>. QED BY <1>3, <2>2, <3>1, NothingIsMarked DEF Books, Kinds
  <2>. QED BY <2>2, <2>3, <2>4, <2>5 DEF Books
<1>5. ASSUME NEW p \in Procs,
             StartUp(p) \/ Serve(p) \/ Die(p) \/ \E j \in Jobs : Work(p, j)
      PROVE  Books'
  <2>1. CASE StartUp(p)
    BY <1>2, <1>3, <2>1, StartUpBooks
  <2>2. CASE Serve(p)
    BY <1>2, <1>3, <2>2, ServeBooks
  <2>3. CASE Die(p)
    BY <1>2, <1>3, <2>3, DieBooks
  <2>4. ASSUME NEW j \in Jobs, Work(p, j) PROVE Books'
    BY <1>2, <1>3, <2>4, WorkBooks
  <2>. QED BY <1>5, <2>1, <2>2, <2>3, <2>4
<1>. QED BY <1>4, <1>5 DEF Next

(* The snapshot of a staged restore stays in the directory and in the list, *)
(* whatever the retention of other jobs removes between the restore and the *)
(* next launch (restore, stage_restore and enforce_retention).              *)
THEOREM SnapshotsAreKept == Spec => []SnapshotIsKept
<1>1. Kept => SnapshotIsKept
  <2>. SUFFICES ASSUME Kept, Alone, pending # None
                PROVE  /\ There(pending.safety)
                       /\ files[pending.safety].source = "PRE_RESTORE"
                       /\ pending.safety \in disk[Path].listed
    BY DEF SnapshotIsKept
  <2>1. IsSnapshot(pending.safety) /\ pending.safety \in disk[Path].listed
    BY DEF Kept, Books, StagedIsSound
  <2>2. ~Gone(pending.safety)
    BY <2>1 DEF Kept, Books, GoneHasSuccessors, IsSnapshot, Routine
  <2>. QED BY <2>1, <2>2 DEF IsSnapshot, Gone, There
<1>. QED BY <1>1, InitKept, KeptStep, PTL DEF Spec

(* Retention removes nothing but routine backups, and none that Retention   *)
(* newer ones of the same source, still in the directory, do not come       *)
(* after, with any number of jobs that select and remove at the same time   *)
(* (enforce_retention).                                                     *)
THEOREM RetentionIsSparing == Spec => RetentionSpares
<1>1. Kept /\ Kept' /\ [Next]_vars =>
        [\A i \in DOMAIN files :
           Alone /\ There(i) /\ ~files'[i].there =>
              /\ files[i].source \in Routine
              /\ Cardinality({k \in DOMAIN files' :
                               /\ files'[k].there
                               /\ files'[k].source = files[i].source
                               /\ files'[k].created > files[i].created}) >= Retention
        ]_vars
  <2>. SUFFICES ASSUME Kept, Kept', Next, NEW i \in DOMAIN files,
                       Alone, There(i), ~files'[i].there
                PROVE  /\ files[i].source \in Routine
                       /\ Cardinality({k \in DOMAIN files' :
                             /\ files'[k].there
                             /\ files'[k].source = files[i].source
                             /\ files'[k].created > files[i].created}) >= Retention
    OBVIOUS
  <2>1. workload' = workload /\ Alone'
    BY StaysAlone DEF Next
  <2>2. Kinds /\ Kinds' /\ Orderly /\ Books /\ Books'
    BY <2>1 DEF Kept, Order
  <2>3. FilesGrow
    BY <2>2, FilesOnlyGrow
  <2>4. i \in DOMAIN files' /\ files'[i].source = files[i].source
    BY <2>3 DEF FilesGrow
  <2>5. files'[i].source \in Routine /\ Cardinality(Successors(i)') >= Retention
    BY <2>2, <2>4 DEF Books, GoneHasSuccessors, Gone
  <2>t. /\ files[i].created \in Nat
        /\ \A k \in DOMAIN files' : files'[k].created \in Nat
    <3>1. files \in [DOMAIN files -> SomeFile] /\ files' \in [DOMAIN files' -> SomeFile]
      BY <2>2, LenProperties DEF Kinds
    <3>. QED BY <2>4, <3>1 DEF SomeFile
  <2>c. files'[i].created = files[i].created \/ files[i].created = 0
    BY <2>3 DEF FilesGrow
  <2>6. PICK S : S = Successors(i)'
    OBVIOUS
  <2>7. PICK T : T = {k \in DOMAIN files' :
                       /\ files'[k].there
                       /\ files'[k].source = files[i].source
                       /\ files'[k].created > files[i].created}
    OBVIOUS
  <2>8. S \in SUBSET T
    <3>. SUFFICES ASSUME NEW k \in S PROVE k \in T
      OBVIOUS
    <3>1. /\ k \in DOMAIN files' /\ files'[k].there
          /\ files'[k].source = files'[i].source /\ files'[k].created > files'[i].created
      BY <2>6 DEF Successors, Gone
    <3>2. files'[k].created > files[i].created
      BY <2>4, <2>t, <2>c, <3>1
    <3>. QED BY <2>4, <2>7, <3>1, <3>2
  <2>9. IsFiniteSet(T)
    <3>1. Len(files') \in Nat /\ DOMAIN files' = 1..Len(files')
      BY <2>2, LenProperties DEF Kinds
    <3>2. IsFiniteSet(1..Len(files'))
      BY <3>1, FS_Interval
    <3>. QED BY <2>7, <3>1, <3>2, FS_Subset
  <2>10. Cardinality(S) <= Cardinality(T) /\ IsFiniteSet(S)
    BY <2>8, <2>9, FS_Subset
  <2>11. Cardinality(S) \in Nat /\ Cardinality(T) \in Nat /\ Retention \in Nat
    BY <2>2, <2>9, <2>10, FS_CardinalityType, WorkloadFacts DEF Kinds
  <2>12. Cardinality(T) >= Retention
    BY <2>5, <2>6, <2>10, <2>11
  <2>. QED BY <2>4, <2>5, <2>7, <2>12
<1>. QED BY <1>1, InitKept, KeptStep, PTL DEF Spec, RetentionSpares

-----------------------------------------------------------------------------
(* Shell. *)
-----------------------------------------------------------------------------
(* The history. *)

(* What healHistory does to one entry. *)
HealedEntry(e) == IF e.to <= installation.version THEN [e EXCEPT !.status = "installed"] ELSE e

LEMMA HealedFacts ==
    ASSUME NEW h \in Seq(Entry), installation.version \in Nat
    PROVE  /\ Healed(h) \in Seq(Entry)
           /\ DOMAIN Healed(h) = DOMAIN h
           /\ Len(Healed(h)) = Len(h)
           /\ \A i \in DOMAIN h : h[i] \in Entry /\ Healed(h)[i] = HealedEntry(h[i])
<1>1. Len(h) \in Nat /\ DOMAIN h = 1 .. Len(h) /\ \A i \in DOMAIN h : h[i] \in Entry
  BY ElementOfSeq, LenProperties
<1>2. DOMAIN Healed(h) = DOMAIN h /\ \A i \in DOMAIN h : Healed(h)[i] = HealedEntry(h[i])
  BY DEF Healed, HealedEntry
<1>3. ASSUME NEW e \in Entry PROVE HealedEntry(e) \in Entry
  BY DEF HealedEntry, Entry
<1>4. Healed(h) \in [1 .. Len(h) -> Entry]
  <2>1. \A i \in DOMAIN h : Healed(h)[i] \in Entry
    BY <1>1, <1>2, <1>3
  <2>2. Healed(h) = [i \in 1 .. Len(h) |-> Healed(h)[i]]
    BY <1>1, <1>2 DEF Healed
  <2>. QED BY <1>1, <2>1, <2>2
<1>5. Healed(h) \in Seq(Entry)
  BY <1>1, <1>4, SeqDef
<1>6. Len(Healed(h)) = Len(h)
  BY <1>1, <1>2, <1>5, LenProperties
<1>. QED BY <1>1, <1>2, <1>5, <1>6

LEMMA RecordedFacts ==
    ASSUME NEW h \in Seq(Entry), NEW v \in Versions
    PROVE  /\ Recorded(h, v) \in Seq(Entry)
           /\ Len(Recorded(h, v)) <= HistoryLimit
           /\ \A i \in DOMAIN Recorded(h, v) :
                  \/ Recorded(h, v)[i] = [to |-> v, status |-> "pending-restart"]
                  \/ \E j \in DOMAIN h : Recorded(h, v)[i] = h[j]
<1> DEFINE e == [to |-> v, status |-> "pending-restart"]
           all == <<e>> \o h
           m == IF Len(all) > HistoryLimit THEN HistoryLimit ELSE Len(all)
           r == SubSeq(all, 1, m)
<1>1. e \in Entry
  BY DEF Entry
<1>2. /\ <<e>> \in Seq(Entry) /\ Len(<<e>>) = 1 /\ <<e>>[1] = e
  BY <1>1
<1>3. /\ all \in Seq(Entry)
      /\ Len(all) = 1 + Len(h)
      /\ \A i \in 1 .. 1 + Len(h) : all[i] = IF i <= 1 THEN <<e>>[i] ELSE h[i - 1]
  <2>. HIDE DEF e
  <2>. QED BY <1>2, ConcatProperties
<1>4. Len(h) \in Nat /\ DOMAIN h = 1 .. Len(h)
  BY LenProperties
<1>5. \A i \in 1 .. 1 + Len(h) : all[i] = e \/ \E j \in DOMAIN h : all[i] = h[j]
  <2>. SUFFICES ASSUME NEW i \in 1 .. 1 + Len(h), i > 1
                PROVE  i - 1 \in DOMAIN h /\ all[i] = h[i - 1]
    BY <1>2, <1>3, <1>4
  <2>. HIDE DEF all
  <2>. QED BY <1>3, <1>4
<1>6. HistoryLimit \in Nat \ {0}
  BY ShellAssumption
<1>. HIDE DEF all
<1>7. m \in 1 .. Len(all) /\ m <= HistoryLimit
  BY <1>3, <1>4, <1>6
<1>. HIDE DEF m
<1>8. /\ r \in Seq(Entry)
      /\ Len(r) = m
      /\ \A i \in 1 .. m : r[i] = all[i]
  <2>1. /\ r \in Seq(Entry)
        /\ Len(r) = IF 1 <= m THEN m - 1 + 1 ELSE 0
        /\ \A i \in 1 .. m - 1 + 1 : r[i] = all[1 + i - 1]
    BY <1>3, <1>7, SubSeqProperties
  <2>. HIDE DEF r
  <2>. QED BY <1>7, <2>1
<1>9. DOMAIN r = 1 .. m
  BY <1>8, LenProperties
<1>10. Recorded(h, v) = r
  BY DEF Recorded, r, m, all
<1>. HIDE DEF r, e
<1>11. \A i \in DOMAIN r : r[i] = e \/ \E j \in DOMAIN h : r[i] = h[j]
  BY <1>3, <1>4, <1>5, <1>7, <1>8, <1>9
<1>. QED BY <1>7, <1>8, <1>10, <1>11 DEF e

-----------------------------------------------------------------------------
(* Types. *)

LEMMA ProcessTypes ==
    ASSUME ShellTypeOK, NEW b
    PROVE  /\ NoProcess \in Backend /\ Off \in Shell /\ NoUpdater \in Updater
           /\ Orphan(b) \in [Backends -> Backend]
           /\ SendTerm(shell) \in [Backends -> Backend]
           /\ Quit(shell) \in Shell
<1>1. NoProcess \in Backend /\ Off \in Shell /\ NoUpdater \in Updater
  BY DEF NoProcess, Backend, Off, Shell, Stages, NoUpdater, Updater, Statuses, MaybeVersion
<1>2. Orphan(b) \in [Backends -> Backend]
  BY DEF ShellTypeOK, Orphan, Backend
<1>3. SendTerm(shell) \in [Backends -> Backend]
  BY DEF ShellTypeOK, SendTerm, Backend
<1>4. Quit(shell) \in Shell
  BY DEF ShellTypeOK, Quit, StopServer, Shell, Stages
<1>. QED BY <1>1, <1>2, <1>3, <1>4

LEMMA VersionFacts == Versions \subseteq Nat \ {0} /\ MaybeVersion \subseteq Nat /\ 0 \in MaybeVersion
<1>1. Versions \subseteq Nat \ {0}
  BY ShellAssumption
<1>. QED BY <1>1 DEF MaybeVersion

LEMMA InitTypes == ShellInit => ShellTypeOK
<1>. SUFFICES ASSUME ShellInit PROVE ShellTypeOK
  OBVIOUS
<1>1. shell \in Shell /\ updater \in Updater
  BY DEF ShellInit, Off, Shell, Stages, NoUpdater, Updater, Statuses, MaybeVersion
<1>2. backend \in [Backends -> Backend]
  BY DEF ShellInit, NoProcess, Backend
<1>3. /\ installation \in [version : Versions, history : Seq(Entry), selfUpdates : BOOLEAN]
      /\ Len(installation.history) <= HistoryLimit
  <2>1. << >> \in Seq(Entry) /\ Len(<< >>) = 0
    OBVIOUS
  <2>2. installation.history = << >>
    BY DEF ShellInit
  <2>3. installation \in [version : Versions, history : {<< >>}, selfUpdates : BOOLEAN]
    BY ShellAssumption DEF ShellInit
  <2>4. 0 <= HistoryLimit
    BY ShellAssumption
  <2>. QED BY <2>1, <2>2, <2>3, <2>4
<1>4. released \in Versions /\ ran \in MaybeVersion /\ faults \in 0..MaxFaults
  BY ShellAssumption DEF ShellInit, MaybeVersion
<1>. QED BY <1>1, <1>2, <1>3, <1>4 DEF ShellTypeOK

(* A write of the history, or its failure, keeps to what may be on disk.    *)
HistoryTypes ==
    /\ installation \in [version : Versions, history : Seq(Entry), selfUpdates : BOOLEAN]
    /\ Len(installation.history) <= HistoryLimit
    /\ faults \in 0..MaxFaults

LEMMA WritesAreTyped ==
    ASSUME HistoryTypes, NEW h \in Seq(Entry), Len(h) <= HistoryLimit,
           NEW written \in BOOLEAN, WriteHistory(h, written)
    PROVE  HistoryTypes'
<1>1. CASE written
  <2>1. installation' = [installation EXCEPT !.history = h] /\ faults' = faults
    BY <1>1 DEF WriteHistory
  <2>2. installation'.history = h
    BY <2>1 DEF HistoryTypes
  <2>. QED BY <2>1, <2>2 DEF HistoryTypes
<1>2. CASE ~written
  <2>1. installation' = installation /\ faults < MaxFaults /\ faults' = faults + 1
    BY <1>2 DEF WriteHistory
  <2>. QED BY <2>1, ShellAssumption DEF HistoryTypes
<1>. QED BY <1>1, <1>2

LEMMA TypesStep == ShellTypeOK /\ [ShellNext]_shellVars => ShellTypeOK'
<1>. SUFFICES ASSUME ShellTypeOK, [ShellNext]_shellVars PROVE ShellTypeOK'
  OBVIOUS
<1>. USE VersionFacts
<1>1. ASSUME NEW b \in Backends,
             TakeLock(b) \/ PrintPort(b) \/ WatchParent(b) \/ Terminated(b) \/ BackendCrash(b)
      PROVE  ShellTypeOK'
  <2>1. backend' \in [Backends -> Backend]
    <3>1. CASE PrintPort(b)
      BY <3>1 DEF ShellTypeOK, PrintPort, Backend
    <3>2. CASE WatchParent(b) \/ Terminated(b) \/ BackendCrash(b)
      BY <3>2, ProcessTypes DEF ShellTypeOK, WatchParent, Terminated, BackendCrash
    <3>3. CASE TakeLock(b)
      <4>1. [backend[b] EXCEPT !.at = "locked"] \in Backend
        BY DEF ShellTypeOK, Backend
      <4>. QED BY <3>3, <4>1, ProcessTypes DEF ShellTypeOK, TakeLock
    <3>. QED BY <1>1, <3>1, <3>2, <3>3
  <2>2. faults' \in 0..MaxFaults
    BY <1>1, ShellAssumption DEF ShellTypeOK, TakeLock, PrintPort, WatchParent, Terminated, BackendCrash
  <2>3. UNCHANGED <<shell, updater, installation, released, ran>>
    BY <1>1 DEF TakeLock, PrintPort, WatchParent, Terminated, BackendCrash
  <2>. QED BY <2>1, <2>2, <2>3 DEF ShellTypeOK
<1>2. ASSUME NEW b \in Backends, LaunchShell(b) PROVE ShellTypeOK'
  <2>1. shell' \in Shell
    BY <1>2 DEF LaunchShell, Off, Shell, Stages
  <2>2. backend' \in [Backends -> Backend]
    BY <1>2, ProcessTypes DEF ShellTypeOK, LaunchShell, NoProcess, Backend
  <2>3. updater' \in Updater /\ ran' \in MaybeVersion
    BY <1>2, ProcessTypes DEF ShellTypeOK, LaunchShell, MaybeVersion
  <2>. QED BY <1>2, <2>1, <2>2, <2>3 DEF ShellTypeOK, LaunchShell
<1>l. CASE LaunchFails
  <2>1. shell' \in Shell
    BY <1>l DEF LaunchFails, Off, Shell, Stages
  <2>. QED BY <1>l, <2>1, ProcessTypes DEF ShellTypeOK, LaunchFails, MaybeVersion
<1>3. CASE ReadPort \/ NotVerified \/ ChildExit
  <2>1. shell' \in Shell
    BY <1>3, ZenonT(40) DEF ShellTypeOK, ReadPort, NotVerified, ChildExit, Shell, Stages
  <2>. QED BY <1>3, <2>1 DEF ShellTypeOK, ReadPort, NotVerified, ChildExit
<1>4. ASSUME NEW written \in BOOLEAN, Verified(written) PROVE ShellTypeOK'
  <2>1. shell' \in Shell
    BY <1>4 DEF ShellTypeOK, Verified, Shell, Stages
  <2>2. updater' \in Updater
    BY <1>4 DEF ShellTypeOK, Verified, NoUpdater, Updater, Statuses, MaybeVersion
  <2>3. Healed(installation.history) \in Seq(Entry) /\ Len(Healed(installation.history)) = Len(installation.history)
    BY HealedFacts DEF ShellTypeOK
  <2>. DEFINE healed == Healed(installation.history)
  <2>. HIDE DEF healed
  <2>4. WriteHistory(healed, written)
    BY <1>4 DEF Verified, healed
  <2>5. HistoryTypes'
    BY <2>3, <2>4, WritesAreTyped DEF healed, ShellTypeOK, HistoryTypes
  <2>. QED BY <1>4, <2>1, <2>2, <2>5 DEF ShellTypeOK, HistoryTypes, Verified
<1>5. CASE Dismiss \/ UserQuits
  BY <1>5, ProcessTypes DEF ShellTypeOK, Dismiss, UserQuits
<1>6. CASE KillTimer
  <2>1. shell' \in Shell
    BY <1>6 DEF ShellTypeOK, KillTimer, Shell
  <2>2. backend' \in [Backends -> Backend]
    BY <1>6, ProcessTypes DEF ShellTypeOK, KillTimer
  <2>. QED BY <1>6, <2>1, <2>2 DEF ShellTypeOK, KillTimer
<1>7. CASE Exit
  <2>1. installation' \in [version : Versions, history : Seq(Entry), selfUpdates : BOOLEAN]
    BY <1>7 DEF ShellTypeOK, Exit, Updater, MaybeVersion
  <2>2. installation'.history = installation.history
    BY <1>7 DEF ShellTypeOK, Exit
  <2>. QED BY <1>7, <2>1, <2>2, ProcessTypes DEF ShellTypeOK, Exit
<1>8. CASE ShellCrash
  <2>1. faults' \in 0..MaxFaults
    BY <1>8, ShellAssumption DEF ShellTypeOK, ShellCrash
  <2>. QED BY <1>8, <2>1, ProcessTypes DEF ShellTypeOK, ShellCrash
<1>9. CASE Check \/ CheckAnswers \/ CheckFails \/ Download \/ Progress \/ DownloadFails
  <2>1. updater' \in Updater
    <3>1. updater \in Updater /\ released \in MaybeVersion /\ 0 \in MaybeVersion
      BY DEF ShellTypeOK, MaybeVersion
    <3>2. CASE Check \/ CheckFails \/ Progress \/ DownloadFails
      BY <3>1, <3>2 DEF Check, CheckFails, Progress, DownloadFails, Updater, Statuses
    <3>3. CASE CheckAnswers
      BY <3>1, <3>3 DEF CheckAnswers, Updater, Statuses
    <3>4. CASE Download
      BY <3>1, <3>4 DEF Download, Updater, Statuses
    <3>. QED BY <1>9, <3>2, <3>3, <3>4
  <2>. QED BY <1>9, <2>1 DEF ShellTypeOK, Check, CheckAnswers, CheckFails, Download, Progress, DownloadFails
<1>10. ASSUME NEW written \in BOOLEAN, Downloaded(written) PROVE ShellTypeOK'
  <2>1. updater' \in Updater
    BY <1>10 DEF ShellTypeOK, Downloaded, Updater, Statuses, MaybeVersion
  <2>2. updater.fetching \in Versions
    BY <1>10 DEF ShellTypeOK, Downloaded, Updater, MaybeVersion
  <2>3. /\ Recorded(installation.history, updater.fetching) \in Seq(Entry)
        /\ Len(Recorded(installation.history, updater.fetching)) <= HistoryLimit
    BY <2>2, RecordedFacts DEF ShellTypeOK
  <2>. DEFINE recorded == Recorded(installation.history, updater.fetching)
  <2>. HIDE DEF recorded
  <2>4. WriteHistory(recorded, written)
    BY <1>10 DEF Downloaded, recorded
  <2>5. HistoryTypes'
    BY <2>3, <2>4, WritesAreTyped DEF recorded, ShellTypeOK, HistoryTypes
  <2>. QED BY <1>10, <2>1, <2>5 DEF ShellTypeOK, HistoryTypes, Downloaded
<1>11. CASE Publish
  BY <1>11 DEF ShellTypeOK, Publish
<1>12. CASE UNCHANGED shellVars
  BY <1>12 DEF ShellTypeOK, shellVars
<1>. QED
  BY <1>1, <1>2, <1>l, <1>3, <1>4, <1>5, <1>6, <1>7, <1>8, <1>9, <1>10, <1>11, <1>12 DEF ShellNext

(* The variables of the shell keep their types, and the history its length. *)
THEOREM ShellTypes == ShellSpec => []ShellTypeOK
<1>. QED BY InitTypes, TypesStep, PTL DEF ShellSpec

-----------------------------------------------------------------------------
(* The history. InstalledHasRun is not inductive: healHistory marks an entry *)
(* by the version that is installed, so that version must have been started *)
(* by then; and a download recorded as awaiting a restart must be of a      *)
(* version newer than the one that runs.                                    *)

RunningWasStarted == shell.at # "off" => installation.version <= ran

UpdatesGoForward ==
    /\ updater.status = "available" => updater.available > installation.version
    /\ updater.fetching # 0 => updater.fetching > installation.version

HistoryInv == InstalledHasRun /\ NoRestartIntoThePast /\ RunningWasStarted /\ UpdatesGoForward

LEMMA InitHistory == ShellInit => HistoryInv
  BY DEF ShellInit, Off, NoUpdater, HistoryInv, InstalledHasRun, NoRestartIntoThePast,
         RunningWasStarted, UpdatesGoForward, Showing

(* Steps that leave the history, the version and the newest version started *)
(* alone, and open no window.                                               *)
LEMMA QuietStep ==
    ASSUME HistoryInv, UNCHANGED <<installation, ran>>,
           shell'.at = "open" => shell.at = "open",
           shell'.at # "off" => shell.at # "off",
           updater'.healed => updater.healed,
           UNCHANGED updater \/ UpdatesGoForward'
    PROVE  HistoryInv'
<1>1. InstalledHasRun'
  BY DEF HistoryInv, InstalledHasRun
<1>2. NoRestartIntoThePast'
  BY DEF HistoryInv, NoRestartIntoThePast, Showing
<1>3. RunningWasStarted'
  BY DEF HistoryInv, RunningWasStarted
<1>4. UpdatesGoForward'
  BY DEF HistoryInv, UpdatesGoForward
<1>. QED BY <1>1, <1>2, <1>3, <1>4 DEF HistoryInv

LEMMA HistoryStep == ShellTypeOK /\ HistoryInv /\ [ShellNext]_shellVars => HistoryInv'
<1>. SUFFICES ASSUME ShellTypeOK, HistoryInv, [ShellNext]_shellVars PROVE HistoryInv'
  OBVIOUS
<1>0. /\ installation.version \in Nat /\ ran \in Nat /\ released \in Nat
      /\ updater.available \in Nat /\ updater.fetching \in Nat
      /\ installation.history \in Seq(Entry)
      /\ \A i \in DOMAIN installation.history : installation.history[i] \in Entry /\ installation.history[i].to \in Nat
  <2>1. installation.history \in Seq(Entry)
    BY DEF ShellTypeOK
  <2>2. \A i \in DOMAIN installation.history : installation.history[i] \in Entry
    BY <2>1, ElementOfSeq, LenProperties
  <2>. QED BY <2>1, <2>2, VersionFacts DEF ShellTypeOK, Updater, Entry
<1>1. ASSUME NEW b \in Backends,
             TakeLock(b) \/ PrintPort(b) \/ WatchParent(b) \/ Terminated(b) \/ BackendCrash(b)
      PROVE  HistoryInv'
  BY <1>1, QuietStep DEF TakeLock, PrintPort, WatchParent, Terminated, BackendCrash
<1>2. ASSUME NEW b \in Backends, LaunchShell(b) PROVE HistoryInv'
  <2>1. /\ installation' = installation /\ ran' >= ran /\ ran' >= installation.version /\ ran' \in Nat
        /\ shell'.at = "starting" /\ updater'.status = "idle" /\ updater'.fetching = 0
    BY <1>0, <1>2 DEF LaunchShell, Off, NoUpdater
  <2>2. InstalledHasRun'
    BY <1>0, <2>1 DEF HistoryInv, InstalledHasRun
  <2>. QED BY <1>0, <2>1, <2>2
           DEF HistoryInv, NoRestartIntoThePast, RunningWasStarted, UpdatesGoForward, Showing
<1>l. CASE LaunchFails
  <2>1. /\ installation' = installation /\ ran' >= ran /\ ran' >= installation.version /\ ran' \in Nat
        /\ shell'.at = "error" /\ updater'.status = "idle" /\ updater'.fetching = 0
    BY <1>0, <1>l DEF LaunchFails, Off, NoUpdater
  <2>2. InstalledHasRun'
    BY <1>0, <2>1 DEF HistoryInv, InstalledHasRun
  <2>. QED BY <1>0, <2>1, <2>2
           DEF HistoryInv, NoRestartIntoThePast, RunningWasStarted, UpdatesGoForward, Showing
<1>3. CASE ReadPort \/ NotVerified \/ ChildExit \/ Dismiss \/ UserQuits \/ KillTimer
  <2>1. /\ UNCHANGED <<installation, ran, updater>>
        /\ shell'.at = "open" => shell.at = "open"
        /\ shell.at # "off"
    BY <1>3
       DEF ReadPort, NotVerified, ChildExit, Dismiss, UserQuits, KillTimer, ShellTypeOK, Shell, Quit, StopServer
  <2>. QED BY <2>1, QuietStep
<1>4a. CASE Verified(FALSE)
  <2>1. /\ UNCHANGED <<installation, ran>> /\ ~updater'.healed
        /\ updater'.status \in {"idle", "unsupported"} /\ updater'.fetching = 0
        /\ shell.at = "verifying"
    BY <1>4a DEF Verified, WriteHistory, ShellTypeOK, NoUpdater
  <2>. QED BY <2>1
           DEF HistoryInv, InstalledHasRun, NoRestartIntoThePast, RunningWasStarted, UpdatesGoForward
<1>4. CASE Verified(TRUE)
  <2>1. /\ installation'.history = Healed(installation.history) /\ installation'.version = installation.version /\ ran' = ran
        /\ updater'.status \in {"idle", "unsupported"} /\ updater'.fetching = 0
        /\ installation.version <= ran
    BY <1>4 DEF Verified, WriteHistory, ShellTypeOK, HistoryInv, RunningWasStarted, NoUpdater
  <2>2. /\ DOMAIN Healed(installation.history) = DOMAIN installation.history
        /\ \A i \in DOMAIN installation.history : Healed(installation.history)[i] = HealedEntry(installation.history[i])
    BY <1>0, HealedFacts
  <2>3. ASSUME NEW e \in Entry
        PROVE  /\ HealedEntry(e).to = e.to
               /\ e.to <= installation.version => HealedEntry(e).status = "installed"
               /\ ~(e.to <= installation.version) => HealedEntry(e) = e
    BY DEF HealedEntry, Entry
  <2>. DEFINE healed == Healed(installation.history)
  <2>. /\ DOMAIN installation'.history = DOMAIN installation.history /\ installation'.version = installation.version
       /\ installation'.history = healed /\ ran' = ran
    BY <2>1, <2>2
  <2>4. InstalledHasRun'
    <3>1. ASSUME NEW i \in DOMAIN installation.history, healed[i].status = "installed"
          PROVE  healed[i].to <= ran
      <4> DEFINE e == installation.history[i]
      <4>1. e \in Entry /\ e.to \in Nat /\ healed[i] = HealedEntry(e)
        BY <1>0, <2>2
      <4>2. e.status = "installed" => e.to <= ran
        BY DEF HistoryInv, InstalledHasRun
      <4>. HIDE DEF e, healed
      <4>. QED BY <1>0, <2>1, <2>3, <3>1, <4>1, <4>2
    <3>. HIDE DEF healed
    <3>. QED BY <3>1 DEF InstalledHasRun
  <2>5. NoRestartIntoThePast'
    <3>1. ASSUME NEW i \in DOMAIN installation.history, healed[i].status = "pending-restart"
          PROVE  healed[i].to > installation.version
      <4> DEFINE e == installation.history[i]
      <4>1. e \in Entry /\ e.to \in Nat /\ healed[i] = HealedEntry(e)
        BY <1>0, <2>2
      <4>. HIDE DEF e, healed
      <4>. QED BY <1>0, <2>3, <3>1, <4>1
    <3>. HIDE DEF healed
    <3>. QED BY <3>1 DEF NoRestartIntoThePast
  <2>. QED BY <2>1, <2>4, <2>5 DEF HistoryInv, RunningWasStarted, UpdatesGoForward
<1>5. CASE Exit \/ ShellCrash
  <2>1. /\ installation'.history = installation.history /\ ran' = ran
        /\ shell'.at = "off" /\ updater'.status = "idle" /\ updater'.fetching = 0
    BY <1>5 DEF Exit, ShellCrash, ShellTypeOK, Off, NoUpdater
  <2>. QED BY <2>1
           DEF HistoryInv, InstalledHasRun, NoRestartIntoThePast, RunningWasStarted, UpdatesGoForward, Showing
<1>6. CASE Check \/ CheckAnswers \/ CheckFails \/ Download \/ Progress \/ DownloadFails
  <2>1. UNCHANGED <<shell, installation, ran>> /\ updater'.healed = updater.healed
    BY <1>6 DEF Check, CheckAnswers, CheckFails, Download, Progress, DownloadFails, ShellTypeOK, Updater
  <2>2. UpdatesGoForward'
    <3>1. CASE Check \/ CheckFails \/ Progress \/ DownloadFails
      BY <2>1, <3>1
         DEF Check, CheckFails, Progress, DownloadFails, ShellTypeOK, Updater, HistoryInv, UpdatesGoForward
    <3>2. CASE CheckAnswers
      BY <1>0, <2>1, <3>2 DEF CheckAnswers, ShellTypeOK, Updater, HistoryInv, UpdatesGoForward
    <3>3. CASE Download
      BY <2>1, <3>3 DEF Download, ShellTypeOK, Updater, HistoryInv, UpdatesGoForward
    <3>. QED BY <1>6, <3>1, <3>2, <3>3
  <2>. QED BY <2>1, <2>2, QuietStep
<1>7a. CASE Downloaded(FALSE)
  <2>1. /\ UNCHANGED <<installation, ran, shell>> /\ updater'.healed = updater.healed
        /\ updater'.status = "ready" /\ updater'.fetching = 0
    BY <1>7a DEF Downloaded, WriteHistory, ShellTypeOK, Updater
  <2>2. UpdatesGoForward'
    BY <2>1 DEF UpdatesGoForward
  <2>. QED BY <2>1, <2>2, QuietStep
<1>7. CASE Downloaded(TRUE)
  <2> DEFINE v == updater.fetching
             r == Recorded(installation.history, v)
  <2>1. /\ v \in Versions /\ v > installation.version
        /\ installation'.history = r /\ installation'.version = installation.version
        /\ UNCHANGED <<shell, ran>> /\ updater'.healed = updater.healed
        /\ updater'.status = "ready" /\ updater'.fetching = 0
    BY <1>7 DEF Downloaded, WriteHistory, ShellTypeOK, Updater, MaybeVersion, HistoryInv, UpdatesGoForward
  <2>2. \A i \in DOMAIN r :
            \/ r[i] = [to |-> v, status |-> "pending-restart"]
            \/ \E j \in DOMAIN installation.history : r[i] = installation.history[j]
    BY <1>0, <2>1, RecordedFacts
  <2>. HIDE DEF r, v
  <2>3. InstalledHasRun'
    BY <2>1, <2>2 DEF HistoryInv, InstalledHasRun
  <2>4. NoRestartIntoThePast'
    BY <2>1, <2>2 DEF HistoryInv, NoRestartIntoThePast, Showing
  <2>. QED BY <2>1, <2>3, <2>4 DEF HistoryInv, RunningWasStarted, UpdatesGoForward
<1>8. CASE Publish \/ UNCHANGED shellVars
  BY <1>8, QuietStep DEF Publish, shellVars
<1>9. ASSUME NEW written \in BOOLEAN, Verified(written) \/ Downloaded(written) PROVE HistoryInv'
  BY <1>4, <1>4a, <1>7, <1>7a, <1>9
<1>. QED
  BY <1>1, <1>2, <1>l, <1>3, <1>5, <1>6, <1>8, <1>9 DEF ShellNext

LEMMA HistoryHolds == ShellSpec => []HistoryInv
<1>. QED BY InitTypes, TypesStep, InitHistory, HistoryStep, PTL DEF ShellSpec

(* Whatever crashes, and whichever check or download fails: no entry of the *)
(* update history is marked installed unless that version, or a newer one,  *)
(* was started (healHistory).                                               *)
THEOREM NoFalseInstall == ShellSpec => []InstalledHasRun
<1>1. HistoryInv => InstalledHasRun
  BY DEF HistoryInv
<1>. QED BY <1>1, HistoryHolds, PTL

(* An open window never offers a restart into a version that is running     *)
(* already, or an older one, unless the write of the history failed at this *)
(* launch (healHistory swallows the error).                                 *)
THEOREM NoStaleRestart == ShellSpec => []NoRestartIntoThePast
<1>1. HistoryInv => NoRestartIntoThePast
  BY DEF HistoryInv
<1>. QED BY <1>1, HistoryHolds, PTL
=============================================================================
