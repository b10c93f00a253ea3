-------------------------- MODULE MCBackupRestore --------------------------
(* Workloads of BackupRestore for TLC.                                      *)
EXTENDS BackupRestore, TLC

CONSTANTS p1, p2, j1, j2

(* One backend and two jobs that overlap; two backends and one job, with    *)
(* deaths anywhere.                                                         *)
Overlapping ==
    [procs |-> {p1}, jobs |-> {j1, j2}, requests |-> {"manual", "scheduled", "upload"},
     writes |-> 1, backups |-> 4, diesIn |-> {"serving"}]
TwoBackends ==
    [procs |-> {p1, p2}, jobs |-> {j1}, requests |-> {"manual", "restore", "delete"},
     writes |-> 1, backups |-> 3, diesIn |-> {"serving", "startup"}]
Both == {Overlapping, TwoBackends}

(* One backend, one job, and a death in the middle of a startup.            *)
Crashing == {[TwoBackends EXCEPT !.procs = {p1}, !.requests = {"restore", "manual", "upload"}]}

Symmetry == Permutations({p1, p2}) \cup Permutations({j1, j2})
=============================================================================
