------------------------------- MODULE Shell -------------------------------
(* The Electron shell (electron/main.js), the backend it spawns and its     *)
(* updater (electron/updater.js).                                           *)
(*                                                                          *)
(* One shell runs at a time: requestSingleInstanceLock makes a second       *)
(* launch quit at once, so `shell` is one record that is launched, dies and *)
(* is launched again. A backend is a process of its own: it can die under   *)
(* an open window, and it can outlive the shell that spawned it. The        *)
(* variables the shell keeps in memory die with it; `installation` stays.   *)
(*                                                                          *)
(* The library electron-updater (external) is modelled by its events: a     *)
(* check or a download answers once or fails, and an update downloaded by   *)
(* this process is installed when this process quits. Versions are numbers; *)
(* tokens, ports, windows' looks and messages are left out.                 *)
EXTENDS Naturals, Sequences

CONSTANTS
    Backends,      \* identities for backend processes
    Versions,      \* 1..n, the releases there may be
    HistoryLimit,  \* entries update-history.json keeps (50 in the code)
    MaxFaults,     \* bound on crashes, of the shell and of backends, and on failed writes
    NoChild        \* no process was spawned

ASSUME ShellAssumption ==
    /\ NoChild \notin Backends
    /\ Versions \subseteq Nat \ {0} /\ 1 \in Versions
    /\ HistoryLimit \in Nat \ {0}
    /\ MaxFaults \in Nat

VARIABLES
    shell,     \* the shell process and its module variables
    backend,   \* the backend processes
    updater,   \* the state object of updater.js and what the library has in flight
    installation,  \* what stays on disk: the version, the update history
    released,  \* the newest published version
    ran,       \* history variable: the newest version that was ever started
    faults     \* crashes and failed writes so far

shellVars == <<shell, backend, updater, installation, released, ran, faults>>

----------------------------------------------------------------------------
(* State.                                                                   *)

Stages == {"off", "starting", "verifying", "open", "error", "closing"}

(* child: the process spawned; server: whether the variable of that name    *)
(* still holds it; settled: a port was read; told: its exit was handled;    *)
(* timer: the SIGKILL three seconds after SIGTERM is pending.               *)
Shell == [at : Stages, child : Backends \cup {NoChild}, server : BOOLEAN, settled : BOOLEAN,
          told : BOOLEAN, quitting : BOOLEAN, timer : BOOLEAN]

Off == [at |-> "off", child |-> NoChild, server |-> FALSE, settled |-> FALSE,
        told |-> FALSE, quitting |-> FALSE, timer |-> FALSE]

(* A backend boots, takes the database lock, then prints its port and       *)
(* watches its parent. orphan: the shell that spawned it is gone, which     *)
(* closes the pipe on its stdin. term: SIGTERM was sent.                    *)
Backend == [at : {"none", "booting", "locked", "up"}, orphan : BOOLEAN, term : BOOLEAN]

NoProcess == [at |-> "none", orphan |-> FALSE, term |-> FALSE]

Statuses == {"unsupported", "idle", "checking", "current", "available", "downloading",
             "ready", "error"}

MaybeVersion == Versions \cup {0}

(* checking and fetching are what is in flight; staged is the update this   *)
(* process downloaded, which its quit installs; healed (history variable):  *)
(* the write of healHistory went through.                                   *)
Updater == [status : Statuses, available : MaybeVersion, checking : BOOLEAN,
            fetching : MaybeVersion, staged : MaybeVersion, healed : BOOLEAN]

NoUpdater == [status |-> "idle", available |-> 0, checking |-> FALSE,
              fetching |-> 0, staged |-> 0, healed |-> FALSE]

Entry == [to : Versions, status : {"pending-restart", "installed"}]

Alive(b) == backend[b].at # "none"
Locked == \E b \in Backends : backend[b].at \in {"locked", "up"}
ChildAlive == shell.child # NoChild /\ Alive(shell.child)
Showing == shell.at = "open"

ShellInit ==
    /\ shell = Off
    /\ backend = [b \in Backends |-> NoProcess]
    /\ updater = NoUpdater
    /\ installation \in [version : {1}, history : {<<>>}, selfUpdates : BOOLEAN]
    /\ released = 1
    /\ ran = 0
    /\ faults = 0

----------------------------------------------------------------------------
(* The backend process (rust/server/src/main.rs), from the shell's side.    *)

(* The lock on the database: refused, the process exits before any port.    *)
TakeLock(b) ==
    /\ backend[b].at = "booting"
    /\ backend' = [backend EXCEPT ![b] = IF Locked THEN NoProcess ELSE [@ EXCEPT !.at = "locked"]]
    /\ UNCHANGED <<shell, updater, installation, released, ran, faults>>

(* One line of JSON on stdout; watch_parent runs from here on.              *)
PrintPort(b) ==
    /\ backend[b].at = "locked"
    /\ backend' = [backend EXCEPT ![b].at = "up"]
    /\ UNCHANGED <<shell, updater, installation, released, ran, faults>>

(* Wrong: the parent is not watched, SIGTERM is relied on.                  *)
WatchParentIfTold(b) ==
    /\ backend[b].at = "up" /\ backend[b].orphan /\ backend[b].term
    /\ backend' = [backend EXCEPT ![b] = NoProcess]
    /\ UNCHANGED <<shell, updater, installation, released, ran, faults>>

(* EOF on the supervision pipe, a parent that changed, or PDEATHSIG.        *)
WatchParent(b) ==
    /\ backend[b].at = "up" /\ backend[b].orphan
    /\ backend' = [backend EXCEPT ![b] = NoProcess]
    /\ UNCHANGED <<shell, updater, installation, released, ran, faults>>

(* SIGTERM has its default effect.                                          *)
Terminated(b) ==
    /\ Alive(b) /\ backend[b].term
    /\ backend' = [backend EXCEPT ![b] = NoProcess]
    /\ UNCHANGED <<shell, updater, installation, released, ran, faults>>

BackendCrash(b) ==
    /\ faults < MaxFaults /\ Alive(b)
    /\ backend' = [backend EXCEPT ![b] = NoProcess]
    /\ faults' = faults + 1
    /\ UNCHANGED <<shell, updater, installation, released, ran>>

----------------------------------------------------------------------------
(* The life of the shell (main.js).                                         *)

(* stopServer: SIGTERM now, SIGKILL from a timer, and only the first time.  *)
StopServer(sh) == [sh EXCEPT !.server = FALSE, !.timer = sh.server \/ sh.timer]
SendTerm(sh) ==
    IF sh.server /\ Alive(sh.child) THEN [backend EXCEPT ![sh.child].term = TRUE] ELSE backend

(* app.quit(): before-quit sets `quitting` and stops the server.            *)
Quit(sh) == [StopServer(sh) EXCEPT !.quitting = TRUE, !.at = "closing"]

(* startServer.                                                             *)
LaunchShell(b) ==
    /\ shell.at = "off"
    /\ ~Alive(b)
    /\ backend' = [backend EXCEPT ![b] = [NoProcess EXCEPT !.at = "booting"]]
    /\ shell' = [Off EXCEPT !.at = "starting", !.child = b, !.server = TRUE]
    /\ updater' = NoUpdater
    /\ ran' = IF installation.version > ran THEN installation.version ELSE ran
    /\ UNCHANGED <<installation, released, faults>>

(* startServer with no binary there, or one that cannot be spawned (the     *)
(* 'error' event): there is no child, and the start is rejected.            *)
LaunchFails ==
    /\ shell.at = "off"
    /\ shell' = [Off EXCEPT !.at = "error", !.told = TRUE]
    /\ updater' = NoUpdater
    /\ ran' = IF installation.version > ran THEN installation.version ELSE ran
    /\ UNCHANGED <<backend, installation, released, faults>>

(* The first line of JSON settles the start.                                *)
ReadPort ==
    /\ shell.at = "starting" /\ ChildAlive
    /\ backend[shell.child].at = "up"
    /\ shell' = [shell EXCEPT !.settled = TRUE, !.at = "verifying"]
    /\ UNCHANGED <<backend, updater, installation, released, ran, faults>>

(* Wrong: every entry is taken to be installed.                             *)
HealedAll(history) == [i \in DOMAIN history |-> [history[i] EXCEPT !.status = "installed"]]

(* Wrong: the newest entry alone is settled.                                *)
HealedNewest(history) ==
    [i \in DOMAIN history |->
        IF i = 1 /\ history[i].to <= installation.version THEN [history[i] EXCEPT !.status = "installed"]
                                                  ELSE history[i]]

(* healHistory: every entry the running version proves installed.           *)
Healed(history) ==
    [i \in DOMAIN history |->
        IF history[i].to <= installation.version THEN [history[i] EXCEPT !.status = "installed"]
                                         ELSE history[i]]

(* update-history.json is written, or the error is swallowed.               *)
WriteHistory(history, written) ==
    IF written
    THEN /\ installation' = [installation EXCEPT !.history = history]
         /\ UNCHANGED faults
    ELSE /\ faults < MaxFaults /\ faults' = faults + 1
         /\ UNCHANGED installation

(* verifyBackend answered: the window opens and the updater starts. An      *)
(* installation that cannot replace itself gets no updater.                 *)
Verified(written) ==
    /\ shell.at = "verifying" /\ ChildAlive
    /\ shell' = [shell EXCEPT !.at = "open"]
    /\ WriteHistory(Healed(installation.history), written)
    /\ updater' = [NoUpdater EXCEPT !.status = IF installation.selfUpdates THEN "idle" ELSE "unsupported",
                                    !.healed = written]
    /\ UNCHANGED <<backend, released, ran>>

(* The fetch of verifyBackend failed, or the backend, alive, answered with  *)
(* a 401 or another error: a box, which blocks the shell until it is        *)
(* dismissed, and then the quit.                                            *)
NotVerified ==
    /\ shell.at = "verifying"
    /\ shell' = [shell EXCEPT !.at = "error"]
    /\ UNCHANGED <<backend, updater, installation, released, ran, faults>>

(* Wrong: an exit before the port is nobody's business.                     *)
ChildExitOnceSettled ==
    /\ shell.at \in {"starting", "verifying", "open", "closing"}
    /\ ~ChildAlive /\ ~shell.told /\ (shell.settled \/ shell.quitting)
    /\ shell' = [shell EXCEPT !.told = TRUE, !.server = FALSE,
                              !.at = IF shell.quitting THEN @ ELSE "error"]
    /\ UNCHANGED <<backend, updater, installation, released, ran, faults>>

(* Wrong: the window is not told.                                           *)
ChildExitUnreported ==
    /\ shell.at \in {"starting", "verifying", "open", "closing"}
    /\ ~ChildAlive /\ ~shell.told
    /\ shell' = [shell EXCEPT !.told = TRUE, !.server = FALSE]
    /\ UNCHANGED <<backend, updater, installation, released, ran, faults>>

(* The 'exit' handler. Before a port the start is rejected; after it the    *)
(* backend "stopped unexpectedly"; while quitting it says nothing.          *)
ChildExit ==
    /\ shell.at \in {"starting", "verifying", "open", "closing"}
    /\ ~ChildAlive /\ ~shell.told
    /\ shell' = [shell EXCEPT !.told = TRUE, !.server = FALSE,
                              !.at = IF shell.quitting THEN @ ELSE "error"]
    /\ UNCHANGED <<backend, updater, installation, released, ran, faults>>

(* The error box is closed and app.quit() runs.                             *)
Dismiss ==
    /\ shell.at = "error"
    /\ shell' = Quit(shell) /\ backend' = SendTerm(shell)
    /\ UNCHANGED <<updater, installation, released, ran, faults>>

(* The last window closes, the system asks the app to quit, or              *)
(* updates:install calls quitAndInstall, which quits.                       *)
UserQuits ==
    /\ shell.at \in {"starting", "verifying", "open"}
    /\ shell' = Quit(shell) /\ backend' = SendTerm(shell)
    /\ UNCHANGED <<updater, installation, released, ran, faults>>

(* The timer is unref'd: it fires only if the shell is still there.         *)
KillTimer ==
    /\ shell.at = "closing" /\ shell.timer
    /\ shell' = [shell EXCEPT !.timer = FALSE]
    /\ backend' = [backend EXCEPT ![shell.child] = NoProcess]
    /\ UNCHANGED <<updater, installation, released, ran, faults>>

(* The process is gone, and with it its end of the pipe.                    *)
Orphan(b) == IF b # NoChild /\ Alive(b) THEN [backend EXCEPT ![b].orphan = TRUE] ELSE backend

(* An orderly exit installs what this process downloaded                    *)
(* (autoInstallOnAppQuit).                                                  *)
Exit ==
    /\ shell.at = "closing"
    /\ installation' = [installation EXCEPT !.version = IF updater.staged # 0 THEN updater.staged ELSE @]
    /\ backend' = Orphan(shell.child)
    /\ shell' = Off /\ updater' = NoUpdater
    /\ UNCHANGED <<released, ran, faults>>

ShellCrash ==
    /\ faults < MaxFaults /\ shell.at # "off"
    /\ backend' = Orphan(shell.child)
    /\ shell' = Off /\ updater' = NoUpdater
    /\ faults' = faults + 1
    /\ UNCHANGED <<installation, released, ran>>

----------------------------------------------------------------------------
(* The updater (updater.js). It answers only while its shell's loop runs.   *)

Updating == Showing /\ installation.selfUpdates

(* `check`, from the timers or from updates:check.                          *)
Check ==
    /\ Updating /\ ~updater.checking
    /\ updater' = [updater EXCEPT !.status = "checking", !.checking = TRUE]
    /\ UNCHANGED <<shell, backend, installation, released, ran, faults>>

(* 'update-available' or 'update-not-available'.                            *)
CheckAnswers ==
    /\ Updating /\ updater.checking
    /\ updater' = IF released > installation.version
                  THEN [updater EXCEPT !.status = "available", !.available = released, !.checking = FALSE]
                  ELSE [updater EXCEPT !.status = "current", !.available = 0, !.checking = FALSE]
    /\ UNCHANGED <<shell, backend, installation, released, ran, faults>>

(* 'error' and the catch of `check`.                                        *)
CheckFails ==
    /\ Updating /\ updater.checking
    /\ updater' = [updater EXCEPT !.status = "error", !.checking = FALSE]
    /\ UNCHANGED <<shell, backend, installation, released, ran, faults>>

(* downloadNow: the page offers it while an update is available.            *)
Download ==
    /\ Updating /\ updater.status = "available"
    /\ updater' = [updater EXCEPT !.status = "downloading", !.fetching = updater.available]
    /\ UNCHANGED <<shell, backend, installation, released, ran, faults>>

(* 'download-progress', whatever the status was.                            *)
Progress ==
    /\ Updating /\ updater.fetching # 0
    /\ updater' = [updater EXCEPT !.status = "downloading"]
    /\ UNCHANGED <<shell, backend, installation, released, ran, faults>>

(* appendHistory, bounded.                                                  *)
Recorded(history, v) ==
    LET all == <<[to |-> v, status |-> "pending-restart"]>> \o history
    IN  SubSeq(all, 1, IF Len(all) > HistoryLimit THEN HistoryLimit ELSE Len(all))

(* 'update-downloaded'.                                                     *)
Downloaded(written) ==
    /\ Updating /\ updater.fetching # 0
    /\ updater' = [updater EXCEPT !.status = "ready", !.available = updater.fetching,
                                  !.staged = updater.fetching, !.fetching = 0]
    /\ WriteHistory(Recorded(installation.history, updater.fetching), written)
    /\ UNCHANGED <<shell, backend, released, ran>>

(* 'error' and the catch of downloadNow.                                    *)
DownloadFails ==
    /\ Updating /\ updater.fetching # 0
    /\ updater' = [updater EXCEPT !.status = "error", !.fetching = 0]
    /\ UNCHANGED <<shell, backend, installation, released, ran, faults>>

(* A release is published.                                                  *)
Publish ==
    /\ released + 1 \in Versions
    /\ released' = released + 1
    /\ UNCHANGED <<shell, backend, updater, installation, ran, faults>>

----------------------------------------------------------------------------
ShellNext ==
    \/ \E b \in Backends :
        TakeLock(b) \/ PrintPort(b) \/ WatchParent(b) \/ Terminated(b) \/ BackendCrash(b) \/ LaunchShell(b)
    \/ \E written \in BOOLEAN : Verified(written) \/ Downloaded(written)
    \/ LaunchFails \/ ReadPort \/ NotVerified \/ ChildExit \/ Dismiss \/ UserQuits \/ KillTimer
    \/ Exit \/ ShellCrash
    \/ Check \/ CheckAnswers \/ CheckFails \/ Download \/ Progress \/ DownloadFails
    \/ Publish

(* Processes that can run do run, and an event the loop has is handled.     *)
(* Nothing obliges a person: not to launch, dismiss, quit, check or         *)
(* download. The SIGKILL timer is not relied on.                            *)
Fairness ==
    /\ \A b \in Backends :
        WF_shellVars(TakeLock(b)) /\ WF_shellVars(PrintPort(b)) /\ WF_shellVars(WatchParent(b)) /\ WF_shellVars(Terminated(b))
    /\ WF_shellVars(ReadPort) /\ WF_shellVars(Verified(TRUE)) /\ WF_shellVars(NotVerified) /\ WF_shellVars(ChildExit)
    /\ WF_shellVars(Exit)

ShellSpec == ShellInit /\ [][ShellNext]_shellVars /\ Fairness

----------------------------------------------------------------------------
(* Properties.                                                              *)

(* The variables have their types, and the history stays bounded.           *)
ShellTypeOK ==
    /\ shell \in Shell
    /\ backend \in [Backends -> Backend]
    /\ updater \in Updater
    /\ installation \in [version : Versions, history : Seq(Entry), selfUpdates : BOOLEAN]
    /\ Len(installation.history) <= HistoryLimit
    /\ released \in Versions /\ ran \in MaybeVersion /\ faults \in 0..MaxFaults

(* An entry marked installed names a version that was started, or an older  *)
(* one: an update that did not take is never recorded as done, the failure  *)
(* the comment in `start` tells of.                                         *)
InstalledHasRun ==
    \A i \in DOMAIN installation.history : installation.history[i].status = "installed" => installation.history[i].to <= ran

(* With the window open, no entry still asks for a restart into a version   *)
(* that is running already, unless the write of this launch failed:         *)
(* healHistory settles all of them, not the newest alone, and what an       *)
(* earlier failure left behind as well.                                     *)
NoRestartIntoThePast ==
    Showing /\ updater.healed => \A i \in DOMAIN installation.history :
                installation.history[i].status = "pending-restart" => installation.history[i].to > installation.version

(* A start ends: in a window, or in an error the user sees, or because the  *)
(* user or a crash ended it. startServer waits for a port or an exit.       *)
StartSettles == shell.at \in {"starting", "verifying"} ~> shell.at \in {"open", "error", "closing", "off"}

(* No window stays open over a backend that is gone: the exit handler.      *)
DeadBackendIsReported == (Showing /\ ~ChildAlive) ~> ~Showing

(* A backend does not outlive its shell for good, whether the shell quit or *)
(* died, and at whatever point of its own start that found the backend:     *)
(* stopServer and watch_parent.                                             *)
NoOrphanStays == \A b \in Backends : backend[b].orphan ~> ~backend[b].orphan
=============================================================================
