----------------------------- MODULE Supervisor -----------------------------
(***************************************************************************)
(* serve.py: the process that starts the server, starts it again when it   *)
(* dies, backs the database up once a day and then removes the records     *)
(* that were canceled long ago, and installs what was pushed to the        *)
(* repository.  One cycle of _watch_once() is a chain of steps here, each  *)
(* a command that can fail or run into its time limit; the server, its     *)
(* users, the repository and the calendar go on between any two of them.   *)
(***************************************************************************)
EXTENDS Naturals, Sequences, FiniteSets

CONSTANTS
    Newest,         \* versions pushed to the repository: 1..Newest
    Broken,         \* versions that do not boot
    NewPackages,    \* versions that boot only with their own packages
    Records,        \* records of the database
    LastDay,        \* bound: days
    Retention,      \* days a canceled record is kept; 0: for ever
    KeepDays,       \* days a backup is kept
    KeepMin         \* newest backups that are kept whatever their age

ASSUME DaysAssumption == /\ Retention \in Nat
                         /\ KeepDays \in Nat /\ KeepMin \in Nat

VARIABLES
    sv,         \* where the supervisor is in its cycle; "off"
    head,       \* the version in the working tree
    packages,   \* the version whose packages were installed last
    remote,     \* the version in the repository
    tracked,    \* origin/main: the version the last fetch or pull saw there
    edited,     \* the working tree has local changes a pull would overwrite
    server,     \* the version its process runs, and its state
    deaths,     \* consecutive_restarts, up to three
    status,     \* update-status.json: "none", "ok", "failed"
    day, slot,  \* today and last_daily_backup
    rows,       \* records in the database
    canceled,   \* per record: the day it was canceled, or 0
    backups,    \* backup files, newest first
    purged      \* records removed after their time: the day and by whom

code == <<head, packages, remote, tracked, edited>>
data == <<day, slot, rows, canceled, backups, purged>>
vars == <<sv, code, server, deaths, status, data>>

Boots(v) == v \notin Broken /\ (v \in NewPackages => packages = v)
Sound    == Boots(head)

Init ==
    /\ sv = "off" /\ head = 1 /\ packages = 1 /\ remote = 1 /\ tracked = 1 /\ edited = FALSE
    /\ server = [runs |-> 1, state |-> "down"] /\ deaths = 0 /\ status = "none"
    /\ day = 1 /\ slot = 0 /\ rows = {} /\ canceled = [r \in Records |-> 0]
    /\ backups = <<>> /\ purged = {}

Goto(p) == sv' = p

(* start_server(); a new process runs what is in the working tree          *)
Start == server' = [runs |-> head, state |-> "boots"]

(***************************************************************************)
(* Starting: ensure_runtime() installs the packages; when that fails it    *)
(* pulls and tries once more, or gives up.                                 *)
(***************************************************************************)
Launch ==
    /\ sv = "off" /\ Goto("install")
    /\ slot' = 0 /\ deaths' = 0
    /\ UNCHANGED <<code, server, status, day, rows, canceled, backups, purged>>

Installed ==
    /\ sv \in {"install", "reinstall"} /\ Goto("wait")
    /\ packages' = head
    /\ Start
    /\ UNCHANGED <<head, remote, tracked, edited, deaths, status, data>>

NotInstalled ==
    /\ \/ sv = "install" /\ \/ ~ edited /\ head' = remote /\ tracked' = remote /\ Goto("reinstall")
                            \/ head' = head /\ tracked' \in {tracked, remote} /\ Goto("off")
       \/ sv = "reinstall" /\ head' = head /\ tracked' = tracked /\ Goto("off")
    /\ UNCHANGED <<packages, remote, edited, server, deaths, status, data>>

(* faulty variant: a dead server does not begin another cycle              *)
WakeAnyway ==
    /\ sv = "wait"
    /\ Goto(IF slot # day THEN "backup" ELSE "fetch")
    /\ UNCHANGED <<code, server, deaths, status, data>>

(***************************************************************************)
(* One cycle begins when its ten minutes are over or the server has died.  *)
(***************************************************************************)
Wake ==
    /\ sv = "wait"
    /\ Goto(IF server.state = "down" THEN "dead" ELSE IF slot # day THEN "backup" ELSE "fetch")
    /\ UNCHANGED <<code, server, deaths, status, data>>

StartAgain ==
    /\ sv = "dead" /\ Goto("revive")
    /\ deaths' = IF deaths < 3 THEN deaths + 1 ELSE 3
    /\ Start
    /\ UNCHANGED <<code, status, data>>

(* wait_until_healthy(): it answers, or it died, or 40 seconds are over.   *)
Revived ==
    /\ sv = "revive" /\ Goto("wait")
    /\ \/ server.state = "up" /\ deaths' = 0 /\ status' = status
       \/ /\ server.state # "up" /\ deaths' = deaths
          /\ status' = IF deaths >= 3 THEN "failed" ELSE status
    /\ UNCHANGED <<code, server, data>>

(* prune_backups(): the newest few of the files are kept, and what is      *)
(* young enough.  They are sorted newest first, so these are a prefix.     *)
Prune(files) ==
    \E n \in 0..Len(files) :
        /\ \A i \in DOMAIN files : i <= n <=> (i <= KeepMin \/ files[i].day + KeepDays >= day)
        /\ backups' = SubSeq(files, 1, n)

(* backup_db(): a verified copy; a failed or corrupt one does not count,   *)
(* and copies of one day with the same records count as one.               *)
Copy == [day |-> day, rows |-> rows]
BackUp == Prune(IF backups # <<>> /\ Head(backups) = Copy THEN backups ELSE <<Copy>> \o backups)

(* faulty variant: the purge runs although the backup failed               *)
DailyBackupOrNot ==
    /\ sv = "backup" /\ slot' = day /\ Goto("purge")
    /\ BackUp \/ Prune(backups)
    /\ UNCHANGED <<code, server, deaths, status, day, rows, canceled, purged>>

DailyBackup ==
    /\ sv = "backup"
    /\ \/ BackUp /\ slot' = day /\ Goto("purge")
       \/ Prune(backups) /\ slot' = slot /\ Goto("fetch")
    /\ UNCHANGED <<code, server, deaths, status, day, rows, canceled, purged>>

(* purge_expired_canceled(), from the tool or at the start of the server.  *)
Expired == {r \in rows : Retention # 0 /\ canceled[r] # 0 /\ canceled[r] + Retention < day}
Purge(by) ==
    /\ rows' = rows \ Expired
    /\ purged' = purged \cup {[record |-> r, on |-> day, by |-> by] : r \in Expired}

DailyPurge ==
    /\ sv = "purge" /\ Goto("fetch")
    /\ Purge("slot") \/ UNCHANGED <<rows, purged>>
    /\ UNCHANGED <<code, server, deaths, status, day, slot, canceled, backups>>

(***************************************************************************)
(* has_update() and apply_update().                                        *)
(***************************************************************************)
Failed == status' = "failed" /\ Goto("wait")

Compare(known) == Goto(IF head = known THEN "wait" ELSE "update")

(* faulty variant: an update that failed is not tried again                *)
FetchOnce ==
    /\ sv = "fetch" /\ tracked' = remote
    /\ Goto(IF head = remote \/ status = "failed" THEN "wait" ELSE "update")
    /\ UNCHANGED <<head, packages, remote, edited, server, deaths, status, data>>

Fetch ==
    /\ sv = "fetch" /\ tracked' = remote
    /\ Compare(remote)
    /\ UNCHANGED <<head, packages, remote, edited, server, deaths, status, data>>

(* git ends with an error at once: a credential that expired, no network.  *)
(* Its return code is not looked at; HEAD is compared with the origin/main *)
(* of some earlier fetch, and the status stays.                            *)
FetchRefused ==
    /\ sv = "fetch" /\ Compare(tracked)
    /\ UNCHANGED <<code, server, deaths, status, data>>

(* The time is over, or the command cannot be run.                         *)
FetchFails ==
    /\ sv = "fetch" /\ Failed
    /\ UNCHANGED <<code, server, deaths, data>>

UpdateBackup ==
    /\ sv = "update" /\ BackUp /\ Goto("pull")
    /\ UNCHANGED <<code, server, deaths, status, day, slot, rows, canceled, purged>>

UpdateBackupFails ==
    /\ sv = "update" /\ Prune(backups) /\ Failed
    /\ UNCHANGED <<code, server, deaths, day, slot, rows, canceled, purged>>

(* git pull; local changes are put away with git stash and it is tried     *)
(* again.                                                                  *)
Pull ==
    /\ sv = "pull" /\ Goto("pip")
    /\ head' = remote /\ tracked' = remote /\ edited' = FALSE
    /\ status' = IF edited THEN "ok" ELSE status
    /\ UNCHANGED <<packages, remote, server, deaths, data>>

PullFails ==
    /\ sv = "pull" /\ Failed
    /\ edited' \in {edited, FALSE} /\ tracked' \in {tracked, remote}
    /\ UNCHANGED <<head, packages, remote, server, deaths, data>>

Pip ==
    /\ sv = "pip" /\ Goto("restart")
    /\ packages' = head /\ status' = "ok"
    /\ UNCHANGED <<head, remote, tracked, edited, server, deaths, data>>

(* faulty variant: the failure is only logged                              *)
PipFailsSilently ==
    /\ sv = "pip" /\ Goto("wait")
    /\ UNCHANGED <<code, server, deaths, status, data>>

PipFails ==
    /\ sv = "pip" /\ Failed
    /\ UNCHANGED <<code, server, deaths, data>>

(* stop_server(), start_server(), wait_until_healthy()                     *)
Restart ==
    /\ sv = "restart" /\ Goto("health")
    /\ Start
    /\ UNCHANGED <<code, deaths, status, data>>

Healthy ==
    /\ sv = "health" /\ Goto("wait")
    /\ status' = IF server.state = "up" THEN "ok" ELSE "failed"
    /\ UNCHANGED <<code, server, deaths, data>>

(***************************************************************************)
(* The server, its users, the repository, the calendar, the machine.       *)
(***************************************************************************)
(* create_app() purges before the first request is served.                 *)
ServerComesUp ==
    /\ server.state = "boots" /\ Boots(server.runs)
    /\ server' = [server EXCEPT !.state = "up"]
    /\ Purge("start")
    /\ UNCHANGED <<sv, code, deaths, status, day, slot, canceled, backups>>

ServerDoesNot ==
    /\ server.state = "boots" /\ ~ Boots(server.runs)
    /\ server' = [server EXCEPT !.state = "down"]
    /\ UNCHANGED <<sv, code, deaths, status, data>>

ServerDies ==
    /\ server.state = "up"
    /\ server' = [server EXCEPT !.state = "down"]
    /\ UNCHANGED <<sv, code, deaths, status, data>>

Save(r) ==
    /\ server.state = "up" /\ r \notin rows /\ canceled[r] = 0
    /\ rows' = rows \cup {r}
    /\ UNCHANGED <<sv, code, server, deaths, status, day, slot, canceled, backups, purged>>

Cancel(r) ==
    /\ server.state = "up" /\ r \in rows /\ canceled[r] = 0
    /\ canceled' = [canceled EXCEPT ![r] = day]
    /\ UNCHANGED <<sv, code, server, deaths, status, day, slot, rows, backups, purged>>

Push ==
    /\ remote < Newest /\ remote' = remote + 1
    /\ UNCHANGED <<sv, head, packages, tracked, edited, server, deaths, status, data>>

Edit ==
    /\ ~ edited /\ edited' = TRUE
    /\ UNCHANGED <<sv, head, packages, remote, tracked, server, deaths, status, data>>

(* A step of the cycle is over within the hour: the day changes once at    *)
(* most, while the supervisor waits or between backup and purge.           *)
Midnight ==
    /\ day < LastDay /\ \/ sv \in {"off", "wait"}
                        \/ sv = "purge" /\ slot = day
    /\ day' = day + 1
    /\ UNCHANGED <<sv, code, server, deaths, status, slot, rows, canceled, backups, purged>>

(* The machine stops, or the window is closed.                             *)
Stop ==
    /\ sv # "off" /\ Goto("off")
    /\ server' = [server EXCEPT !.state = "down"]
    /\ UNCHANGED <<code, deaths, status, data>>

Cycle ==
    \/ Wake \/ StartAgain \/ Revived \/ DailyBackup \/ DailyPurge
    \/ Fetch \/ FetchRefused \/ FetchFails \/ UpdateBackup \/ UpdateBackupFails
    \/ Pull \/ PullFails \/ Pip \/ PipFails \/ Restart \/ Healthy
World ==
    \/ Launch \/ Installed \/ NotInstalled \/ ServerComesUp \/ ServerDoesNot \/ ServerDies
    \/ Push \/ Edit \/ Midnight \/ Stop
    \/ \E r \in Records : Save(r) \/ Cancel(r)
Next == Cycle \/ World

(* The cycle goes on, a process that starts is up or dead some time later, *)
(* and a command that is tried again and again works some time.            *)
Fairness ==
    /\ WF_vars(Cycle) /\ WF_vars(Installed \/ NotInstalled) /\ WF_vars(ServerComesUp \/ ServerDoesNot)
    /\ SF_vars(Fetch) /\ SF_vars(UpdateBackup) /\ SF_vars(Pull) /\ SF_vars(Pip)
Spec == Init /\ [][Next]_vars /\ Fairness

(***************************************************************************)
(* Properties                                                              *)
(***************************************************************************)
(* What update-status.json calls ok is what runs: the server's process was *)
(* started from the code and with the packages that are installed.  It does*)
(* not say that the last look at the repository reached it.                *)
OkMeansRunning ==
    sv = "wait" /\ status = "ok" => server.runs = head /\ packages = head

(* The comment of has_update(): a look at the repository that failed is    *)
(* written to the file, which must not keep its last success.              *)
FailedChecksAreReported ==
    [][sv = "fetch" /\ sv' = "wait" /\ tracked' # remote => status' = "failed"]_vars

(* A record that was removed can be taken from a backup as long as backups *)
(* are kept: the daily purge follows a backup of the same day, which the   *)
(* pruning does not remove.                                                *)
Recoverable(p) ==
    day < p.on + KeepDays => \E i \in DOMAIN backups : p.record \in backups[i].rows
DailyPurgeIsRecoverable == \A p \in purged : p.by = "slot" => Recoverable(p)

(* The docstring of purge_expired_canceled: it runs after the daily backup,*)
(* which still has what it removes.                                        *)
PurgedIsRecoverable == \A p \in purged : Recoverable(p)

(* A dead server comes back by itself, when the installed code boots.      *)
ComesBack ==
    server.state = "down" /\ sv # "off" /\ Sound ~> server.state = "up" \/ sv = "off" \/ ~ Sound

(* When the server stays up, what was pushed is pulled in the end,         *)
(* whatever fails in between.                                              *)
Undisturbed == <>[](sv # "off" /\ server.state = "up" /\ remote = Newest)
PulledInTheEnd == Undisturbed => <>(head = Newest)

(* The docstring of apply_update(): what fails is tried again in the next  *)
(* cycle; so the packages of the version that was pulled are installed in  *)
(* the end.                                                                *)
InstalledInTheEnd == Undisturbed => <>(packages = Newest)
=============================================================================
