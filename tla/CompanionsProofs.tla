-------------------------- MODULE CompanionsProofs --------------------------
(***************************************************************************)
(* Proofs about what runs beside the routes: serve.py, two tools it calls, *)
(* and the assistant.  For any records, people, documents, questions,      *)
(* number of days and versions: that what the status file calls ok is what *)
(* runs, that the daily purge removes nothing that no backup holds, that   *)
(* the notice of leave is sent once a day and marked only then, that a     *)
(* collection that left nothing over says of each document what became of  *)
(* it, and that the conversation the server keeps is the one its user had. *)
(***************************************************************************)
EXTENDS Supervisor, LeaveNotice, PortalRuns, Assistant, FiniteSetTheorems, TLAPS

(***************************************************************************)
(* The status file.                                                        *)
(***************************************************************************)
(* The server's process was started from what is installed.                *)
UpToDate == server.runs = head /\ packages = head

(* OkMeansRunning speaks of the supervisor at rest only.  To be kept by a  *)
(* step it must be known of every place of the cycle from which the        *)
(* supervisor comes to rest with the status it had, and an update under    *)
(* way has done as much as it has come to.                                 *)
Settled == {"wait", "dead", "revive", "backup", "purge", "fetch", "update", "pull"}
Process == [runs : Nat, state : {"down", "boots", "up"}]
StatusInv ==
    /\ head \in Nat /\ remote \in Nat /\ server \in Process
    /\ sv \in Settled /\ status = "ok" => UpToDate
    /\ sv = "restart" => packages = head
    /\ sv = "health" => UpToDate

LEMMA StatusStep ==
    ASSUME StatusInv, [Next]_vars
    PROVE  StatusInv'
<1>1. CASE \/ Wake \/ DailyBackup \/ DailyPurge \/ Fetch \/ FetchRefused \/ FetchFails
           \/ UpdateBackup \/ UpdateBackupFails \/ PipFails \/ Healthy \/ Revived
  BY <1>1 DEF StatusInv, Settled, UpToDate, Wake, DailyBackup, DailyPurge, Fetch, FetchRefused, FetchFails,
     Compare, UpdateBackup, UpdateBackupFails, PipFails, Healthy, Revived, Goto, Failed, code, data
<1>2. CASE \/ Pull \/ PullFails \/ Pip \/ Launch \/ NotInstalled
  BY <1>2 DEF StatusInv, Settled, UpToDate, Pull, PullFails, Pip, Launch, NotInstalled,
     Goto, Failed, code, data
<1>3. CASE Installed \/ StartAgain \/ Restart
  <2>1. head' = head /\ remote' = remote /\ server'.runs = head /\ server' \in Process
    BY <1>3 DEF Installed, StartAgain, Restart, Start, StatusInv, Process, code
  <2>2. QED
    BY <1>3, <2>1 DEF StatusInv, Settled, UpToDate, Installed, StartAgain, Restart, Goto, code, data
<1>4. CASE Stop
  BY <1>4 DEF StatusInv, Process, Settled, UpToDate, Stop, Goto, code
<1>5. CASE \/ ServerComesUp \/ ServerDoesNot \/ ServerDies \/ Push \/ Edit \/ Midnight
           \/ \E r \in Records : Save(r) \/ Cancel(r)
  <2>1. /\ head' = head /\ packages' = packages /\ sv' = sv /\ status' = status /\ remote' \in Nat
        /\ \/ server' = server
           \/ \E s \in {"down", "up"} : server' = [server EXCEPT !.state = s]
    BY <1>5 DEF ServerComesUp, ServerDoesNot, ServerDies, Push, Edit, Midnight, Save, Cancel,
       StatusInv, code, data
  <2>2. server' \in Process /\ server'.runs = server.runs
    BY <2>1 DEF StatusInv, Process
  <2>3. QED
    BY <2>1, <2>2 DEF StatusInv, UpToDate
<1>6. CASE UNCHANGED vars
  BY <1>6 DEF StatusInv, UpToDate, vars, code
<1>7. QED
  BY <1>1, <1>2, <1>3, <1>4, <1>5, <1>6 DEF Next, Cycle, World

(* When update-status.json says ok and no cycle is under way, the server's *)
(* process was started from the code and with the packages that are        *)
(* installed, whichever commands failed before.  (Whether the last look at *)
(* the repository reached it the file does not say.)                       *)
THEOREM WhatIsOkRuns == Spec => []OkMeansRunning
<1>1. Init => StatusInv
  BY DEF Init, StatusInv, Settled, Process
<1>2. StatusInv /\ [Next]_vars => StatusInv'
  BY StatusStep
<1>3. StatusInv => OkMeansRunning
  BY DEF StatusInv, OkMeansRunning, Settled, UpToDate
<1>4. QED
  BY <1>1, <1>2, <1>3, PTL DEF Spec

(***************************************************************************)
(* Backups and the daily purge.                                            *)
(***************************************************************************)
CalendarTyped ==
    /\ day \in Nat /\ slot \in Nat
    /\ canceled \in [Records -> Nat]
    /\ backups \in Seq([day : Nat, rows : SUBSET Records])
    /\ rows \subseteq Records
    /\ \A p \in purged : p.on \in Nat

(* A record is canceled today or before, and removed today or before.      *)
NotAhead ==
    /\ \A r \in Records : canceled[r] <= day
    /\ \A p \in purged : p.on <= day

(* Between backup and purge: the day changed once at most, and a backup    *)
(* of the day of the slot holds what was canceled before that day.         *)
Covered(r) == \E i \in DOMAIN backups : backups[i].day = slot /\ r \in backups[i].rows
BackedUp ==
    sv = "purge" =>
        /\ slot <= day /\ day <= slot + 1
        /\ \A r \in rows : canceled[r] # 0 /\ canceled[r] < slot => Covered(r)

(* What the daily purge removed is in a backup young enough: made on the   *)
(* day of the purge or on the day before it.                               *)
Keeps(b, p) == p.record \in b.rows /\ p.on <= b.day + 1
Kept ==
    \A p \in purged :
        p.by = "slot" /\ day < p.on + KeepDays => \E i \in DOMAIN backups : Keeps(backups[i], p)

PurgeInv == CalendarTyped /\ NotAhead /\ BackedUp /\ Kept

LEMMA DaysOfBackups ==
    ASSUME CalendarTyped
    PROVE  \A i \in DOMAIN backups : backups[i].day \in Nat
<1> DEFINE B == [day : Nat, rows : SUBSET Records]
<1>1. backups \in Seq(B)
  BY DEF CalendarTyped
<1> HIDE DEF B
<1>2. \A i \in DOMAIN backups : backups[i] \in B
  BY <1>1
<1>3. QED
  BY <1>2 DEF B

(* Pruning keeps what is young enough, wherever it is in the list.         *)
LEMMA PruneKeeps ==
    ASSUME NEW files \in Seq([day : Nat, rows : SUBSET Records]), Prune(files),
           NEW i \in DOMAIN files, files[i].day + KeepDays >= day
    PROVE  i \in DOMAIN backups' /\ backups'[i] = files[i]
BY DEF Prune

LEMMA PruneTyped ==
    ASSUME NEW files \in Seq([day : Nat, rows : SUBSET Records]), Prune(files)
    PROVE  backups' \in Seq([day : Nat, rows : SUBSET Records])
<1> DEFINE B == [day : Nat, rows : SUBSET Records]
<1>1. PICK n \in 0..Len(files) : backups' = SubSeq(files, 1, n)
  BY DEF Prune
<1>2. files \in Seq(B)
  OBVIOUS
<1> HIDE DEF B
<1>3. SubSeq(files, 1, n) \in Seq(B)
  BY <1>2
<1>4. QED
  BY <1>1, <1>3 DEF B

(* A backup that works puts today's copy where pruning leaves it, and      *)
(* every other young enough backup stays.                                  *)
Files == IF backups # <<>> /\ Head(backups) = Copy THEN backups ELSE <<Copy>> \o backups
LEMMA FilesHold ==
    ASSUME CalendarTyped
    PROVE  /\ Files \in Seq([day : Nat, rows : SUBSET Records])
           /\ \E i \in DOMAIN Files : Files[i] = Copy
           /\ \A i \in DOMAIN backups : \E j \in DOMAIN Files : Files[j] = backups[i]
<1> DEFINE B == [day : Nat, rows : SUBSET Records]
<1>1. Copy \in B /\ backups \in Seq(B)
  BY DEF CalendarTyped, Copy
<1>2. CASE backups # <<>> /\ Head(backups) = Copy
  <2>1. 1 \in DOMAIN backups /\ backups[1] = Copy
    BY <1>1, <1>2
  <2>2. QED
    BY <1>1, <1>2, <2>1 DEF Files
<1>3. CASE ~ (backups # <<>> /\ Head(backups) = Copy)
  <2>1. Files = <<Copy>> \o backups
    BY <1>3 DEF Files
  <2>2. /\ Files \in Seq(B) /\ 1 \in DOMAIN Files /\ Files[1] = Copy
        /\ \A i \in DOMAIN backups : i + 1 \in DOMAIN Files /\ Files[i + 1] = backups[i]
    BY <1>1, <2>1
  <2>3. QED
    BY <2>2
<1>4. QED
  BY <1>2, <1>3

(* What may happen to the backups, the rest of the calendar and the rows.  *)
BackupsStay ==
    \A i \in DOMAIN backups : backups[i].day + KeepDays >= day =>
        \E j \in DOMAIN backups' : backups'[j] = backups[i]
LEMMA BackupSteps ==
    ASSUME CalendarTyped, BackUp \/ Prune(backups)
    PROVE  /\ backups' \in Seq([day : Nat, rows : SUBSET Records])
           /\ BackupsStay
           /\ BackUp => \E i \in DOMAIN backups' : backups'[i] = Copy
<1>1. CASE BackUp
  <2>1. Prune(Files)
    BY <1>1 DEF BackUp, Files
  <2>2. backups' \in Seq([day : Nat, rows : SUBSET Records])
    BY <2>1, FilesHold, PruneTyped
  <2>3. \A i \in DOMAIN Files : Files[i].day + KeepDays >= day =>
            i \in DOMAIN backups' /\ backups'[i] = Files[i]
    BY <2>1, FilesHold, PruneKeeps
  <2>4. BackupsStay
    BY <2>3, FilesHold DEF BackupsStay
  <2>5. Copy.day + KeepDays >= day
    BY DaysAssumption DEF Copy, CalendarTyped
  <2>6. \E i \in DOMAIN backups' : backups'[i] = Copy
    BY <2>3, <2>5, FilesHold
  <2>7. QED
    BY <2>2, <2>4, <2>6
<1>2. CASE Prune(backups) /\ ~ BackUp
  <2>1. backups \in Seq([day : Nat, rows : SUBSET Records])
    BY DEF CalendarTyped
  <2>2. backups' \in Seq([day : Nat, rows : SUBSET Records])
    BY <1>2, <2>1, PruneTyped
  <2>3. BackupsStay
    BY <1>2, <2>1, PruneKeeps DEF BackupsStay
  <2>4. QED
    BY <1>2, <2>2, <2>3
<1>3. QED
  BY <1>1, <1>2

LEMMA PurgeStep ==
    ASSUME PurgeInv, [Next]_vars
    PROVE  PurgeInv'
<1> USE DaysAssumption
<1>1. CASE UNCHANGED <<day, slot, rows, canceled, backups, purged>> /\ (sv' # "purge" \/ sv' = sv)
  BY <1>1 DEF PurgeInv, CalendarTyped, NotAhead, BackedUp, Covered, Kept
<1>2. CASE Launch
  BY <1>2 DEF PurgeInv, CalendarTyped, NotAhead, BackedUp, Kept, Launch, Goto
<1>3. CASE DailyBackup \/ UpdateBackup \/ UpdateBackupFails
  <2>1. /\ UNCHANGED <<day, rows, canceled, purged>>
        /\ BackUp \/ Prune(backups)
        /\ \/ BackUp /\ slot' = day
           \/ sv' # "purge" /\ slot' = slot
    BY <1>3 DEF DailyBackup, UpdateBackup, UpdateBackupFails, Goto, Failed
  <2>2. CalendarTyped'
    BY <2>1, BackupSteps DEF PurgeInv, CalendarTyped
  <2>3. NotAhead'
    BY <2>1 DEF PurgeInv, NotAhead
  <2>4. BackedUp'
    <3>1. CASE sv' # "purge"
      BY <3>1 DEF BackedUp
    <3>2. CASE BackUp /\ slot' = day
      <4>1. PICK i \in DOMAIN backups' : backups'[i] = Copy
        BY <3>2, BackupSteps DEF PurgeInv
      <4>2. backups'[i].day = slot' /\ backups'[i].rows = rows'
        BY <2>1, <3>2, <4>1 DEF Copy
      <4>3. day \in Nat /\ day' = day /\ slot' = day
        BY <2>1, <3>2 DEF PurgeInv, CalendarTyped
      <4>4. \A r \in rows' : Covered(r)'
        BY <4>2 DEF Covered
      <4>5. slot' <= day' /\ day' <= slot' + 1
        BY <4>3
      <4>6. QED
        BY <4>4, <4>5 DEF BackedUp
    <3>3. QED
      BY <2>1, <3>1, <3>2
  <2>5. Kept'
    <3>1. SUFFICES ASSUME NEW p \in purged', p.by = "slot", day' < p.on + KeepDays
                   PROVE  \E i \in DOMAIN backups' : Keeps(backups'[i], p)
      BY DEF Kept, Keeps
    <3>2. PICK i \in DOMAIN backups : Keeps(backups[i], p)
      BY <2>1, <3>1 DEF PurgeInv, Kept
    <3>3. backups[i].day + KeepDays >= day
      <4>1. backups[i].day \in Nat /\ day \in Nat
        <5>1. i \in DOMAIN backups
          BY <3>2
        <5>2. QED
          BY <5>1, DaysOfBackups DEF PurgeInv, CalendarTyped
      <4>2. p.on \in Nat
        BY <2>1, <3>1 DEF PurgeInv, CalendarTyped
      <4>3. p.on <= backups[i].day + 1 /\ day < p.on + KeepDays
        BY <2>1, <3>1, <3>2 DEF Keeps
      <4>4. QED
        BY <4>1, <4>2, <4>3
    <3>4. PICK j \in DOMAIN backups' : backups'[j] = backups[i]
      BY <2>1, <3>3, BackupSteps DEF PurgeInv, BackupsStay
    <3>5. QED
      BY <3>2, <3>4
  <2>6. QED
    BY <2>2, <2>3, <2>4, <2>5 DEF PurgeInv
<1>4. CASE DailyPurge
  <2>1. /\ UNCHANGED <<day, slot, canceled, backups>>
        /\ Purge("slot") \/ UNCHANGED <<rows, purged>>
        /\ sv = "purge" /\ sv' = "fetch"
    BY <1>4 DEF DailyPurge, Goto
  <2>2. CASE UNCHANGED <<rows, purged>>
    BY <2>1, <2>2 DEF PurgeInv, CalendarTyped, NotAhead, BackedUp, Kept
  <2>3. CASE Purge("slot")
    <3>1. \A p \in purged' : p \in purged \/ (p.on = day /\ p.record \in Expired)
      BY <2>3 DEF Purge
    <3>2. rows' \subseteq rows
      BY <2>3 DEF Purge
    <3>3. CalendarTyped' /\ NotAhead' /\ BackedUp'
      BY <2>1, <3>1, <3>2 DEF PurgeInv, CalendarTyped, NotAhead, BackedUp
    <3>4. \A r \in Expired : Covered(r) /\ day <= slot + 1
      <4>1. SUFFICES ASSUME NEW r \in Expired PROVE Covered(r) /\ day <= slot + 1
        OBVIOUS
      <4>2. r \in rows /\ canceled[r] # 0 /\ canceled[r] + Retention < day /\ Retention # 0
        BY DEF Expired
      <4>3. canceled[r] \in Nat /\ day \in Nat /\ slot \in Nat /\ day <= slot + 1
        BY <2>1, <4>2 DEF PurgeInv, CalendarTyped, BackedUp
      <4>4. canceled[r] < slot
        BY <4>2, <4>3
      <4>5. QED
        BY <2>1, <4>2, <4>3, <4>4 DEF PurgeInv, BackedUp
    <3>5. Kept'
      <4>1. SUFFICES ASSUME NEW p \in purged', p.by = "slot", day' < p.on + KeepDays
                     PROVE  \E i \in DOMAIN backups : Keeps(backups[i], p)
        BY <2>1 DEF Kept, Keeps
      <4>2. CASE p \in purged
        BY <2>1, <4>1, <4>2 DEF PurgeInv, Kept
      <4>3. CASE p.on = day /\ p.record \in Expired
        BY <2>1, <3>4, <4>3 DEF Covered, Keeps
      <4>4. QED
        BY <3>1, <4>2, <4>3
    <3>6. QED
      BY <3>3, <3>5 DEF PurgeInv
  <2>4. QED
    BY <2>1, <2>2, <2>3
<1>5. CASE ServerComesUp
  <2>1. /\ UNCHANGED <<sv, day, slot, canceled, backups>>
        /\ rows' \subseteq rows
        /\ \A p \in purged' : p \in purged \/ (p.on = day /\ p.by = "start")
    BY <1>5 DEF ServerComesUp, Purge
  <2>2. CalendarTyped' /\ NotAhead' /\ BackedUp'
    BY <2>1 DEF PurgeInv, CalendarTyped, NotAhead, BackedUp, Covered
  <2>3. Kept'
    BY <2>1 DEF PurgeInv, Kept
  <2>4. QED
    BY <2>2, <2>3 DEF PurgeInv
<1>6. ASSUME NEW r \in Records, Save(r) PROVE PurgeInv'
  BY <1>6 DEF PurgeInv, CalendarTyped, NotAhead, BackedUp, Covered, Kept, Save
<1>7. ASSUME NEW r \in Records, Cancel(r) PROVE PurgeInv'
  <2>1. /\ UNCHANGED <<sv, day, slot, rows, backups, purged>>
        /\ canceled' = [canceled EXCEPT ![r] = day]
    BY <1>7 DEF Cancel
  <2>2. canceled' \in [Records -> Nat] /\ \A q \in Records : canceled'[q] \in {canceled[q], day}
    BY <2>1 DEF PurgeInv, CalendarTyped
  <2>3. CalendarTyped' /\ NotAhead' /\ Kept'
    BY <2>1, <2>2 DEF PurgeInv, CalendarTyped, NotAhead, Kept
  <2>4. BackedUp'
    BY <2>1, <2>2 DEF PurgeInv, CalendarTyped, BackedUp, Covered
  <2>5. QED
    BY <2>3, <2>4 DEF PurgeInv
<1>8. CASE Midnight
  <2>1. /\ UNCHANGED <<sv, slot, rows, canceled, backups, purged>>
        /\ day' = day + 1 /\ (sv = "purge" => slot = day)
    BY <1>8 DEF Midnight
  <2>2. QED
    BY <2>1 DEF PurgeInv, CalendarTyped, NotAhead, BackedUp, Covered, Kept
<1>9. QED
  <2>1. CASE \/ Wake \/ StartAgain \/ Revived \/ Fetch \/ FetchRefused \/ FetchFails \/ Pull \/ PullFails \/ Pip
             \/ PipFails \/ Restart \/ Healthy \/ Installed \/ NotInstalled \/ ServerDoesNot
             \/ ServerDies \/ Push \/ Edit \/ Stop \/ UNCHANGED vars
    BY <1>1, <2>1 DEF Wake, StartAgain, Revived, Fetch, FetchRefused, FetchFails, Compare, Pull, PullFails, Pip, PipFails,
       Restart, Healthy, Installed, NotInstalled, ServerDoesNot, ServerDies, Push, Edit, Stop,
       Goto, Failed, data, vars
  <2>2. QED
    BY <1>2, <1>3, <1>4, <1>5, <1>6, <1>7, <1>8, <2>1 DEF Next, Cycle, World

(* The daily purge of serve.py follows a backup of the same day, which     *)
(* prune_backups() leaves: what it removed can be taken from a backup as   *)
(* long as backups are kept, also when the day changes between the two and *)
(* users go on saving and canceling.                                       *)
THEOREM PurgeFollowsBackup == Spec => []DailyPurgeIsRecoverable
<1>1. Init => PurgeInv
  BY DEF Init, PurgeInv, CalendarTyped, NotAhead, BackedUp, Kept
<1>2. PurgeInv /\ [Next]_vars => PurgeInv'
  BY PurgeStep
<1>3. PurgeInv => DailyPurgeIsRecoverable
  BY DEF PurgeInv, Kept, Keeps, DailyPurgeIsRecoverable, Recoverable
<1>4. QED
  BY <1>1, <1>2, <1>3, PTL DEF Spec

(***************************************************************************)
(* The notice of leave.  A notice has the key of its day, and a tool that  *)
(* is about to mark the day has brought the relay one, or read that nobody *)
(* was on leave.                                                           *)
(***************************************************************************)
NoticeInv ==
    /\ tool = [at |-> tool.at, day |-> tool.day, message |-> tool.message]
    /\ \A n \in relay : n.key = <<n.day>>
    /\ OneNoticePerDay
    /\ tool.at = "sent" => tool.message = {} \/ \E n \in relay : n.day = tool.day

LEMMA NoticeStarts == ASSUME NoticeInit PROVE NoticeInv
BY DEF NoticeInit, NoticeInv, OneNoticePerDay, Resting

LEMMA NoticeKept ==
    ASSUME NoticeInv, [NoticeNext]_noticeVars
    PROVE  NoticeInv' /\ DoneMeansSentNow
<1> DEFINE ToolIs(t) == t = [at |-> t.at, day |-> t.day, message |-> t.message]
(* Steps that send nothing.                                                *)
<1>a. ASSUME UNCHANGED <<relay, doneDate>>, ToolIs(tool'),
             tool'.at = "sent" => tool' = tool \/ tool'.message = {}
      PROVE  NoticeInv' /\ DoneMeansSentNow
  BY <1>a DEF NoticeInv, DoneMeansSentNow, OneNoticePerDay
<1>b. ASSUME tool' = Resting, UNCHANGED <<relay, doneDate>> PROVE NoticeInv' /\ DoneMeansSentNow
  BY <1>a, <1>b DEF Resting
<1>1. CASE CallTool
  <2>1. tool' = [at |-> "asked", day |-> date.day, message |-> tool.message]
    BY <1>1 DEF CallTool, NoticeInv
  <2> QED
    BY <1>1, <1>a, <2>1 DEF CallTool
<1>2. CASE NotToday \/ RelayDown \/ ToolDies \/ ServeRestarts
  BY <1>2, <1>b DEF NotToday, RelayDown, ToolDies, ServeRestarts, DayIsOver
<1>3. CASE CollectAndRead
  <2>1. /\ UNCHANGED <<relay, doneDate>>
        /\ tool' = [tool EXCEPT !.at = IF onLeave'[tool.day] = {} THEN "sent" ELSE "send",
                                !.message = onLeave'[tool.day]]
    BY <1>3 DEF CollectAndRead
  <2>2. tool' = [at |-> IF onLeave'[tool.day] = {} THEN "sent" ELSE "send",
                 day |-> tool.day, message |-> onLeave'[tool.day]]
    BY <2>1 DEF NoticeInv
  <2> QED
    BY <1>a, <2>1, <2>2
<1>4. CASE Enqueue
  <2> DEFINE n == [key |-> <<tool.day>>, day |-> tool.day, message |-> tool.message]
  <2>1. /\ relay' = IF \E m \in relay : m.key = n.key THEN relay ELSE relay \cup {n}
        /\ tool' \in {[tool EXCEPT !.at = "sent"], Resting} /\ UNCHANGED doneDate
    BY <1>4 DEF Enqueue, Accept, DedupKey
  <2>2. n.key = <<tool.day>> /\ n.day = tool.day
    OBVIOUS
  <2>3. tool' = [at |-> "sent", day |-> tool.day, message |-> tool.message] \/ tool' = Resting
    BY <2>1 DEF NoticeInv
  <2> HIDE DEF n
  <2>4. (\A m \in relay' : m.key = <<m.day>>) /\ \E m \in relay' : m.day = tool.day
    BY <2>1, <2>2 DEF NoticeInv
  <2>5. OneNoticePerDay'
    BY <2>1, <2>2, <2>4 DEF NoticeInv, OneNoticePerDay
  <2> QED
    BY <2>1, <2>3, <2>4, <2>5 DEF NoticeInv, DoneMeansSentNow, Resting
<1>5. CASE NoticeDone
  <2>1. tool.at = "sent" /\ doneDate' = tool.day /\ tool' = Resting /\ UNCHANGED relay
    BY <1>5 DEF NoticeDone, DayIsOver
  <2>2. DoneMeansSentNow
    BY <2>1 DEF NoticeInv, DoneMeansSentNow
  <2> QED
    BY <2>1, <2>2 DEF NoticeInv, OneNoticePerDay, Resting
<1>6. CASE HourPasses \/ \E p \in People, d \in 1..NoticeDays : Approved(p, d)
  <2>1. UNCHANGED <<tool, relay, doneDate>>
    BY <1>6 DEF HourPasses, Approved
  <2> QED
    BY <1>a, <2>1 DEF NoticeInv
<1>7. CASE UNCHANGED noticeVars
  BY <1>7, <1>a DEF noticeVars, NoticeInv
<1> QED
  BY <1>1, <1>2, <1>3, <1>4, <1>5, <1>6, <1>7 DEF NoticeNext

(* The leave notice: however often serve.py, the tool or the relay fail,   *)
(* the relay has one notice a day, and a day is marked as done only when   *)
(* it has that of the day, or nobody was on leave when the tool looked.    *)
THEOREM NoticeIsSentOnce == NoticeSpec => NoticedOnce
<1>1. NoticeInit => NoticeInv
  BY NoticeStarts
<1>2. NoticeInv /\ [NoticeNext]_noticeVars => NoticeInv' /\ DoneMeansSentNow
  BY NoticeKept
<1>3. NoticeInv => OneNoticePerDay
  BY DEF NoticeInv
<1>4. QED
  BY <1>1, <1>2, <1>3, PTL DEF NoticeSpec, NoticedOnce, DoneMeansSent

(***************************************************************************)
(* The collection of leave documents.  What a run read of the tables is    *)
(* what they hold, as long as it is the only one.                          *)
(***************************************************************************)
Versions == [Docs -> Nat]
Tables   == [Docs -> [version : Nat, whole : BOOLEAN]]
RunStates ==
    [at : {"idle", "locking", "list", "read"}, known : Tables \cup {<< >>},
     memo : Versions \cup {<< >>}, listed : Versions \cup {<< >>}, alone : BOOLEAN]
Reading(run) == run.at \in {"list", "read"}

CollectTyped ==
    /\ portal \in Versions /\ stored \in Tables /\ memo \in Versions
    /\ runs \in [Runners -> RunStates]
    /\ \A w \in Runners : runs[w].at = "read" => runs[w].listed \in Versions

RunsApart ==
    \A w \in Runners : Reading(runs[w]) /\ runs[w].alone =>
        /\ runs[w].known = stored /\ runs[w].memo = memo
        /\ \A v \in Runners \ {w} : ~ Reading(runs[v])

CollectInv == CollectTyped /\ RunsApart /\ NothingRemains

LEMMA CollectStarts == ASSUME CollectInit PROVE CollectInv
<1>1. CollectTyped
  BY DEF CollectInit, CollectTyped, NoRun, Nothing, None, Versions, Tables, RunStates, Runners
<1> QED
  BY <1>1 DEF CollectInit, CollectInv, RunsApart, NothingRemains, NoRun, NoResult, Reading

(* Of a finite set, fewer documents lie on one side of a member than the   *)
(* set has.                                                                *)
LEMMA FewerThanAll ==
    ASSUME NEW S, S \subseteq Docs, NEW d \in S, NEW T, T \subseteq S \ {d},
           NEW limit \in Nat, Cardinality(S) <= limit
    PROVE  Cardinality(T) < limit
<1>1. IsFiniteSet(S) /\ T \subseteq S
  BY DocsAssumption, FS_Subset
<1>2. IsFiniteSet(T) /\ Cardinality(T) \in Nat /\ Cardinality(S) \in Nat
  BY <1>1, FS_Subset, FS_CardinalityType
<1>3. Cardinality(T) <= Cardinality(S) /\ Cardinality(T) # Cardinality(S)
  BY <1>1, FS_Subset
<1> QED
  BY <1>2, <1>3

(* With nothing left over, every document that was to be opened was.       *)
LEMMA AllOpened ==
    ASSUME NEW run, Remaining(run) = 0
    PROVE  Opened(run) = ToOpen(run)
<1>1. ToOpen(run) \subseteq Docs /\ Docs \subseteq Nat
  BY DocsAssumption DEF ToOpen, Listed
<1>2. Cardinality(ToOpen(run)) \in Nat /\ MaxBodies \in Nat
  BY <1>1, DocsAssumption, FS_Subset, FS_CardinalityType
<1>3. Cardinality(ToOpen(run)) <= MaxBodies
  BY <1>2 DEF Remaining, OrNone
<1>4. ASSUME NEW d \in ToOpen(run)
      PROVE  Cardinality({e \in ToOpen(run) : e > d}) < MaxBodies
  <2> DEFINE all == ToOpen(run)
             above == {e \in all : e > d}
  <2>1. above \subseteq all \ {d} /\ d \in all /\ all \subseteq Docs
    <3>1. d \in Nat /\ all \subseteq Nat
      BY <1>1, <1>4
    <3>2. d \notin above
      BY <3>1
    <3> QED
      BY <1>1, <1>4, <3>2
  <2>2. MaxBodies \in Nat /\ Cardinality(all) <= MaxBodies
    BY <1>2, <1>3
  <2>3. Cardinality(above) < MaxBodies
    <3> HIDE DEF all, above
    <3> QED
      BY <2>1, <2>2, FewerThanAll
  <2> QED
    BY <2>3
<1> QED
  BY <1>4 DEF Opened

(* What is unread is remembered, when the memo has room for it.            *)
LEMMA MemoHolds ==
    ASSUME NEW run, NEW failed, NEW d \in Unread(run, failed),
           ~ Cardinality(Unread(run, failed)) > MaxMemo
    PROVE  NewMemo(run, failed)[d] = run.listed[d]
<1> DEFINE U == Unread(run, failed)
           below == {e \in U : e < d}
<1>1. U \subseteq Docs /\ Docs \subseteq Nat /\ MaxMemo \in Nat
  BY DocsAssumption DEF Unread, Remembered, Opened, ToOpen, Listed
<1>2. Cardinality(U) <= MaxMemo
  BY <1>1, DocsAssumption, FS_Subset, FS_CardinalityType
<1>3. below \subseteq U \ {d} /\ d \in U
  <2>1. d \in U /\ d \in Nat
    BY <1>1
  <2>2. d \notin below
    BY <2>1
  <2> QED
    BY <2>1, <2>2
<1>4. Cardinality(below) < MaxMemo
  <2> HIDE DEF U, below
  <2> QED
    BY <1>1, <1>2, <1>3, FewerThanAll
<1> QED
  BY <1>1, <1>4 DEF NewMemo, MemoOf

(* Steps that store nothing, and end runs or leave them where they are.    *)
LEMMA CollectQuiet ==
    ASSUME CollectInv, CollectTyped', UNCHANGED <<stored, memo>>,
           last' = last \/ last'.status = "error",
           \A w \in Runners : Reading(runs'[w]) =>
               /\ Reading(runs[w]) /\ runs'[w].alone = runs[w].alone
               /\ runs'[w].known = runs[w].known /\ runs'[w].memo = runs[w].memo
    PROVE  CollectInv'
<1>1. RunsApart'
  BY DEF CollectInv, RunsApart
<1>2. NothingRemains'
  BY DEF CollectInv, NothingRemains
<1> QED
  BY <1>1, <1>2 DEF CollectInv

LEMMA CollectKept == ASSUME CollectInv, [CollectNext]_portalVars PROVE CollectInv'
<1>0. /\ portal \in Versions /\ stored \in Tables /\ memo \in Versions
      /\ runs \in [Runners -> RunStates] /\ NoRun \in RunStates /\ NoRun.at = "idle"
      /\ \A w \in Runners : runs[w] \in RunStates
      /\ \A w \in Runners : runs[w].at = "read" => runs[w].listed \in Versions
  BY DEF CollectInv, CollectTyped, RunStates, NoRun
(* One run changes.                                                        *)
<1>a. ASSUME NEW w \in Runners, NEW run \in RunStates, runs' = [runs EXCEPT ![w] = run],
             run.at = "read" => run.listed \in Versions,
             portal' \in Versions, UNCHANGED <<stored, memo>>, last' = last \/ last'.status = "error",
             Reading(run) => /\ Reading(runs[w]) /\ run.alone = runs[w].alone
                             /\ run.known = runs[w].known /\ run.memo = runs[w].memo
      PROVE  CollectInv'
  <2>1. /\ runs' \in [Runners -> RunStates] /\ runs'[w] = run
        /\ \A v \in Runners : v # w => runs'[v] = runs[v]
    BY <1>0, <1>a
  <2>2. CollectTyped'
    BY <1>0, <1>a, <2>1 DEF CollectTyped
  <2> QED
    BY <1>a, <2>1, <2>2, CollectQuiet
<1>1. ASSUME NEW w \in Runners, StartRun(w) PROVE CollectInv'
  <2> DEFINE run == [runs[w] EXCEPT !.at = "locking"]
  <2>1. runs' = [runs EXCEPT ![w] = run] /\ UNCHANGED <<portal, stored, memo, last>>
    BY <1>1 DEF StartRun, Reaches
  <2>2. run \in RunStates /\ run.at = "locking"
    BY <1>0 DEF RunStates
  <2> HIDE DEF run
  <2> QED
    BY <1>0, <1>a, <2>1, <2>2 DEF Reading
<1>2. ASSUME NEW w \in Runners, Locked(w) PROVE CollectInv'
  <2> DEFINE self  == \A u \in Runners \ {w} : ~ Running(u)
             run   == [NoRun EXCEPT !.at = "list", !.known = stored, !.memo = memo, !.alone = self]
             on(v) == [runs[v] EXCEPT !.alone = ~ Running(v)]
  <2>1. /\ runs' = [v \in Runners |-> IF v = w THEN run ELSE on(v)]
        /\ UNCHANGED <<portal, stored, memo, last>>
    BY <1>2 DEF Locked
  <2>2. self \in BOOLEAN /\ \A v \in Runners : Running(v) \in BOOLEAN
    BY DEF Running
  <2>3. /\ run \in RunStates /\ run.at = "list" /\ run.known = stored /\ run.memo = memo
        /\ run.alone = self
    BY <1>0, <2>2 DEF RunStates, NoRun
  <2>4. \A v \in Runners : /\ on(v) \in RunStates /\ on(v).at = runs[v].at
                           /\ on(v).listed = runs[v].listed /\ on(v).alone = ~ Running(v)
    BY <1>0, <2>2 DEF RunStates
  <2>5. self => \A u \in Runners \ {w} : ~ Reading(runs[u])
    BY DEF Running, Reading
  <2> HIDE DEF run, on, self
  <2>6. \A v \in Runners : Reading(on(v)) => ~ on(v).alone
    BY <2>4 DEF Running, Reading
  <2>7. /\ runs' \in [Runners -> RunStates] /\ runs'[w] = run
        /\ \A v \in Runners : v # w => runs'[v] = on(v)
    BY <2>1, <2>3, <2>4
  <2>8. CollectTyped'
    BY <1>0, <2>1, <2>3, <2>4, <2>7 DEF CollectTyped
  <2>9. RunsApart'
    BY <2>1, <2>3, <2>4, <2>5, <2>6, <2>7 DEF RunsApart, Reading
  <2>10. NothingRemains'
    BY <2>1 DEF CollectInv, NothingRemains
  <2> QED
    BY <2>8, <2>9, <2>10 DEF CollectInv
<1>3. ASSUME NEW w \in Runners, ListDocs(w) PROVE CollectInv'
  <2>1. PICK docs \in SUBSET Docs :
          runs' = [runs EXCEPT ![w].at = "read",
                     ![w].listed = [d \in Docs |-> IF d \in docs THEN portal[d] ELSE 0]]
    BY <1>3 DEF ListDocs
  <2> DEFINE seen == [d \in Docs |-> IF d \in docs THEN portal[d] ELSE 0]
             run  == [runs[w] EXCEPT !.at = "read", !.listed = seen]
  <2>2. runs' = [runs EXCEPT ![w] = run] /\ runs[w].at = "list" /\ UNCHANGED <<portal, stored, memo, last>>
    BY <1>0, <1>3, <2>1 DEF ListDocs
  <2>3. seen \in Versions
    BY <1>0 DEF Versions
  <2> HIDE DEF seen
  <2>4. /\ run \in RunStates /\ run.at = "read" /\ run.listed = seen /\ run.alone = runs[w].alone
        /\ run.known = runs[w].known /\ run.memo = runs[w].memo
    BY <1>0, <2>3 DEF RunStates
  <2> HIDE DEF run
  <2> QED
    BY <1>0, <1>a, <2>2, <2>3, <2>4 DEF Reading
<1>4. ASSUME NEW w \in Runners, RunFails(w) \/ Killed(w) PROVE CollectInv'
  <2>1. /\ runs' = [runs EXCEPT ![w] = NoRun] /\ UNCHANGED <<portal, stored, memo>>
        /\ last' = last \/ last'.status = "error"
    BY <1>4 DEF RunFails, Killed, Becomes, NoResult
  <2> QED
    BY <1>0, <1>a, <2>1 DEF Reading
<1>5. ASSUME NEW w \in Runners, StoreRead(w) PROVE CollectInv'
  <2> DEFINE run == runs[w]
  <2>1. PICK failed \in SUBSET (Flaky \cap Opened(run)) :
          /\ stored' = [d \in Docs |->
                          IF d \in Storable(run, failed)
                          THEN [version |-> run.listed[d], whole |-> d \notin failed] ELSE stored[d]]
          /\ memo' = NewMemo(run, failed)
          /\ last' = [status |-> "ok", remaining |-> Remaining(run),
                      rejected |-> Rejected(run, failed), unread |-> Unread(run, failed),
                      listed |-> run.listed, alone |-> run.alone]
    BY <1>5 DEF StoreRead
  <2>2. /\ run.at = "read" /\ runs' = [runs EXCEPT ![w] = NoRun] /\ UNCHANGED portal
        /\ run \in RunStates /\ run.listed \in Versions /\ Reading(run)
    BY <1>0, <1>5 DEF StoreRead, Becomes, Reading
  <2> HIDE DEF run
  <2>3. /\ runs' \in [Runners -> RunStates] /\ runs'[w] = NoRun
        /\ \A v \in Runners : v # w => runs'[v] = runs[v]
    BY <1>0, <2>2
  <2>4. \A d \in Docs : run.listed[d] \in Nat /\ stored[d].version \in Nat
    BY <1>0, <2>2 DEF Versions, Tables
  <2>5. stored' \in Tables
    BY <1>0, <2>1, <2>4 DEF Tables
  <2>6. memo' \in Versions
    BY <2>1, <2>4 DEF NewMemo, MemoOf, Versions
  <2>7. CollectTyped'
    BY <1>0, <2>2, <2>3, <2>5, <2>6 DEF CollectTyped
  <2>8. RunsApart'
    BY <1>0, <2>2, <2>3 DEF CollectInv, RunsApart, Reading, run
  <2> DEFINE told(d) == \/ stored'[d].version >= run.listed[d]
                        \/ d \in Rejected(run, failed)
                        \/ /\ d \in Unread(run, failed)
                           /\ \/ memo'[d] = run.listed[d]
                              \/ Cardinality(Unread(run, failed)) > MaxMemo
  <2>9. ASSUME Remaining(run) = 0, run.alone, NEW d \in Docs
        PROVE  told(d)
    <3>1. run.known = stored /\ run.memo = memo
      BY <2>2, <2>9 DEF CollectInv, RunsApart, run
    <3>2. Opened(run) = ToOpen(run)
      BY <2>9, AllOpened
    <3>3. CASE d \in Storable(run, failed)
      BY <2>1, <2>4, <3>3
    <3>4. CASE d \in Unread(run, failed)
      BY <2>1, <3>4, MemoHolds
    <3>5. CASE d \in Rejected(run, failed)
      BY <3>5
    <3>6. CASE d \notin Remembered(run) /\ d \notin Opened(run)
      <4>1. d \notin Listed(run) \/ run.known[d].version = run.listed[d]
        BY <2>9, <3>2, <3>6 DEF ToOpen
      <4>2. d \notin Listed(run) => run.listed[d] = 0
        BY <2>9 DEF Listed
      <4>3. d \notin Storable(run, failed)
        BY <3>6 DEF Storable, Items
      <4> QED
        BY <2>1, <2>4, <3>1, <4>1, <4>2, <4>3
    <3>7. d \in Opened(run) => d \in Storable(run, failed) \cup Rejected(run, failed) \cup Unread(run, failed)
      BY DEF Storable, Unread
    <3>8. d \in Remembered(run) => d \in Unread(run, failed)
      BY DEF Unread
    <3> QED
      BY <3>3, <3>4, <3>5, <3>6, <3>7, <3>8
  <2>10. NothingRemains'
    <3>1. /\ last'.remaining = Remaining(run) /\ last'.listed = run.listed /\ last'.alone = run.alone
          /\ last'.rejected = Rejected(run, failed) /\ last'.unread = Unread(run, failed)
      BY <2>1
    <3> QED
      BY <2>9, <3>1 DEF NothingRemains
  <2> QED
    BY <2>7, <2>8, <2>10 DEF CollectInv
<1>6. CASE TenMinutes \/ NewDay \/ \E d \in Docs : Complete(d)
  <2>1. UNCHANGED <<stored, memo, last, runs>> /\ portal' \in Versions
    BY <1>0, <1>6 DEF TenMinutes, NewDay, Complete, Versions
  <2>2. CollectTyped'
    BY <1>0, <2>1 DEF CollectTyped
  <2> QED
    BY <2>1, <2>2, CollectQuiet
<1>7. CASE UNCHANGED portalVars
  BY <1>7 DEF portalVars, CollectInv, CollectTyped, RunsApart, NothingRemains
<1> QED
  BY <1>1, <1>2, <1>3, <1>4, <1>5, <1>6, <1>7 DEF CollectNext, Steps

(* The collection: when the last result says that nothing remains, each    *)
(* document its run saw in the list is stored, in that version or a later  *)
(* one, or counted by the result as rejected or unread, and remembered as  *)
(* unread while the memo has room; the daily tool may skip the day.        *)
THEOREM NothingIsLeft == CollectSpec => []NothingRemains
<1>1. CollectInit => CollectInv
  BY CollectStarts
<1>2. CollectInv /\ [CollectNext]_portalVars => CollectInv'
  BY CollectKept
<1>3. CollectInv => NothingRemains
  BY DEF CollectInv
<1>4. QED
  BY <1>1, <1>2, <1>3, PTL DEF CollectSpec

(***************************************************************************)
(* The assistant.  ChatIsTrue speaks of bubbles and of conversations in    *)
(* memory; what ties them together is on the way between the two: the      *)
(* text a model has said so far, the frames under way, the question each   *)
(* window waits for.  ChatInv says of each of them what the next step      *)
(* relies on.                                                              *)
(***************************************************************************)
Attempts == [provider : {"gemini", "groq", "guide"}, model : STRING \cup {"guide"}, thinking : BOOLEAN]
Texts    == SUBSET Attempts
Entry    == [role : {"user", "model"}, question : Questions, text : Texts]
Bubble   == [is : {"none", "open", "done", "error", "stopped", "cleared"},
             text : Texts, cleared : 0..MaxAsked]
Stream   == [at : {"none", "sent", "run", "failed", "answered", "over"}, conv : 0..MaxAsked,
             chain : Seq(Attempts), text : Texts, history : Seq(Entry)]
Frame    == [is : {"token", "done", "error"}, text : Texts]
Memory   == [history : Seq(Entry), idle : Nat]
Window   == [conv : 0..MaxAsked, asking : 0..MaxAsked]
Single(text) == \E a \in text : text = {a}

ChatTyped ==
    /\ asked \in 0..MaxAsked
    /\ tab \in [Tabs -> Window]
    /\ shown \in [Questions -> Bubble]
    /\ request \in [Questions -> Stream]
    /\ frames \in [Questions -> Seq(Frame)]
    /\ sessions \in [DOMAIN sessions -> Memory]
    /\ \A q \in Questions : request[q].at = "run" => request[q].chain # << >>

(* What a page waits for is the last question of its conversation, and no  *)
(* other page has that conversation.                                       *)
Waits(t) ==
    LET q == tab[t].asking IN
    /\ tab[t].conv # 0 /\ request[q].conv = tab[t].conv
    /\ shown[q].is \in {"open", "done", "error"}
    /\ \A p \in 1..asked : request[p].conv = tab[t].conv => p <= q
Unasked(q) == request[q] = NoRequest /\ shown[q] = NoBubble /\ frames[q] = << >>
LetGo(p) ==
    /\ \A q \in 1..asked : request[q].conv = request[p].conv => q <= shown[p].cleared
    /\ \A t \in Tabs : tab[t].conv # request[p].conv
WindowInv ==
    /\ \A t \in Tabs : tab[t].asking <= asked /\ tab[t].conv <= asked
    /\ \A t \in Tabs : tab[t].asking # 0 => Waits(t)
    /\ \A t, u \in Tabs : tab[t].conv = tab[u].conv /\ tab[t].conv # 0 => t = u
    /\ \A q \in (asked + 1)..MaxAsked : Unasked(q)
    /\ \A q \in 1..asked : request[q].conv \in 1..asked /\ request[q].at # "none"
    /\ \A p \in Questions : shown[p].is = "cleared" => LetGo(p)

(* A stream that is not over has sent no done; what it sent is the text of *)
(* one attempt; and nothing follows a done.                                *)
DoneLast(q) ==
    \A i \in DOMAIN frames[q] : frames[q][i].is = "done" =>
        i = Len(frames[q]) /\ request[q].at = "over" /\ Single(frames[q][i].text)
Framed(q) ==
    /\ request[q].at \in {"none", "sent"} => frames[q] = << >> /\ request[q].text = {}
    /\ DoneLast(q)
    /\ shown[q].is = "done" =>
         request[q].at = "over" /\ frames[q] = << >> /\ Single(shown[q].text)
    /\ request[q].text = {} \/ Single(request[q].text)
    /\ request[q].at = "answered" => request[q].text # {}
FrameInv == \A q \in Questions : Framed(q)

(* Nobody waits for q any more, and it is not finished on the screen.      *)
Never(q) == shown[q].is # "done" /\ \A t \in Tabs : tab[t].asking # q
After(p, n) == n > p \/ Never(n)
(* What is remembered: whole turns, at most MaxTurns; of two of them the   *)
(* later one was asked later, or nobody was shown its answer.              *)
Whole(h) ==
    \E n \in 0..MaxTurns :
        /\ Len(h) = 2 * n
        /\ \A k \in 1..n : /\ h[2 * k - 1].role = "user" /\ h[2 * k].role = "model"
                           /\ h[2 * k - 1].question = h[2 * k].question
Ordered(h) ==
    \A k, l \in 1..MaxTurns : k < l /\ 2 * l <= Len(h) =>
        h[2 * k].question # h[2 * l].question /\ After(h[2 * k].question, h[2 * l].question)
(* A line is of a question of this conversation whose stream is over, and  *)
(* what its page shows, or will, is the line.                              *)
Told(c, e) ==
    LET q == e.question IN
    /\ q <= asked /\ request[q].conv = c /\ request[q].at = "over"
    /\ e.role = "model" =>
         /\ shown[q].is = "done" => e.text = shown[q].text
         /\ \A i \in DOMAIN frames[q] : frames[q][i].is = "done" => e.text = frames[q][i].text
Good(c, h) == Whole(h) /\ Ordered(h) /\ \A i \in DOMAIN h : Told(c, h[i])
MemoryInv  == \A c \in DOMAIN sessions : Good(c, sessions[c].history)
(* A model is told of its own conversation only.                           *)
CopyInv ==
    \A q \in Questions : \A i \in DOMAIN request[q].history :
        LET p == request[q].history[i].question IN
        p <= asked /\ request[p].conv = request[q].conv

(* An answer whose done is sent is remembered, or was pushed out by turns  *)
(* that came after it.                                                     *)
Finished(p) ==
    shown[p].is = "done" \/ \E i \in DOMAIN frames[p] : frames[p][i].is = "done"
IsKept(p) ==
    LET c == request[p].conv
        h == sessions[c].history
    IN  /\ c \in DOMAIN sessions
        /\ \/ p \in Answered(h)
           \/ Len(h) = 2 * MaxTurns /\ \A i \in DOMAIN h : After(p, h[i].question)
KeptInv == \A p \in Questions \ dropped : Finished(p) => IsKept(p)

ChatInv == ChatTyped /\ WindowInv /\ FrameInv /\ MemoryInv /\ CopyInv /\ KeptInv

(***************************************************************************)
(* Types: what a model, a chain of models and a line of a conversation are,*)
(* and that every step keeps them.                                         *)
(***************************************************************************)
LEMMA AttemptsAre ==
    ASSUME NEW m \in STRING \cup {"guide"}, NEW p \in {"gemini", "groq", "guide"}, NEW b \in BOOLEAN
    PROVE  Attempt(p, m, b) \in Attempts
BY DEF Attempt, Attempts

LEMMA ChainIs ==
    ASSUME NEW keys \in (SUBSET Providers) \ {{}}
    PROVE  Chain(keys) \in Seq(Attempts) \ {<< >>}
<1>1. GeminiChain \in Seq(Attempts) /\ Len(GeminiChain) = 2 * Len(GeminiModels)
  <2>1. Len(GeminiModels) \in Nat /\ \A k \in 1..Len(GeminiModels) : GeminiModels[k] \in STRING
    BY ChatAssumption
  <2>2. ASSUME NEW i \in 1..(2 * Len(GeminiModels))
        PROVE  Attempt("gemini", GeminiModels[(i + 1) \div 2], i % 2 = 1) \in Attempts
    <3>1. (i + 1) \div 2 \in 1..Len(GeminiModels)
      BY <2>1
    <3>2. (i % 2 = 1) \in BOOLEAN
      OBVIOUS
    <3>3. QED
      BY <2>1, <3>1, <3>2, AttemptsAre
  <2>3. QED
    BY <2>1, <2>2 DEF GeminiChain
<1>2. GroqChain \in Seq(Attempts) /\ Len(GroqChain) = Len(GroqModels)
  <2>1. Len(GroqModels) \in Nat /\ \A k \in 1..Len(GroqModels) : GroqModels[k] \in STRING
    BY ChatAssumption
  <2>2. \A i \in 1..Len(GroqModels) : Attempt("groq", GroqModels[i], FALSE) \in Attempts
    BY <2>1, AttemptsAre
  <2>3. GroqChain = [i \in 1..Len(GroqModels) |-> Attempt("groq", GroqModels[i], FALSE)]
    BY DEF GroqChain
  <2> DEFINE n == Len(GroqModels)
             f[i \in 1..n] == Attempt("groq", GroqModels[i], FALSE)
  <2>4. n \in Nat /\ \A i \in 1..n : f[i] \in Attempts
    BY <2>1, <2>2
  <2>5. f = [i \in 1..n |-> f[i]]
    OBVIOUS
  <2>6. GroqChain = f
    BY <2>3
  <2> HIDE DEF f, n
  <2>7. f \in Seq(Attempts) /\ Len(f) = n
    BY <2>4, <2>5
  <2>8. QED
    BY <2>6, <2>7 DEF n
<1>3. Len(GeminiModels) > 0 /\ Len(GroqModels) > 0
  BY ChatAssumption
<1>4. "gemini" \in keys \/ "groq" \in keys
  BY DEF Providers
<1>5. QED
  BY <1>1, <1>2, <1>3, <1>4 DEF Chain

LEMMA RestIs ==
    ASSUME NEW chain \in Seq(Attempts), chain # << >>, NEW failure
    PROVE  Rest(chain, failure) \in Seq(Attempts)
<1>1. NextModel(chain) \in Seq(Attempts)
  <2> DEFINE same == {i \in DOMAIN chain : chain[i].model = Head(chain).model}
  <2>1. IsFiniteSet(1..Len(chain)) /\ same \subseteq 1..Len(chain)
    BY FS_Interval
  <2>2. Cardinality(same) \in Nat
    BY <2>1, FS_Subset, FS_CardinalityType
  <2> HIDE DEF same
  <2>3. SubSeq(chain, Cardinality(same) + 1, Len(chain)) \in Seq(Attempts)
    BY <2>2
  <2>4. QED
    BY <2>3 DEF NextModel, same
<1>2. Tail(chain) \in Seq(Attempts) /\ << >> \in Seq(Attempts)
  OBVIOUS
<1>3. QED
  BY <1>1, <1>2 DEF Rest

LEMMA TextsAre ==
    /\ {} \in Texts
    /\ \A a \in Attempts : {a} \in Texts
    /\ \A x, y \in Texts : x \cup y \in Texts
BY DEF Texts

LEMMA OverIs ==
    ASSUME ChatTyped, NEW q \in Questions
    PROVE  /\ Over(q) \in [Questions -> Stream]
           /\ \A p \in Questions \ {q} : Over(q)[p] = request[p]
           /\ Over(q)[q] = Idle("over", request[q].conv)
           /\ \A p \in Questions : Over(q)[p].at = "run" => Over(q)[p].chain # << >>
<1>1. request \in [Questions -> Stream] /\ request[q].conv \in 0..MaxAsked
  BY DEF ChatTyped, Stream
<1>2. Idle("over", request[q].conv) \in Stream
  BY <1>1, TextsAre DEF Stream, Idle
<1>3. Over(q) = [request EXCEPT ![q] = Idle("over", request[q].conv)]
  BY <1>1 DEF Over
<1>4. Idle("over", request[q].conv).at = "over"
  BY DEF Idle
<1>5. \A p \in Questions : request[p].at = "run" => request[p].chain # << >>
  BY DEF ChatTyped
<1>6. QED
  BY <1>1, <1>2, <1>3, <1>4, <1>5

LEMMA StreamChanges ==
    ASSUME ChatTyped, NEW q \in Questions, NEW y \in Stream,
           y.at = "run" => y.chain # << >>,
           request' = [request EXCEPT ![q] = y]
    PROVE  /\ request' \in [Questions -> Stream]
           /\ \A p \in Questions : request'[p].at = "run" => request'[p].chain # << >>
BY DEF ChatTyped

LEMMA ChatStartsTyped == ASSUME ChatInit PROVE ChatTyped
<1>1. NoBubble \in Bubble /\ NoRequest \in Stream /\ NoRequest.at = "none"
  BY ChatAssumption, TextsAre DEF NoBubble, NoRequest, Idle, Bubble, Stream
<1>2. sessions \in [DOMAIN sessions -> Memory]
  <2>1. sessions = << >>
    BY DEF ChatInit
  <2>2. << >> \in [{} -> Memory] /\ DOMAIN << >> = {}
    OBVIOUS
  <2>3. QED
    BY <2>1, <2>2
<1>3. asked \in 0..MaxAsked /\ tab \in [Tabs -> Window]
  BY ChatAssumption DEF ChatInit, Window
<1>4. frames \in [Questions -> Seq(Frame)]
  BY DEF ChatInit
<1>5. QED
  BY <1>1, <1>2, <1>3, <1>4 DEF ChatInit, ChatTyped

LEMMA SendTyped ==
    ASSUME ChatTyped, NEW q \in Questions, NEW frame \in Frame, Send(q, frame)
    PROVE  frames' \in [Questions -> Seq(Frame)]
BY DEF Send, ChatTyped

Said(q, text) == << [role |-> "user", question |-> q, text |-> {}],
                    [role |-> "model", question |-> q, text |-> text] >>
Before(conv, old) == IF conv \in DOMAIN sessions \ old THEN sessions[conv].history ELSE << >>
Appended(conv, q, text, old) ==
    /\ dropped' = dropped \cup Lost(old)
    /\ DOMAIN sessions' = (DOMAIN sessions \ old) \cup {conv}
    /\ \A c \in DOMAIN sessions' \ {conv} : sessions'[c] = sessions[c]
    /\ sessions'[conv] = [history |-> Trimmed(Before(conv, old) \o Said(q, text)), idle |-> 0]
    /\ sessions' = [c \in DOMAIN sessions' |-> sessions'[c]]

LEMMA AppendIs ==
    ASSUME NEW conv, NEW q, NEW text, AppendExchange(conv, q, text)
    PROVE  \E old \in SUBSET DOMAIN sessions : Appended(conv, q, text, old)
<1> DEFINE expired == {c \in DOMAIN sessions : sessions[c].idle > TTL}
           alive   == DOMAIN sessions \ expired
           oldest  == {c \in alive : \A d \in alive : sessions[d].idle <= sessions[c].idle}
           evict   == conv \notin alive /\ Cardinality(alive) >= MaxSessions
           before  == IF conv \in alive THEN sessions[conv].history ELSE << >>
           entry   == [history |-> Trimmed(before \o Said(q, text)), idle |-> 0]
<1>1. PICK gone \in IF evict THEN {{c} : c \in oldest} ELSE {{}} :
        /\ dropped' = dropped \cup Lost(expired \cup gone)
        /\ sessions' = [c \in (alive \ gone) \cup {conv} |-> IF c = conv THEN entry ELSE sessions[c]]
  BY DEF AppendExchange, Said
<1>2. gone \subseteq alive /\ (conv \in alive => conv \notin gone)
  <2>1. CASE evict
    BY <2>1
  <2>2. CASE ~ evict
    BY <2>2
  <2>3. QED
    BY <2>1, <2>2
<1> DEFINE old == expired \cup gone
<1>3. old \subseteq DOMAIN sessions /\ DOMAIN sessions \ old = alive \ gone
  BY <1>2
<1>4. Before(conv, old) = before
  BY <1>2, <1>3 DEF Before
<1>5. entry = [history |-> Trimmed(Before(conv, old) \o Said(q, text)), idle |-> 0]
  BY <1>4
<1> HIDE DEF entry, evict, oldest
<1>6. Appended(conv, q, text, old)
  BY <1>1, <1>3, <1>5 DEF Appended
<1>7. QED
  BY <1>3, <1>6

LEMMA TrimmedIs ==
    ASSUME NEW h \in Seq(Entry)
    PROVE  Trimmed(h) \in Seq(Entry)
BY ChatAssumption DEF Trimmed

LEMMA SaidIs ==
    ASSUME NEW q \in Questions, NEW text \in Texts
    PROVE  /\ Said(q, text) \in Seq(Entry) /\ Len(Said(q, text)) = 2
           /\ Said(q, text)[1] = [role |-> "user", question |-> q, text |-> {}]
           /\ Said(q, text)[2] = [role |-> "model", question |-> q, text |-> text]
BY TextsAre DEF Said, Entry

LEMMA AppendTyped ==
    ASSUME ChatTyped, NEW q \in Questions, NEW conv, NEW text \in Texts,
           NEW old \in SUBSET DOMAIN sessions, Appended(conv, q, text, old)
    PROVE  sessions' \in [DOMAIN sessions' -> Memory]
<1>1. \A c \in DOMAIN sessions : sessions[c] \in Memory
  BY DEF ChatTyped
<1>2. Before(conv, old) \in Seq(Entry)
  BY <1>1 DEF Before, Memory
<1>3. sessions'[conv] \in Memory
  <2>1. Said(q, text) \in Seq(Entry)
    BY SaidIs
  <2>2. Before(conv, old) \o Said(q, text) \in Seq(Entry)
    BY <1>2, <2>1
  <2>3. Trimmed(Before(conv, old) \o Said(q, text)) \in Seq(Entry)
    BY <2>2, TrimmedIs
  <2>4. QED
    BY <2>3 DEF Appended, Memory
<1>4. \A c \in DOMAIN sessions' : sessions'[c] \in Memory
  BY <1>1, <1>3 DEF Appended
<1>5. QED
  BY <1>4 DEF Appended

LEMMA WindowWith ==
    ASSUME tab \in [Tabs -> Window], NEW t \in Tabs
    PROVE  /\ [tab EXCEPT ![t].asking = 0] \in [Tabs -> Window]
           /\ [tab EXCEPT ![t].conv = 0] \in [Tabs -> Window]
<1> DEFINE a == [tab[t] EXCEPT !.asking = 0]
           b == [tab[t] EXCEPT !.conv = 0]
<1>1. a \in Window /\ b \in Window
  BY ChatAssumption DEF Window
<1>2. /\ [tab EXCEPT ![t].asking = 0] = [tab EXCEPT ![t] = a]
      /\ [tab EXCEPT ![t].conv = 0] = [tab EXCEPT ![t] = b]
  OBVIOUS
<1> HIDE DEF a, b
<1>3. QED
  BY <1>1, <1>2

LEMMA MemoryWith ==
    ASSUME NEW m \in Memory, NEW n \in Nat
    PROVE  [m EXCEPT !.idle = n] \in Memory
BY DEF Memory

LEMMA ChatStaysTyped ==
    ASSUME ChatTyped, [ChatNext]_chatVars
    PROVE  ChatTyped'
<1>0. /\ asked \in 0..MaxAsked /\ MaxAsked \in Nat /\ {} \in Texts
      /\ (\A a \in Attempts : {a} \in Texts) /\ \A x, y \in Texts : x \cup y \in Texts
      /\ tab \in [Tabs -> Window]
      /\ shown \in [Questions -> Bubble]
      /\ request \in [Questions -> Stream]
      /\ frames \in [Questions -> Seq(Frame)]
  BY ChatAssumption, TextsAre DEF ChatTyped
<1>1. ASSUME NEW t \in Tabs, Ask(t)
      PROVE  ChatTyped'
  <2> DEFINE q == asked + 1
             conv == IF tab[t].conv = 0 THEN q ELSE tab[t].conv
  <2>1. q \in Questions /\ q \in 0..MaxAsked /\ conv \in 0..MaxAsked
    BY <1>0, <1>1 DEF Ask, Questions, Window
  <2>2. asked' = q /\ tab' = [tab EXCEPT ![t] = [conv |-> conv, asking |-> q]]
        /\ shown' = [shown EXCEPT ![q].is = "open"]
        /\ request' = [request EXCEPT ![q].at = "sent", ![q].conv = conv]
        /\ UNCHANGED <<frames, sessions>>
    BY <1>1 DEF Ask
  <2> HIDE DEF q, conv
  <2>3. asked' \in 0..MaxAsked /\ tab' \in [Tabs -> Window]
    BY <1>0, <2>1, <2>2 DEF Window
  <2>4. shown' \in [Questions -> Bubble]
    BY <1>0, <2>1, <2>2 DEF Bubble
  <2>5. request' \in [Questions -> Stream]
        /\ \A p \in Questions : request'[p].at = "run" => request'[p].chain # << >>
    <3> DEFINE y == [request[q] EXCEPT !.at = "sent", !.conv = conv]
    <3>1. request[q] \in Stream /\ request' = [request EXCEPT ![q] = y]
      BY <1>0, <2>1, <2>2
    <3>2. y \in Stream /\ (y.at = "sent")
      BY <2>1, <3>1 DEF Stream
    <3> HIDE DEF y
    <3>3. QED
      BY <2>1, <3>1, <3>2, StreamChanges
  <2>6. QED
    BY <2>2, <2>3, <2>4, <2>5 DEF ChatTyped
<1>2. ASSUME NEW t \in Tabs, Refuse(t) \/ Receive(t) \/ End(t) \/ StopAnswer(t) \/ Leave(t)
      PROVE  ChatTyped'
  <2> DEFINE q == tab[t].asking
  <2>1. q \in 0..MaxAsked
    BY <1>0 DEF Window
  <2>2. tab' \in [Tabs -> Window]
    <3>1. tab' = tab \/ tab' = [tab EXCEPT ![t].asking = 0]
      BY <1>2 DEF Refuse, Receive, End, StopAnswer, Leave, Aborted
    <3>2. QED
      BY <1>0, <3>1, WindowWith
  <2>3. shown' \in [Questions -> Bubble]
    <3>1. CASE Receive(t)
      <4>1. q \in Questions /\ frames[q] \in Seq(Frame) /\ frames[q] # << >>
        BY <1>0, <2>1, <3>1 DEF Receive, Questions
      <4>2. Head(frames[q]) \in Frame /\ shown[q] \in Bubble
        BY <1>0, <4>1
      <4>3. ASSUME NEW b \in Bubble, NEW f \in Frame
            PROVE  Painted(b, f) \in Bubble
        BY <1>0 DEF Painted, Bubble, Frame
      <4>4. shown' = [shown EXCEPT ![q] = Painted(@, Head(frames[q]))]
        BY <3>1 DEF Receive
      <4> HIDE DEF q
      <4>5. QED
        BY <1>0, <4>1, <4>2, <4>3, <4>4
    <3>2. CASE ~ Receive(t)
      <4>1. \/ shown' = shown
            \/ q # 0 /\ \E s \in {"error", "stopped"} :
                           shown' = [shown EXCEPT ![q].is = s, ![q].text = {}]
        BY <1>2, <3>2 DEF Refuse, End, StopAnswer, Leave, Aborted, ShowError
      <4> HIDE DEF q
      <4>2. ASSUME q # 0, NEW s \in {"error", "stopped"}
            PROVE  [shown EXCEPT ![q].is = s, ![q].text = {}] \in [Questions -> Bubble]
        <5> DEFINE b == [shown[q] EXCEPT !.is = s, !.text = {}]
        <5>1. q \in Questions
          BY <2>1, <4>2 DEF Questions
        <5>2. b \in Bubble /\ [shown EXCEPT ![q].is = s, ![q].text = {}] = [shown EXCEPT ![q] = b]
          BY <1>0, <5>1 DEF Bubble
        <5> HIDE DEF b
        <5>3. QED
          BY <1>0, <5>2
      <4>3. QED
        BY <1>0, <4>1, <4>2
    <3>3. QED
      BY <3>1, <3>2
  <2>4. request' \in [Questions -> Stream]
        /\ \A p \in Questions : request'[p].at = "run" => request'[p].chain # << >>
    <3>1. CASE Refuse(t)
      <4>1. q \in Questions /\ request' = Over(q)
        BY <2>1, <3>1 DEF Refuse, Questions
      <4>2. QED
        BY <4>1, OverIs
    <3>2. CASE ~ Refuse(t)
      BY <1>0, <1>2, <3>2 DEF Receive, End, StopAnswer, Leave, Aborted, ChatTyped
    <3>3. QED
      BY <3>1, <3>2
  <2>5. frames' \in [Questions -> Seq(Frame)]
    <3>1. \/ frames' = frames
          \/ frames' = [frames EXCEPT ![q] = << >>]
          \/ q # 0 /\ frames[q] # << >> /\ frames' = [frames EXCEPT ![q] = Tail(@)]
      BY <1>2 DEF Refuse, Receive, End, StopAnswer, Leave, Aborted
    <3> HIDE DEF q
    <3>2. q # 0 => q \in Questions
      BY <2>1 DEF Questions
    <3>3. ASSUME q # 0, frames[q] # << >>
          PROVE  Tail(frames[q]) \in Seq(Frame)
      BY <1>0, <3>2, <3>3
    <3>4. << >> \in Seq(Frame)
      OBVIOUS
    <3>5. \A f \in Seq(Frame) : [frames EXCEPT ![q] = f] \in [Questions -> Seq(Frame)]
      BY <1>0
    <3>6. QED
      BY <1>0, <3>1, <3>3, <3>4, <3>5
  <2>6. UNCHANGED <<asked, sessions>>
    BY <1>2 DEF Refuse, Receive, End, StopAnswer, Leave, Aborted
  <2>7. QED
    BY <1>0, <2>2, <2>3, <2>4, <2>5, <2>6 DEF ChatTyped
<1>3. ASSUME NEW t \in Tabs, Reset(t)
      PROVE  ChatTyped'
  <2>1. tab' \in [Tabs -> Window]
    BY <1>0, <1>3, WindowWith DEF Reset
  <2>2. [is |-> "cleared", text |-> {}, cleared |-> asked] \in Bubble
    BY <1>0 DEF Bubble
  <2>3. shown' \in [Questions -> Bubble]
    BY <1>0, <1>3, <2>2 DEF Reset, Cleared
  <2>4. QED
    BY <1>0, <1>3, <2>1, <2>3 DEF ChatTyped, Reset
<1>4. ASSUME NEW c \in resets, ResetArrives(c)
      PROVE  ChatTyped'
  <2>1. sessions' = [d \in DOMAIN sessions \ {c} |-> sessions[d]]
    BY <1>4 DEF ResetArrives, Without
  <2>2. sessions' \in [DOMAIN sessions' -> Memory]
    BY <2>1 DEF ChatTyped
  <2>3. QED
    BY <1>0, <1>4, <2>2 DEF ChatTyped, ResetArrives
<1>5. ASSUME NEW q \in Questions, GiveUp(q) \/ CancelStream(q)
      PROVE  ChatTyped'
  <2>1. request' = Over(q) /\ UNCHANGED <<tab, asked, shown, sessions>>
    BY <1>5 DEF GiveUp, CancelStream
  <2>2. ErrorFrame \in Frame
    BY <1>0 DEF ErrorFrame, Frame
  <2>3. frames' \in [Questions -> Seq(Frame)]
    BY <1>0, <1>5, <2>2, SendTyped DEF GiveUp, CancelStream
  <2>4. request' \in [Questions -> Stream]
        /\ \A p \in Questions : request'[p].at = "run" => request'[p].chain # << >>
    BY <2>1, OverIs
  <2>5. QED
    BY <1>0, <2>1, <2>3, <2>4 DEF ChatTyped
<1>6. ASSUME NEW q \in Questions, Begin(q)
      PROVE  ChatTyped'
  <2> DEFINE conv == request[q].conv
             known == conv \in DOMAIN sessions
             told == IF known THEN sessions[conv].history ELSE << >>
  <2>1. PICK chain \in {<<Guide>>} \cup {Chain(keys) : keys \in (SUBSET Providers) \ {{}}} :
          request' = [request EXCEPT ![q].at = "run", ![q].chain = chain, ![q].history = told]
    BY <1>6 DEF Begin
  <2>2. chain \in Seq(Attempts) \ {<< >>}
    <3>1. Guide \in Attempts
      BY AttemptsAre DEF Guide
    <3>2. <<Guide>> \in Seq(Attempts) \ {<< >>}
      BY <3>1
    <3>3. \A keys \in (SUBSET Providers) \ {{}} : Chain(keys) \in Seq(Attempts) \ {<< >>}
      BY ChainIs
    <3>4. QED
      BY <3>2, <3>3
  <2>3. told \in Seq(Entry)
    BY DEF ChatTyped, Memory
  <2>4. /\ sessions' = IF known THEN [sessions EXCEPT ![conv].idle = 0] ELSE sessions
        /\ UNCHANGED <<tab, asked, shown, frames>>
    BY <1>6 DEF Begin
  <2>5. sessions' \in [DOMAIN sessions' -> Memory]
    <3>1. CASE known
      <4> DEFINE m == [sessions[conv] EXCEPT !.idle = 0]
      <4>1. m \in Memory
        BY <3>1, MemoryWith DEF ChatTyped
      <4>2. sessions' = [sessions EXCEPT ![conv] = m]
        BY <2>4, <3>1
      <4> HIDE DEF m
      <4>3. QED
        BY <4>1, <4>2 DEF ChatTyped
    <3>2. QED
      BY <2>4, <3>1 DEF ChatTyped
  <2> HIDE DEF told, conv
  <2>6. request' \in [Questions -> Stream]
        /\ \A p \in Questions : request'[p].at = "run" => request'[p].chain # << >>
    <3> DEFINE y == [request[q] EXCEPT !.at = "run", !.chain = chain, !.history = told]
    <3>1. request[q] \in Stream /\ request' = [request EXCEPT ![q] = y]
      BY <1>0, <2>1
    <3>2. y \in Stream /\ (y.chain = chain)
      BY <2>2, <2>3, <3>1 DEF Stream
    <3> HIDE DEF y
    <3>3. QED
      BY <2>2, <3>1, <3>2, StreamChanges
  <2>7. QED
    BY <1>0, <2>4, <2>5, <2>6 DEF ChatTyped
<1>7. ASSUME NEW q \in Questions, Token(q)
      PROVE  ChatTyped'
  <2> DEFINE words == {Head(request[q].chain)}
  <2>1. words \in Texts
    <3>1. request[q].chain \in Seq(Attempts) /\ request[q].chain # << >>
      BY <1>0, <1>7 DEF Token, ChatTyped, Stream
    <3>2. Head(request[q].chain) \in Attempts
      BY <3>1
    <3>3. QED
      BY <1>0, <3>2
  <2>2. request' = [request EXCEPT ![q].text = words] /\ Send(q, [is |-> "token", text |-> words])
        /\ UNCHANGED <<tab, asked, shown, sessions>>
    BY <1>7 DEF Token
  <2> HIDE DEF words
  <2>3. [is |-> "token", text |-> words] \in Frame
    BY <2>1 DEF Frame
  <2>4. frames' \in [Questions -> Seq(Frame)]
    BY <2>2, <2>3, SendTyped
  <2>5. request' \in [Questions -> Stream]
        /\ \A p \in Questions : request'[p].at = "run" => request'[p].chain # << >>
    <3> DEFINE y == [request[q] EXCEPT !.text = words]
    <3>1. request[q] \in Stream /\ request' = [request EXCEPT ![q] = y]
      BY <1>0, <2>2
    <3>2. y \in Stream /\ (y.at = request[q].at /\ y.chain = request[q].chain)
      BY <2>1, <3>1 DEF Stream
    <3> HIDE DEF y
    <3>3. QED
      BY <3>1, <3>2, StreamChanges DEF ChatTyped
  <2>6. QED
    BY <1>0, <2>2, <2>4, <2>5 DEF ChatTyped
<1>8. ASSUME NEW q \in Questions, NEW failure \in Failures, Fail(q, failure)
      PROVE  ChatTyped'
  <2> DEFINE rest == Rest(request[q].chain, failure)
  <2>1. rest \in Seq(Attempts)
    BY <1>0, <1>8, RestIs DEF Fail, ChatTyped, Stream
  <2>2. request' = [request EXCEPT ![q].chain = rest, ![q].text = {},
                                   ![q].at = IF rest = << >> THEN "failed" ELSE "run"]
        /\ UNCHANGED <<tab, asked, shown, frames, sessions>>
    BY <1>8 DEF Fail
  <2> HIDE DEF rest
  <2>3. request' \in [Questions -> Stream]
        /\ \A p \in Questions : request'[p].at = "run" => request'[p].chain # << >>
    <3> DEFINE y == [request[q] EXCEPT !.chain = rest, !.text = {},
                                       !.at = IF rest = << >> THEN "failed" ELSE "run"]
    <3>1. request[q] \in Stream /\ request' = [request EXCEPT ![q] = y]
      BY <1>0, <2>2
    <3>2. y \in Stream /\ (y.at = "run" => y.chain # << >>)
      BY <1>0, <2>1, <3>1 DEF Stream
    <3> HIDE DEF y
    <3>3. QED
      BY <3>1, <3>2, StreamChanges
  <2>4. QED
    BY <1>0, <2>2, <2>3 DEF ChatTyped
<1>9. ASSUME NEW q \in Questions, Answer(q)
      PROVE  ChatTyped'
  <2>1. request' = [request EXCEPT ![q].at = "answered"]
        /\ UNCHANGED <<tab, asked, shown, frames, sessions>>
    BY <1>9 DEF Answer
  <2>2. request' \in [Questions -> Stream]
        /\ \A p \in Questions : request'[p].at = "run" => request'[p].chain # << >>
    <3> DEFINE y == [request[q] EXCEPT !.at = "answered"]
    <3>1. request[q] \in Stream /\ request' = [request EXCEPT ![q] = y]
      BY <1>0, <2>1
    <3>2. y \in Stream /\ (y.at = "answered")
      BY <1>0, <3>1 DEF Stream
    <3> HIDE DEF y
    <3>3. QED
      BY <3>1, <3>2, StreamChanges
  <2>3. QED
    BY <1>0, <2>1, <2>2 DEF ChatTyped
<1>10. ASSUME NEW q \in Questions, Finish(q)
       PROVE  ChatTyped'
  <2>1. request[q].text \in Texts
    BY <1>0 DEF Stream
  <2>2. [is |-> "done", text |-> request[q].text] \in Frame
    BY <2>1 DEF Frame
  <2>3. frames' \in [Questions -> Seq(Frame)]
    BY <1>10, <2>2, SendTyped DEF Finish
  <2>4. request' = Over(q) /\ UNCHANGED <<tab, asked, shown>>
    BY <1>10 DEF Finish
  <2>5. request' \in [Questions -> Stream]
        /\ \A p \in Questions : request'[p].at = "run" => request'[p].chain # << >>
    BY <2>4, OverIs
  <2>6. sessions' \in [DOMAIN sessions' -> Memory]
    <3>1. PICK old \in SUBSET DOMAIN sessions : Appended(request[q].conv, q, request[q].text, old)
      BY <1>10, AppendIs DEF Finish
    <3>2. QED
      BY <2>1, <3>1, AppendTyped
  <2>7. QED
    BY <1>0, <2>3, <2>4, <2>5, <2>6 DEF ChatTyped
<1>11. ASSUME RestartServer
       PROVE  ChatTyped'
  <2>1. tab' \in [Tabs -> Window]
    <3>1. \A t \in Tabs : [tab[t] EXCEPT !.asking = 0] \in Window
      BY <1>0 DEF Window
    <3>2. QED
      BY <1>11, <3>1 DEF RestartServer
  <2>2. ASSUME NEW q \in Questions
        PROVE  [shown[q] EXCEPT !.is = "error", !.text = {}] \in Bubble
    BY <1>0 DEF Bubble
  <2>3. shown' \in [Questions -> Bubble]
    BY <1>0, <1>11, <2>2 DEF RestartServer
  <2>4. NoRequest \in Stream /\ NoRequest.at = "none"
    BY <1>0 DEF NoRequest, Idle, Stream
  <2>5. ASSUME NEW q \in Questions
        PROVE  Over(q)[q] \in Stream /\ Over(q)[q].at = "over"
    <3>1. Over(q)[q] \in Stream /\ Over(q)[q] = Idle("over", request[q].conv)
      BY OverIs
    <3>2. QED
      BY <3>1 DEF Idle
  <2>6. request' \in [Questions -> Stream]
        /\ \A p \in Questions : request'[p].at = "run" => request'[p].chain # << >>
    BY <1>11, <2>4, <2>5 DEF RestartServer
  <2>7. frames' \in [Questions -> Seq(Frame)]
    <3>1. << >> \in Seq(Frame)
      OBVIOUS
    <3>2. frames' = [q \in Questions |-> << >>]
      BY <1>11 DEF RestartServer
    <3>3. QED
      BY <3>1, <3>2
  <2>8. sessions' \in [DOMAIN sessions' -> Memory]
    <3>1. sessions' = << >>
      BY <1>11 DEF RestartServer
    <3>2. << >> \in [{} -> Memory] /\ DOMAIN << >> = {}
      OBVIOUS
    <3>3. QED
      BY <3>1, <3>2
  <2>9. QED
    BY <1>0, <1>11, <2>1, <2>3, <2>6, <2>7, <2>8 DEF ChatTyped, RestartServer
<1>12. ASSUME Tick
       PROVE  ChatTyped'
  <2>1. ASSUME NEW c \in DOMAIN sessions
        PROVE  [sessions[c] EXCEPT !.idle = IF @ < MaxTicks THEN @ + 1 ELSE @] \in Memory
    <3> DEFINE m == sessions[c]
               n == IF m.idle < MaxTicks THEN m.idle + 1 ELSE m.idle
    <3>1. m \in Memory /\ n \in Nat
      BY <2>1 DEF ChatTyped, Memory
    <3>2. [sessions[c] EXCEPT !.idle = IF @ < MaxTicks THEN @ + 1 ELSE @] = [m EXCEPT !.idle = n]
      OBVIOUS
    <3> HIDE DEF m, n
    <3>3. QED
      BY <3>1, <3>2, MemoryWith
  <2>2. sessions' \in [DOMAIN sessions' -> Memory]
    BY <1>12, <2>1 DEF Tick
  <2>3. QED
    BY <1>0, <1>12, <2>2 DEF ChatTyped, Tick
<1>13. CASE UNCHANGED chatVars
  BY <1>13 DEF chatVars, ChatTyped
<1>14. QED
  BY <1>1, <1>2, <1>3, <1>4, <1>5, <1>6, <1>7, <1>8, <1>9, <1>10, <1>11, <1>12, <1>13
     DEF ChatNext, Shown, Handle, BeginDisabled, Report, Timeout, GiveUp

(***************************************************************************)
(* What each step does, question by question.                              *)
(***************************************************************************)
SameMemory ==
    /\ DOMAIN sessions' = DOMAIN sessions /\ dropped' = dropped
    /\ \A c \in DOMAIN sessions : sessions'[c].history = sessions[c].history
Others(q) == \A p \in Questions \ {q} : request'[p] = request[p] /\ frames'[p] = frames[p]
Sent(q, frame) == frames'[q] = frames[q] \/ frames'[q] = Append(frames[q], frame)

AskIs(t) ==
    LET q == asked + 1 IN
    /\ q \in Questions /\ asked' = q /\ tab[t].asking = 0
    /\ tab'[t].asking = q /\ tab'[t].conv = IF tab[t].conv = 0 THEN q ELSE tab[t].conv
    /\ \A u \in Tabs \ {t} : tab'[u] = tab[u]
    /\ shown'[q].is = "open" /\ \A p \in Questions \ {q} : shown'[p] = shown[p]
    /\ request'[q].at = "sent" /\ request'[q].conv = tab'[t].conv
    /\ request'[q].text = request[q].text /\ request'[q].history = request[q].history
    /\ Others(q) /\ UNCHANGED <<frames, sessions, dropped>>
PaintIs(t) ==
    LET q == tab[t].asking IN
    /\ q \in Questions /\ frames[q] # << >>
    /\ shown'[q] = Painted(shown[q], Head(frames[q])) /\ frames'[q] = Tail(frames[q])
    /\ \A p \in Questions \ {q} : shown'[p] = shown[p] /\ frames'[p] = frames[p]
    /\ UNCHANGED <<tab, asked, request, sessions, dropped>>
EndIs(t) ==
    LET q == tab[t].asking IN
    /\ q \in Questions
    /\ tab'[t].asking = 0 /\ tab'[t].conv = tab[t].conv
    /\ \A u \in Tabs \ {t} : tab'[u] = tab[u]
    /\ shown'[q] = shown[q] \/ shown'[q].is \in {"error", "stopped"}
    /\ frames'[q] = frames[q] \/ frames'[q] = << >>
    /\ \/ request'[q] = request[q]
       \/ request[q].at = "sent" /\ request'[q] = Idle("over", request[q].conv)
    /\ Others(q) /\ \A p \in Questions \ {q} : shown'[p] = shown[p]
    /\ UNCHANGED <<asked, sessions, dropped>>
ResetIs(t) ==
    /\ tab[t].asking = 0 /\ tab[t].conv # 0
    /\ tab'[t].asking = 0 /\ tab'[t].conv = 0 /\ \A u \in Tabs \ {t} : tab'[u] = tab[u]
    /\ \A p \in Questions : shown'[p] = Cleared(tab[t].conv)[p]
    /\ UNCHANGED <<asked, request, frames, sessions, dropped>>

Server(q) ==
    /\ q \in Questions /\ request[q].at \notin {"none", "over"}
    /\ request'[q].conv = request[q].conv
    /\ Others(q) /\ UNCHANGED <<tab, asked, shown>>
GiveUpIs(q) ==
    /\ Server(q) /\ SameMemory /\ Sent(q, ErrorFrame)
    /\ request'[q] = Idle("over", request[q].conv)
BeginIs(q) ==
    /\ Server(q) /\ SameMemory /\ frames' = frames
    /\ request[q].at = "sent" /\ request'[q].at = "run" /\ request'[q].text = request[q].text
    /\ \/ request'[q].history = << >>
       \/ /\ request[q].conv \in DOMAIN sessions
          /\ request'[q].history = sessions[request[q].conv].history
TokenIs(q) ==
    /\ Server(q) /\ SameMemory
    /\ request[q].at = "run" /\ request'[q].at = "run" /\ Single(request'[q].text)
    /\ Sent(q, [is |-> "token", text |-> request'[q].text])
    /\ request'[q].history = request[q].history
TriedIs(q) ==
    /\ Server(q) /\ SameMemory /\ frames' = frames
    /\ request[q].at = "run" /\ request'[q].at \in {"run", "failed", "answered"}
    /\ request'[q].text = {} \/ request'[q].text = request[q].text
    /\ request'[q].at = "answered" => request'[q].text # {}
    /\ request'[q].history = request[q].history
FinishIs(q, old) ==
    /\ Server(q) /\ request[q].at = "answered"
    /\ request'[q] = Idle("over", request[q].conv)
    /\ Sent(q, [is |-> "done", text |-> request[q].text])
    /\ Appended(request[q].conv, q, request[q].text, old)
ForgetIs(c) ==
    /\ UNCHANGED <<tab, asked, shown, request, frames>>
    /\ dropped' = dropped \cup Lost({c}) /\ DOMAIN sessions' = DOMAIN sessions \ {c}
    /\ \A d \in DOMAIN sessions' : sessions'[d] = sessions[d]
RestartIs ==
    /\ asked' = asked
    /\ \A t \in Tabs : tab'[t].asking = 0 /\ tab'[t].conv = tab[t].conv
    /\ \A q \in Questions :
         /\ frames'[q] = << >>
         /\ request'[q] = IF request[q].at = "none" THEN NoRequest
                          ELSE Idle("over", request[q].conv)
         /\ IF \E t \in Tabs : tab[t].asking = q THEN shown'[q].is = "error"
            ELSE shown'[q] = shown[q]
    /\ DOMAIN sessions' = {} /\ dropped' = dropped \cup Lost(DOMAIN sessions)
QuietIs == UNCHANGED <<tab, asked, shown, request, frames>> /\ SameMemory

LEMMA SendIs ==
    ASSUME ChatTyped, NEW q \in Questions, NEW frame, Send(q, frame)
    PROVE  Sent(q, frame) /\ \A p \in Questions \ {q} : frames'[p] = frames[p]
BY DEF Send, Sent, ChatTyped

LEMMA AskDoes ==
    ASSUME ChatTyped, NEW t \in Tabs, Ask(t)
    PROVE  AskIs(t)
<1> DEFINE q == asked + 1
           conv == IF tab[t].conv = 0 THEN q ELSE tab[t].conv
           r == [request[q] EXCEPT !.at = "sent", !.conv = conv]
           b == [shown[q] EXCEPT !.is = "open"]
<1>1. q \in Questions /\ tab[t].asking = 0
  BY ChatAssumption DEF Ask, ChatTyped, Questions
<1>2. r.at = "sent" /\ r.conv = conv /\ r.text = request[q].text /\ r.history = request[q].history
  BY <1>1 DEF ChatTyped, Stream
<1>3. b.is = "open"
  BY <1>1 DEF ChatTyped, Bubble
<1>4. asked' = q /\ tab' = [tab EXCEPT ![t] = [conv |-> conv, asking |-> q]]
      /\ shown' = [shown EXCEPT ![q] = b] /\ request' = [request EXCEPT ![q] = r]
      /\ UNCHANGED <<frames, sessions, dropped>>
  BY DEF Ask
<1> HIDE DEF r, b, conv
<1>5. tab'[t].asking = q /\ tab'[t].conv = conv /\ \A u \in Tabs \ {t} : tab'[u] = tab[u]
  BY <1>4 DEF ChatTyped
<1>6. shown'[q] = b /\ request'[q] = r
      /\ \A p \in Questions \ {q} : shown'[p] = shown[p] /\ request'[p] = request[p]
  BY <1>1, <1>4 DEF ChatTyped
<1>7. QED
  BY <1>1, <1>2, <1>3, <1>4, <1>5, <1>6 DEF AskIs, Others, conv

LEMMA ReceiveDoes ==
    ASSUME ChatTyped, NEW t \in Tabs, Receive(t)
    PROVE  PaintIs(t)
<1>1. tab[t].asking \in Questions
  BY DEF Receive, ChatTyped, Window, Questions
<1>2. QED
  BY <1>1 DEF Receive, PaintIs, ChatTyped

LEMMA EndDoes ==
    ASSUME ChatTyped, NEW t \in Tabs, Refuse(t) \/ End(t) \/ StopAnswer(t) \/ Leave(t)
    PROVE  EndIs(t)
<1> DEFINE q == tab[t].asking
<1>1. q \in Questions
  BY DEF Refuse, End, StopAnswer, Leave, Aborted, ChatTyped, Window, Questions
<1>2. tab' = [tab EXCEPT ![t].asking = 0] /\ UNCHANGED <<asked, sessions, dropped>>
  BY DEF Refuse, End, StopAnswer, Leave, Aborted
<1>3. tab'[t].asking = 0 /\ tab'[t].conv = tab[t].conv /\ \A u \in Tabs \ {t} : tab'[u] = tab[u]
  BY <1>2 DEF ChatTyped, Window
<1>4. frames' = frames \/ frames' = [frames EXCEPT ![q] = << >>]
  BY DEF Refuse, End, StopAnswer, Leave, Aborted
<1>5. request' = request \/ (request[q].at = "sent" /\ request' = Over(q))
  BY DEF Refuse, End, StopAnswer, Leave, Aborted
<1>6. \/ shown' = shown
      \/ shown' = [shown EXCEPT ![q].is = "error", ![q].text = {}]
      \/ shown' = [shown EXCEPT ![q].is = "stopped", ![q].text = {}]
  BY DEF Refuse, End, StopAnswer, Leave, Aborted, ShowError
<1> HIDE DEF q
<1>7. /\ shown'[q] = shown[q] \/ shown'[q].is \in {"error", "stopped"}
      /\ \A p \in Questions \ {q} : shown'[p] = shown[p]
  BY <1>1, <1>6 DEF ChatTyped, Bubble
<1>8. /\ frames'[q] = frames[q] \/ frames'[q] = << >>
      /\ \A p \in Questions \ {q} : frames'[p] = frames[p]
  BY <1>1, <1>4 DEF ChatTyped
<1>9. /\ \/ request'[q] = request[q]
         \/ request[q].at = "sent" /\ request'[q] = Idle("over", request[q].conv)
      /\ \A p \in Questions \ {q} : request'[p] = request[p]
  BY <1>1, <1>5, OverIs
<1>10. QED
  BY <1>1, <1>2, <1>3, <1>7, <1>8, <1>9 DEF EndIs, Others, q

LEMMA ResetDoes ==
    ASSUME ChatTyped, NEW t \in Tabs, Reset(t)
    PROVE  ResetIs(t)
<1>1. tab'[t].asking = 0 /\ tab'[t].conv = 0 /\ \A u \in Tabs \ {t} : tab'[u] = tab[u]
  BY DEF Reset, ChatTyped, Window
<1>2. QED
  BY <1>1 DEF Reset, ResetIs

LEMMA RequestWith ==
    ASSUME ChatTyped, NEW q \in Questions, NEW y, request' = [request EXCEPT ![q] = y]
    PROVE  request'[q] = y /\ \A p \in Questions \ {q} : request'[p] = request[p]
BY DEF ChatTyped

LEMMA GiveUpDoes ==
    ASSUME ChatTyped, NEW q \in Questions, request[q].at \notin {"none", "over"},
           GiveUp(q) \/ CancelStream(q)
    PROVE  GiveUpIs(q)
<1>1. request' = Over(q) /\ UNCHANGED <<tab, asked, shown, sessions, dropped>>
  BY DEF GiveUp, CancelStream
<1>2. Sent(q, ErrorFrame) /\ \A p \in Questions \ {q} : frames'[p] = frames[p]
  BY SendIs DEF GiveUp, CancelStream, Sent
<1>3. /\ request'[q] = Idle("over", request[q].conv)
      /\ \A p \in Questions \ {q} : request'[p] = request[p]
  BY <1>1, OverIs
<1>4. request'[q].conv = request[q].conv
  BY <1>3 DEF Idle
<1>5. QED
  BY <1>1, <1>2, <1>3, <1>4 DEF GiveUpIs, Server, Others, SameMemory

LEMMA BeginDoes ==
    ASSUME ChatTyped, NEW q \in Questions, Begin(q)
    PROVE  BeginIs(q)
<1> DEFINE conv == request[q].conv
           told == IF conv \in DOMAIN sessions THEN sessions[conv].history ELSE << >>
<1>1. PICK chain :
        request' = [request EXCEPT ![q].at = "run", ![q].chain = chain, ![q].history = told]
  BY DEF Begin
<1>2. /\ request[q].at = "sent"
      /\ sessions' = IF conv \in DOMAIN sessions THEN [sessions EXCEPT ![conv].idle = 0] ELSE sessions
      /\ UNCHANGED <<tab, asked, shown, frames, resets, crashes, dropped>>
  BY DEF Begin
<1>3. SameMemory
  <2>1. CASE conv \in DOMAIN sessions
    <3> DEFINE m == [sessions[conv] EXCEPT !.idle = 0]
    <3>1. m.history = sessions[conv].history
      BY <2>1 DEF ChatTyped, Memory
    <3>2. sessions' = [sessions EXCEPT ![conv] = m]
      BY <1>2, <2>1
    <3> HIDE DEF m
    <3>3. DOMAIN sessions' = DOMAIN sessions
          /\ \A c \in DOMAIN sessions : sessions'[c].history = sessions[c].history
      BY <3>1, <3>2 DEF ChatTyped
    <3>4. QED
      BY <1>2, <3>3 DEF SameMemory
  <2>2. QED
    BY <1>2, <2>1 DEF SameMemory
<1> DEFINE y == [request[q] EXCEPT !.at = "run", !.chain = chain, !.history = told]
<1> HIDE DEF told
<1>4. y.at = "run" /\ y.text = request[q].text /\ y.history = told /\ y.conv = conv
  BY DEF ChatTyped, Stream
<1>5. request' = [request EXCEPT ![q] = y]
  BY <1>1
<1> HIDE DEF y
<1>6. request'[q] = y /\ \A p \in Questions \ {q} : request'[p] = request[p]
  BY <1>5, RequestWith
<1>7. told = << >> \/ (conv \in DOMAIN sessions /\ told = sessions[conv].history)
  BY DEF told
<1>8. QED
  BY <1>2, <1>3, <1>4, <1>6, <1>7 DEF BeginIs, Server, Others

LEMMA TokenDoes ==
    ASSUME ChatTyped, NEW q \in Questions, Token(q)
    PROVE  TokenIs(q)
<1> DEFINE words == {Head(request[q].chain)}
           y == [request[q] EXCEPT !.text = words]
<1>1. Single(words)
  BY DEF Single
<1>2. y.at = request[q].at /\ y.text = words /\ y.history = request[q].history
      /\ y.conv = request[q].conv
  BY DEF ChatTyped, Stream
<1>3. /\ request[q].at = "run" /\ request' = [request EXCEPT ![q] = y]
      /\ Send(q, [is |-> "token", text |-> words])
      /\ UNCHANGED <<tab, asked, shown, sessions, resets, crashes, dropped>>
  BY DEF Token
<1> HIDE DEF y, words
<1>4. request'[q] = y /\ \A p \in Questions \ {q} : request'[p] = request[p]
  BY <1>3, RequestWith
<1>5. /\ Sent(q, [is |-> "token", text |-> words])
      /\ \A p \in Questions \ {q} : frames'[p] = frames[p]
  BY <1>3, SendIs
<1>6. QED
  BY <1>1, <1>2, <1>3, <1>4, <1>5 DEF TokenIs, Server, Others, SameMemory

LEMMA TriedDoes ==
    ASSUME ChatTyped, NEW q \in Questions,
           Answer(q) \/ \E failure \in Failures : Fail(q, failure)
    PROVE  TriedIs(q)
<1>1. request[q].at = "run" /\ UNCHANGED <<tab, asked, shown, frames, sessions, dropped>>
  BY DEF Answer, Fail
<1>2. SameMemory
  BY <1>1 DEF SameMemory
<1>3. CASE Answer(q)
  <2> DEFINE y == [request[q] EXCEPT !.at = "answered"]
  <2>1. y.at = "answered" /\ y.text = request[q].text /\ y.history = request[q].history
        /\ y.conv = request[q].conv
    BY DEF ChatTyped, Stream
  <2>2. request' = [request EXCEPT ![q] = y] /\ request[q].text # {}
    BY <1>3 DEF Answer
  <2> HIDE DEF y
  <2>3. request'[q] = y /\ \A p \in Questions \ {q} : request'[p] = request[p]
    BY <2>2, RequestWith
  <2>4. QED
    BY <1>1, <1>2, <2>1, <2>2, <2>3 DEF TriedIs, Server, Others
<1>4. ASSUME NEW failure \in Failures, Fail(q, failure)
      PROVE  TriedIs(q)
  <2> DEFINE rest == Rest(request[q].chain, failure)
             at == IF rest = << >> THEN "failed" ELSE "run"
             y == [request[q] EXCEPT !.chain = rest, !.text = {}, !.at = at]
  <2>0. request' = [request EXCEPT ![q] = y]
    BY <1>4 DEF Fail
  <2>1. at \in {"failed", "run"}
    OBVIOUS
  <2> HIDE DEF rest, at
  <2>2. y.at = at /\ y.text = {} /\ y.history = request[q].history /\ y.conv = request[q].conv
    BY DEF ChatTyped, Stream
  <2> HIDE DEF y
  <2>3. request'[q] = y /\ \A p \in Questions \ {q} : request'[p] = request[p]
    BY <2>0, RequestWith
  <2>4. QED
    BY <1>1, <1>2, <2>1, <2>2, <2>3 DEF TriedIs, Server, Others
<1>5. QED
  BY <1>3, <1>4

LEMMA FinishDoes ==
    ASSUME ChatTyped, NEW q \in Questions, Finish(q)
    PROVE  \E old \in SUBSET DOMAIN sessions : FinishIs(q, old)
<1>1. PICK old \in SUBSET DOMAIN sessions : Appended(request[q].conv, q, request[q].text, old)
  BY AppendIs DEF Finish
<1>2. /\ Sent(q, [is |-> "done", text |-> request[q].text])
      /\ \A p \in Questions \ {q} : frames'[p] = frames[p]
  BY SendIs DEF Finish
<1>3. request[q].at = "answered" /\ request' = Over(q) /\ UNCHANGED <<tab, asked, shown>>
  BY DEF Finish
<1>4. /\ request'[q] = Idle("over", request[q].conv)
      /\ \A p \in Questions \ {q} : request'[p] = request[p]
  BY <1>3, OverIs
<1>5. request'[q].conv = request[q].conv
  BY <1>4 DEF Idle
<1>6. FinishIs(q, old)
  BY <1>1, <1>2, <1>3, <1>4, <1>5 DEF FinishIs, Server, Others
<1>7. QED
  BY <1>6

LEMMA ResetArrivesDoes ==
    ASSUME NEW c, ResetArrives(c)
    PROVE  ForgetIs(c)
BY DEF ResetArrives, Without, ForgetIs

LEMMA RestartDoes ==
    ASSUME ChatTyped, RestartServer
    PROVE  RestartIs
<1>1. ASSUME NEW t \in Tabs
      PROVE  tab'[t].asking = 0 /\ tab'[t].conv = tab[t].conv
  BY <1>1 DEF RestartServer, ChatTyped, Window
<1>2. ASSUME NEW q \in Questions
      PROVE  IF \E t \in Tabs : tab[t].asking = q THEN shown'[q].is = "error"
             ELSE shown'[q] = shown[q]
  <2> DEFINE b == [shown[q] EXCEPT !.is = "error", !.text = {}]
  <2>1. b.is = "error"
    BY DEF ChatTyped, Bubble
  <2>2. shown'[q] = IF q \in {tab[t].asking : t \in Tabs} THEN b ELSE shown[q]
    BY DEF RestartServer
  <2> HIDE DEF b
  <2>3. QED
    BY <2>1, <2>2
<1>3. ASSUME NEW q \in Questions
      PROVE  request'[q] = IF request[q].at = "none" THEN NoRequest
                           ELSE Idle("over", request[q].conv)
  BY <1>3, OverIs DEF RestartServer
<1>4. DOMAIN sessions' = {}
  <2>1. sessions' = << >>
    BY DEF RestartServer
  <2>2. QED
    BY <2>1
<1>5. (\A q \in Questions : frames'[q] = << >>)
      /\ asked' = asked /\ dropped' = dropped \cup Lost(DOMAIN sessions)
  BY DEF RestartServer
<1>6. QED
  BY <1>1, <1>2, <1>3, <1>4, <1>5 DEF RestartIs

LEMMA TickDoes ==
    ASSUME ChatTyped, Tick \/ UNCHANGED chatVars
    PROVE  QuietIs
<1>1. ASSUME Tick, NEW c \in DOMAIN sessions
      PROVE  c \in DOMAIN sessions' /\ sessions'[c].history = sessions[c].history
  <2> DEFINE m == [sessions[c] EXCEPT !.idle = IF @ < MaxTicks THEN @ + 1 ELSE @]
  <2>1. m.history = sessions[c].history
    BY <1>1 DEF ChatTyped, Memory
  <2>2. c \in DOMAIN sessions' /\ sessions'[c] = m
    BY <1>1 DEF Tick
  <2>3. QED
    BY <2>1, <2>2
<1>2. Tick => DOMAIN sessions' = DOMAIN sessions
              /\ UNCHANGED <<tab, asked, shown, request, frames, dropped>>
  BY DEF Tick
<1>3. QED
  BY <1>1, <1>2 DEF QuietIs, SameMemory, chatVars

(* Every step is one of these.                                             *)
PageStep   == \E t \in Tabs : AskIs(t) \/ PaintIs(t) \/ EndIs(t) \/ ResetIs(t)
StreamStep == \E q \in Questions : GiveUpIs(q) \/ BeginIs(q) \/ TokenIs(q) \/ TriedIs(q)
FinishStep == \E q \in Questions : \E old \in SUBSET DOMAIN sessions : FinishIs(q, old)
ForgetStep == \E c \in resets : ForgetIs(c)
ChatStep   == PageStep \/ StreamStep \/ FinishStep \/ ForgetStep \/ RestartIs \/ QuietIs

LEMMA StepIs ==
    ASSUME ChatTyped, [ChatNext]_chatVars
    PROVE  ChatStep
<1>1. ASSUME NEW t \in Tabs, Shown(t) \/ Refuse(t) \/ StopAnswer(t) \/ Leave(t) \/ Reset(t) \/ Ask(t)
      PROVE  PageStep
  BY <1>1, AskDoes, ReceiveDoes, EndDoes, ResetDoes DEF Shown, PageStep
<1>2. ASSUME NEW q \in Questions, Handle(q) \/ Token(q) \/ Answer(q) \/ CancelStream(q)
      PROVE  StreamStep \/ FinishStep
  <2>1. CASE BeginDisabled(q) \/ Report(q) \/ Timeout(q) \/ CancelStream(q)
    <3>1. request[q].at \notin {"none", "over"} /\ (GiveUp(q) \/ CancelStream(q))
      BY <2>1 DEF BeginDisabled, Report, Timeout, CancelStream, GiveUp
    <3>2. QED
      BY <3>1, GiveUpDoes DEF StreamStep
  <2>2. CASE Begin(q) \/ Token(q) \/ Answer(q)
    BY <2>2, BeginDoes, TokenDoes, TriedDoes DEF StreamStep
  <2>3. CASE Finish(q)
    BY <2>3, FinishDoes DEF FinishStep
  <2>4. QED
    BY <1>2, <2>1, <2>2, <2>3 DEF Handle
<1>3. ASSUME NEW q \in Questions, NEW failure \in Failures, Fail(q, failure)
      PROVE  StreamStep
  BY <1>3, TriedDoes DEF StreamStep
<1>4. ASSUME NEW c \in resets, ResetArrives(c)
      PROVE  ForgetStep
  BY <1>4, ResetArrivesDoes DEF ForgetStep
<1>5. QED
  BY <1>1, <1>2, <1>3, <1>4, RestartDoes, TickDoes DEF ChatNext, ChatStep

(***************************************************************************)
(* The windows.                                                            *)
(***************************************************************************)
LEMMA WindowStarts == ASSUME ChatInit PROVE WindowInv
<1>1. \A q \in Questions : Unasked(q) /\ shown[q].is = "none"
  BY DEF ChatInit, Unasked, NoBubble
<1>2. asked = 0 /\ MaxAsked \in Nat /\ \A t \in Tabs : tab[t].asking = 0 /\ tab[t].conv = 0
  BY ChatAssumption DEF ChatInit
<1>3. QED
  BY <1>1, <1>2 DEF WindowInv, Questions

LEMMA AskedIs ==
    ASSUME ChatTyped, WindowInv
    PROVE  /\ asked \in Nat /\ MaxAsked \in Nat /\ asked <= MaxAsked
           /\ 1..asked \subseteq Questions
           /\ \A q \in Questions : request[q].at # "none" => q \in 1..asked
           /\ \A q \in Questions : shown[q].is # "none" => q \in 1..asked
           /\ \A t \in Tabs : tab[t].asking # 0 => tab[t].asking \in 1..asked
           /\ \A t \in Tabs : tab[t].asking \in 0..asked /\ tab[t].conv \in 0..asked
<1>1. asked \in 0..MaxAsked /\ MaxAsked \in Nat
  BY ChatAssumption DEF ChatTyped
<1>2. NoRequest.at = "none" /\ NoBubble.is = "none"
  BY DEF NoRequest, Idle, NoBubble
<1>3. \A q \in Questions : q \in 1..asked \/ Unasked(q)
  BY <1>1 DEF WindowInv, Questions
<1>4. \A t \in Tabs : tab[t].asking \in 0..MaxAsked /\ tab[t].conv \in 0..MaxAsked
  BY DEF ChatTyped, Window
<1>5. \A t \in Tabs : tab[t].asking \in 0..asked /\ tab[t].conv \in 0..asked
  BY <1>1, <1>4 DEF WindowInv
<1>6. QED
  BY <1>1, <1>2, <1>3, <1>5 DEF Questions, Unasked

(* A step that asks nothing, clears nothing and opens no window.           *)
Calm ==
    /\ asked' = asked
    /\ \A t \in Tabs : tab'[t].conv = tab[t].conv /\ tab'[t].asking \in {0, tab[t].asking}
    /\ \A q \in Questions : request'[q].conv = request[q].conv
    /\ \A q \in 1..asked : request'[q].at # "none"
    /\ \A q \in (asked + 1)..MaxAsked :
         request'[q] = request[q] /\ shown'[q] = shown[q] /\ frames'[q] = frames[q]
    /\ \A q \in Questions : shown'[q].is = "cleared" => shown'[q] = shown[q]
    /\ \A t \in Tabs : LET q == tab[t].asking IN
         tab'[t].asking # 0 => shown'[q] = shown[q] \/ shown'[q].is \in {"open", "done", "error"}

LEMMA WindowCalm ==
    ASSUME ChatTyped, WindowInv, Calm
    PROVE  WindowInv'
<1>0. /\ asked \in Nat /\ MaxAsked \in Nat /\ 1..asked \subseteq Questions
      /\ \A t \in Tabs : tab[t].asking # 0 => tab[t].asking \in 1..asked
  BY AskedIs
<1>1. \A t \in Tabs : tab'[t].asking <= asked' /\ tab'[t].conv <= asked'
  BY <1>0 DEF Calm, WindowInv
<1>2. ASSUME NEW t \in Tabs, tab'[t].asking # 0
      PROVE  Waits(t)'
  <2>1. tab'[t].asking = tab[t].asking /\ tab[t].asking \in 1..asked /\ Waits(t)
    BY <1>0, <1>2 DEF Calm, WindowInv
  <2>2. shown'[tab[t].asking].is \in {"open", "done", "error"}
    BY <1>2, <2>1 DEF Calm, Waits
  <2>3. QED
    BY <1>0, <2>1, <2>2 DEF Calm, Waits
<1>3. \A t, u \in Tabs : tab'[t].conv = tab'[u].conv /\ tab'[t].conv # 0 => t = u
  BY DEF Calm, WindowInv
<1>4. \A q \in (asked + 1)..MaxAsked : Unasked(q)'
  BY DEF Calm, WindowInv, Unasked, NoRequest, NoBubble
<1>5. \A q \in 1..asked : request'[q].conv \in 1..asked /\ request'[q].at # "none"
  BY <1>0 DEF Calm, WindowInv
<1>6. ASSUME NEW p \in Questions, shown'[p].is = "cleared"
      PROVE  LetGo(p)'
  <2>1. shown'[p] = shown[p] /\ LetGo(p)
    BY <1>6 DEF Calm, WindowInv
  <2>2. QED
    BY <1>0, <2>1 DEF Calm, LetGo
<1>7. asked' = asked
  BY DEF Calm
<1>8. QED
  BY <1>1, <1>2, <1>3, <1>4, <1>5, <1>6, <1>7 DEF WindowInv

LEMMA WindowAsk ==
    ASSUME ChatTyped, WindowInv, NEW t \in Tabs, AskIs(t)
    PROVE  WindowInv'
<1> DEFINE q == asked + 1
           conv == IF tab[t].conv = 0 THEN q ELSE tab[t].conv
<1>0. /\ asked \in Nat /\ MaxAsked \in Nat /\ 1..asked \subseteq Questions /\ asked' = q
      /\ q \in Questions /\ q \notin 1..asked /\ 1..asked' = (1..asked) \cup {q}
      /\ \A u \in Tabs : tab[u].asking \in 0..asked /\ tab[u].conv \in 0..asked
      /\ \A u \in Tabs : tab[u].asking # 0 => tab[u].asking \in 1..asked
  BY AskedIs DEF AskIs
<1>1. /\ tab'[t].asking = q /\ tab'[t].conv = conv /\ conv \in 1..q
      /\ conv = q \/ (conv = tab[t].conv /\ conv # 0)
      /\ \A u \in Tabs \ {t} : tab'[u] = tab[u]
  BY <1>0 DEF AskIs
<1>2. /\ shown'[q].is = "open" /\ request'[q].at = "sent" /\ request'[q].conv = conv
      /\ \A p \in Questions \ {q} : shown'[p] = shown[p] /\ request'[p] = request[p]
      /\ frames' = frames
  BY <1>1 DEF AskIs, Others
<1>3. \A p \in 1..asked : request[p].conv \in 1..asked /\ p # q
  BY <1>0 DEF WindowInv
<1> HIDE DEF q, conv
<1>4. \A u \in Tabs : tab'[u].asking <= asked' /\ tab'[u].conv <= asked'
  BY <1>0, <1>1 DEF q
<1>5. ASSUME NEW u \in Tabs, tab'[u].asking # 0
      PROVE  Waits(u)'
  <2>1. CASE u = t
    <3>1. ASSUME NEW p \in 1..asked'
          PROVE  p <= q
      BY <1>0, <3>1 DEF q
    <3>2. QED
      BY <1>0, <1>1, <1>2, <2>1, <3>1 DEF Waits
  <2>2. CASE u # t
    <3>1. tab'[u] = tab[u] /\ tab[u].asking \in 1..asked /\ Waits(u)
      BY <1>0, <1>1, <1>5, <2>2 DEF WindowInv
    <3>2. tab[u].conv # conv
      BY <1>0, <1>1, <2>2, <3>1 DEF WindowInv, Waits, q
    <3>3. ASSUME NEW p \in 1..asked', request'[p].conv = tab[u].conv
          PROVE  p <= tab[u].asking
      BY <1>0, <1>2, <1>3, <3>1, <3>2, <3>3 DEF Waits
    <3>4. QED
      BY <1>0, <1>2, <1>3, <3>1, <3>3 DEF Waits
  <2>3. QED
    BY <2>1, <2>2
<1>6. ASSUME NEW u \in Tabs, NEW v \in Tabs, tab'[u].conv = tab'[v].conv, tab'[u].conv # 0
      PROVE  u = v
  <2>1. ASSUME NEW w \in Tabs \ {t}
        PROVE  tab'[w].conv # conv
    BY <1>0, <1>1, <2>1 DEF WindowInv, q
  <2>2. QED
    BY <1>1, <1>6, <2>1 DEF WindowInv
<1>7. ASSUME NEW p \in (asked' + 1)..MaxAsked
      PROVE  Unasked(p)'
  <2>1. p \in Questions \ {q} /\ Unasked(p)
    BY <1>0, <1>7 DEF WindowInv, Questions, q
  <2>2. QED
    BY <1>2, <2>1 DEF Unasked, NoRequest, NoBubble
<1>8. \A p \in 1..asked' : request'[p].conv \in 1..asked' /\ request'[p].at # "none"
  BY <1>0, <1>1, <1>2, <1>3 DEF WindowInv, q
<1>9. ASSUME NEW p \in Questions, shown'[p].is = "cleared"
      PROVE  LetGo(p)'
  <2>1. p # q /\ shown'[p] = shown[p] /\ LetGo(p) /\ request'[p] = request[p]
    BY <1>2, <1>9 DEF WindowInv
  <2>2. p \in 1..asked /\ request[p].conv \in 1..asked
    BY <1>9, <2>1, <1>3, AskedIs
  <2>3. request[p].conv # conv
    BY <1>0, <1>1, <2>1, <2>2 DEF LetGo, q
  <2>4. \A r \in 1..asked' : request'[r].conv = request[p].conv => r <= shown[p].cleared
    BY <1>0, <1>2, <1>3, <2>1, <2>3 DEF LetGo
  <2>5. \A u \in Tabs : tab'[u].conv # request[p].conv
    BY <1>1, <2>1, <2>3 DEF LetGo
  <2>6. QED
    BY <2>1, <2>4, <2>5 DEF LetGo
<1>10. QED
  BY <1>4, <1>5, <1>6, <1>7, <1>8, <1>9 DEF WindowInv

LEMMA WindowReset ==
    ASSUME ChatTyped, WindowInv, NEW t \in Tabs, ResetIs(t)
    PROVE  WindowInv'
<1> DEFINE conv == tab[t].conv
<1>0. /\ asked \in Nat /\ MaxAsked \in Nat /\ 1..asked \subseteq Questions
      /\ \A u \in Tabs : tab[u].asking # 0 => tab[u].asking \in 1..asked
  BY AskedIs
<1>1. /\ tab[t].asking = 0 /\ conv # 0 /\ tab'[t].asking = 0 /\ tab'[t].conv = 0
      /\ \A u \in Tabs \ {t} : tab'[u] = tab[u] /\ tab[u].conv # conv
      /\ UNCHANGED <<asked, request, frames>>
  BY DEF ResetIs, WindowInv
<1>2. \A p \in Questions :
        \/ shown'[p] = shown[p]
        \/ /\ request[p].conv = conv /\ shown[p].is # "none"
           /\ shown'[p].is = "cleared" /\ shown'[p].cleared = asked
  BY DEF ResetIs, Cleared
<1> HIDE DEF conv
<1>3. \A u \in Tabs : tab'[u].asking <= asked' /\ tab'[u].conv <= asked'
  BY <1>0, <1>1 DEF WindowInv
<1>4. ASSUME NEW u \in Tabs, tab'[u].asking # 0
      PROVE  Waits(u)'
  <2>1. u # t /\ tab'[u] = tab[u] /\ tab[u].asking \in 1..asked /\ Waits(u) /\ tab[u].conv # conv
    BY <1>0, <1>1, <1>4 DEF WindowInv
  <2>2. shown'[tab[u].asking] = shown[tab[u].asking]
    BY <1>0, <1>2, <2>1 DEF Waits
  <2>3. QED
    BY <1>1, <2>1, <2>2 DEF Waits
<1>5. \A u, v \in Tabs : tab'[u].conv = tab'[v].conv /\ tab'[u].conv # 0 => u = v
  BY <1>1 DEF WindowInv
<1>6. ASSUME NEW q \in (asked + 1)..MaxAsked
      PROVE  Unasked(q)'
  <2>1. q \in Questions /\ Unasked(q) /\ shown[q].is = "none"
    BY <1>0, <1>6 DEF WindowInv, Questions, Unasked, NoBubble
  <2>2. shown'[q] = shown[q]
    BY <1>2, <2>1
  <2>3. QED
    BY <1>1, <2>1, <2>2 DEF Unasked, NoRequest, NoBubble
<1>7. ASSUME NEW p \in Questions, shown'[p].is = "cleared"
      PROVE  LetGo(p)'
  <2>1. CASE shown'[p] = shown[p]
    <3>1. LetGo(p)
      BY <1>7, <2>1 DEF WindowInv
    <3>2. request[p].conv # 0
      BY <1>7, <2>1, AskedIs DEF WindowInv
    <3>3. QED
      BY <1>1, <2>1, <3>1, <3>2 DEF LetGo
  <2>2. CASE request[p].conv = conv /\ shown'[p].cleared = asked
    BY <1>0, <1>1, <2>2 DEF LetGo
  <2>3. QED
    BY <1>2, <2>1, <2>2
<1>8. QED
  BY <1>1, <1>3, <1>4, <1>5, <1>6, <1>7 DEF WindowInv

LEMMA OneWaits ==
    ASSUME ChatTyped, WindowInv, NEW t \in Tabs, NEW u \in Tabs,
           tab[t].asking # 0, tab[u].asking = tab[t].asking
    PROVE  t = u
BY DEF WindowInv, Waits

LEMMA PaintedIs ==
    ASSUME NEW b \in Bubble, NEW f \in Frame
    PROVE  /\ Painted(b, f).is \in {b.is, "done", "error"}
           /\ Painted(b, f).is = "done" =>
                \/ f.is = "done" /\ Painted(b, f).text = f.text
                \/ f.is = "token" /\ b.is = "done"
           /\ f.is = "done" => Painted(b, f).is = "done"
BY DEF Painted, Bubble, Frame

LEMMA CalmPage ==
    ASSUME ChatTyped, WindowInv, NEW t \in Tabs, PaintIs(t) \/ EndIs(t)
    PROVE  Calm
<1> DEFINE q == tab[t].asking
<1>0. /\ asked \in Nat /\ MaxAsked \in Nat /\ 1..asked \subseteq Questions /\ q \in 1..asked
      /\ \A u \in Tabs : tab[u].asking # 0 => tab[u].asking \in 1..asked
      /\ q # 0 /\ q \in Questions /\ Waits(t)
  <2>1. q # 0
    BY DEF PaintIs, EndIs, Questions
  <2>2. QED
    BY <2>1, AskedIs DEF WindowInv
<1>1. \A p \in (asked + 1)..MaxAsked : p \in Questions /\ p # q
  BY <1>0 DEF Questions
<1>2. \A p \in 1..asked : request[p].at # "none"
  BY DEF WindowInv
<1>3. CASE PaintIs(t)
  <2>1. /\ shown'[q] = Painted(shown[q], Head(frames[q]))
        /\ \A p \in Questions \ {q} : shown'[p] = shown[p] /\ frames'[p] = frames[p]
        /\ UNCHANGED <<tab, asked, request>>
        /\ frames[q] # << >>
    BY <1>3 DEF PaintIs
  <2>2. shown[q] \in Bubble /\ Head(frames[q]) \in Frame
    BY <1>0, <2>1 DEF ChatTyped
  <2>3. shown'[q].is \in {"open", "done", "error"}
    BY <1>0, <2>1, <2>2, PaintedIs DEF Waits
  <2> HIDE DEF q
  <2>4. \A u \in Tabs : shown'[tab[u].asking] = shown[tab[u].asking]
                        \/ shown'[tab[u].asking].is \in {"open", "done", "error"} \/ tab'[u].asking = 0
    BY <1>0, <2>1, <2>3
  <2>5. QED
    BY <1>1, <1>2, <2>1, <2>3, <2>4 DEF Calm
<1>4. CASE EndIs(t)
  <2>1. /\ tab'[t].asking = 0 /\ tab'[t].conv = tab[t].conv
        /\ \A u \in Tabs \ {t} : tab'[u] = tab[u]
        /\ shown'[q] = shown[q] \/ shown'[q].is \in {"error", "stopped"}
        /\ \/ request'[q] = request[q]
           \/ request[q].at = "sent" /\ request'[q] = Idle("over", request[q].conv)
        /\ \A p \in Questions \ {q} : request'[p] = request[p] /\ frames'[p] = frames[p]
                                       /\ shown'[p] = shown[p]
        /\ asked' = asked
    BY <1>4 DEF EndIs, Others
  <2>2. request'[q].conv = request[q].conv /\ request'[q].at # "none"
    BY <1>0, <1>2, <2>1 DEF Idle
  <2>3. \A u \in Tabs \ {t} : tab[u].asking # q
    BY <1>0, OneWaits
  <2> HIDE DEF q
  <2>4. \A u \in Tabs : tab'[u].asking # 0 => shown'[tab[u].asking] = shown[tab[u].asking]
    BY <1>0, <2>1, <2>3
  <2>5. QED
    BY <1>0, <1>1, <1>2, <2>1, <2>2, <2>4 DEF Calm
<1>5. QED
  BY <1>3, <1>4

LEMMA CalmServer ==
    ASSUME ChatTyped, WindowInv,
           \/ \E q \in Questions :
                \/ GiveUpIs(q) \/ BeginIs(q) \/ TokenIs(q) \/ TriedIs(q)
                \/ \E old \in SUBSET DOMAIN sessions : FinishIs(q, old)
           \/ \E c \in resets : ForgetIs(c)
           \/ RestartIs \/ QuietIs
    PROVE  Calm
<1>0. /\ asked \in Nat /\ MaxAsked \in Nat /\ 1..asked \subseteq Questions
      /\ \A u \in Tabs : tab[u].asking # 0 => tab[u].asking \in 1..asked
      /\ \A q \in 1..asked : request[q].at # "none"
      /\ \A q \in Questions : request[q].at # "none" => q \in 1..asked
  BY AskedIs DEF WindowInv
<1>1. \A p \in (asked + 1)..MaxAsked : p \in Questions /\ p \notin 1..asked
  BY <1>0 DEF Questions
<1>2. ASSUME NEW q \in Questions, Server(q), request'[q].at # "none"
      PROVE  Calm
  <2>1. q \in 1..asked
    BY <1>0, <1>2 DEF Server
  <2>2. QED
    BY <1>0, <1>1, <1>2, <2>1 DEF Server, Others, Calm
<1>3. ASSUME NEW q \in Questions,
             \/ GiveUpIs(q) \/ BeginIs(q) \/ TokenIs(q) \/ TriedIs(q)
             \/ \E old \in SUBSET DOMAIN sessions : FinishIs(q, old)
      PROVE  Calm
  <2>1. Server(q) /\ request'[q].at # "none"
    BY <1>3 DEF GiveUpIs, BeginIs, TokenIs, TriedIs, FinishIs, Idle
  <2>2. QED
    BY <1>2, <2>1
<1>4. ASSUME UNCHANGED <<tab, asked, shown, request, frames>>
      PROVE  Calm
  BY <1>0, <1>4 DEF Calm
<1>5. CASE RestartIs
  <2>1. \A q \in Questions : request'[q].conv = request[q].conv
                            /\ (request[q].at # "none" => request'[q].at # "none")
    <3>1. ASSUME NEW q \in Questions, request[q].at = "none"
          PROVE  request[q].conv = 0 /\ request'[q].conv = 0
      <4>1. Unasked(q)
        BY <1>0, <3>1 DEF WindowInv, Questions
      <4>2. request'[q] = NoRequest /\ NoRequest.conv = 0
        BY <1>5, <3>1 DEF RestartIs, NoRequest, Idle
      <4>3. QED
        BY <4>1, <4>2 DEF Unasked
    <3>2. ASSUME NEW q \in Questions, request[q].at # "none"
          PROVE  request'[q].conv = request[q].conv /\ request'[q].at = "over"
      <4>1. request'[q] = Idle("over", request[q].conv)
        BY <1>5, <3>2 DEF RestartIs
      <4>2. QED
        BY <4>1 DEF Idle
    <3>3. QED
      BY <3>1, <3>2
  <2>2. ASSUME NEW q \in (asked + 1)..MaxAsked
        PROVE  request'[q] = request[q] /\ shown'[q] = shown[q] /\ frames'[q] = frames[q]
    <3>1. Unasked(q) /\ q \in Questions /\ \A t \in Tabs : tab[t].asking # q
      BY <1>0, <1>1 DEF WindowInv
    <3>2. request[q].at = "none"
      BY <3>1 DEF Unasked, NoRequest, Idle
    <3>3. QED
      BY <1>5, <3>1, <3>2 DEF RestartIs, Unasked
  <2>3. \A q \in Questions : shown'[q].is = "error" \/ shown'[q] = shown[q]
    BY <1>5 DEF RestartIs
  <2>4. asked' = asked /\ \A t \in Tabs : tab'[t].asking = 0 /\ tab'[t].conv = tab[t].conv
    BY <1>5 DEF RestartIs
  <2>5. QED
    BY <1>0, <2>1, <2>2, <2>3, <2>4 DEF Calm
<1>6. QED
  BY <1>3, <1>4, <1>5 DEF ForgetIs, QuietIs

LEMMA WindowStays ==
    ASSUME ChatTyped, WindowInv, ChatStep
    PROVE  WindowInv'
<1>1. CASE PageStep
  BY <1>1, CalmPage, WindowCalm, WindowAsk, WindowReset DEF PageStep
<1>2. CASE StreamStep \/ FinishStep \/ ForgetStep \/ RestartIs \/ QuietIs
  BY <1>2, CalmServer, WindowCalm DEF StreamStep, FinishStep, ForgetStep
<1>3. QED
  BY <1>1, <1>2 DEF ChatStep

(***************************************************************************)
(* The frames.                                                             *)
(***************************************************************************)
LEMMA FrameStarts == ASSUME ChatInit PROVE FrameInv
BY DEF ChatInit, FrameInv, Framed, DoneLast, NoRequest, Idle, NoBubble

LEMMA FramedSame ==
    ASSUME NEW q, Framed(q), request'[q] = request[q], frames'[q] = frames[q],
           shown'[q] = shown[q] \/ shown'[q].is # "done"
    PROVE  Framed(q)'
BY DEF Framed, DoneLast

(* Before a stream is over none of its frames is the last.                 *)
LEMMA NoneDone ==
    ASSUME NEW q, Framed(q), request[q].at # "over"
    PROVE  /\ shown[q].is # "done"
           /\ \A i \in DOMAIN frames[q] : frames[q][i].is # "done"
BY DEF Framed, DoneLast

LEMMA SentFramed ==
    ASSUME ChatTyped, NEW q \in Questions, Framed(q), request[q].at # "over",
           NEW frame \in Frame, Sent(q, frame), shown' = shown,
           request'[q].at \notin {"none", "sent"},
           request'[q].text = {} \/ Single(request'[q].text),
           request'[q].at = "answered" => request'[q].text # {},
           frame.is = "done" => request'[q].at = "over" /\ Single(frame.text)
    PROVE  Framed(q)'
<1>1. frames[q] \in Seq(Frame)
  BY DEF ChatTyped
<1>2. /\ shown[q].is # "done"
      /\ \A i \in DOMAIN frames[q] : frames[q][i].is # "done"
  BY NoneDone
<1>3. DoneLast(q)'
  <2>1. CASE frames'[q] = frames[q]
    BY <1>2, <2>1 DEF DoneLast
  <2>2. CASE frames'[q] = Append(frames[q], frame)
    <3>1. Len(frames'[q]) = Len(frames[q]) + 1 /\ Len(frames[q]) \in Nat
          /\ DOMAIN frames'[q] = 1..(Len(frames[q]) + 1) /\ DOMAIN frames[q] = 1..Len(frames[q])
          /\ frames'[q][Len(frames[q]) + 1] = frame
          /\ \A i \in 1..Len(frames[q]) : frames'[q][i] = frames[q][i]
      BY <1>1, <2>2
    <3>2. ASSUME NEW i \in DOMAIN frames'[q], frames'[q][i].is = "done"
          PROVE  i = Len(frames'[q]) /\ frames'[q][i] = frame
      BY <1>2, <3>1, <3>2
    <3>3. QED
      BY <3>2 DEF DoneLast
  <2>3. QED
    BY <2>1, <2>2 DEF Sent
<1>4. QED
  BY <1>2, <1>3 DEF Framed

LEMMA FrameServer ==
    ASSUME ChatTyped, ChatTyped', FrameInv, NEW q \in Questions,
           \/ GiveUpIs(q) \/ BeginIs(q) \/ TokenIs(q) \/ TriedIs(q)
           \/ \E old \in SUBSET DOMAIN sessions : FinishIs(q, old)
    PROVE  FrameInv'
<1>0. Framed(q) /\ Server(q) /\ shown' = shown /\ request[q].at # "over"
  BY DEF FrameInv, GiveUpIs, BeginIs, TokenIs, TriedIs, FinishIs, Server
<1>1. ASSUME NEW p \in Questions \ {q}
      PROVE  Framed(p)'
  <2>1. Framed(p) /\ request'[p] = request[p] /\ frames'[p] = frames[p] /\ shown'[p] = shown[p]
    BY <1>0 DEF Server, Others, FrameInv
  <2>2. QED
    BY <2>1, FramedSame
<1>2. CASE GiveUpIs(q)
  <2>1. ErrorFrame \in Frame /\ ErrorFrame.is = "error"
    BY TextsAre DEF ErrorFrame, Frame
  <2>2. Sent(q, ErrorFrame) /\ request'[q].at = "over" /\ request'[q].text = {}
    BY <1>2 DEF GiveUpIs, Idle
  <2>3. Framed(q)'
    BY <1>0, <2>1, <2>2, SentFramed
  <2>4. QED
    BY <1>1, <2>3 DEF FrameInv
<1>3. CASE BeginIs(q)
  <2>1. frames'[q] = << >> /\ request'[q].at = "run" /\ request'[q].text = {} /\ shown[q].is # "done"
    BY <1>0, <1>3 DEF BeginIs, Framed
  <2>2. Framed(q)'
    BY <1>0, <2>1 DEF Framed, DoneLast
  <2>3. QED
    BY <1>1, <2>2 DEF FrameInv
<1>4. CASE TokenIs(q)
  <2> DEFINE frame == [is |-> "token", text |-> request'[q].text]
  <2>1. frame \in Frame /\ frame.is = "token"
    BY DEF ChatTyped, Stream, Frame
  <2>2. Sent(q, frame) /\ request'[q].at = "run" /\ Single(request'[q].text)
    BY <1>4 DEF TokenIs
  <2> HIDE DEF frame
  <2>3. Framed(q)'
    BY <1>0, <2>1, <2>2, SentFramed
  <2>4. QED
    BY <1>1, <2>3 DEF FrameInv
<1>5. CASE TriedIs(q)
  <2>1. /\ frames'[q] = frames[q] /\ request'[q].at \in {"run", "failed", "answered"}
        /\ request'[q].text = {} \/ request'[q].text = request[q].text
        /\ request'[q].at = "answered" => request'[q].text # {}
    BY <1>5 DEF TriedIs
  <2>2. \A i \in DOMAIN frames[q] : frames[q][i].is # "done"
    BY <1>0, NoneDone
  <2>3. Framed(q)'
    BY <1>0, <2>1, <2>2 DEF Framed, DoneLast
  <2>4. QED
    BY <1>1, <2>3 DEF FrameInv
<1>6. ASSUME NEW old \in SUBSET DOMAIN sessions, FinishIs(q, old)
      PROVE  FrameInv'
  <2> DEFINE frame == [is |-> "done", text |-> request[q].text]
  <2>1. frame \in Frame /\ frame.is = "done" /\ frame.text = request[q].text
    BY DEF ChatTyped, Stream, Frame
  <2>2. Sent(q, frame) /\ Single(request[q].text)
    BY <1>0, <1>6 DEF FinishIs, Framed
  <2>3. request'[q].at = "over" /\ request'[q].text = {}
    BY <1>6 DEF FinishIs, Idle
  <2> HIDE DEF frame
  <2>4. Framed(q)'
    BY <1>0, <2>1, <2>2, <2>3, SentFramed
  <2>5. QED
    BY <1>1, <2>4 DEF FrameInv
<1>7. QED
  BY <1>2, <1>3, <1>4, <1>5, <1>6

LEMMA FramePage ==
    ASSUME ChatTyped, WindowInv, FrameInv, NEW t \in Tabs,
           AskIs(t) \/ PaintIs(t) \/ EndIs(t) \/ ResetIs(t)
    PROVE  FrameInv'
<1>1. CASE AskIs(t)
  <2>0. PICK q \in Questions : q = asked + 1
    BY <1>1 DEF AskIs
  <2>1. /\ q \in Questions /\ shown'[q].is = "open" /\ request'[q].at = "sent"
        /\ request'[q].text = request[q].text /\ frames' = frames
        /\ \A p \in Questions \ {q} : shown'[p] = shown[p] /\ request'[p] = request[p]
    BY <1>1, <2>0 DEF AskIs, Others
  <2>2. Unasked(q)
    BY <2>0, <2>1 DEF WindowInv, Questions, ChatTyped
  <2>3. Framed(q)'
    BY <2>1, <2>2 DEF Framed, DoneLast, Unasked, NoRequest, Idle
  <2>4. ASSUME NEW p \in Questions \ {q}
        PROVE  Framed(p)'
    BY <2>1, <2>4, FramedSame DEF FrameInv
  <2>5. QED
    BY <2>3, <2>4 DEF FrameInv
<1>2. CASE PaintIs(t)
  <2>0. PICK q \in Questions : q = tab[t].asking
    BY <1>2 DEF PaintIs
  <2>a. PICK f : f = Head(frames[q])
    OBVIOUS
  <2>1. /\ q \in Questions /\ frames[q] # << >>
        /\ shown'[q] = Painted(shown[q], f) /\ frames'[q] = Tail(frames[q])
        /\ \A p \in Questions \ {q} : shown'[p] = shown[p] /\ frames'[p] = frames[p]
        /\ request' = request
    BY <1>2, <2>0, <2>a DEF PaintIs
  <2>2. Framed(q) /\ frames[q] \in Seq(Frame) /\ shown[q] \in Bubble
    BY <2>1 DEF FrameInv, ChatTyped
  <2>3. /\ f \in Frame /\ f = frames[q][1] /\ Len(frames[q]) \in Nat /\ Len(frames[q]) > 0
        /\ Len(frames'[q]) = Len(frames[q]) - 1 /\ DOMAIN frames'[q] = 1..(Len(frames[q]) - 1)
        /\ DOMAIN frames[q] = 1..Len(frames[q])
        /\ \A i \in 1..(Len(frames[q]) - 1) : frames'[q][i] = frames[q][i + 1]
    BY <2>1, <2>2, <2>a
  <2>4. DoneLast(q)'
    <3>1. ASSUME NEW i \in DOMAIN frames'[q], frames'[q][i].is = "done"
          PROVE  /\ i = Len(frames'[q]) /\ request'[q].at = "over"
                 /\ Single(frames'[q][i].text)
      <4>1. i + 1 \in DOMAIN frames[q] /\ frames'[q][i] = frames[q][i + 1]
        BY <2>3, <3>1
      <4>2. i + 1 = Len(frames[q]) /\ request[q].at = "over" /\ Single(frames[q][i + 1].text)
        BY <2>2, <3>1, <4>1 DEF Framed, DoneLast
      <4>3. QED
        BY <2>1, <2>3, <4>1, <4>2
    <3>2. QED
      BY <3>1 DEF DoneLast
  <2>5. shown'[q].is = "done" =>
          request'[q].at = "over" /\ frames'[q] = << >> /\ Single(shown'[q].text)
    <3>1. ASSUME shown'[q].is = "done"
          PROVE  f.is = "done" /\ shown'[q].text = f.text
      BY <2>1, <2>2, <2>3, <3>1, PaintedIs DEF Framed
    <3>2. ASSUME f.is = "done"
          PROVE  request[q].at = "over" /\ Len(frames[q]) = 1 /\ Single(f.text)
      <4>1. 1 \in DOMAIN frames[q] /\ frames[q][1].is = "done" /\ frames[q][1].text = f.text
        BY <2>3, <3>2
      <4>2. \A i \in DOMAIN frames[q] : frames[q][i].is = "done" =>
              i = Len(frames[q]) /\ request[q].at = "over" /\ Single(frames[q][i].text)
        BY <2>2 DEF Framed, DoneLast
      <4>3. QED
        BY <4>1, <4>2
    <3>3. ASSUME Len(frames[q]) = 1
          PROVE  frames'[q] = << >>
      <4>1. frames'[q] \in Seq(Frame) /\ Len(frames'[q]) = 0
        BY <2>1, <2>2, <2>3, <3>3
      <4>2. \A w \in Seq(Frame) : Len(w) = 0 => w = << >>
        OBVIOUS
      <4>3. QED
        BY <4>1, <4>2
    <3>4. QED
      BY <2>1, <3>1, <3>2, <3>3
  <2>6. Framed(q)'
    BY <2>1, <2>2, <2>4, <2>5 DEF Framed
  <2>7. ASSUME NEW p \in Questions \ {q}
        PROVE  Framed(p)'
    BY <2>1, <2>7, FramedSame DEF FrameInv
  <2>8. QED
    BY <2>6, <2>7 DEF FrameInv
<1>3. CASE EndIs(t)
  <2>0. PICK q \in Questions : q = tab[t].asking
    BY <1>3 DEF EndIs
  <2>1. /\ q \in Questions
        /\ shown'[q] = shown[q] \/ shown'[q].is \in {"error", "stopped"}
        /\ frames'[q] = frames[q] \/ frames'[q] = << >>
        /\ \/ request'[q] = request[q]
           \/ request[q].at = "sent" /\ request'[q] = Idle("over", request[q].conv)
        /\ \A p \in Questions \ {q} : /\ shown'[p] = shown[p] /\ frames'[p] = frames[p]
                                       /\ request'[p] = request[p]
    BY <1>3, <2>0 DEF EndIs, Others
  <2>2. Framed(q)
    BY <2>1 DEF FrameInv
  <2>3. Framed(q)'
    <3>1. CASE request'[q] = request[q]
      BY <2>1, <2>2, <3>1 DEF Framed, DoneLast
    <3>2. CASE request[q].at = "sent" /\ request'[q] = Idle("over", request[q].conv)
      <4>1. frames'[q] = << >> /\ shown'[q].is # "done"
        BY <2>1, <2>2, <3>2 DEF Framed
      <4>2. request'[q].at = "over" /\ request'[q].text = {}
        BY <3>2 DEF Idle
      <4>3. QED
        BY <4>1, <4>2 DEF Framed, DoneLast
    <3>3. QED
      BY <2>1, <3>1, <3>2
  <2>4. ASSUME NEW p \in Questions \ {q}
        PROVE  Framed(p)'
    BY <2>1, <2>4, FramedSame DEF FrameInv
  <2>5. QED
    BY <2>3, <2>4 DEF FrameInv
<1>4. CASE ResetIs(t)
  <2>1. \A p \in Questions : shown'[p] = shown[p] \/ shown'[p].is = "cleared"
    BY <1>4 DEF ResetIs, Cleared
  <2>2. request' = request /\ frames' = frames
    BY <1>4 DEF ResetIs
  <2>3. QED
    BY <2>1, <2>2, FramedSame DEF FrameInv
<1>5. QED
  BY <1>1, <1>2, <1>3, <1>4

LEMMA FrameStays ==
    ASSUME ChatTyped, ChatTyped', WindowInv, FrameInv, ChatStep
    PROVE  FrameInv'
<1>1. CASE PageStep
  BY <1>1, FramePage DEF PageStep
<1>2. CASE StreamStep \/ FinishStep
  BY <1>2, FrameServer DEF StreamStep, FinishStep
<1>3. CASE ForgetStep \/ QuietIs
  <2>1. UNCHANGED <<tab, asked, shown, request, frames>>
    BY <1>3 DEF ForgetStep, ForgetIs, QuietIs
  <2>2. QED
    BY <2>1, FramedSame DEF FrameInv
<1>4. CASE RestartIs
  <2>1. ASSUME NEW q \in Questions
        PROVE  Framed(q)'
    <3>1. frames'[q] = << >> /\ (shown'[q] = shown[q] \/ shown'[q].is = "error") /\ Framed(q)
      BY <1>4 DEF RestartIs, FrameInv
    <3>2. CASE request[q].at = "none"
      <4>1. request'[q] = NoRequest
        BY <1>4, <3>2 DEF RestartIs
      <4>2. request'[q].at = "none" /\ request'[q].text = {}
        BY <4>1 DEF NoRequest, Idle
      <4>3. QED
        BY <3>1, <3>2, <4>2 DEF Framed, DoneLast
    <3>3. CASE request[q].at # "none"
      <4>1. request'[q] = Idle("over", request[q].conv)
        BY <1>4, <3>3 DEF RestartIs
      <4>2. request'[q].at = "over" /\ request'[q].text = {}
        BY <4>1 DEF Idle
      <4>3. QED
        BY <3>1, <4>2 DEF Framed, DoneLast
    <3>4. QED
      BY <3>2, <3>3
  <2>2. QED
    BY <2>1 DEF FrameInv
<1>5. QED
  BY <1>1, <1>2, <1>3, <1>4 DEF ChatStep

(* What is shown as finished after a step was so before, or is the text of *)
(* a frame that said so, and only Finish sends such a frame.               *)
Settles(q) ==
    /\ shown'[q].is = "done" =>
         \/ shown[q].is = "done" /\ shown'[q].text = shown[q].text
         \/ \E i \in DOMAIN frames[q] :
              frames[q][i].is = "done" /\ frames[q][i].text = shown'[q].text
    /\ \A i \in DOMAIN frames'[q] : frames'[q][i].is = "done" =>
         \E j \in DOMAIN frames[q] : frames[q][j] = frames'[q][i]
Finishing(q) == \E old \in SUBSET DOMAIN sessions : FinishIs(q, old)
Ahead(q) ==
    /\ request'[q].conv = request[q].conv
    /\ request[q].at = "over" => request'[q].at = "over"
    /\ Settles(q) \/ Finishing(q)
    /\ Never(q) => Never(q)'
Onward == asked <= asked' /\ \A q \in 1..asked : Ahead(q)

LEMMA SettlesSame ==
    ASSUME NEW q, frames'[q] = frames[q] \/ frames'[q] = << >>,
           shown'[q] = shown[q] \/ shown'[q].is # "done"
    PROVE  Settles(q)
BY DEF Settles

LEMMA SettlesSent ==
    ASSUME ChatTyped, NEW q \in Questions, NEW frame, Sent(q, frame), frame.is # "done",
           shown' = shown
    PROVE  Settles(q)
<1>1. frames[q] \in Seq(Frame)
  BY DEF ChatTyped
<1>2. CASE frames'[q] = Append(frames[q], frame)
  <2>1. \A i \in DOMAIN frames'[q] :
          frames'[q][i] = frame \/ (i \in DOMAIN frames[q] /\ frames'[q][i] = frames[q][i])
    BY <1>1, <1>2
  <2>2. QED
    BY <2>1 DEF Settles
<1>3. QED
  BY <1>2, SettlesSame DEF Sent

LEMMA NeverCalm ==
    ASSUME Calm, NEW q \in Questions, q # 0,
           shown'[q] = shown[q] \/ shown'[q].is # "done"
    PROVE  Never(q) => Never(q)'
BY DEF Calm, Never

LEMMA AheadSame ==
    ASSUME Calm, NEW q \in Questions, q # 0, request'[q] = request[q],
           frames'[q] = frames[q] \/ frames'[q] = << >>,
           shown'[q] = shown[q] \/ shown'[q].is # "done"
    PROVE  Ahead(q)
BY SettlesSame, NeverCalm DEF Ahead

LEMMA AheadPage ==
    ASSUME ChatTyped, WindowInv, FrameInv, NEW t \in Tabs, NEW q \in 1..asked,
           AskIs(t) \/ PaintIs(t) \/ EndIs(t) \/ ResetIs(t)
    PROVE  Ahead(q)
<1>0. q \in Questions /\ q # 0 /\ q # asked + 1 /\ asked \in Nat
  BY AskedIs
<1>1. CASE AskIs(t)
  <2>1. /\ request'[q] = request[q] /\ shown'[q] = shown[q] /\ frames' = frames
        /\ tab'[t].asking # q /\ \A u \in Tabs \ {t} : tab'[u] = tab[u]
    BY <1>0, <1>1 DEF AskIs, Others
  <2>2. Never(q) => Never(q)'
    BY <2>1 DEF Never
  <2>3. QED
    BY <2>1, <2>2, SettlesSame DEF Ahead
<1>2. CASE PaintIs(t)
  <2>1. Calm
    BY <1>2, CalmPage
  <2>2. CASE q # tab[t].asking
    <3>1. request'[q] = request[q] /\ frames'[q] = frames[q] /\ shown'[q] = shown[q]
      BY <1>0, <1>2, <2>2 DEF PaintIs
    <3>2. QED
      BY <1>0, <2>1, <3>1, AheadSame
  <2>3. CASE q = tab[t].asking
    <3>1. PICK f : f = Head(frames[q])
      OBVIOUS
    <3>2. /\ frames[q] # << >> /\ shown'[q] = Painted(shown[q], f)
          /\ frames'[q] = Tail(frames[q]) /\ request'[q] = request[q]
      BY <1>2, <2>3, <3>1 DEF PaintIs
    <3>3. Framed(q) /\ frames[q] \in Seq(Frame) /\ shown[q] \in Bubble
      BY <1>0 DEF FrameInv, ChatTyped
    <3>4. /\ f \in Frame /\ f = frames[q][1] /\ 1 \in DOMAIN frames[q]
          /\ \A i \in DOMAIN frames'[q] :
               i + 1 \in DOMAIN frames[q] /\ frames'[q][i] = frames[q][i + 1]
      BY <3>1, <3>2, <3>3
    <3>5. shown[q].is # "done"
      BY <3>2, <3>3 DEF Framed
    <3>6. shown'[q].is = "done" => f.is = "done" /\ f.text = shown'[q].text
      BY <3>2, <3>3, <3>4, <3>5, PaintedIs
    <3>7. Settles(q)
      BY <3>2, <3>4, <3>6 DEF Settles
    <3>8. ~ Never(q)
      BY <2>3 DEF Never
    <3>9. QED
      BY <3>2, <3>7, <3>8 DEF Ahead
  <2>4. QED
    BY <2>2, <2>3
<1>3. CASE EndIs(t)
  <2>1. Calm
    BY <1>3, CalmPage
  <2>2. CASE q # tab[t].asking
    <3>1. request'[q] = request[q] /\ frames'[q] = frames[q] /\ shown'[q] = shown[q]
      BY <1>0, <1>3, <2>2 DEF EndIs, Others
    <3>2. QED
      BY <1>0, <2>1, <3>1, AheadSame
  <2>3. CASE q = tab[t].asking
    <3>1. /\ shown'[q] = shown[q] \/ shown'[q].is # "done"
          /\ frames'[q] = frames[q] \/ frames'[q] = << >>
          /\ request'[q] = request[q] \/ request[q].at = "sent"
      BY <1>3, <2>3 DEF EndIs
    <3>2. Settles(q)
      BY <3>1, SettlesSame
    <3>3. request'[q].conv = request[q].conv
      BY <1>0, <2>1 DEF Calm
    <3>4. QED
      BY <1>0, <2>1, <3>1, <3>2, <3>3, NeverCalm DEF Ahead
  <2>4. QED
    BY <2>2, <2>3
<1>4. CASE ResetIs(t)
  <2>1. /\ request' = request /\ frames' = frames
        /\ shown'[q] = shown[q] \/ shown'[q].is = "cleared"
        /\ tab'[t].asking = 0 /\ \A u \in Tabs \ {t} : tab'[u] = tab[u]
    BY <1>0, <1>4 DEF ResetIs, Cleared
  <2>2. Never(q) => Never(q)'
    BY <1>0, <2>1 DEF Never
  <2>3. QED
    BY <2>1, <2>2, SettlesSame DEF Ahead
<1>5. QED
  BY <1>1, <1>2, <1>3, <1>4

LEMMA OnwardIs ==
    ASSUME ChatTyped, WindowInv, FrameInv, ChatStep
    PROVE  Onward
<1>0. asked \in Nat /\ 1..asked \subseteq Questions
  BY AskedIs
<1>1. CASE PageStep
  <2>1. PICK t \in Tabs : AskIs(t) \/ PaintIs(t) \/ EndIs(t) \/ ResetIs(t)
    BY <1>1 DEF PageStep
  <2>2. asked' = asked \/ asked' = asked + 1
    BY <2>1 DEF AskIs, PaintIs, EndIs, ResetIs
  <2>3. QED
    BY <1>0, <2>1, <2>2, AheadPage DEF Onward
<1>2. CASE StreamStep \/ FinishStep \/ ForgetStep \/ RestartIs \/ QuietIs
  <2>1. Calm
    BY <1>2, CalmServer DEF StreamStep, FinishStep, ForgetStep
  <2>2. CASE ForgetStep \/ QuietIs
    <3>1. UNCHANGED <<shown, request, frames>>
      BY <2>2 DEF ForgetStep, ForgetIs, QuietIs
    <3>2. QED
      BY <1>0, <2>1, <3>1, AheadSame DEF Onward, Calm
  <2>3. ASSUME NEW r \in Questions, Server(r), Settles(r) \/ Finishing(r)
        PROVE  Onward
    <3>1. ASSUME NEW q \in 1..asked
          PROVE  Ahead(q)
      <4>0. q \in Questions /\ q # 0 /\ shown' = shown
        BY <1>0, <2>3 DEF Server
      <4>1. CASE q # r
        BY <2>1, <2>3, <4>0, <4>1, AheadSame DEF Server, Others
      <4>2. CASE q = r
        BY <2>1, <2>3, <4>0, <4>2, NeverCalm DEF Server, Ahead
      <4>3. QED
        BY <4>1, <4>2
    <3>2. QED
      BY <1>0, <2>1, <3>1 DEF Onward, Calm
  <2>4. CASE StreamStep
    <3>1. PICK r \in Questions : GiveUpIs(r) \/ BeginIs(r) \/ TokenIs(r) \/ TriedIs(r)
      BY <2>4 DEF StreamStep
    <3>2. Server(r) /\ shown' = shown
      BY <3>1 DEF GiveUpIs, BeginIs, TokenIs, TriedIs, Server
    <3>3. \/ \E x \in {"error", "token"} : \E text : Sent(r, [is |-> x, text |-> text])
          \/ frames'[r] = frames[r]
      BY <3>1 DEF GiveUpIs, BeginIs, TokenIs, TriedIs, ErrorFrame
    <3>4. ASSUME NEW x \in {"error", "token"}, NEW text
          PROVE  [is |-> x, text |-> text].is # "done"
      OBVIOUS
    <3>5. Settles(r)
      BY <3>2, <3>3, <3>4, SettlesSent, SettlesSame
    <3>6. QED
      BY <2>3, <3>2, <3>5
  <2>6. CASE FinishStep
    <3>1. PICK r \in Questions : Finishing(r)
      BY <2>6 DEF FinishStep, Finishing
    <3>2. Server(r)
      BY <3>1 DEF Finishing, FinishIs
    <3>3. QED
      BY <2>3, <3>1, <3>2
  <2>5. CASE RestartIs
    <3>1. ASSUME NEW q \in 1..asked
          PROVE  Ahead(q)
      <4>0. q \in Questions /\ q # 0 /\ request[q].at # "none"
        BY <1>0 DEF WindowInv
      <4>1. /\ frames'[q] = << >> /\ (shown'[q] = shown[q] \/ shown'[q].is # "done")
            /\ request'[q] = Idle("over", request[q].conv)
        BY <2>5, <4>0 DEF RestartIs
      <4>2. request'[q].at = "over" /\ request'[q].conv = request[q].conv
        BY <4>1 DEF Idle
      <4>3. Settles(q)
        BY <4>1, <4>2 DEF Settles
      <4>4. QED
        BY <2>1, <4>0, <4>1, <4>2, <4>3, NeverCalm DEF Ahead
    <3>2. QED
      BY <1>0, <2>1, <3>1 DEF Onward, Calm
  <2>7. QED
    BY <1>2, <2>2, <2>4, <2>5, <2>6
<1>3. QED
  BY <1>1, <1>2 DEF ChatStep

(***************************************************************************)
(* The conversations: what a line says stays true, and a conversation that *)
(* gets a turn is a good one again.                                        *)
(***************************************************************************)
LEMMA ToldStays ==
    ASSUME ChatTyped, ChatTyped', FrameInv, Onward, NEW c, NEW e \in Entry, Told(c, e)
    PROVE  Told(c, e)'
<1> DEFINE q == e.question
<1>0. asked \in Nat /\ asked' \in Nat /\ q \in Questions
  BY ChatAssumption DEF ChatTyped, Entry
<1>1. q \in 1..asked /\ request[q].conv = c /\ request[q].at = "over"
  BY <1>0 DEF Told, Questions
<1>2. Ahead(q) /\ asked <= asked'
  BY <1>1 DEF Onward
<1>3. ~ Finishing(q)
  BY <1>1 DEF Finishing, FinishIs
<1>4. Settles(q) /\ request'[q].conv = c /\ request'[q].at = "over"
  BY <1>1, <1>2, <1>3 DEF Ahead
<1>5. ASSUME e.role = "model"
      PROVE  /\ shown'[q].is = "done" => e.text = shown'[q].text
             /\ \A i \in DOMAIN frames'[q] : frames'[q][i].is = "done" => e.text = frames'[q][i].text
  <2>1. /\ shown[q].is = "done" => e.text = shown[q].text
        /\ \A i \in DOMAIN frames[q] : frames[q][i].is = "done" => e.text = frames[q][i].text
    BY <1>5 DEF Told
  <2>2. QED
    BY <1>4, <2>1 DEF Settles
<1>6. q <= asked'
  BY <1>0, <1>1, <1>2
<1>7. QED
  BY <1>4, <1>5, <1>6 DEF Told

LEMMA AfterStays ==
    ASSUME Onward, NEW p \in Questions, NEW n \in 1..asked, After(p, n)
    PROVE  After(p, n)'
BY DEF Onward, Ahead, After

LEMMA GoodStays ==
    ASSUME ChatTyped, ChatTyped', FrameInv, Onward, NEW c, NEW h \in Seq(Entry), Good(c, h)
    PROVE  Good(c, h)'
<1>1. \A i \in DOMAIN h : h[i] \in Entry /\ h[i].question \in Questions
                          /\ Told(c, h[i]) /\ h[i].question \in 1..asked
  <2>1. ASSUME NEW i \in DOMAIN h
        PROVE  h[i] \in Entry /\ Told(c, h[i])
    BY DEF Good
  <2>2. ASSUME NEW e \in Entry, Told(c, e)
        PROVE  e.question \in Questions /\ e.question \in 1..asked
    BY <2>2, ChatAssumption DEF ChatTyped, Entry, Told, Questions
  <2>3. QED
    BY <2>1, <2>2
<1>2. \A i \in DOMAIN h : Told(c, h[i])'
  BY <1>1, ToldStays
<1>3. Ordered(h)'
  <2>1. ASSUME NEW k \in 1..MaxTurns, NEW l \in 1..MaxTurns, k < l, 2 * l <= Len(h)
        PROVE  /\ h[2 * k].question # h[2 * l].question
               /\ After(h[2 * k].question, h[2 * l].question)'
    <3>1. 2 * k \in DOMAIN h /\ 2 * l \in DOMAIN h
      BY <2>1, ChatAssumption
    <3>2. /\ h[2 * k].question # h[2 * l].question
          /\ After(h[2 * k].question, h[2 * l].question)
      BY <2>1 DEF Good, Ordered
    <3>3. QED
      BY <1>1, <3>1, <3>2, AfterStays
  <2>2. QED
    BY <2>1 DEF Ordered
<1>4. QED
  BY <1>2, <1>3 DEF Good, Whole

(* A conversation that is kept after an answer: its turns, but for the     *)
(* oldest when there is no room, and the new one.                          *)
Renewed(b, h, q, text, n, cut) ==
    /\ b \in Seq(Entry) /\ h \in Seq(Entry)
    /\ n \in 0..MaxTurns /\ cut \in {0, 1} /\ (cut = 1 <=> n = MaxTurns)
    /\ Len(b) = 2 * n /\ Len(h) = 2 * (n - cut) + 2
    /\ \A i \in 1..(2 * (n - cut)) : h[i] = b[i + 2 * cut]
    /\ h[2 * (n - cut) + 1] = [role |-> "user", question |-> q, text |-> {}]
    /\ h[2 * (n - cut) + 2] = [role |-> "model", question |-> q, text |-> text]

LEMMA JoinIs ==
    ASSUME NEW S, NEW x \in Seq(S), NEW y \in Seq(S)
    PROVE  /\ x \o y \in Seq(S) /\ Len(x \o y) = Len(x) + Len(y)
           /\ \A i \in 1..Len(x) : (x \o y)[i] = x[i]
           /\ \A i \in 1..Len(y) : (x \o y)[Len(x) + i] = y[i]
OBVIOUS

LEMMA LastTurn ==
    ASSUME NEW m \in Nat, NEW i \in 1..(2 * m + 2), i \notin 1..(2 * m)
    PROVE  i = 2 * m + 1 \/ i = 2 * m + 2
OBVIOUS

LEMMA TurnAt ==
    ASSUME NEW m \in Nat, NEW cut \in Nat, NEW k \in 1..m
    PROVE  /\ 2 * k - 1 \in 1..(2 * m) /\ 2 * k \in 1..(2 * m) /\ k + cut \in 1..(m + cut)
           /\ (2 * k - 1) + 2 * cut = 2 * (k + cut) - 1 /\ 2 * k + 2 * cut = 2 * (k + cut)
OBVIOUS

LEMMA RenewedIs ==
    ASSUME NEW b \in Seq(Entry), Whole(b), NEW q \in Questions, NEW text \in Texts
    PROVE  \E n \in 0..MaxTurns, cut \in {0, 1} :
             Renewed(b, Trimmed(b \o Said(q, text)), q, text, n, cut)
<1>1. PICK n \in 0..MaxTurns : Len(b) = 2 * n
  BY DEF Whole
<1>2. n \in Nat /\ MaxTurns \in Nat /\ MaxTurns > 0
  BY ChatAssumption
<1>3. PICK u : u = [role |-> "user", question |-> q, text |-> {}]
  OBVIOUS
<1>4. PICK m : m = [role |-> "model", question |-> q, text |-> text]
  OBVIOUS
<1>a. PICK s : s = Said(q, text)
  OBVIOUS
<1>5. s \in Seq(Entry) /\ Len(s) = 2 /\ s[1] = u /\ s[2] = m
  BY <1>3, <1>4, <1>a, SaidIs
<1>b. PICK w : w = b \o s
  OBVIOUS
<1>6. /\ w \in Seq(Entry) /\ Len(w) = 2 * n + 2
      /\ \A i \in 1..(2 * n) : w[i] = b[i]
      /\ w[2 * n + 1] = u /\ w[2 * n + 2] = m
  <2>1. /\ w \in Seq(Entry) /\ Len(w) = Len(b) + Len(s)
        /\ \A i \in 1..Len(b) : w[i] = b[i]
        /\ \A i \in 1..Len(s) : w[Len(b) + i] = s[i]
    <3>1. s \in Seq(Entry)
      BY <1>5
    <3>2. QED
      BY <1>b, <3>1, JoinIs
  <2>4. 1 \in 1..Len(s) /\ 2 \in 1..Len(s)
    BY <1>5
  <2>5. w[2 * n + 1] = s[1] /\ w[2 * n + 2] = s[2]
    BY <1>1, <2>1, <2>4
  <2>6. QED
    BY <1>1, <1>2, <1>5, <2>1, <2>5
<1>7. Trimmed(w) \in Seq(Entry)
  BY <1>6, TrimmedIs
<1>8. CASE n = MaxTurns
  <2>1. Trimmed(w) = SubSeq(w, 3, 2 * n + 2)
    BY <1>2, <1>6, <1>8 DEF Trimmed
  <2>2. Len(SubSeq(w, 3, 2 * n + 2)) = 2 * n
        /\ \A i \in 1..(2 * n) : SubSeq(w, 3, 2 * n + 2)[i] = w[i + 2]
    BY <1>2, <1>6
  <2>3. Renewed(b, Trimmed(w), q, text, n, 1)
    <3>1. Len(Trimmed(w)) = 2 * (n - 1) + 2
      BY <1>2, <2>1, <2>2
    <3>2. ASSUME NEW i \in 1..(2 * (n - 1))
          PROVE  Trimmed(w)[i] = b[i + 2 * 1]
      <4>1. i \in 1..(2 * n) /\ i + 2 \in 1..(2 * n) /\ i + 2 * 1 = i + 2
        BY <1>2, <3>2
      <4>2. Trimmed(w)[i] = w[i + 2] /\ w[i + 2] = b[i + 2]
        BY <1>6, <2>1, <2>2, <4>1
      <4>3. QED
        BY <4>1, <4>2
    <3>3. Trimmed(w)[2 * (n - 1) + 1] = u /\ Trimmed(w)[2 * (n - 1) + 2] = m
      <4>1. PICK i : i = 2 * (n - 1) + 1
        OBVIOUS
      <4>2. PICK j : j = 2 * (n - 1) + 2
        OBVIOUS
      <4>3. i \in 1..(2 * n) /\ j \in 1..(2 * n) /\ i + 2 = 2 * n + 1 /\ j + 2 = 2 * n + 2
        BY <1>2, <1>8, <4>1, <4>2
      <4>4. Trimmed(w)[i] = w[i + 2] /\ Trimmed(w)[j] = w[j + 2]
        BY <2>1, <2>2, <4>3
      <4>5. QED
        BY <1>6, <4>1, <4>2, <4>3, <4>4
    <3>4. QED
      BY <1>1, <1>2, <1>3, <1>4, <1>7, <1>8, <3>1, <3>2, <3>3 DEF Renewed
  <2>4. QED
    BY <1>a, <1>b, <2>3
<1>9. CASE n # MaxTurns
  <2>1. Trimmed(w) = w
    BY <1>2, <1>6, <1>9 DEF Trimmed
  <2>2. Renewed(b, Trimmed(w), q, text, n, 0)
    <3>1. Len(w) = 2 * (n - 0) + 2 /\ \A i \in 1..(2 * (n - 0)) : w[i] = b[i + 2 * 0]
      BY <1>1, <1>2, <1>6
    <3>2. w[2 * (n - 0) + 1] = u /\ w[2 * (n - 0) + 2] = m
      <4>1. n - 0 = n
        BY <1>2
      <4>2. QED
        BY <1>6, <4>1
    <3>3. QED
      BY <1>1, <1>2, <1>3, <1>4, <1>6, <1>9, <2>1, <3>1, <3>2 DEF Renewed
  <2>3. QED
    BY <1>a, <1>b, <2>2
<1>10. QED
  BY <1>8, <1>9

LEMMA RenewedGood ==
    ASSUME NEW c, NEW b \in Seq(Entry), NEW h \in Seq(Entry), NEW q \in Questions,
           NEW text, NEW n \in 0..MaxTurns, NEW cut \in {0, 1}, Renewed(b, h, q, text, n, cut),
           Good(c, b)',
           Told(c, [role |-> "user", question |-> q, text |-> {}])',
           Told(c, [role |-> "model", question |-> q, text |-> text])',
           \A i \in DOMAIN b : b[i].question # q /\ After(b[i].question, q)'
    PROVE  Good(c, h)'
<1>0. PICK m : m = n - cut
  OBVIOUS
<1>1. /\ MaxTurns \in Nat /\ n \in Nat /\ cut \in Nat /\ m \in 0..MaxTurns
      /\ m + 1 \in 0..MaxTurns /\ n = m + cut
  <2>1. MaxTurns \in Nat /\ MaxTurns > 0 /\ (cut = 1 <=> n = MaxTurns)
    BY ChatAssumption DEF Renewed
  <2>2. QED
    BY <1>0, <2>1
<1>2. PICK u : u = [role |-> "user", question |-> q, text |-> {}]
  OBVIOUS
<1>3. PICK a : a = [role |-> "model", question |-> q, text |-> text]
  OBVIOUS
<1>4. /\ Len(b) = 2 * n /\ Len(h) = 2 * m + 2
      /\ \A i \in 1..(2 * m) : h[i] = b[i + 2 * cut]
      /\ h[2 * m + 1] = u /\ h[2 * m + 2] = a
  BY <1>0, <1>2, <1>3 DEF Renewed
<1>5. /\ DOMAIN b = 1..(2 * n) /\ DOMAIN h = 1..(2 * m + 2)
      /\ \A i \in 1..(2 * m) : i + 2 * cut \in DOMAIN b
  BY <1>1, <1>4
<1>6. \A k \in 1..n : /\ b[2 * k - 1].role = "user" /\ b[2 * k].role = "model"
                      /\ b[2 * k - 1].question = b[2 * k].question
  <2>1. PICK x \in 0..MaxTurns :
          /\ Len(b) = 2 * x
          /\ \A k \in 1..x : /\ b[2 * k - 1].role = "user" /\ b[2 * k].role = "model"
                             /\ b[2 * k - 1].question = b[2 * k].question
    BY DEF Good, Whole
  <2>2. x = n
    BY <1>1, <1>4, <2>1
  <2>3. QED
    BY <2>1, <2>2
<1>7. Whole(h)
  <2>1. ASSUME NEW k \in 1..(m + 1)
        PROVE  /\ h[2 * k - 1].role = "user" /\ h[2 * k].role = "model"
               /\ h[2 * k - 1].question = h[2 * k].question
    <3>1. CASE k = m + 1
      <4>1. 2 * k - 1 = 2 * m + 1 /\ 2 * k = 2 * m + 2
        BY <1>1, <3>1
      <4>2. QED
        BY <1>2, <1>3, <1>4, <4>1
    <3>2. CASE k # m + 1
      <4>1. /\ 2 * k - 1 \in 1..(2 * m) /\ 2 * k \in 1..(2 * m) /\ k + cut \in 1..n
            /\ (2 * k - 1) + 2 * cut = 2 * (k + cut) - 1 /\ 2 * k + 2 * cut = 2 * (k + cut)
        <5>1. k \in 1..m /\ n = m + cut /\ m \in Nat /\ cut \in Nat
          BY <1>1, <2>1, <3>2
        <5>2. QED
          BY <5>1, TurnAt
      <4>2. h[2 * k - 1] = b[2 * (k + cut) - 1] /\ h[2 * k] = b[2 * (k + cut)]
        BY <1>4, <4>1
      <4>3. QED
        BY <1>6, <4>1, <4>2
    <3>3. QED
      BY <3>1, <3>2
  <2>2. Len(h) = 2 * (m + 1)
    BY <1>1, <1>4
  <2>3. QED
    BY <1>1, <2>1, <2>2 DEF Whole
<1>8. Ordered(h)'
  <2>1. ASSUME NEW k \in 1..MaxTurns, NEW l \in 1..MaxTurns, k < l, 2 * l <= Len(h)
        PROVE  /\ h[2 * k].question # h[2 * l].question
               /\ After(h[2 * k].question, h[2 * l].question)'
    <3>1. /\ 2 * k \in 1..(2 * m) /\ 2 * k + 2 * cut \in DOMAIN b
          /\ h[2 * k] = b[2 * k + 2 * cut] /\ 2 * k + 2 * cut = 2 * (k + cut)
      <4>1. 2 * k \in 1..(2 * m) /\ 2 * k + 2 * cut = 2 * (k + cut)
        BY <1>1, <1>4, <2>1
      <4>2. QED
        BY <1>4, <1>5, <4>1
    <3>2. CASE l = m + 1
      <4>1. h[2 * l] = a
        BY <1>1, <1>4, <3>2
      <4>2. b[2 * k + 2 * cut].question # q /\ After(b[2 * k + 2 * cut].question, q)'
        BY <3>1
      <4>3. h[2 * l].question = q
        BY <1>3, <4>1
      <4>4. QED
        BY <3>1, <4>2, <4>3
    <3>3. CASE l # m + 1
      <4>1. /\ 2 * l \in 1..(2 * m) /\ 2 * l + 2 * cut = 2 * (l + cut)
            /\ k + cut \in 1..MaxTurns /\ l + cut \in 1..MaxTurns
            /\ k + cut < l + cut /\ 2 * (l + cut) <= Len(b)
        BY <1>1, <1>4, <2>1, <3>3
      <4>2. h[2 * l] = b[2 * (l + cut)] /\ h[2 * k] = b[2 * (k + cut)]
        BY <1>4, <3>1, <4>1
      <4>3. /\ b[2 * (k + cut)].question # b[2 * (l + cut)].question
            /\ After(b[2 * (k + cut)].question, b[2 * (l + cut)].question)'
        BY <4>1 DEF Good, Ordered
      <4>4. QED
        BY <4>2, <4>3
    <3>4. QED
      BY <3>2, <3>3
  <2>2. QED
    BY <2>1 DEF Ordered
<1>9. ASSUME NEW i \in DOMAIN h
      PROVE  Told(c, h[i])'
  <2>1. CASE i \in 1..(2 * m)
    <3>1. h[i] = b[i + 2 * cut] /\ i + 2 * cut \in DOMAIN b
      BY <1>4, <1>5, <2>1
    <3>2. Told(c, b[i + 2 * cut])'
      BY <3>1 DEF Good
    <3>3. QED
      BY <3>1, <3>2
  <2>2. CASE i \notin 1..(2 * m)
    <3>1. i = 2 * m + 1 \/ i = 2 * m + 2
      <4>1. i \in 1..(2 * m + 2) /\ m \in Nat
        BY <1>1, <1>5, <1>9
      <4>2. QED
        BY <2>2, <4>1, LastTurn
    <3>2. Told(c, u)' /\ Told(c, a)'
      BY <1>2, <1>3
    <3>3. QED
      BY <1>4, <3>1, <3>2
  <2>3. QED
    BY <2>1, <2>2
<1>10. QED
  BY <1>7, <1>8, <1>9 DEF Good, Whole

(* An answer that is kept: b is what the conversation c was, and h what it *)
(* is now; whoever asked q after p in it waits for q no more.              *)
Renews(q, old, c, text, b, h, n, cut) ==
    /\ c = request[q].conv /\ text = request[q].text /\ text \in Texts
    /\ c \in DOMAIN sessions' /\ b = Before(c, old) /\ h = sessions'[c].history
    /\ Renewed(b, h, q, text, n, cut) /\ Good(c, b)
    /\ \A i \in DOMAIN b : b[i].question \in 1..asked /\ b[i].question # q
    /\ q \in 1..asked /\ \A p \in 1..asked \ {q} : request[p].conv = c => After(p, q)

LEMMA GoodEmpty == ASSUME NEW c PROVE Good(c, << >>)
BY ChatAssumption DEF Good, Whole, Ordered

LEMMA GoodIs ==
    ASSUME ChatTyped, NEW c, NEW h \in Seq(Entry), Good(c, h)
    PROVE  /\ Whole(h) /\ Ordered(h)
           /\ \A i \in DOMAIN h : /\ h[i] \in Entry /\ h[i].question \in 1..asked
                                  /\ request[h[i].question].conv = c
                                  /\ request[h[i].question].at = "over"
<1>1. asked \in Nat
  BY ChatAssumption DEF ChatTyped
<1>2. ASSUME NEW i \in DOMAIN h
      PROVE  /\ h[i] \in Entry /\ h[i].question \in 1..asked
             /\ request[h[i].question].conv = c /\ request[h[i].question].at = "over"
  <2>1. h[i] \in Entry /\ Told(c, h[i])
    BY <1>2 DEF Good
  <2>2. h[i].question \in Questions
    BY <2>1 DEF Entry
  <2>3. QED
    BY <1>1, <2>1, <2>2 DEF Told, Questions
<1>3. QED
  BY <1>2 DEF Good

LEMMA FinishRenews ==
    ASSUME ChatTyped, WindowInv, FrameInv, MemoryInv, NEW q \in Questions,
           NEW old \in SUBSET DOMAIN sessions, FinishIs(q, old)
    PROVE  \E c, text, b : \E h \in Seq(Entry) : \E n \in 0..MaxTurns, cut \in {0, 1} :
             Renews(q, old, c, text, b, h, n, cut)
<1>1. PICK c : c = request[q].conv
  OBVIOUS
<1>2. PICK text : text = request[q].text
  OBVIOUS
<1>3. PICK b : b = Before(c, old)
  OBVIOUS
<1>4. PICK h : h = sessions'[c].history
  OBVIOUS
<1>5. Server(q) /\ request[q].at = "answered" /\ Appended(c, q, text, old)
  BY <1>1, <1>2 DEF FinishIs
<1>6. text \in Texts /\ c \in DOMAIN sessions' /\ h = Trimmed(b \o Said(q, text))
  BY <1>2, <1>3, <1>4, <1>5 DEF Appended, ChatTyped, Stream
<1>7. b \in Seq(Entry) /\ Good(c, b)
  <2>1. CASE c \in DOMAIN sessions \ old
    BY <1>3, <2>1 DEF Before, MemoryInv, ChatTyped, Memory
  <2>2. CASE c \notin DOMAIN sessions \ old
    BY <1>3, <2>2, GoodEmpty DEF Before
  <2>3. QED
    BY <2>1, <2>2
<1>8. \A i \in DOMAIN b : /\ b[i].question \in 1..asked
                          /\ request[b[i].question].at = "over"
  BY <1>7, GoodIs
<1>9. q \in 1..asked
  BY <1>5, AskedIs
<1>10. ASSUME NEW p \in 1..asked \ {q}, request[p].conv = c
       PROVE  After(p, q)
  <2>1. CASE p > q
    <3>1. ASSUME NEW t \in Tabs, tab[t].asking = q
          PROVE  FALSE
      <4>1. q # 0
        BY <1>9
      <4>2. Waits(t)
        BY <3>1, <4>1 DEF WindowInv
      <4>3. p <= q
        BY <1>1, <1>10, <3>1, <4>2 DEF Waits
      <4>4. QED
        BY <1>9, <2>1, <4>3
    <3>2. shown[q].is # "done"
      BY <1>5, NoneDone DEF FrameInv
    <3>3. QED
      BY <3>1, <3>2 DEF After, Never
  <2>2. CASE p < q
    BY <2>2 DEF After
  <2>3. QED
    BY <1>9, <1>10, <2>1, <2>2
<1>11. PICK n \in 0..MaxTurns, cut \in {0, 1} :
         Renewed(b, Trimmed(b \o Said(q, text)), q, text, n, cut)
  BY <1>6, <1>7, RenewedIs DEF Good
<1>12. h \in Seq(Entry) /\ Renewed(b, h, q, text, n, cut)
  BY <1>6, <1>11 DEF Renewed
<1>13. \A i \in DOMAIN b : b[i].question \in 1..asked /\ b[i].question # q
  BY <1>5, <1>8
<1>14. Renews(q, old, c, text, b, h, n, cut)
  BY <1>1, <1>2, <1>3, <1>4, <1>6, <1>7, <1>9, <1>10, <1>12, <1>13 DEF Renews
<1>15. QED
  BY <1>12, <1>14

LEMMA RenewsGood ==
    ASSUME ChatTyped, ChatTyped', WindowInv, FrameInv, Onward, NEW q \in Questions,
           NEW old \in SUBSET DOMAIN sessions, FinishIs(q, old),
           NEW c, NEW text, NEW b, NEW h \in Seq(Entry),
           NEW n \in 0..MaxTurns, NEW cut \in {0, 1}, Renews(q, old, c, text, b, h, n, cut)
    PROVE  Good(c, h)'
<1>1. /\ c = request[q].conv /\ text = request[q].text /\ b \in Seq(Entry)
      /\ Renewed(b, h, q, text, n, cut) /\ Good(c, b) /\ q \in 1..asked
      /\ \A i \in DOMAIN b : b[i].question \in 1..asked /\ b[i].question # q
      /\ \A p \in 1..asked \ {q} : request[p].conv = c => After(p, q)
  BY DEF Renews, Renewed
<1>2. Good(c, b)'
  BY <1>1, GoodStays
<1>3. \A i \in DOMAIN b : b[i].question # q /\ After(b[i].question, q)'
  <2>1. ASSUME NEW i \in DOMAIN b
        PROVE  b[i].question # q /\ After(b[i].question, q)'
    <3>1. PICK p : p = b[i].question
      OBVIOUS
    <3>2. p \in 1..asked \ {q} /\ p \in Questions
      BY <1>1, <2>1, <3>1, AskedIs
    <3>3. request[p].conv = c
      BY <1>1, <2>1, <3>1, GoodIs
    <3>4. After(p, q)
      BY <1>1, <3>2, <3>3
    <3>5. After(p, q)'
      BY <1>1, <3>2, <3>4, AfterStays
    <3>6. QED
      BY <3>1, <3>2, <3>5
  <2>2. QED
    BY <2>1
<1>4. /\ request'[q].conv = c /\ request'[q].at = "over" /\ q <= asked'
      /\ shown'[q].is # "done"
  <2>1. request'[q] = Idle("over", c) /\ shown' = shown /\ asked' = asked /\ request[q].at = "answered"
    BY <1>1 DEF FinishIs, Server
  <2>2. shown[q].is # "done"
    BY <2>1, NoneDone DEF FrameInv
  <2>3. QED
    BY <1>1, <2>1, <2>2 DEF Idle
<1>5. \A i \in DOMAIN frames'[q] : frames'[q][i].is = "done" => text = frames'[q][i].text
  <2>1. PICK frame : frame = [is |-> "done", text |-> text]
    OBVIOUS
  <2>2. frames'[q] = frames[q] \/ frames'[q] = Append(frames[q], frame)
    BY <1>1, <2>1 DEF FinishIs, Sent
  <2>3. \A i \in DOMAIN frames[q] : frames[q][i].is # "done"
    BY NoneDone DEF FrameInv, FinishIs
  <2>4. frames[q] \in Seq(Frame)
    BY DEF ChatTyped
  <2>5. \A i \in DOMAIN frames'[q] :
          frames'[q][i] = frame \/ (i \in DOMAIN frames[q] /\ frames'[q][i] = frames[q][i])
    <3>1. CASE frames'[q] = Append(frames[q], frame)
      BY <2>4, <3>1
    <3>2. QED
      BY <2>2, <3>1
  <2>6. QED
    BY <2>1, <2>3, <2>5
<1>6. Told(c, [role |-> "user", question |-> q, text |-> {}])'
  BY <1>4 DEF Told
<1>7. Told(c, [role |-> "model", question |-> q, text |-> text])'
  BY <1>4, <1>5 DEF Told
<1>8. QED
  BY <1>1, <1>2, <1>3, <1>6, <1>7, RenewedGood

Memories ==
    \A c : \A h : c \in DOMAIN sessions /\ h = sessions[c].history => Good(c, h)

LEMMA MemoryIs == MemoryInv <=> Memories
BY DEF MemoryInv, Memories

LEMMA MemoryStays ==
    ASSUME ChatTyped, ChatTyped', WindowInv, FrameInv, MemoryInv, ChatStep
    PROVE  MemoryInv'
<1>1. Onward
  BY OnwardIs
<1>2. ASSUME NEW c, NEW h, c \in DOMAIN sessions, h = sessions[c].history
      PROVE  Good(c, h)'
  BY <1>1, <1>2, GoodStays DEF MemoryInv, ChatTyped, Memory
<1>3. ASSUME DOMAIN sessions' \subseteq DOMAIN sessions,
             \A c \in DOMAIN sessions' : sessions'[c].history = sessions[c].history
      PROVE  MemoryInv'
  <2>1. Memories'
    BY <1>2, <1>3 DEF Memories
  <2>2. QED
    BY <2>1, MemoryIs, PTL
<1>4. CASE PageStep
  BY <1>3, <1>4 DEF PageStep, AskIs, PaintIs, EndIs, ResetIs
<1>5. CASE StreamStep \/ QuietIs
  BY <1>3, <1>5 DEF StreamStep, QuietIs, GiveUpIs, BeginIs, TokenIs, TriedIs, SameMemory
<1>6. CASE ForgetStep \/ RestartIs
  BY <1>3, <1>6 DEF ForgetStep, ForgetIs, RestartIs
<1>7. CASE FinishStep
  <2>1. PICK q \in Questions, old \in SUBSET DOMAIN sessions : FinishIs(q, old)
    BY <1>7 DEF FinishStep
  <2>a. PICK c, text, b :
          \E h \in Seq(Entry) : \E n \in 0..MaxTurns, cut \in {0, 1} :
            Renews(q, old, c, text, b, h, n, cut)
    BY <2>1, FinishRenews
  <2>2. PICK h \in Seq(Entry), n \in 0..MaxTurns, cut \in {0, 1} :
          Renews(q, old, c, text, b, h, n, cut)
    BY <2>a
  <2>3. Good(c, h)'
    BY <1>1, <2>1, <2>2, RenewsGood
  <2>4. c = request[q].conv /\ h = sessions'[c].history
    BY <2>2 DEF Renews
  <2>5. /\ DOMAIN sessions' \subseteq DOMAIN sessions \cup {c}
        /\ \A d \in DOMAIN sessions' \ {c} : sessions'[d] = sessions[d]
    BY <2>1, <2>4 DEF FinishIs, Appended
  <2>6. Memories'
    BY <1>2, <2>3, <2>4, <2>5 DEF Memories
  <2>7. QED
    BY <2>6, MemoryIs, PTL
<1>8. QED
  BY <1>4, <1>5, <1>6, <1>7 DEF ChatStep

(* What a model is told is what was remembered when its turn came.         *)
Copied(q) ==
    \/ request'[q].history = << >>
    \/ /\ request'[q].conv = request[q].conv
       /\ \/ request'[q].history = request[q].history
          \/ /\ request[q].conv \in DOMAIN sessions
             /\ request'[q].history = sessions[request[q].conv].history

LEMMA CopiedIs ==
    ASSUME ChatTyped, WindowInv, ChatStep, NEW q \in Questions
    PROVE  Copied(q)
<1>1. \A conv : Idle("over", conv).history = << >> /\ NoRequest.history = << >>
  BY DEF NoRequest, Idle
<1>2. ASSUME NEW t \in Tabs, AskIs(t)
      PROVE  Copied(q)
  <2>1. CASE q = asked + 1
    <3>1. Unasked(q)
      BY <2>1 DEF WindowInv, Questions, ChatTyped
    <3>2. request'[q].history = request[q].history
      BY <1>2, <2>1 DEF AskIs
    <3>3. QED
      BY <1>1, <3>1, <3>2 DEF Copied, Unasked
  <2>2. CASE q # asked + 1
    BY <1>2, <2>2 DEF AskIs, Others, Copied
  <2>3. QED
    BY <2>1, <2>2
<1>3. ASSUME NEW t \in Tabs, PaintIs(t) \/ EndIs(t) \/ ResetIs(t)
      PROVE  Copied(q)
  BY <1>1, <1>3 DEF PaintIs, EndIs, ResetIs, Others, Copied
<1>4. ASSUME NEW r \in Questions, GiveUpIs(r) \/ BeginIs(r) \/ TokenIs(r) \/ TriedIs(r) \/ Finishing(r)
      PROVE  Copied(q)
  <2>1. /\ request'[r].conv = request[r].conv
        /\ \A p \in Questions \ {r} : request'[p] = request[p]
    BY <1>4 DEF GiveUpIs, BeginIs, TokenIs, TriedIs, Finishing, FinishIs, Server, Others
  <2>2. CASE q = r
    BY <1>1, <1>4, <2>1, <2>2 DEF GiveUpIs, BeginIs, TokenIs, TriedIs, Finishing, FinishIs, Copied
  <2>3. CASE q # r
    BY <2>1, <2>3 DEF Copied
  <2>4. QED
    BY <2>2, <2>3
<1>5. CASE RestartIs
  BY <1>1, <1>5 DEF RestartIs, Copied
<1>6. CASE ForgetStep \/ QuietIs
  BY <1>6 DEF ForgetStep, ForgetIs, QuietIs, Copied
<1>7. QED
  BY <1>2, <1>3, <1>4, <1>5, <1>6
     DEF ChatStep, PageStep, StreamStep, FinishStep, Finishing

LEMMA CopyStays ==
    ASSUME ChatTyped, ChatTyped', WindowInv, FrameInv, MemoryInv, CopyInv, ChatStep
    PROVE  CopyInv'
<1>0. asked \in Nat /\ asked' \in Nat
  BY ChatAssumption DEF ChatTyped
<1>1. asked <= asked' /\ \A p \in 1..asked : request'[p].conv = request[p].conv
  BY OnwardIs DEF Onward, Ahead
<1>2. ASSUME NEW q \in Questions, NEW i \in DOMAIN request'[q].history
      PROVE  LET p == request'[q].history[i].question IN
             p <= asked' /\ request'[p].conv = request'[q].conv
  <2>1. PICK p : p = request'[q].history[i].question
    OBVIOUS
  <2>2. CASE request'[q].history = << >>
    BY <1>2, <2>2
  <2>3. CASE request'[q].conv = request[q].conv /\ request'[q].history = request[q].history
    <3>1. p <= asked /\ request[p].conv = request[q].conv
      BY <1>2, <2>1, <2>3 DEF CopyInv
    <3>2. p \in Questions
      <4>1. request[q].history \in Seq(Entry)
        BY DEF ChatTyped, Stream
      <4>2. request[q].history[i] \in Entry
        BY <1>2, <2>3, <4>1
      <4>3. QED
        BY <2>1, <2>3, <4>2 DEF Entry
    <3>3. p \in 1..asked
      BY <1>0, <3>1, <3>2 DEF Questions
    <3>4. QED
      BY <1>0, <1>1, <2>1, <2>3, <3>1, <3>3
  <2>4. CASE /\ request'[q].conv = request[q].conv /\ request[q].conv \in DOMAIN sessions
             /\ request'[q].history = sessions[request[q].conv].history
    <3>1. PICK c : c = request[q].conv
      OBVIOUS
    <3>2. PICK h : h = sessions[c].history
      OBVIOUS
    <3>3. h \in Seq(Entry) /\ Good(c, h)
      BY <2>4, <3>1, <3>2 DEF MemoryInv, ChatTyped, Memory
    <3>4. i \in DOMAIN h /\ p = h[i].question
      BY <1>2, <2>1, <2>4, <3>1, <3>2
    <3>5. p \in 1..asked /\ request[p].conv = c
      BY <3>3, <3>4, GoodIs
    <3>6. QED
      BY <1>0, <1>1, <2>1, <2>4, <3>1, <3>5
  <2>5. QED
    BY <2>2, <2>3, <2>4, CopiedIs DEF Copied
<1>3. QED
  BY <1>2 DEF CopyInv

LEMMA TurnOf ==
    ASSUME NEW n \in Nat, NEW j \in 1..(2 * n)
    PROVE  \E l \in 1..n : j = 2 * l \/ j = 2 * l - 1
<1>1. PICK l : l = (j + 1) \div 2
  OBVIOUS
<1>2. l \in 1..n /\ (j = 2 * l \/ j = 2 * l - 1)
  BY <1>1
<1>3. QED
  BY <1>2

(* Of a conversation that is full the oldest turn goes: those that stay    *)
(* came after it.                                                          *)
LEMMA FirstGoes ==
    ASSUME NEW b \in Seq(Entry), Whole(b), Ordered(b), NEW j \in 3..Len(b)
    PROVE  After(b[2].question, b[j].question)
<1>1. PICK n \in 0..MaxTurns :
        /\ Len(b) = 2 * n
        /\ \A k \in 1..n : b[2 * k - 1].question = b[2 * k].question
  BY DEF Whole
<1>2. n \in Nat /\ MaxTurns \in Nat /\ j \in 1..(2 * n)
  BY <1>1, ChatAssumption
<1>3. PICK l \in 1..n : j = 2 * l \/ j = 2 * l - 1
  BY <1>2, TurnOf
<1>4. b[j].question = b[2 * l].question
  BY <1>1, <1>3
<1>5. l > 1 /\ l \in 1..MaxTurns /\ 1 \in 1..MaxTurns /\ 2 * l <= Len(b) /\ 2 * 1 = 2
  BY <1>1, <1>2, <1>3
<1>6. After(b[2 * 1].question, b[2 * l].question)
  BY <1>5 DEF Ordered
<1>7. QED
  BY <1>4, <1>5, <1>6

LEMMA RenewedAfter ==
    ASSUME NEW b, NEW h, NEW q, NEW text, NEW n \in 0..MaxTurns, NEW cut \in {0, 1},
           Renewed(b, h, q, text, n, cut), n = MaxTurns, NEW p, After(p, q),
           \A i \in 3..Len(b) : After(p, b[i].question)
    PROVE  Len(h) = 2 * MaxTurns /\ \A j \in DOMAIN h : After(p, h[j].question)
<1>0. PICK m : m = n - 1
  OBVIOUS
<1>1. MaxTurns \in Nat /\ cut = 1 /\ n = m + 1 /\ m \in Nat /\ n - cut = m
  BY <1>0, ChatAssumption DEF Renewed
<1>2. /\ Len(b) = 2 * n /\ Len(h) = 2 * m + 2 /\ h \in Seq(Entry)
      /\ \A i \in 1..(2 * m) : h[i] = b[i + 2 * 1]
      /\ h[2 * m + 1].question = q /\ h[2 * m + 2].question = q
  BY <1>1 DEF Renewed
<1>3. Len(h) = 2 * MaxTurns
  BY <1>1, <1>2
<1>4. ASSUME NEW j \in DOMAIN h
      PROVE  After(p, h[j].question)
  <2>1. j \in 1..(2 * m + 2)
    BY <1>2, <1>4
  <2>2. CASE j \in 1..(2 * m)
    <3>1. j + 2 * 1 \in 3..Len(b) /\ h[j] = b[j + 2 * 1]
      BY <1>1, <1>2, <2>2
    <3>2. QED
      BY <3>1
  <2>3. CASE j \notin 1..(2 * m)
    <3>1. j = 2 * m + 1 \/ j = 2 * m + 2
      BY <1>1, <2>1, <2>3, LastTurn
    <3>2. QED
      BY <1>2, <3>1
  <2>4. QED
    BY <2>2, <2>3
<1>5. QED
  BY <1>3, <1>4

(* An answer stays in the conversation, or is the oldest of it.            *)
LEMMA RenewedHolds ==
    ASSUME NEW b, NEW h, NEW q, NEW text, NEW n \in 0..MaxTurns, NEW cut \in {0, 1},
           Renewed(b, h, q, text, n, cut), Whole(b), NEW p \in Answered(b)
    PROVE  p \in Answered(h) \/ (n = MaxTurns /\ p = b[2].question)
<1>0. PICK m : m = n - cut
  OBVIOUS
<1>1. MaxTurns \in Nat /\ n = m + cut /\ m \in Nat /\ n \in Nat
  BY <1>0, ChatAssumption DEF Renewed
<1>2. /\ b \in Seq(Entry) /\ Len(b) = 2 * n /\ Len(h) = 2 * m + 2 /\ h \in Seq(Entry)
      /\ \A i \in 1..(2 * m) : h[i] = b[i + 2 * cut]
      /\ (cut = 1 <=> n = MaxTurns)
  BY <1>0 DEF Renewed
<1>3. PICK i \in DOMAIN b : p = b[i].question
  BY DEF Answered
<1>4. i \in 1..(2 * n)
  BY <1>2, <1>3
<1>5. CASE i > 2 * cut
  <2>1. PICK j : j = i - 2 * cut
    OBVIOUS
  <2>2. j \in 1..(2 * m) /\ j + 2 * cut = i
    BY <1>1, <1>4, <1>5, <2>1
  <2>3. j \in DOMAIN h /\ h[j] = b[i]
    BY <1>1, <1>2, <2>2
  <2>4. QED
    BY <1>3, <2>3 DEF Answered
<1>6. CASE ~ (i > 2 * cut)
  <2>1. cut = 1 /\ (i = 1 \/ i = 2) /\ 1 \in 1..n
    BY <1>1, <1>4, <1>6
  <2>2. b[2 * 1 - 1].question = b[2 * 1].question
    <3>1. PICK x \in 0..MaxTurns :
            /\ Len(b) = 2 * x
            /\ \A k \in 1..x : b[2 * k - 1].question = b[2 * k].question
      BY DEF Whole
    <3>2. x = n
      BY <1>1, <1>2, <3>1
    <3>3. QED
      BY <2>1, <3>1, <3>2
  <2>3. b[1].question = b[2].question
    BY <2>2
  <2>4. QED
    BY <1>2, <1>3, <2>1, <2>3
<1>7. QED
  BY <1>5, <1>6

(***************************************************************************)
(* An answer whose done is sent is still there after a step.               *)
(***************************************************************************)
LEMMA FinishedIs ==
    ASSUME ChatTyped, WindowInv, FrameInv, NEW p \in Questions, Finished(p)
    PROVE  request[p].at = "over" /\ p \in 1..asked
<1>1. request[p].at = "over"
  BY DEF FrameInv, Framed, DoneLast, Finished
<1>2. QED
  BY <1>1, AskedIs

LEMMA NotAbove ==
    ASSUME NEW m \in Nat, NEW n \in Nat, NEW p \in 1..m, p \notin (n + 1)..m
    PROVE  p \in 1..n
OBVIOUS

LEMMA FinishedBefore ==
    ASSUME ChatTyped, ChatTyped', WindowInv, WindowInv', FrameInv', ChatStep,
           NEW p \in Questions, Finished(p)'
    PROVE  p \in 1..asked
<1>1. request'[p].at = "over" /\ p \in 1..asked'
  <2>1. request'[p].at = "over"
    BY DEF FrameInv, Framed, DoneLast, Finished
  <2>2. asked' \in Nat /\ MaxAsked \in Nat /\ p \in 1..MaxAsked
    BY ChatAssumption DEF ChatTyped, Questions
  <2>3. p \notin (asked' + 1)..MaxAsked
    BY <2>1 DEF WindowInv, Unasked, NoRequest, Idle
  <2>4. QED
    BY <2>1, <2>2, <2>3, NotAbove
<1>2. asked' = asked \/ \E t \in Tabs : AskIs(t)
  BY DEF ChatStep, PageStep, StreamStep, FinishStep, ForgetStep, QuietIs, RestartIs,
         PaintIs, EndIs, ResetIs, GiveUpIs, BeginIs, TokenIs, TriedIs, FinishIs, ForgetIs, Server
<1>3. ASSUME NEW t \in Tabs, AskIs(t)
      PROVE  p # asked + 1 /\ asked' = asked + 1
  BY <1>1, <1>3 DEF AskIs
<1>4. asked \in Nat
  BY AskedIs
<1>5. QED
  BY <1>1, <1>2, <1>3, <1>4

LEMMA KeptSame ==
    ASSUME ChatTyped, Onward, NEW p \in 1..asked, p \in Questions, IsKept(p), MemoryInv,
           request[p].conv \in DOMAIN sessions',
           sessions'[request[p].conv].history = sessions[request[p].conv].history
    PROVE  IsKept(p)'
<1>1. PICK c : c = request[p].conv
  OBVIOUS
<1>2. PICK h : h = sessions[c].history
  OBVIOUS
<1>3. /\ c \in DOMAIN sessions
      /\ \/ p \in Answered(h)
         \/ Len(h) = 2 * MaxTurns /\ \A i \in DOMAIN h : After(p, h[i].question)
  BY <1>1, <1>2 DEF IsKept
<1>4. h \in Seq(Entry) /\ Good(c, h)
  BY <1>2, <1>3 DEF MemoryInv, ChatTyped, Memory
<1>5. \A i \in DOMAIN h : h[i].question \in 1..asked
  BY <1>4, GoodIs
<1>6. ASSUME NEW i \in DOMAIN h, After(p, h[i].question)
      PROVE  After(p, h[i].question)'
  BY <1>5, <1>6, AfterStays
<1>7. request'[p].conv = c /\ c \in DOMAIN sessions' /\ sessions'[c].history = h
  BY <1>1, <1>2 DEF Onward, Ahead
<1>8. QED
  BY <1>3, <1>6, <1>7 DEF IsKept, Answered

LEMMA KeptFinish ==
    ASSUME ChatTyped, ChatTyped', WindowInv, FrameInv, MemoryInv, Onward,
           NEW q \in Questions, NEW old \in SUBSET DOMAIN sessions, FinishIs(q, old),
           NEW p \in Questions, p \in 1..asked, p \notin dropped',
           p = q \/ (Finished(p) /\ IsKept(p))
    PROVE  IsKept(p)'
<1>a. PICK c, text, b :
        \E h \in Seq(Entry) : \E n \in 0..MaxTurns, cut \in {0, 1} :
          Renews(q, old, c, text, b, h, n, cut)
  BY FinishRenews
<1>b. PICK h \in Seq(Entry), n \in 0..MaxTurns, cut \in {0, 1} :
        Renews(q, old, c, text, b, h, n, cut)
  BY <1>a
<1>1. /\ c = request[q].conv /\ text = request[q].text /\ b \in Seq(Entry)
      /\ c \in DOMAIN sessions' /\ b = Before(c, old) /\ h = sessions'[c].history
      /\ Renewed(b, h, q, text, n, cut) /\ Good(c, b) /\ q \in 1..asked
      /\ \A i \in DOMAIN b : b[i].question \in 1..asked /\ b[i].question # q
      /\ \A r \in 1..asked \ {q} : request[r].conv = c => After(r, q)
  BY <1>b DEF Renews, Renewed
<1>2. request'[p].conv = request[p].conv
  BY DEF Onward, Ahead
<1>3. \A i \in DOMAIN h : h[i].question \in 1..asked
  <2>1. Good(c, h)'
    BY <1>b, RenewsGood
  <2>2. asked' = asked
    BY DEF FinishIs, Server
  <2>3. \A i \in DOMAIN h : h[i] \in Entry /\ Told(c, h[i])'
    BY <2>1 DEF Good
  <2>4. ASSUME NEW e \in Entry, Told(c, e)'
        PROVE  e.question \in 1..asked
    BY <2>2, <2>4, AskedIs DEF Told, Entry, Questions
  <2>5. QED
    BY <2>3, <2>4
<1>4. CASE p = q
  <2>1. h[2 * (n - cut) + 2].question = q /\ 2 * (n - cut) + 2 \in DOMAIN h
    <3>1. Len(h) = 2 * (n - cut) + 2 /\ h[2 * (n - cut) + 2] = [role |-> "model", question |-> q, text |-> text]
      BY <1>1 DEF Renewed
    <3>2. Len(h) \in Nat /\ DOMAIN h = 1..Len(h) /\ MaxTurns \in Nat /\ n \in Nat /\ n - cut >= 0
      BY <1>1, ChatAssumption DEF Renewed
    <3>3. QED
      BY <3>1, <3>2
  <2>2. q \in Answered(h)
    BY <2>1 DEF Answered
  <2>3. QED
    BY <1>1, <1>2, <1>4, <2>2 DEF IsKept
<1>5. CASE p # q
  <2>1. request[p].at = "over" /\ IsKept(p)
    BY <1>5, FinishedIs
  <2>2. request[p].conv \in DOMAIN sessions \ old
    <3>1. request[p].conv \in DOMAIN sessions
      BY <2>1 DEF IsKept
    <3>2. request[p].conv \notin old
      BY <2>1 DEF FinishIs, Appended, Lost
    <3>3. QED
      BY <3>1, <3>2
  <2>3. CASE request[p].conv # c
    <3>1. request[p].conv \in DOMAIN sessions'
          /\ sessions'[request[p].conv].history = sessions[request[p].conv].history
      BY <1>1, <2>2, <2>3 DEF FinishIs, Appended
    <3>2. QED
      BY <2>1, <3>1, KeptSame
  <2>4. CASE request[p].conv = c
    <3>1. b = sessions[c].history
      BY <1>1, <2>2, <2>4 DEF Before
    <3>2. \/ p \in Answered(b)
          \/ Len(b) = 2 * MaxTurns /\ \A i \in DOMAIN b : After(p, b[i].question)
      BY <2>1, <2>4, <3>1 DEF IsKept
    <3>3. After(p, q)
      BY <1>1, <1>5, <2>4
    <3>4. ASSUME n = MaxTurns, \A i \in 3..Len(b) : After(p, b[i].question)
          PROVE  IsKept(p)'
      <4>1. Len(h) = 2 * MaxTurns /\ \A j \in DOMAIN h : After(p, h[j].question)
        <5>1. Renewed(b, h, q, text, n, cut)
          BY <1>1
        <5>2. QED
          BY <3>3, <3>4, <5>1, RenewedAfter
      <4>2. \A j \in DOMAIN h : After(p, h[j].question)'
        BY <1>3, <4>1, AfterStays
      <4>3. QED
        BY <1>1, <1>2, <2>4, <4>1, <4>2 DEF IsKept
    <3>5. CASE p \in Answered(b)
      <4>1. p \in Answered(h) \/ (n = MaxTurns /\ p = b[2].question)
        BY <1>1, <3>5, RenewedHolds DEF Good
      <4>2. CASE p \in Answered(h)
        BY <1>1, <1>2, <2>4, <4>2 DEF IsKept
      <4>3. CASE n = MaxTurns /\ p = b[2].question
        <5>1. \A i \in 3..Len(b) : After(p, b[i].question)
          BY <1>1, <4>3, FirstGoes DEF Good
        <5>2. QED
          BY <3>4, <4>3, <5>1
      <4>4. QED
        BY <4>1, <4>2, <4>3
    <3>6. CASE Len(b) = 2 * MaxTurns /\ \A i \in DOMAIN b : After(p, b[i].question)
      <4>1. n = MaxTurns
        <5>1. Len(b) = 2 * n /\ MaxTurns \in Nat /\ n \in Nat
          BY <1>1, ChatAssumption DEF Renewed
        <5>2. QED
          BY <3>6, <5>1
      <4>2. \A i \in 3..Len(b) : i \in DOMAIN b
        BY <1>1
      <4>3. QED
        BY <3>4, <3>6, <4>1, <4>2
    <3>7. QED
      BY <3>2, <3>5, <3>6
  <2>5. QED
    BY <2>3, <2>4
<1>6. QED
  BY <1>4, <1>5

LEMMA KeptStays ==
    ASSUME ChatTyped, ChatTyped', WindowInv, WindowInv', FrameInv, FrameInv', MemoryInv,
           KeptInv, ChatStep
    PROVE  KeptInv'
<1>0. Onward
  BY OnwardIs
<1>1. ASSUME NEW p \in Questions, p \notin dropped', Finished(p)'
      PROVE  IsKept(p)'
  <2>1. p \in 1..asked /\ Ahead(p)
    BY <1>0, <1>1, FinishedBefore DEF Onward
  <2>2. dropped \subseteq dropped'
    BY DEF ChatStep, PageStep, StreamStep, FinishStep, ForgetStep, QuietIs, RestartIs, AskIs,
           PaintIs, EndIs, ResetIs, GiveUpIs, BeginIs, TokenIs, TriedIs, FinishIs, ForgetIs,
           SameMemory, Appended
  <2>3. Settles(p) => Finished(p)
    BY <1>1 DEF Settles, Finished
  <2>4. Finished(p) => IsKept(p) /\ request[p].at = "over"
    BY <1>1, <2>2, FinishedIs DEF KeptInv
  <2>5. Finished(p) \/ Finishing(p)
    BY <2>1, <2>3 DEF Ahead
  <2>6. ASSUME NEW q \in Questions, NEW old \in SUBSET DOMAIN sessions, FinishIs(q, old)
        PROVE  IsKept(p)'
    <3>1. CASE p = q
      BY <1>0, <1>1, <2>1, <2>6, <3>1, KeptFinish
    <3>2. CASE p # q
      <4>1. Finished(p)
        <5>1. frames'[p] = frames[p] /\ shown'[p] = shown[p]
          BY <2>6, <3>2 DEF FinishIs, Server, Others
        <5>2. QED
          BY <1>1, <5>1 DEF Finished
      <4>2. QED
        BY <1>0, <1>1, <2>1, <2>4, <2>6, <4>1, KeptFinish
    <3>3. QED
      BY <3>1, <3>2
  <2>7. CASE ~ FinishStep
    <3>1. Finished(p) /\ IsKept(p) /\ request[p].at = "over"
      <4>1. ~ Finishing(p)
        BY <1>1, <2>7 DEF Finishing, FinishStep
      <4>2. QED
        BY <2>4, <2>5, <4>1
    <3>2. request[p].conv \in DOMAIN sessions
      BY <3>1 DEF IsKept
    <3>3. request[p].conv \in DOMAIN sessions'
          /\ sessions'[request[p].conv].history = sessions[request[p].conv].history
      <4>1. CASE PageStep
        BY <3>2, <4>1 DEF PageStep, AskIs, PaintIs, EndIs, ResetIs
      <4>2. CASE StreamStep \/ QuietIs
        BY <3>2, <4>2 DEF StreamStep, QuietIs, GiveUpIs, BeginIs, TokenIs, TriedIs, SameMemory
      <4>3. CASE ForgetStep \/ RestartIs
        <5>1. \A convs : request[p].conv \in convs => p \in Lost(convs)
          BY <2>1, <3>1 DEF Lost
        <5>2. QED
          BY <1>1, <3>2, <4>3, <5>1 DEF ForgetStep, ForgetIs, RestartIs
      <4>4. QED
        BY <2>7, <4>1, <4>2, <4>3 DEF ChatStep
    <3>4. QED
      BY <1>0, <1>1, <2>1, <3>1, <3>3, KeptSame
  <2>8. QED
    BY <2>6, <2>7 DEF FinishStep
<1>2. QED
  BY <1>1 DEF KeptInv

(***************************************************************************)
(* The invariant, and what it says of the screen.                          *)
(***************************************************************************)
LEMMA ChatInvStarts == ASSUME ChatInit PROVE ChatInv
<1>1. ChatTyped /\ WindowInv /\ FrameInv
  BY ChatStartsTyped, WindowStarts, FrameStarts
<1>2. MemoryInv
  <2>1. DOMAIN sessions = {}
    BY DEF ChatInit
  <2>2. QED
    BY <2>1 DEF MemoryInv
<1>3. CopyInv /\ KeptInv
  BY DEF ChatInit, CopyInv, KeptInv, Finished, NoRequest, Idle, NoBubble
<1>4. QED
  BY <1>1, <1>2, <1>3 DEF ChatInv

LEMMA ChatInvStays == ASSUME ChatInv, [ChatNext]_chatVars PROVE ChatInv'
<1>1. ChatTyped /\ WindowInv /\ FrameInv /\ MemoryInv /\ CopyInv /\ KeptInv
  BY DEF ChatInv
<1>2. ChatStep /\ ChatTyped'
  BY <1>1, StepIs, ChatStaysTyped
<1>3. WindowInv' /\ FrameInv'
  BY <1>1, <1>2, WindowStays, FrameStays
<1>4. MemoryInv' /\ CopyInv'
  BY <1>1, <1>2, MemoryStays, CopyStays
<1>5. KeptInv'
  BY <1>1, <1>2, <1>3, KeptStays
<1>6. QED
  BY <1>2, <1>3, <1>4, <1>5 DEF ChatInv

LEMMA WholeTurns ==
    ASSUME NEW h, Whole(h), NEW i \in 1..Len(h)
    PROVE  /\ h[i].role = IF i % 2 = 1 THEN "user" ELSE "model"
           /\ i % 2 = 1 => i < Len(h) /\ h[i + 1].question = h[i].question
<1>1. PICK n \in 0..MaxTurns :
        /\ Len(h) = 2 * n
        /\ \A k \in 1..n : /\ h[2 * k - 1].role = "user" /\ h[2 * k].role = "model"
                           /\ h[2 * k - 1].question = h[2 * k].question
  BY DEF Whole
<1>2. n \in Nat
  BY ChatAssumption
<1>3. PICK k \in 1..n : i = 2 * k \/ i = 2 * k - 1
  BY <1>1, <1>2, TurnOf
<1>4. CASE i = 2 * k
  <2>1. i % 2 = 0
    BY <1>3, <1>4
  <2>2. QED
    BY <1>1, <1>3, <1>4, <2>1
<1>5. CASE i = 2 * k - 1
  <2>1. i % 2 = 1 /\ i < Len(h) /\ i + 1 = 2 * k
    BY <1>1, <1>2, <1>3, <1>5
  <2>2. QED
    BY <1>1, <1>3, <1>5, <2>1
<1>6. QED
  BY <1>3, <1>4, <1>5

(* A full conversation that came after p has as many questions as turns.   *)
LEMMA NewerIsFull ==
    ASSUME ChatTyped, NEW p, NEW h \in Seq(Entry), Ordered(h), Len(h) = 2 * MaxTurns,
           \A i \in DOMAIN h : After(p, h[i].question)
    PROVE  Cardinality({n \in Answered(h) : n > p \/ shown[n].is # "done"}) >= MaxTurns
<1> DEFINE S == {n \in Answered(h) : n > p \/ shown[n].is # "done"}
           f == [k \in 1..MaxTurns |-> h[2 * k].question]
<1>1. MaxTurns \in Nat /\ MaxAsked \in Nat
  BY ChatAssumption
<1>2. \A k \in 1..MaxTurns : 2 * k \in DOMAIN h
  BY <1>1
<1>3. ASSUME NEW i \in DOMAIN h
      PROVE  h[i].question \in S /\ h[i].question \in Questions
  <2>1. h[i] \in Entry /\ h[i].question \in Answered(h) /\ After(p, h[i].question)
    BY <1>3 DEF Answered
  <2>2. QED
    BY <2>1 DEF After, Never, Entry
<1>4. IsFiniteSet(S)
  <2>1. IsFiniteSet(Questions)
    BY <1>1, FS_Interval DEF Questions
  <2>2. S \subseteq Questions
    BY <1>3 DEF Answered
  <2>3. QED
    BY <2>1, <2>2, FS_Subset
<1>5. f \in [1..MaxTurns -> S]
  BY <1>2, <1>3
<1>6. ASSUME NEW k \in 1..MaxTurns, NEW l \in 1..MaxTurns, k < l
      PROVE  h[2 * k].question # h[2 * l].question
  <2>1. 2 * l <= Len(h)
    BY <1>1, <1>6
  <2>2. QED
    BY <1>6, <2>1 DEF Ordered
<1>7. \A k, l \in 1..MaxTurns : f[k] = f[l] => k = l
  <2>1. ASSUME NEW k \in 1..MaxTurns, NEW l \in 1..MaxTurns, k # l
        PROVE  f[k] # f[l]
    <3>1. k < l \/ l < k
      BY <1>1, <2>1
    <3>2. f[k] = h[2 * k].question /\ f[l] = h[2 * l].question
      OBVIOUS
    <3>3. QED
      BY <1>6, <3>1, <3>2
  <2>2. QED
    BY <2>1
<1> HIDE DEF S, f
<1>8. f \in Injection(1..MaxTurns, S)
  BY <1>5, <1>7 DEF Injection, IsInjective
<1>9. Cardinality(1..MaxTurns) <= Cardinality(S)
  BY <1>4, <1>8, FS_Injection
<1>10. Cardinality(1..MaxTurns) = MaxTurns
  BY <1>1, FS_Interval
<1>11. Cardinality(S) \in Nat
  BY <1>4, FS_CardinalityType
<1>12. Cardinality(S) >= MaxTurns
  BY <1>1, <1>9, <1>10, <1>11
<1>13. QED
  BY <1>12 DEF S

LEMMA ChatInvTells == ASSUME ChatInv PROVE ChatIsTrue
<1>1. ChatTyped /\ WindowInv /\ FrameInv /\ MemoryInv /\ CopyInv /\ KeptInv
  BY DEF ChatInv
<1>2. ASSUME NEW c \in DOMAIN sessions
      PROVE  sessions[c].history \in Seq(Entry) /\ Good(c, sessions[c].history)
  BY <1>1, <1>2 DEF MemoryInv, ChatTyped, Memory
<1>3. OneModelAnswers
  <2>1. ASSUME NEW q \in Questions, shown[q].is = "done"
        PROVE  Cardinality(shown[q].text) = 1
    <3>1. Single(shown[q].text)
      BY <1>1, <2>1 DEF FrameInv, Framed
    <3>2. QED
      BY <3>1, FS_Singleton DEF Single
  <2>2. ASSUME NEW q \in Questions, shown[q].is = "done", NEW c \in DOMAIN sessions,
               NEW i \in DOMAIN sessions[c].history,
               sessions[c].history[i].question = q, sessions[c].history[i].role = "model"
        PROVE  sessions[c].history[i].text = shown[q].text
    <3>1. Told(c, sessions[c].history[i])
      BY <1>2, <2>2 DEF Good
    <3>2. QED
      BY <2>2, <3>1 DEF Told
  <2>3. QED
    BY <2>1, <2>2 DEF OneModelAnswers
<1>4. ASSUME NEW c \in DOMAIN sessions, NEW i \in DOMAIN sessions[c].history
      PROVE  LET history == sessions[c].history IN
             /\ history[i].role = IF i % 2 = 1 THEN "user" ELSE "model"
             /\ i % 2 = 1 => /\ i < Len(history)
                             /\ history[i + 1].question = history[i].question
  <2>1. PICK h : h = sessions[c].history
    OBVIOUS
  <2>2. h \in Seq(Entry) /\ Whole(h) /\ i \in 1..Len(h)
    BY <1>2, <1>4, <2>1 DEF Good
  <2>3. QED
    BY <2>1, <2>2, WholeTurns
<1>5. ASSUME NEW p \in Questions \ dropped, shown[p].is = "done"
      PROVE  LET c == request[p].conv
                 kept == IF c \in DOMAIN sessions THEN Answered(sessions[c].history) ELSE {}
             IN  p \notin kept =>
                   Cardinality({n \in kept : n > p \/ shown[n].is # "done"}) >= MaxTurns
  <2>1. PICK c : c = request[p].conv
    OBVIOUS
  <2>2. PICK h : h = sessions[c].history
    OBVIOUS
  <2>3. /\ c \in DOMAIN sessions
        /\ \/ p \in Answered(h)
           \/ Len(h) = 2 * MaxTurns /\ \A i \in DOMAIN h : After(p, h[i].question)
    BY <1>1, <1>5, <2>1, <2>2 DEF KeptInv, IsKept, Finished
  <2>4. h \in Seq(Entry) /\ Ordered(h)
    BY <1>2, <2>2, <2>3 DEF Good
  <2>5. p \notin Answered(h) =>
          Cardinality({n \in Answered(h) : n > p \/ shown[n].is # "done"}) >= MaxTurns
    BY <1>1, <2>3, <2>4, NewerIsFull
  <2>6. QED
    BY <2>1, <2>2, <2>3, <2>5
<1>6. ASSUME NEW q \in Questions, NEW p \in Answered(request[q].history), shown[p].is = "cleared"
      PROVE  shown[p].cleared >= q
  <2>1. PICK i \in DOMAIN request[q].history : p = request[q].history[i].question
    BY <1>6 DEF Answered
  <2>2. request[q].history \in Seq(Entry)
    BY <1>1 DEF ChatTyped, Stream
  <2>3. request[q].history[i] \in Entry
    BY <2>1, <2>2
  <2>4. p \in Questions /\ request[p].conv = request[q].conv
    BY <1>1, <2>1, <2>3 DEF CopyInv, Entry
  <2>5. q \in 1..asked
    <3>1. ~ Unasked(q)
      BY <2>1 DEF Unasked, NoRequest, Idle
    <3>2. asked \in Nat /\ MaxAsked \in Nat /\ q \in 1..MaxAsked
      BY <1>1, ChatAssumption DEF ChatTyped, Questions
    <3>3. q \notin (asked + 1)..MaxAsked
      BY <1>1, <3>1 DEF WindowInv
    <3>4. QED
      BY <3>2, <3>3, NotAbove
  <2>6. LetGo(p)
    BY <1>1, <1>6, <2>4 DEF WindowInv
  <2>7. q <= shown[p].cleared
    BY <2>4, <2>5, <2>6 DEF LetGo
  <2>8. q \in Int /\ shown[p].cleared \in Int
    BY <1>1, <2>4, <2>5, ChatAssumption DEF ChatTyped, Bubble
  <2>9. QED
    BY <2>7, <2>8
<1>7. HistoryIsTrue
  BY <1>4, <1>5, <1>6 DEF HistoryIsTrue
<1>8. QED
  BY <1>3, <1>7 DEF ChatIsTrue

(* The assistant: for any number of tabs, questions, turns, conversations  *)
(* and restarts and any lists of models, an answer that is shown as        *)
(* finished has the words of one model and is remembered with them; what   *)
(* is remembered are whole turns, none missing that a user was shown       *)
(* unless the server gave up the conversation or newer ones pushed it out; *)
(* and no model is told what its user had cleared before asking.           *)
THEOREM ChatStaysTrue == ChatSpec => []ChatIsTrue
<1>1. ChatInit => ChatInv
  BY ChatInvStarts
<1>2. ChatInv /\ [ChatNext]_chatVars => ChatInv'
  BY ChatInvStays
<1>3. ChatInv => ChatIsTrue
  BY ChatInvTells
<1>4. QED
  BY <1>1, <1>2, <1>3, PTL DEF ChatSpec
=============================================================================
