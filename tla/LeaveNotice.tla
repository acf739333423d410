---------------------------- MODULE LeaveNotice -----------------------------
(***************************************************************************)
(* The notice of who is on leave today (tools/notify_today_leave.py, with  *)
(* _leave_notice() of serve.py): sent once on a working day, in one hour   *)
(* of it, to a relay on another machine that refuses a key it has already  *)
(* accepted.  serve.py, the tool and the relay fail independently.         *)
(***************************************************************************)
EXTENDS Naturals, FiniteSets

CONSTANTS
    NoticeDays,     \* bound: days 1..NoticeDays
    Weekends,       \* those of them that are no working days
    People          \* who may be on leave

VARIABLES
    date,       \* the day, and whether it is before, in or after the hour
    onLeave,    \* per day: the people whose approved leave is in the table
    noticed,    \* last_leave_notice of serve.py, lost when it restarts
    doneDate,   \* leave_notice_done_date in the database
    tool,       \* the tool: where it is, the day it read and its message
    relay       \* notices accepted: [key, day, message]

noticeVars == <<date, onLeave, noticed, doneDate, tool, relay>>
Resting == [at |-> "idle", day |-> 0, message |-> {}]

NoticeInit ==
    /\ date = [day |-> 1, hour |-> "before"]
    /\ onLeave = [d \in 1..NoticeDays |-> {}]
    /\ noticed = 0 /\ doneDate = 0 /\ tool = Resting /\ relay = {}

(* serve.py calls the tool in every cycle once the hour has come, until it *)
(* answers that the day is over.                                           *)
CallTool ==
    /\ tool.at = "idle" /\ noticed # date.day /\ date.hour # "before"
    /\ tool' = [tool EXCEPT !.at = "asked", !.day = date.day]
    /\ UNCHANGED <<date, onLeave, noticed, doneDate, relay>>

DayIsOver == noticed' = tool.day /\ tool' = Resting

(* run(): weekend, too late, or done already.                              *)
NotToday ==
    /\ tool.at = "asked"
    /\ tool.day \in Weekends \/ date.hour = "after" \/ doneDate = tool.day
    /\ DayIsOver
    /\ UNCHANGED <<date, onLeave, doneDate, relay>>

(* faulty variant: the date is written before the notice is sent           *)
CollectAndMark ==
    /\ tool.at = "asked" /\ tool.day \notin Weekends
    /\ date.hour = "hour" /\ doneDate # tool.day
    /\ \E late \in SUBSET People :
         /\ onLeave' = [onLeave EXCEPT ![tool.day] = @ \cup late]
         /\ tool' = [tool EXCEPT !.at = IF onLeave'[tool.day] = {} THEN "sent" ELSE "send",
                                 !.message = onLeave'[tool.day]]
    /\ doneDate' = tool.day
    /\ UNCHANGED <<date, noticed, relay>>

(* It collects once more, whatever comes of it, and reads the table.       *)
CollectAndRead ==
    /\ tool.at = "asked" /\ tool.day \notin Weekends
    /\ date.hour = "hour" /\ doneDate # tool.day
    /\ \E late \in SUBSET People :
         /\ onLeave' = [onLeave EXCEPT ![tool.day] = @ \cup late]
         /\ tool' = [tool EXCEPT !.at = IF onLeave'[tool.day] = {} THEN "sent" ELSE "send",
                                 !.message = onLeave'[tool.day]]
    /\ UNCHANGED <<date, noticed, doneDate, relay>>

(* faulty variant: another text is another notice                          *)
KeyOfText(day, message) == <<day, message>>

(* dedup_key()                                                             *)
DedupKey(day, message) == <<day>>

(* The relay takes the notice, or has its key; the answer may get lost.    *)
Accept(notice) ==
    relay' = IF notice.key \in {n.key : n \in relay} THEN relay ELSE relay \cup {notice}

Enqueue ==
    /\ tool.at = "send"
    /\ Accept([key |-> DedupKey(tool.day, tool.message), day |-> tool.day,
                message |-> tool.message])
    /\ tool' \in {[tool EXCEPT !.at = "sent"], Resting}
    /\ UNCHANGED <<date, onLeave, noticed, doneDate>>

RelayDown ==
    /\ tool.at = "send" /\ tool' = Resting
    /\ UNCHANGED <<date, onLeave, noticed, doneDate, relay>>

NoticeDone ==
    /\ tool.at = "sent"
    /\ doneDate' = tool.day
    /\ DayIsOver
    /\ UNCHANGED <<date, onLeave, relay>>

(* The tool is killed after ten minutes, or with the machine.              *)
ToolDies ==
    /\ tool.at # "idle" /\ tool' = Resting
    /\ UNCHANGED <<date, onLeave, noticed, doneDate, relay>>

ServeRestarts ==
    /\ noticed' = 0 /\ tool' = Resting
    /\ UNCHANGED <<date, onLeave, doneDate, relay>>

(* A day goes by; a call of the tool is over long before.                  *)
HourPasses ==
    /\ date' = CASE date.hour = "before" -> [date EXCEPT !.hour = "hour"]
                 [] date.hour = "hour"   -> [date EXCEPT !.hour = "after"]
                 [] OTHER                -> [day |-> date.day + 1, hour |-> "before"]
    /\ date'.day \in 1..NoticeDays
    /\ date.hour = "after" => tool.at = "idle"
    /\ UNCHANGED <<onLeave, noticed, doneDate, tool, relay>>

(* A leave is approved and collected at some other time of the day.        *)
Approved(p, d) ==
    /\ p \notin onLeave[d]
    /\ onLeave' = [onLeave EXCEPT ![d] = @ \cup {p}]
    /\ UNCHANGED <<date, noticed, doneDate, tool, relay>>

NoticeNext ==
    \/ CallTool \/ NotToday \/ CollectAndRead \/ Enqueue \/ RelayDown \/ NoticeDone
    \/ ToolDies \/ ServeRestarts \/ HourPasses
    \/ \E p \in People, d \in 1..NoticeDays : Approved(p, d)

NoticeSpec == NoticeInit /\ [][NoticeNext]_noticeVars

(***************************************************************************)
(* Properties                                                              *)
(***************************************************************************)
(* However often serve.py, the tool or the relay fail, one notice a day.   *)
OneNoticePerDay == \A m, n \in relay : m.day = n.day => m = n

(* A day is over only when its notice is with the relay, or nobody was on  *)
(* leave when the tool looked.                                             *)
DoneMeansSentNow ==
    doneDate' # doneDate =>
        \/ doneDate' \in {n.day : n \in relay'}
        \/ tool.at = "sent" /\ tool.message = {}
DoneMeansSent == [][DoneMeansSentNow]_noticeVars

(* What is done is done, and once.                                         *)
NoticedOnce == []OneNoticePerDay /\ DoneMeansSent
=============================================================================
