---------------------------- MODULE ScaleEvents ----------------------------
(***************************************************************************)
(* What becomes of a line a scale sends: the reader hands it to a waiting  *)
(* query or puts it on the EventBus (scale_agent/agent.py), and the blend  *)
(* screen polls /events (blend.js pollScaleEvents) and fills a row.        *)
(*                                                                         *)
(* The screen polls every 0.8 s with a timeout of 1.5 s, so a slow agent   *)
(* can have two polls in flight (MaxPolls).                                *)
(***************************************************************************)
EXTENDS Naturals, FiniteSets

CONSTANTS
    Values,         \* weights a scale can show
    Queries,        \* requests for /weight that may wait at one time
    MaxPolls,       \* polls in flight at one time
    MaxLines,       \* bound: lines the scale sends
    MaxKept,        \* events the bus keeps (100)
    MaxRestarts     \* bound: restarts of the agent
ASSUME EventsAssumption == MaxPolls \in Nat /\ MaxLines \in Nat /\ MaxKept \in Nat

VARIABLES
    lines,      \* history: lines sent so far; a line is known by its number
    query,      \* _expect_q, and per request for /weight: "no" or "waits"
    bus,        \* EventBus: [seq, kept, last], an event is [id, line]
    restarts,
    screen,     \* [after, synced, ready, blocked] of pollScaleEvents
    since,      \* history: lines sent before the page was opened (or closed off)
    polls,      \* polls in flight: [no, after, cursorOnly, answer]
    crossed,    \* history: two polls were in flight at one time
    rows        \* history: per line, into how many rows it was put

eventVars == <<lines, query, bus, restarts, screen, since, polls, crossed, rows>>

NewBus == [seq |-> 0, kept |-> {}, last |-> {}]

EventsInit ==
    /\ lines = 0 /\ restarts = 0 /\ polls = {} /\ since = 0 /\ crossed = FALSE
    /\ rows = [n \in 1..MaxLines |-> 0]
    /\ query = [expected |-> FALSE, waits |-> {}]
    /\ bus = NewBus
    /\ screen = [open |-> FALSE, after |-> 0, synced |-> FALSE, ready |-> TRUE, blocked |-> FALSE]

(***************************************************************************)
(* The agent                                                               *)
(***************************************************************************)
Newest(events, seq) == {e \in events : e.id > seq - MaxKept}

(* EventBus.push: the same value again within two seconds is one PRINT     *)
(* sent twice; else the event gets the next number.                        *)
Push(n, v) ==
    IF v \in bus.last
    THEN UNCHANGED bus
    ELSE bus' = [seq  |-> bus.seq + 1,
                 kept |-> Newest(bus.kept \cup {[id |-> bus.seq + 1, line |-> n]}, bus.seq + 1),
                 last |-> {v}]

(* The two seconds are over.                                               *)
Lapse ==
    /\ bus.last # {} /\ bus' = [bus EXCEPT !.last = {}]
    /\ UNCHANGED <<lines, query, restarts, screen, since, polls, crossed, rows>>

(* A line of the scale that parses, stable or not: PRINT, or the answer to *)
(* a query; the reader cannot tell them apart.                             *)
Line(v, stable) ==
    /\ lines < MaxLines
    /\ lines' = lines + 1
    /\ IF query.expected
       THEN query' = [expected |-> FALSE, waits |-> {}] /\ UNCHANGED bus
       ELSE /\ IF stable THEN Push(lines + 1, v) ELSE UNCHANGED bus
            /\ UNCHANGED query
    /\ UNCHANGED <<restarts, screen, since, polls, crossed, rows>>

(* /weight: read() sends the query and waits two seconds.  Two requests    *)
(* share the flag, so one line wakes both.                                 *)
Ask(q) ==
    /\ q \notin query.waits
    /\ query' = [expected |-> TRUE, waits |-> query.waits \cup {q}]
    /\ UNCHANGED <<lines, bus, restarts, screen, since, polls, crossed, rows>>

AskTimesOut(q) ==
    /\ q \in query.waits
    /\ query' = [expected |-> FALSE, waits |-> query.waits \ {q}]
    /\ UNCHANGED <<lines, bus, restarts, screen, since, polls, crossed, rows>>

(* The agent is started anew: the numbers begin at 1 again.                *)
Restart ==
    /\ restarts < MaxRestarts /\ restarts' = restarts + 1
    /\ bus' = NewBus /\ query' = [expected |-> FALSE, waits |-> {}]
    /\ UNCHANGED <<lines, screen, since, polls, crossed, rows>>

(* EventBus.after                                                          *)
After(a) == [items |-> {e \in bus.kept : e.id > a}, seq |-> bus.seq]
NoAnswer == [items |-> {}, seq |-> MaxLines + 1]

AnswerPoll(p) ==
    /\ p \in polls /\ p.answer = NoAnswer
    /\ polls' = (polls \ {p}) \cup {[p EXCEPT !.answer = After(p.after)]}
    /\ UNCHANGED <<lines, query, bus, restarts, screen, since, crossed, rows>>

(***************************************************************************)
(* The screen                                                              *)
(***************************************************************************)
OpenPage ==
    /\ ~ screen.open
    /\ screen' = [screen EXCEPT !.open = TRUE]
    /\ since' = lines
    /\ UNCHANGED <<lines, query, bus, restarts, polls, crossed, rows>>

(* The tick of the timer: a window that is shut out, or has no scale, will *)
(* synchronise again; else a poll is sent.                                 *)
Tick ==
    /\ screen.open
    /\ IF screen.ready
       THEN /\ \E n \in 1..MaxPolls \ {p.no : p \in polls} :
                 polls' = polls \cup {[no |-> n, after |-> screen.after,
                                       cursorOnly |-> screen.blocked, answer |-> NoAnswer]}
            /\ crossed' = (crossed \/ polls # {})
            /\ UNCHANGED <<screen, since>>
       ELSE /\ screen.synced /\ screen' = [screen EXCEPT !.synced = FALSE]
            /\ since' = lines
            /\ UNCHANGED <<polls, crossed>>
    /\ UNCHANGED <<lines, query, bus, restarts, rows>>

Or(a, b) == IF a # 0 THEN a ELSE b
Filled(items) == [n \in DOMAIN rows |-> rows[n] + Cardinality({e \in items : e.line = n})]

(* faulty variant: the cursor stays where it was                           *)
DeliverKeepsCursor(p) ==
    /\ p \in polls /\ p.answer # NoAnswer
    /\ polls' = polls \ {p}
    /\ IF p.cursorOnly
       THEN screen' = [screen EXCEPT !.after = Or(p.answer.seq, @)] /\ UNCHANGED rows
       ELSE /\ screen' = [screen EXCEPT !.synced = TRUE]
            /\ rows' = IF screen.synced THEN Filled(p.answer.items) ELSE rows
    /\ UNCHANGED <<lines, query, bus, restarts, since, crossed>>

(* faulty variant: the first answer is applied like every other            *)
DeliverUnsynced(p) ==
    /\ p \in polls /\ p.answer # NoAnswer
    /\ polls' = polls \ {p}
    /\ IF p.cursorOnly
       THEN screen' = [screen EXCEPT !.after = Or(p.answer.seq, @)] /\ UNCHANGED rows
       ELSE /\ screen' = [screen EXCEPT !.after = p.answer.seq, !.synced = TRUE]
            /\ rows' = Filled(p.answer.items)
    /\ UNCHANGED <<lines, query, bus, restarts, since, crossed>>

(* The answer arrives.  With a dialog open only the cursor moves; the      *)
(* first answer after opening the page is dropped; every other is applied, *)
(* whatever was opened since the poll was sent.                            *)
Deliver(p) ==
    /\ p \in polls /\ p.answer # NoAnswer
    /\ polls' = polls \ {p}
    /\ IF p.cursorOnly
       THEN screen' = [screen EXCEPT !.after = Or(p.answer.seq, @)] /\ UNCHANGED rows
       ELSE /\ screen' = [screen EXCEPT !.after = p.answer.seq, !.synced = TRUE]
            /\ rows' = IF screen.synced THEN Filled(p.answer.items) ELSE rows
    /\ UNCHANGED <<lines, query, bus, restarts, since, crossed>>

PollTimesOut(p) ==
    /\ p \in polls /\ polls' = polls \ {p}
    /\ UNCHANGED <<lines, query, bus, restarts, screen, since, crossed, rows>>

(* Dialogs open and close.                                                 *)
ToggleDialog ==
    /\ screen.open /\ screen' = [screen EXCEPT !.blocked = ~ @]
    /\ UNCHANGED <<lines, query, bus, restarts, since, polls, crossed, rows>>

(* detectScale finds the agent or not, every 30 seconds: no poll lasts from *)
(* one time to the next, and a tick comes between.                         *)
Detect ==
    /\ screen.open /\ (screen.ready \/ (polls = {} /\ ~ screen.synced))
    /\ screen' = [screen EXCEPT !.ready = ~ @]
    /\ UNCHANGED <<lines, query, bus, restarts, since, polls, crossed, rows>>

EventsNext ==
    \/ \E v \in Values, stable \in BOOLEAN : Line(v, stable)
    \/ \E q \in Queries : Ask(q) \/ AskTimesOut(q)
    \/ Lapse \/ Restart \/ OpenPage \/ Tick \/ ToggleDialog \/ Detect
    \/ \E p \in polls : AnswerPoll(p) \/ Deliver(p) \/ PollTimesOut(p)

EventsSpec == EventsInit /\ [][EventsNext]_eventVars

(***************************************************************************)
(* Properties                                                              *)
(***************************************************************************)
(* A PRINT is put into a row at most once, also over a restart of the      *)
(* agent (blend.js 779-798), unless two polls were in flight together.     *)
PrintAppliedOnce == crossed \/ \A n \in DOMAIN rows : rows[n] <= 1

(* What was printed before the page was opened, or while it was shut out,  *)
(* is put into no row (the comment at blend.js 786), unless two polls were *)
(* in flight together.                                                     *)
OldPrintsIgnoredNow == crossed \/ \A n \in DOMAIN rows : rows'[n] # rows[n] => n > since

PrintsCountOnce == []PrintAppliedOnce /\ [][OldPrintsIgnoredNow]_eventVars

(* Nothing is put into a row while a dialog is open (blend.js 748-776).    *)
NotWhileBlocked == [][rows' # rows => ~ screen.blocked]_eventVars
=============================================================================
