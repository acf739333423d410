----------------------------- MODULE ScalePorts -----------------------------
(***************************************************************************)
(* The serial ports of the scale agent (scale_agent/agent.py, also run     *)
(* inside the tray client).  Each scale has a reader thread that connects  *)
(* again after a loss, a watcher that gives the port to an older program   *)
(* while that runs, and connects that others ask for (one at a time): the  *)
(* main thread at the start, the menu of the tray.  No lock orders them.   *)
(*                                                                         *)
(* A port is open for one handle at a time (that much the system sees to). *)
(* One step opens a port, the next has its answer.  The 10 seconds of      *)
(* listening after a first failure are part of that answer.                *)
(***************************************************************************)
EXTENDS Naturals, FiniteSets

CONSTANTS
    Scales,         \* configured scales: 1..n, in the order of config.json
    Ports,          \* serial ports
    Fixed,          \* per scale: its configured port, or 0 to look for one
    Passive,        \* scales that are opened without a query
    Speaks,         \* <<scale, port>>: the device there answers its query
    Yields,         \* scales with yield_to
    ProgramPort     \* the port of the older program

ASSUME PortsAssumption ==
    /\ Scales \subseteq Nat \ {0} /\ 0 \notin Ports /\ ProgramPort \in Ports
    /\ Fixed \in [Scales -> Ports \cup {0}]
    /\ \A s \in Passive : s \in Scales /\ Fixed[s] # 0

VARIABLES
    serial,     \* per scale: _serial and port, 0 when not connected
    broken,     \* scales whose handle died and whose reader has not noticed
    taken,      \* taken_ports, shared by the scales
    yielding,   \* per scale
    task,       \* per scale and thread: the connect it is in
    started,    \* scales the main thread has called connect() for
    open,       \* per port: who holds its handle
    present,    \* ports whose cable is plugged in
    program     \* the older program: "off", "waits" for its port, "holds" it

vars == <<serial, broken, taken, yielding, task, started, open, present, program>>

Threads == {"asked", "reader", "watcher"}
Idle    == [todo |-> {}, at |-> 0]
Handle(s, t) == <<s, t>>
Connected(s) == <<s, "serial">>
Free == <<0, "free">>
Program == <<0, "program">>

Init ==
    /\ serial = [s \in Scales |-> 0] /\ broken = {} /\ taken = {}
    /\ yielding = [s \in Scales |-> FALSE]
    /\ task = [s \in Scales |-> [t \in Threads |-> Idle]]
    /\ started = {}
    /\ open = [p \in Ports |-> Free] /\ present = Ports /\ program = "off"

(***************************************************************************)
(* connect(): the candidates are fixed when it starts, and so is the test  *)
(* that the scale does not yield.                                          *)
(***************************************************************************)
Candidates(s) == (IF Fixed[s] # 0 THEN {Fixed[s]} ELSE present) \ taken

Begin(s, t) ==
    /\ task[s][t] = Idle
    /\ task' = [task EXCEPT ![s][t].todo = Candidates(s)]

Main(s) ==
    /\ s \notin started /\ \A r \in Scales : r < s => r \in started
    /\ \A r \in Scales : task[r]["asked"] = Idle
    /\ started' = started \cup {s}
    /\ Begin(s, "asked")
    /\ UNCHANGED <<serial, broken, taken, yielding, open, present, program>>

(* The reader looks every three seconds while nothing is connected.        *)
Reader(s) ==
    /\ serial[s] = 0 /\ ~ yielding[s] /\ Candidates(s) # {}
    /\ Begin(s, "reader")
    /\ UNCHANGED <<serial, broken, taken, yielding, started, open, present, program>>

(* "Connect again" in the menu of the tray.                                *)
Menu(s) ==
    /\ started = Scales /\ serial[s] = 0 /\ ~ yielding[s] /\ Candidates(s) # {}
    /\ Begin(s, "asked")
    /\ UNCHANGED <<serial, broken, taken, yielding, started, open, present, program>>

(* A handle that nothing refers to is closed.                              *)
Released(s, p) == IF p # 0 /\ open[p] = Connected(s) THEN [open EXCEPT ![p] = Free] ELSE open

(* The three assignments at the end of connect().  A handle that was there *)
(* before is lost, its port stays in taken.                                *)
Connect(s, t, p) ==
    /\ serial' = [serial EXCEPT ![s] = p]
    /\ broken' = broken \ {s}
    /\ taken' = taken \cup {p}
    /\ open' = [Released(s, serial[s]) EXCEPT ![p] = Connected(s)]
    /\ task' = [task EXCEPT ![s][t] = Idle]

(* Opening fails when the port is in use or gone; then the next is tried,  *)
(* in the order in which the system lists the ports, whatever it is.       *)
(* A passive scale is connected by that alone.                             *)
Open(s, t) ==
    /\ task[s][t].at = 0
    /\ \E p \in task[s][t].todo :
           IF open[p] = Free /\ p \in present
           THEN IF s \in Passive
                THEN Connect(s, t, p)
                ELSE /\ task' = [task EXCEPT ![s][t] = [todo |-> @.todo \ {p}, at |-> p]]
                     /\ open' = [open EXCEPT ![p] = Handle(s, t)]
                     /\ UNCHANGED <<serial, broken, taken>>
           ELSE /\ task' = [task EXCEPT ![s][t].todo = @ \ {p}]
                /\ UNCHANGED <<serial, broken, taken, open>>
    /\ UNCHANGED <<yielding, started, present, program>>

(* faulty variant: a probe without an answer does not close its handle     *)
AnswerKeepsHandle(s, t) ==
    /\ task[s][t].at # 0
    /\ LET p == task[s][t].at
       IN  IF open[p] = Handle(s, t) /\ <<s, p>> \in Speaks
           THEN Connect(s, t, p)
           ELSE /\ task' = [task EXCEPT ![s][t].at = 0]
                /\ UNCHANGED <<serial, broken, taken, open>>
    /\ UNCHANGED <<yielding, started, present, program>>

(* _probe(): a valid frame connects, all else closes the handle.           *)
Answer(s, t) ==
    /\ task[s][t].at # 0
    /\ LET p == task[s][t].at
       IN  IF open[p] = Handle(s, t) /\ <<s, p>> \in Speaks
           THEN Connect(s, t, p)
           ELSE /\ task' = [task EXCEPT ![s][t].at = 0]
                /\ open' = IF open[p] = Handle(s, t) THEN [open EXCEPT ![p] = Free] ELSE open
                /\ UNCHANGED <<serial, broken, taken>>
    /\ UNCHANGED <<yielding, started, present, program>>

(***************************************************************************)
(* Losing a connection.                                                    *)
(***************************************************************************)
(* faulty variant: the port is not given back to the other scales          *)
DropKeepsTaken(s) ==
    /\ serial' = [serial EXCEPT ![s] = 0]
    /\ broken' = broken \ {s}
    /\ taken' = taken
    /\ open' = Released(s, serial[s])

(* _drop_connection()                                                      *)
Drop(s) ==
    /\ serial' = [serial EXCEPT ![s] = 0]
    /\ broken' = broken \ {s}
    /\ taken' = taken \ {serial[s]}
    /\ open' = Released(s, serial[s])

(* Reading from a dead handle raises.                                      *)
ReadFails(s) ==
    /\ serial[s] # 0 /\ s \in broken
    /\ Drop(s)
    /\ UNCHANGED <<yielding, task, started, present, program>>

(* The watcher, once a second.                                             *)
Yield(s) ==
    /\ s \in Yields /\ program # "off" /\ ~ yielding[s] /\ task[s]["watcher"] = Idle
    /\ yielding' = [yielding EXCEPT ![s] = TRUE]
    /\ Drop(s)
    /\ UNCHANGED <<task, started, present, program>>

TakeBack(s) ==
    /\ program = "off" /\ yielding[s]
    /\ yielding' = [yielding EXCEPT ![s] = FALSE]
    /\ Begin(s, "watcher")
    /\ UNCHANGED <<serial, broken, taken, started, open, present, program>>

(***************************************************************************)
(* The world: cables, and the older program.                               *)
(***************************************************************************)
Unplug(p) ==
    /\ p \in present
    /\ present' = present \ {p}
    /\ broken' = broken \cup {s \in Scales : serial[s] = p}
    /\ open' = [open EXCEPT ![p] = Free]
    /\ program' = IF open[p] = Program THEN "waits" ELSE program
    /\ UNCHANGED <<serial, taken, yielding, task, started>>

Plug(p) ==
    /\ p \in Ports \ present
    /\ present' = present \cup {p}
    /\ UNCHANGED <<serial, broken, taken, yielding, task, started, open, program>>

ProgramStarts ==
    /\ program = "off" /\ program' = "waits"
    /\ UNCHANGED <<serial, broken, taken, yielding, task, started, open, present>>

ProgramOpens ==
    /\ program = "waits" /\ ProgramPort \in present /\ open[ProgramPort] = Free
    /\ program' = "holds" /\ open' = [open EXCEPT ![ProgramPort] = Program]
    /\ UNCHANGED <<serial, broken, taken, yielding, task, started, present>>

ProgramEnds ==
    /\ program # "off" /\ program' = "off"
    /\ open' = IF program = "holds" THEN [open EXCEPT ![ProgramPort] = Free] ELSE open
    /\ UNCHANGED <<serial, broken, taken, yielding, task, started, present>>

Working(s) == \/ Main(s) \/ Reader(s) \/ ReadFails(s) \/ Yield(s) \/ TakeBack(s)
              \/ \E t \in Threads : Open(s, t) \/ Answer(s, t)
World      == \/ ProgramStarts \/ ProgramOpens \/ ProgramEnds
              \/ \E p \in Ports : Unplug(p) \/ Plug(p)
Next       == World \/ \E s \in Scales : Working(s) \/ Menu(s)

(* Every thread goes on; its waits are bounded by the timeouts of the port.*)
Fairness == \A s \in Scales :
              /\ WF_vars(Main(s)) /\ WF_vars(Reader(s)) /\ WF_vars(ReadFails(s))
              /\ WF_vars(Yield(s)) /\ WF_vars(TakeBack(s))
              /\ \A t \in Threads : WF_vars(Open(s, t)) /\ WF_vars(Answer(s, t))
Spec     == Init /\ [][Next]_vars /\ Fairness

(***************************************************************************)
(* Properties                                                              *)
(***************************************************************************)
(* A scale comes to be connected on a port it is configured for, where it  *)
(* is only listened to or its device answers.                              *)
MayConnect(s, p) == Fixed[s] \in {0, p} /\ (s \in Passive \/ <<s, p>> \in Speaks)

(* The workplaces the agent is made for: a device answers the query of one *)
(* scale, and hangs on one port.  Two scales of one make that both look    *)
(* for a port are not of this kind: the one can connect a second time      *)
(* where the other's device answers, and the first port stays in taken.    *)
OnePortEach ==
    \A s, r \in Scales : \A p, q \in Ports :
        MayConnect(s, p) /\ MayConnect(r, q) => (s = r <=> p = q)

(* The shared set of taken ports is exact: a port that is in it and not    *)
(* connected would never be tried again by any scale.                      *)
TakenIsConnected == taken = {serial[s] : s \in Scales} \ {0}

(* No handle is open that no thread and no scale knows of.                 *)
EveryHandleIsKnown ==
    \A p \in Ports : \/ open[p] \in {Free, Program}
                     \/ \E s \in Scales : \/ open[p] = Connected(s) /\ serial[s] = p
                                          \/ \E t \in Threads : /\ open[p] = Handle(s, t)
                                                                /\ task[s][t].at = p

(* No port gets lost to the scales: neither in the shared set nor with a   *)
(* handle that nobody closes (agent.py).                                   *)
NoPortIsLost == TakenIsConnected /\ EveryHandleIsKnown

(* Once the cables stay plugged in and the older program stays away, every *)
(* scale whose device answers is connected in the end, and stays so.       *)
Reconnects ==
    \A s \in Scales :
        <>[](present = Ports /\ program = "off")
          => <>[](serial[s] # 0 /\ s \notin broken)

(* The docstring of connect(): it does not connect while yielding.         *)
YieldedIsReleased == \A s \in Scales : yielding[s] => serial[s] = 0
=============================================================================
