-------------------------- MODULE ScalePortsProofs --------------------------
(***************************************************************************)
(* Proofs about the programs of a workplace.  ScalePorts, for any scales,  *)
(* ports and devices: no handle is lost, and, where a device answers one   *)
(* scale on one port, the shared set of taken ports is exact, however      *)
(* readers, watchers, the menu, cables and the older program interleave.   *)
(* ScaleEvents, for any number of lines and restarts: a PRINT counts once. *)
(* TraySlots, for any hours and length of the day: so does a slot.         *)
(***************************************************************************)
EXTENDS ScalePorts, ScaleEvents, TraySlots, FiniteSetTheorems, WellFoundedInduction, TLAPS

(***************************************************************************)
(* The types the proofs need.                                              *)
(***************************************************************************)
Holders == {Free, Program} \cup {Connected(s) : s \in Scales}
                           \cup {Handle(s, t) : s \in Scales, t \in Threads}
Tasks   == [todo : SUBSET Ports, at : Ports \cup {0}]

PortsTyped ==
    /\ serial \in [Scales -> Ports \cup {0}]
    /\ task \in [Scales -> [Threads -> Tasks]]
    /\ open \in [Ports -> Holders]
    /\ present \subseteq Ports
    /\ broken \subseteq Scales
    /\ DOMAIN yielding = Scales

(* A port whose handle somebody knows of.                                  *)
Known(p) == \/ open[p] \in {Free, Program}
            \/ \E s \in Scales : \/ open[p] = Connected(s) /\ serial[s] = p
                                 \/ \E t \in Threads : open[p] = Handle(s, t) /\ task[s][t].at = p

(* Who holds a port is told apart by its name.                             *)
LEMMA HoldersDiffer ==
    /\ \A s \in Scales, t \in Threads : /\ Connected(s) # Handle(s, t)
                                        /\ Free # Connected(s) /\ Program # Connected(s)
                                        /\ Free # Handle(s, t) /\ Program # Handle(s, t)
    /\ \A s, r \in Scales : Connected(s) = Connected(r) => s = r
    /\ \A s, r \in Scales : \A t, u \in Threads :
          /\ Handle(s, t) = Handle(r, u) => s = r /\ t = u
          /\ Connected(s) # Handle(r, u)
BY PortsAssumption DEF Connected, Handle, Free, Program, Threads

(***************************************************************************)
(* What an action may do to the threads: one of them changes, and a thread *)
(* that begins or waits holds no port it did not hold.                     *)
(***************************************************************************)
OthersGoOn(s, t) ==
    \A r \in Scales, u \in Threads : r # s \/ u # t => task'[r][u] = task[r][u]

LEMMA CandidatesArePorts ==
    ASSUME PortsTyped, NEW s \in Scales
    PROVE  /\ Candidates(s) \subseteq Ports
           /\ \A p \in Candidates(s) : Fixed[s] \in {0, p}
BY PortsAssumption DEF PortsTyped, Candidates

LEMMA TaskChanges ==
    ASSUME PortsTyped, NEW s \in Scales, NEW t \in Threads, NEW new \in Tasks,
           task' = [task EXCEPT ![s][t] = new]
    PROVE  /\ task' \in [Scales -> [Threads -> Tasks]]
           /\ OthersGoOn(s, t)
           /\ task'[s][t] = new
<1>1. task \in [Scales -> [Threads -> Tasks]]
  BY DEF PortsTyped
<1> HIDE DEF Tasks
<1>2. QED
  BY <1>1 DEF OthersGoOn

LEMMA BeginStep ==
    ASSUME PortsTyped, NEW s \in Scales, NEW t \in Threads, Begin(s, t)
    PROVE  /\ task' \in [Scales -> [Threads -> Tasks]]
           /\ OthersGoOn(s, t)
           /\ task'[s][t].at = task[s][t].at /\ task'[s][t].todo = Candidates(s)
<1>1. task' = [task EXCEPT ![s][t] = [task[s][t] EXCEPT !.todo = Candidates(s)]]
  BY DEF Begin
<1>2. task[s][t] \in Tasks
  BY DEF PortsTyped
<1> DEFINE new == [task[s][t] EXCEPT !.todo = Candidates(s)]
<1>3. new \in Tasks /\ new.at = task[s][t].at /\ new.todo = Candidates(s)
  BY <1>2, CandidatesArePorts DEF Tasks
<1> HIDE DEF new
<1>4. QED
  BY <1>1, <1>3, TaskChanges DEF new

LEMMA OpenStep ==
    ASSUME PortsTyped, NEW s \in Scales, NEW t \in Threads, Open(s, t)
    PROVE  \E p \in task[s][t].todo :
             /\ p \in Ports /\ task[s][t].at = 0
             /\ \/ /\ s \in Passive /\ open[p] = Free /\ Connect(s, t, p)
                \/ /\ open[p] = Free /\ open' = [open EXCEPT ![p] = Handle(s, t)]
                   /\ task' \in [Scales -> [Threads -> Tasks]] /\ OthersGoOn(s, t)
                   /\ task'[s][t].at = p /\ task'[s][t].todo = task[s][t].todo \ {p}
                   /\ UNCHANGED <<serial, broken, taken>>
                \/ /\ task' \in [Scales -> [Threads -> Tasks]] /\ OthersGoOn(s, t)
                   /\ task'[s][t].at = 0 /\ task'[s][t].todo = task[s][t].todo \ {p}
                   /\ UNCHANGED <<serial, broken, taken, open>>
<1>1. task[s][t] \in Tasks
  BY DEF PortsTyped
<1>2. PICK p \in task[s][t].todo :
        \/ s \in Passive /\ open[p] = Free /\ Connect(s, t, p)
        \/ /\ open[p] = Free /\ open' = [open EXCEPT ![p] = Handle(s, t)]
           /\ task' = [task EXCEPT ![s][t] = [todo |-> task[s][t].todo \ {p}, at |-> p]]
           /\ UNCHANGED <<serial, broken, taken>>
        \/ /\ task' = [task EXCEPT ![s][t] = [task[s][t] EXCEPT !.todo = task[s][t].todo \ {p}]]
           /\ UNCHANGED <<serial, broken, taken, open>>
  BY DEF Open
<1>3. p \in Ports /\ task[s][t].at = 0
  BY <1>1, <1>2 DEF Open, Tasks
<1> DEFINE waits == [todo |-> task[s][t].todo \ {p}, at |-> p]
           next  == [task[s][t] EXCEPT !.todo = task[s][t].todo \ {p}]
<1>4. waits \in Tasks /\ waits.at = p /\ waits.todo = task[s][t].todo \ {p}
  BY <1>1, <1>3 DEF Tasks
<1>5. next \in Tasks /\ next.at = 0 /\ next.todo = task[s][t].todo \ {p}
  BY <1>1, <1>3 DEF Tasks
<1> HIDE DEF waits, next
<1>6. CASE s \in Passive /\ open[p] = Free /\ Connect(s, t, p)
  BY <1>3, <1>6
<1>7. CASE /\ open[p] = Free /\ open' = [open EXCEPT ![p] = Handle(s, t)]
           /\ task' = [task EXCEPT ![s][t] = waits]
           /\ UNCHANGED <<serial, broken, taken>>
  BY <1>3, <1>4, <1>7, TaskChanges
<1>8. CASE /\ task' = [task EXCEPT ![s][t] = next]
           /\ UNCHANGED <<serial, broken, taken, open>>
  BY <1>3, <1>5, <1>8, TaskChanges
<1>9. QED
  BY <1>2, <1>6, <1>7, <1>8 DEF waits, next

LEMMA AnswerStep ==
    ASSUME PortsTyped, NEW s \in Scales, NEW t \in Threads, Answer(s, t)
    PROVE  \E p \in Ports :
             /\ task[s][t].at = p
             /\ \/ open[p] = Handle(s, t) /\ <<s, p>> \in Speaks /\ Connect(s, t, p)
                \/ /\ task' \in [Scales -> [Threads -> Tasks]] /\ OthersGoOn(s, t)
                   /\ task'[s][t].at = 0 /\ task'[s][t].todo = task[s][t].todo
                   /\ open' = IF open[p] = Handle(s, t) THEN [open EXCEPT ![p] = Free] ELSE open
                   /\ UNCHANGED <<serial, broken, taken>>
<1> DEFINE p    == task[s][t].at
           next == [task[s][t] EXCEPT !.at = 0]
<1>1. task[s][t] \in Tasks
  BY DEF PortsTyped
<1>2. p \in Ports
  BY <1>1 DEF Answer, Tasks
<1>3. next \in Tasks /\ next.at = 0 /\ next.todo = task[s][t].todo
  BY <1>1 DEF Tasks
<1>4. \/ open[p] = Handle(s, t) /\ <<s, p>> \in Speaks /\ Connect(s, t, p)
      \/ /\ task' = [task EXCEPT ![s][t] = next]
         /\ open' = IF open[p] = Handle(s, t) THEN [open EXCEPT ![p] = Free] ELSE open
         /\ UNCHANGED <<serial, broken, taken>>
  BY DEF Answer
<1> HIDE DEF next
<1>5. CASE open[p] = Handle(s, t) /\ <<s, p>> \in Speaks /\ Connect(s, t, p)
  BY <1>2, <1>5
<1>6. CASE /\ task' = [task EXCEPT ![s][t] = next]
           /\ open' = IF open[p] = Handle(s, t) THEN [open EXCEPT ![p] = Free] ELSE open
           /\ UNCHANGED <<serial, broken, taken>>
  BY <1>2, <1>3, <1>6, TaskChanges
<1>7. QED
  BY <1>4, <1>5, <1>6

LEMMA ConnectStep ==
    ASSUME PortsTyped, NEW s \in Scales, NEW t \in Threads, NEW p \in Ports, Connect(s, t, p)
    PROVE  /\ task' \in [Scales -> [Threads -> Tasks]] /\ OthersGoOn(s, t)
           /\ task'[s][t].at = 0 /\ task'[s][t].todo = {}
<1>1. Idle \in Tasks /\ Idle.at = 0 /\ Idle.todo = {}
  BY DEF Idle, Tasks
<1>2. task' = [task EXCEPT ![s][t] = Idle]
  BY DEF Connect
<1> HIDE DEF Tasks
<1>3. QED
  BY <1>1, <1>2, TaskChanges

(***************************************************************************)
(* No handle is lost.                                                      *)
(***************************************************************************)
(* A port that stays as it is stays known, as long as the scale or the     *)
(* thread that holds it does not turn to another port.                     *)
LEMMA StaysKnown ==
    ASSUME NEW p \in Ports, Known(p), open'[p] = open[p],
           \A s \in Scales : open[p] = Connected(s) /\ serial[s] = p => serial'[s] = p,
           \A s \in Scales, t \in Threads :
               open[p] = Handle(s, t) /\ task[s][t].at = p => task'[s][t].at = p
    PROVE  Known(p)'
BY DEF Known

LEMMA KnownIsProperty == EveryHandleIsKnown <=> \A p \in Ports : Known(p)
BY DEF EveryHandleIsKnown, Known

LEMMA ReleasedPorts ==
    ASSUME PortsTyped, NEW s \in Scales, NEW p \in Ports \cup {0}
    PROVE  /\ Released(s, p) \in [Ports -> Holders]
           /\ \A q \in Ports : /\ Released(s, p)[q] \in {open[q], Free}
                               /\ q # p => Released(s, p)[q] = open[q]
                               /\ q = p => Released(s, p)[q] # Connected(s)
<1>1. CASE p # 0 /\ open[p] = Connected(s)
  <2>1. p \in Ports /\ Released(s, p) = [open EXCEPT ![p] = Free]
    BY <1>1 DEF Released
  <2>2. Free \in Holders /\ Free # Connected(s)
    BY HoldersDiffer DEF Holders, Threads
  <2>3. QED
    BY <2>1, <2>2 DEF PortsTyped
<1>2. CASE ~ (p # 0 /\ open[p] = Connected(s))
  <2>1. Released(s, p) = open
    BY <1>2 DEF Released
  <2>2. QED
    BY <1>2, <2>1, PortsAssumption DEF PortsTyped
<1>3. QED
  BY <1>1, <1>2

KnownInv == PortsTyped /\ \A p \in Ports : Known(p)

LEMMA ConnectKeepsHandles ==
    ASSUME KnownInv, NEW s \in Scales, NEW t \in Threads, NEW p \in Ports,
           open[p] \in {Free, Handle(s, t)}, task[s][t].at \in {0, p}, Connect(s, t, p),
           UNCHANGED <<present, yielding>>
    PROVE  KnownInv'
<1> DEFINE freed == Released(s, serial[s])
<1>1. serial[s] \in Ports \cup {0} /\ PortsTyped
  BY DEF KnownInv, PortsTyped
<1>2. /\ freed \in [Ports -> Holders]
      /\ \A q \in Ports : /\ freed[q] \in {open[q], Free}
                          /\ q # serial[s] => freed[q] = open[q]
                          /\ q = serial[s] => freed[q] # Connected(s)
  BY <1>1, ReleasedPorts
<1> HIDE DEF freed
<1>3. /\ serial' = [serial EXCEPT ![s] = p] /\ broken' = broken \ {s}
      /\ open' = [freed EXCEPT ![p] = Connected(s)]
  BY DEF Connect, freed
<1>4. Connected(s) \in Holders
  BY DEF Holders
<1>5. /\ open' \in [Ports -> Holders] /\ open'[p] = Connected(s)
      /\ \A q \in Ports : q # p => open'[q] = freed[q]
  BY <1>2, <1>3, <1>4
<1>6. /\ serial' \in [Scales -> Ports \cup {0}] /\ serial'[s] = p
      /\ \A r \in Scales : r # s => serial'[r] = serial[r]
  BY <1>1, <1>3 DEF PortsTyped
<1>7. /\ task' \in [Scales -> [Threads -> Tasks]] /\ OthersGoOn(s, t)
  BY <1>1, ConnectStep
<1>8. PortsTyped'
  BY <1>1, <1>3, <1>5, <1>6, <1>7 DEF PortsTyped
<1>9. ASSUME NEW q \in Ports PROVE Known(q)'
  <2>1. CASE q = p
    BY <1>5, <1>6, <2>1 DEF Known
  <2>2. CASE q # p /\ freed[q] = Free
    BY <1>5, <2>2 DEF Known
  <2>3. CASE q # p /\ freed[q] = open[q] /\ open[q] # Free
    <3>1. open'[q] = open[q] /\ Known(q)
      BY <1>5, <2>3 DEF KnownInv
    <3>2. ASSUME NEW r \in Scales, open[q] = Connected(r), serial[r] = q PROVE serial'[r] = q
      BY <1>2, <1>6, <2>3, <3>2
    <3>3. ASSUME NEW r \in Scales, NEW u \in Threads, open[q] = Handle(r, u), task[r][u].at = q
          PROVE  task'[r][u].at = q
      <4>1. r # s \/ u # t
        BY <2>3, <3>3, PortsAssumption
      <4>2. QED
        BY <1>7, <3>3, <4>1 DEF OthersGoOn
    <3>4. QED
      BY <3>1, <3>2, <3>3, StaysKnown
  <2>4. QED
    BY <1>2, <2>1, <2>2, <2>3
<1>10. QED
  BY <1>8, <1>9 DEF KnownInv

(* The connections and the threads stay, a port may become free.           *)
LEMMA FreeingKeepsHandles ==
    ASSUME KnownInv, open' \in [Ports -> Holders], present' \subseteq Ports, broken' \subseteq Scales,
           UNCHANGED serial, DOMAIN yielding' = Scales,
           task' \in [Scales -> [Threads -> Tasks]],
           \A s \in Scales, t \in Threads : task'[s][t].at = task[s][t].at,
           \A p \in Ports : open'[p] \in {open[p], Free, Program}
    PROVE  KnownInv'
<1>1. PortsTyped'
  BY DEF KnownInv, PortsTyped
<1>2. ASSUME NEW p \in Ports PROVE Known(p)'
  <2>1. CASE open'[p] \in {Free, Program}
    BY <2>1 DEF Known
  <2>2. CASE open'[p] = open[p]
    BY <2>2, StaysKnown DEF KnownInv
  <2>3. QED
    BY <2>1, <2>2
<1>3. QED
  BY <1>1, <1>2 DEF KnownInv

LEMMA DropKeepsHandles ==
    ASSUME KnownInv, NEW s \in Scales, Drop(s), UNCHANGED <<task, present>>,
           DOMAIN yielding' = Scales
    PROVE  KnownInv'
<1>1. serial[s] \in Ports \cup {0} /\ PortsTyped
  BY DEF KnownInv, PortsTyped
<1>2. /\ open' \in [Ports -> Holders]
      /\ \A q \in Ports : /\ open'[q] \in {open[q], Free}
                          /\ q # serial[s] => open'[q] = open[q]
                          /\ q = serial[s] => open'[q] # Connected(s)
  BY <1>1, ReleasedPorts DEF Drop
<1>3. /\ serial' \in [Scales -> Ports \cup {0}]
      /\ \A r \in Scales : r # s => serial'[r] = serial[r]
      /\ broken' = broken \ {s}
  BY <1>1 DEF Drop, PortsTyped
<1>4. PortsTyped'
  BY <1>1, <1>2, <1>3 DEF PortsTyped
<1>5. ASSUME NEW q \in Ports PROVE Known(q)'
  <2>1. CASE open'[q] = Free
    BY <2>1 DEF Known
  <2>2. CASE open'[q] = open[q] /\ open[q] # Free
    BY <1>2, <1>3, <2>2, StaysKnown DEF KnownInv
  <2>3. QED
    BY <1>2, <2>1, <2>2
<1>6. QED
  BY <1>4, <1>5 DEF KnownInv

LEMMA HandleStep ==
    ASSUME KnownInv, [Next]_vars
    PROVE  KnownInv'
<1>0. PortsTyped
  BY DEF KnownInv
<1>1. ASSUME NEW s \in Scales, Main(s) \/ Reader(s) \/ Menu(s) \/ TakeBack(s) PROVE KnownInv'
  <2>1. PICK t \in Threads : Begin(s, t)
    BY <1>1 DEF Main, Reader, Menu, TakeBack, Threads
  <2>2. UNCHANGED <<serial, broken, open, present>> /\ DOMAIN yielding' = Scales
    BY <1>0, <1>1 DEF Main, Reader, Menu, TakeBack, PortsTyped
  <2>3. /\ task' \in [Scales -> [Threads -> Tasks]]
        /\ \A r \in Scales, u \in Threads : task'[r][u].at = task[r][u].at
    BY <1>0, <2>1, BeginStep DEF OthersGoOn
  <2>4. QED
    BY <1>0, <2>2, <2>3, FreeingKeepsHandles DEF PortsTyped
<1>2. ASSUME NEW s \in Scales, NEW t \in Threads, Open(s, t) PROVE KnownInv'
  <2>1. UNCHANGED <<present, yielding>>
    BY <1>2 DEF Open
  <2>2. PICK p \in Ports :
          /\ task[s][t].at = 0
          /\ \/ open[p] = Free /\ Connect(s, t, p)
             \/ /\ open[p] = Free /\ open' = [open EXCEPT ![p] = Handle(s, t)]
                /\ task' \in [Scales -> [Threads -> Tasks]] /\ OthersGoOn(s, t)
                /\ task'[s][t].at = p /\ UNCHANGED <<serial, broken, taken>>
             \/ /\ task' \in [Scales -> [Threads -> Tasks]] /\ OthersGoOn(s, t)
                /\ task'[s][t].at = 0 /\ UNCHANGED <<serial, broken, taken, open>>
    BY <1>0, <1>2, OpenStep
  <2>3. CASE open[p] = Free /\ Connect(s, t, p)
    BY <2>1, <2>2, <2>3, ConnectKeepsHandles
  <2>4. CASE /\ open[p] = Free /\ open' = [open EXCEPT ![p] = Handle(s, t)]
             /\ task' \in [Scales -> [Threads -> Tasks]] /\ OthersGoOn(s, t)
             /\ task'[s][t].at = p /\ UNCHANGED <<serial, broken, taken>>
    <3>1. Handle(s, t) \in Holders
      BY DEF Holders
    <3>2. /\ open' \in [Ports -> Holders] /\ open'[p] = Handle(s, t)
          /\ \A q \in Ports : q # p => open'[q] = open[q]
      BY <1>0, <2>4, <3>1 DEF PortsTyped
    <3>3. PortsTyped'
      BY <1>0, <2>1, <2>4, <3>2 DEF PortsTyped
    <3>4. Known(p)'
      BY <2>4, <3>2 DEF Known
    <3>5. ASSUME NEW q \in Ports, q # p PROVE Known(q)'
      <4>1. ASSUME NEW r \in Scales, NEW u \in Threads, task[r][u].at = q
            PROVE  task'[r][u].at = q
        BY <2>2, <2>4, <4>1, PortsAssumption DEF OthersGoOn
      <4>2. Known(q) /\ open'[q] = open[q] /\ serial' = serial
        BY <2>4, <3>2, <3>5 DEF KnownInv
      <4>3. QED
        BY <4>1, <4>2, StaysKnown
    <3>6. QED
      BY <3>3, <3>4, <3>5 DEF KnownInv
  <2>5. CASE /\ task' \in [Scales -> [Threads -> Tasks]] /\ OthersGoOn(s, t)
             /\ task'[s][t].at = 0 /\ UNCHANGED <<serial, broken, taken, open>>
    <3>1. \A r \in Scales, u \in Threads : task'[r][u].at = task[r][u].at
      BY <2>2, <2>5 DEF OthersGoOn
    <3>2. QED
      BY <1>0, <2>1, <2>5, <3>1, FreeingKeepsHandles DEF PortsTyped
  <2>6. QED
    BY <2>2, <2>3, <2>4, <2>5
<1>3. ASSUME NEW s \in Scales, NEW t \in Threads, Answer(s, t) PROVE KnownInv'
  <2>1. UNCHANGED <<present, yielding>>
    BY <1>3 DEF Answer
  <2>2. PICK p \in Ports :
          /\ task[s][t].at = p
          /\ \/ open[p] = Handle(s, t) /\ Connect(s, t, p)
             \/ /\ task' \in [Scales -> [Threads -> Tasks]] /\ OthersGoOn(s, t)
                /\ open' = IF open[p] = Handle(s, t) THEN [open EXCEPT ![p] = Free] ELSE open
                /\ UNCHANGED <<serial, broken, taken>>
    BY <1>0, <1>3, AnswerStep
  <2>3. CASE open[p] = Handle(s, t) /\ Connect(s, t, p)
    BY <2>1, <2>2, <2>3, ConnectKeepsHandles
  <2>4. CASE /\ task' \in [Scales -> [Threads -> Tasks]] /\ OthersGoOn(s, t)
             /\ open' = IF open[p] = Handle(s, t) THEN [open EXCEPT ![p] = Free] ELSE open
             /\ UNCHANGED <<serial, broken, taken>>
    <3>1. Free \in Holders
      BY DEF Holders
    <3>2. /\ open' \in [Ports -> Holders] /\ open'[p] # Handle(s, t)
          /\ \A q \in Ports : open'[q] \in {open[q], Free} /\ (q # p => open'[q] = open[q])
      BY <1>0, <2>4, <3>1, HoldersDiffer DEF PortsTyped
    <3>3. PortsTyped'
      BY <1>0, <2>1, <2>4, <3>2 DEF PortsTyped
    <3>4. ASSUME NEW q \in Ports PROVE Known(q)'
      <4>1. CASE open'[q] = Free
        BY <4>1 DEF Known
      <4>2. CASE open'[q] = open[q]
        <5>1. ASSUME NEW r \in Scales, NEW u \in Threads, open[q] = Handle(r, u), task[r][u].at = q
              PROVE  task'[r][u].at = q
          <6>1. r # s \/ u # t
            BY <2>2, <3>2, <4>2, <5>1
          <6>2. QED
            BY <2>4, <5>1, <6>1 DEF OthersGoOn
        <5>2. Known(q) /\ serial' = serial
          BY <2>4 DEF KnownInv
        <5>3. QED
          BY <4>2, <5>1, <5>2, StaysKnown
      <4>3. QED
        BY <3>2, <4>1, <4>2
    <3>5. QED
      BY <3>3, <3>4 DEF KnownInv
  <2>5. QED
    BY <2>2, <2>3, <2>4
<1>4. ASSUME NEW s \in Scales, ReadFails(s) \/ Yield(s) PROVE KnownInv'
  <2>1. Drop(s) /\ UNCHANGED <<task, present>> /\ DOMAIN yielding' = Scales
    BY <1>0, <1>4 DEF ReadFails, Yield, PortsTyped
  <2>2. QED
    BY <2>1, DropKeepsHandles
<1>5. CASE World
  <2>1. UNCHANGED <<serial, task, yielding>>
    BY <1>5 DEF World, ProgramStarts, ProgramOpens, ProgramEnds, Unplug, Plug
  <2>2. present' \subseteq Ports /\ broken' \subseteq Scales
    BY <1>0, <1>5 DEF World, ProgramStarts, ProgramOpens, ProgramEnds, Unplug, Plug, PortsTyped
  <2>3. open' = open \/ \E p \in Ports, who \in {Free, Program} : open' = [open EXCEPT ![p] = who]
    BY <1>5, PortsAssumption DEF World, ProgramStarts, ProgramOpens, ProgramEnds, Unplug, Plug
  <2>4. open' \in [Ports -> Holders] /\ \A p \in Ports : open'[p] \in {open[p], Free, Program}
    BY <1>0, <2>3 DEF PortsTyped, Holders
  <2>5. QED
    BY <1>0, <2>1, <2>2, <2>4, FreeingKeepsHandles DEF PortsTyped
<1>6. CASE UNCHANGED vars
  BY <1>0, <1>6, FreeingKeepsHandles DEF PortsTyped, vars
<1>7. QED
  BY <1>1, <1>2, <1>3, <1>4, <1>5, <1>6 DEF Next, Working

LEMMA HandlesAtStart == Init => KnownInv
<1> SUFFICES ASSUME Init PROVE KnownInv
  OBVIOUS
<1>1. Idle \in Tasks /\ Free \in Holders
  BY DEF Idle, Tasks, Holders
<1>2. /\ serial \in [Scales -> Ports \cup {0}] /\ open \in [Ports -> Holders]
      /\ present \subseteq Ports /\ broken \subseteq Scales /\ DOMAIN yielding = Scales
      /\ \A p \in Ports : open[p] = Free
  BY <1>1 DEF Init
<1>3. task \in [Scales -> [Threads -> Tasks]]
  <2>1. task = [s \in Scales |-> [t \in Threads |-> Idle]]
    BY DEF Init
  <2> HIDE DEF Tasks
  <2>2. QED
    BY <1>1, <2>1
<1>4. QED
  BY <1>2, <1>3 DEF KnownInv, PortsTyped, Known

(* No handle is lost: whatever connects, drops, yields, is unplugged or    *)
(* taken by the older program, an open port belongs to a session that      *)
(* knows it or to a connect() under way (agent.py, _probe and connect).    *)
THEOREM NoHandleIsLost == Spec => []EveryHandleIsKnown
<1>1. KnownInv /\ [Next]_vars => KnownInv'
  BY HandleStep
<1>2. KnownInv => EveryHandleIsKnown
  BY KnownIsProperty DEF KnownInv
<1>3. QED
  BY <1>1, <1>2, HandlesAtStart, PTL DEF Spec

(***************************************************************************)
(* The shared set of taken ports.                                          *)
(***************************************************************************)
(* A connect tries only ports its scale is configured for.                 *)
Tries(s, t) == \A p \in Ports : p \in task[s][t].todo \/ p = task[s][t].at => Fixed[s] \in {0, p}
ConnectedRightly == \A s \in Scales : serial[s] # 0 => MayConnect(s, serial[s])
TakenInv ==
    /\ KnownInv
    /\ \A s \in Scales, t \in Threads : Tries(s, t)
    /\ ConnectedRightly
    /\ TakenIsConnected

LEMMA ConnectTakes ==
    ASSUME OnePortEach, TakenInv, NEW s \in Scales, NEW t \in Threads, NEW p \in Ports,
           MayConnect(s, p), Connect(s, t, p), KnownInv'
    PROVE  TakenInv'
<1>1. PortsTyped
  BY DEF TakenInv, KnownInv
<1>2. OthersGoOn(s, t) /\ task'[s][t].at = 0 /\ task'[s][t].todo = {}
  BY <1>1, ConnectStep
<1>3. \A r \in Scales, u \in Threads : Tries(r, u)'
  BY <1>2, PortsAssumption DEF TakenInv, Tries, OthersGoOn
<1>4. /\ serial \in [Scales -> Ports \cup {0}]
      /\ serial' = [serial EXCEPT ![s] = p] /\ taken' = taken \cup {p}
  BY <1>1 DEF Connect, PortsTyped
<1>5. serial'[s] = p /\ \A r \in Scales : r # s => serial'[r] = serial[r]
  BY <1>4
<1>6. ConnectedRightly'
  BY <1>5 DEF TakenInv, ConnectedRightly, MayConnect
<1>7. serial[s] \in {0, p}
  BY <1>4 DEF TakenInv, ConnectedRightly, OnePortEach
<1>8. taken = {serial[r] : r \in Scales} \ {0}
  BY DEF TakenInv, TakenIsConnected
<1>9. {serial'[r] : r \in Scales} \ {0} = ({serial[r] : r \in Scales} \ {0}) \cup {p}
  BY <1>5, <1>7, PortsAssumption
<1>10. QED
  BY <1>3, <1>4, <1>6, <1>8, <1>9 DEF TakenInv, TakenIsConnected

LEMMA DropReturns ==
    ASSUME OnePortEach, TakenInv, NEW s \in Scales, Drop(s), UNCHANGED task, KnownInv'
    PROVE  TakenInv'
<1>1. /\ serial \in [Scales -> Ports \cup {0}]
      /\ serial' = [serial EXCEPT ![s] = 0] /\ taken' = taken \ {serial[s]}
  BY DEF Drop, TakenInv, KnownInv, PortsTyped
<1>2. serial'[s] = 0 /\ \A r \in Scales : r # s => serial'[r] = serial[r]
  BY <1>1
<1>3. ConnectedRightly'
  BY <1>2 DEF TakenInv, ConnectedRightly, MayConnect
<1>4. \A r \in Scales : r # s /\ serial[r] # 0 => serial[r] # serial[s]
  BY <1>1 DEF TakenInv, ConnectedRightly, OnePortEach
<1>5. taken = {serial[r] : r \in Scales} \ {0}
  BY DEF TakenInv, TakenIsConnected
<1>6. {serial'[r] : r \in Scales} \ {0} = ({serial[r] : r \in Scales} \ {0}) \ {serial[s]}
  BY <1>2, <1>4
<1>7. QED
  BY <1>1, <1>3, <1>5, <1>6 DEF TakenInv, TakenIsConnected, Tries

(* The connections stay, a thread may turn to a port of its scale.         *)
LEMMA TryingTakesNothing ==
    ASSUME TakenInv, UNCHANGED <<serial, taken>>, KnownInv',
           NEW s \in Scales, NEW t \in Threads, OthersGoOn(s, t),
           \A p \in Ports : p \in task'[s][t].todo \/ p = task'[s][t].at => Fixed[s] \in {0, p}
    PROVE  TakenInv'
<1>1. \A r \in Scales, u \in Threads : Tries(r, u)'
  BY DEF TakenInv, Tries, OthersGoOn
<1>2. QED
  BY <1>1 DEF TakenInv, TakenIsConnected, ConnectedRightly, MayConnect

LEMMA TakenStep ==
    ASSUME OnePortEach, TakenInv, [Next]_vars
    PROVE  TakenInv'
<1>1. KnownInv' /\ PortsTyped
  BY HandleStep DEF TakenInv, KnownInv
<1>2. ASSUME NEW s \in Scales, Main(s) \/ Reader(s) \/ Menu(s) \/ TakeBack(s) PROVE TakenInv'
  <2>1. PICK t \in Threads : Begin(s, t)
    BY <1>2 DEF Main, Reader, Menu, TakeBack, Threads
  <2>2. UNCHANGED <<serial, taken>>
    BY <1>2 DEF Main, Reader, Menu, TakeBack
  <2>3. /\ OthersGoOn(s, t)
        /\ task'[s][t].at = task[s][t].at /\ task'[s][t].todo = Candidates(s)
    BY <1>1, <2>1, BeginStep
  <2>4. Tries(s, t)
    BY DEF TakenInv
  <2>5. \A p \in Ports : p \in task'[s][t].todo \/ p = task'[s][t].at => Fixed[s] \in {0, p}
    BY <1>1, <2>3, <2>4, CandidatesArePorts DEF Tries
  <2>6. QED
    BY <1>1, <2>2, <2>3, <2>5, TryingTakesNothing
<1>3. ASSUME NEW s \in Scales, NEW t \in Threads, Open(s, t) PROVE TakenInv'
  <2>1. Tries(s, t)
    BY DEF TakenInv
  <2>2. PICK p \in task[s][t].todo :
          /\ p \in Ports
          /\ \/ s \in Passive /\ Connect(s, t, p)
             \/ /\ OthersGoOn(s, t) /\ task'[s][t].at \in {0, p}
                /\ task'[s][t].todo = task[s][t].todo \ {p}
                /\ UNCHANGED <<serial, taken>>
    BY <1>1, <1>3, OpenStep
  <2>3. Fixed[s] \in {0, p}
    BY <2>1, <2>2 DEF Tries
  <2>4. CASE s \in Passive /\ Connect(s, t, p)
    BY <1>1, <2>2, <2>3, <2>4, ConnectTakes DEF MayConnect
  <2>5. CASE /\ OthersGoOn(s, t) /\ task'[s][t].at \in {0, p}
             /\ task'[s][t].todo = task[s][t].todo \ {p}
             /\ UNCHANGED <<serial, taken>>
    <3>1. \A q \in Ports : q \in task'[s][t].todo \/ q = task'[s][t].at => Fixed[s] \in {0, q}
      BY <2>1, <2>3, <2>5, PortsAssumption DEF Tries
    <3>2. QED
      BY <1>1, <2>5, <3>1, TryingTakesNothing
  <2>6. QED
    BY <2>2, <2>4, <2>5
<1>4. ASSUME NEW s \in Scales, NEW t \in Threads, Answer(s, t) PROVE TakenInv'
  <2>1. Tries(s, t)
    BY DEF TakenInv
  <2>2. PICK p \in Ports :
          /\ task[s][t].at = p
          /\ \/ <<s, p>> \in Speaks /\ Connect(s, t, p)
             \/ /\ OthersGoOn(s, t) /\ task'[s][t].at = 0
                /\ task'[s][t].todo = task[s][t].todo
                /\ UNCHANGED <<serial, taken>>
    BY <1>1, <1>4, AnswerStep
  <2>3. CASE <<s, p>> \in Speaks /\ Connect(s, t, p)
    BY <1>1, <2>1, <2>2, <2>3, ConnectTakes DEF MayConnect, Tries
  <2>4. CASE /\ OthersGoOn(s, t) /\ task'[s][t].at = 0
             /\ task'[s][t].todo = task[s][t].todo
             /\ UNCHANGED <<serial, taken>>
    <3>1. \A q \in Ports : q \in task'[s][t].todo \/ q = task'[s][t].at => Fixed[s] \in {0, q}
      BY <2>1, <2>4, PortsAssumption DEF Tries
    <3>2. QED
      BY <1>1, <2>4, <3>1, TryingTakesNothing
  <2>5. QED
    BY <2>2, <2>3, <2>4
<1>5. ASSUME NEW s \in Scales, ReadFails(s) \/ Yield(s) PROVE TakenInv'
  BY <1>1, <1>5, DropReturns DEF ReadFails, Yield
<1>6. CASE World \/ UNCHANGED vars
  <2>1. UNCHANGED <<serial, taken, task>>
    BY <1>6 DEF World, ProgramStarts, ProgramOpens, ProgramEnds, Unplug, Plug, vars
  <2>2. QED
    BY <1>1, <2>1 DEF TakenInv, Tries, TakenIsConnected, ConnectedRightly, MayConnect
<1>7. QED
  BY <1>2, <1>3, <1>4, <1>5, <1>6 DEF Next, Working

(* No port is lost: taken_ports is exact, so a port that is marked as      *)
(* taken is connected and is tried again once it is not (agent.py,         *)
(* connect, _drop_connection), where a device answers one scale.           *)
THEOREM PortsStayUsable == ASSUME OnePortEach PROVE Spec => []NoPortIsLost
<1>1. Init => TakenInv
  <2> SUFFICES ASSUME Init PROVE TakenInv
    OBVIOUS
  <2>1. KnownInv
    BY HandlesAtStart
  <2>2. /\ \A s \in Scales : serial[s] = 0
        /\ \A s \in Scales, t \in Threads : task[s][t].at = 0 /\ task[s][t].todo = {}
        /\ taken = {}
    BY DEF Init, Idle
  <2>3. QED
    BY <2>1, <2>2, PortsAssumption DEF TakenInv, Tries, ConnectedRightly, TakenIsConnected
<1>2. TakenInv /\ [Next]_vars => TakenInv'
  BY TakenStep
<1>3. TakenInv => NoPortIsLost
  BY KnownIsProperty DEF TakenInv, KnownInv, NoPortIsLost
<1>4. QED
  BY <1>1, <1>2, <1>3, PTL DEF Spec

(***************************************************************************)
(* The events.  A line stands in one event at most; what is past the       *)
(* cursor of the page, or in an answer under way, was put into no row.     *)
(***************************************************************************)
Events  == [id : Nat, line : 1..MaxLines]
Answers == [items : SUBSET Events, seq : Nat]
Polls   == [no : Nat, after : Nat, cursorOnly : BOOLEAN, answer : Answers]
Screens == [open : BOOLEAN, after : Nat, synced : BOOLEAN, ready : BOOLEAN, blocked : BOOLEAN]
OfOneLine(events) == \A e, f \in events : e.line = f.line => e = f

EventsTyped ==
    /\ lines \in 0..MaxLines /\ since \in Nat /\ since <= lines
    /\ bus = [seq |-> bus.seq, kept |-> bus.kept, last |-> bus.last]
    /\ bus.seq \in Nat /\ bus.seq <= lines /\ bus.kept \subseteq Events
    /\ screen \in Screens /\ polls \subseteq Polls /\ crossed \in BOOLEAN
    /\ rows \in [1..MaxLines -> Nat]

LinesOnce ==
    /\ \A e \in bus.kept : e.id <= bus.seq /\ e.line <= lines
    /\ OfOneLine(bus.kept)
    /\ \A p \in polls : /\ OfOneLine(p.answer.items)
                        /\ \A e \in p.answer.items : e.line <= lines
    /\ \A n \in 1..MaxLines : n > lines => rows[n] = 0
    /\ ~ screen.open => polls = {} /\ ~ screen.synced

(* An event past the cursor; an answer under way and what came after it.   *)
Unfilled(e) == rows[e.line] = 0
PastCursor(e) ==
    /\ Unfilled(e)
    /\ screen.synced /\ (screen.ready \/ polls # {}) => e.line > since
InAnswer(e)   == Unfilled(e) /\ (screen.synced => e.line > since)
PastAnswer(e, events) ==
    /\ Unfilled(e) /\ \A f \in events : f.line # e.line
    /\ screen.ready => e.line > since

OnePoll ==
    /\ \A p, q \in polls : p = q
    /\ \A n \in 1..MaxLines : rows[n] <= 1
    /\ \A e \in bus.kept : e.id > screen.after => PastCursor(e)
    /\ \A p \in polls :
         /\ p.after = screen.after
         /\ p.answer # NoAnswer =>
              /\ \A e \in p.answer.items : InAnswer(e)
              /\ \A e \in bus.kept : e.id > p.answer.seq => PastAnswer(e, p.answer.items)

EventsInv == EventsTyped /\ LinesOnce /\ (~ crossed => OnePoll)
EventsKept == EventsInv' /\ OldPrintsIgnoredNow

LEMMA EventsStart == ASSUME EventsInit PROVE EventsInv
<1>1. EventsTyped
  <2>1. bus = [seq |-> bus.seq, kept |-> bus.kept, last |-> bus.last] /\ bus.seq = 0 /\ bus.kept = {}
    BY DEF EventsInit, NewBus
  <2>2. screen \in Screens
    BY DEF EventsInit, Screens
  <2>3. rows \in [1..MaxLines -> Nat] /\ lines \in 0..MaxLines /\ since \in Nat /\ since <= lines
    BY EventsAssumption DEF EventsInit
  <2>4. crossed \in BOOLEAN /\ polls \subseteq Polls
    BY DEF EventsInit
  <2> QED
    BY <2>1, <2>2, <2>3, <2>4 DEF EventsTyped
<1>2. LinesOnce /\ OnePoll
  BY DEF EventsInit, LinesOnce, OnePoll, NewBus, OfOneLine
<1> QED
  BY <1>1, <1>2 DEF EventsInv

LEMMA CountsOne ==
    ASSUME NEW events, OfOneLine(events), NEW n
    PROVE  Cardinality({e \in events : e.line = n}) = IF \E e \in events : e.line = n THEN 1 ELSE 0
<1>1. CASE \E e \in events : e.line = n
  <2>1. PICK e \in events : e.line = n
    BY <1>1
  <2>2. {f \in events : f.line = n} = {e}
    BY <2>1 DEF OfOneLine
  <2> QED
    BY <1>1, <2>2, FS_Singleton
<1>2. CASE ~ \E e \in events : e.line = n
  <2>1. {f \in events : f.line = n} = {}
    BY <1>2
  <2> QED
    BY <1>2, <2>1, FS_EmptySet
<1> QED
  BY <1>1, <1>2

(* A step of the agent: the events it keeps are those it had, or the line  *)
(* that has just come.                                                     *)
LEMMA AgentStep ==
    ASSUME EventsInv, UNCHANGED <<screen, since, polls, crossed, rows>>,
           lines' \in {lines, lines + 1}, lines' <= MaxLines,
           bus' = [seq |-> bus'.seq, kept |-> bus'.kept, last |-> bus'.last],
           bus'.seq \in Nat, bus'.seq <= lines',
           \A e \in bus'.kept : \/ e \in bus.kept /\ e.id <= bus'.seq
                                \/ lines' = lines + 1 /\ e = [id |-> bus'.seq, line |-> lines']
    PROVE  EventsKept
<1>1. /\ lines \in Nat /\ since \in Nat /\ since <= lines /\ bus.kept \subseteq Events
      /\ \A e \in bus.kept : e.line <= lines /\ e.line \in Nat
      /\ \A p \in polls : \A e \in p.answer.items : e.line <= lines /\ e.line \in Nat
  BY DEF EventsInv, EventsTyped, LinesOnce, Events, Polls, Answers
<1>2. EventsTyped'
  <2>1. bus'.kept \subseteq Events
    BY <1>1 DEF Events
  <2> QED
    BY <1>1, <2>1 DEF EventsInv, EventsTyped
<1>3. \A e \in bus'.kept : \/ e \in bus.kept
                           \/ lines' = lines + 1 /\ e.line = lines + 1 /\ e.line \in 1..MaxLines
  BY <1>1
<1>4. LinesOnce'
  <2>1. \A e \in bus'.kept : e.id <= bus'.seq /\ e.line <= lines'
    BY <1>1
  <2>2. OfOneLine(bus'.kept)
    BY <1>1 DEF EventsInv, LinesOnce, OfOneLine
  <2>3. \A p \in polls : /\ OfOneLine(p.answer.items)
                         /\ \A e \in p.answer.items : e.line <= lines'
    BY <1>1 DEF EventsInv, LinesOnce
  <2>4. \A n \in 1..MaxLines : n > lines' => rows[n] = 0
    BY <1>1 DEF EventsInv, LinesOnce
  <2> QED
    BY <2>1, <2>2, <2>3, <2>4 DEF EventsInv, LinesOnce
<1>5. ASSUME ~ crossed PROVE OnePoll'
  <2>1. OnePoll
    BY <1>5 DEF EventsInv
  <2>2. \A e \in bus'.kept : e \notin bus.kept => /\ rows[e.line] = 0 /\ e.line > since
                                                 /\ \A p \in polls : \A f \in p.answer.items : f.line # e.line
    BY <1>1, <1>3 DEF EventsInv, LinesOnce
  <2> QED
    BY <2>1, <2>2 DEF OnePoll, PastCursor, InAnswer, PastAnswer, Unfilled
<1> QED
  BY <1>2, <1>4, <1>5 DEF EventsKept, EventsInv, OldPrintsIgnoredNow

LEMMA EventsKeep == ASSUME EventsInv, [EventsNext]_eventVars PROVE EventsKept
<1>0. /\ lines \in Nat /\ lines <= MaxLines /\ since \in Nat /\ since <= lines /\ MaxLines \in Nat
      /\ bus = [seq |-> bus.seq, kept |-> bus.kept, last |-> bus.last]
      /\ bus.seq \in Nat /\ bus.seq <= lines /\ bus.kept \subseteq Events
      /\ screen \in Screens /\ polls \subseteq Polls /\ crossed \in BOOLEAN
      /\ rows \in [1..MaxLines -> Nat]
      /\ \A e \in bus.kept : e.id <= bus.seq /\ e.id \in Nat
  BY EventsAssumption DEF EventsInv, EventsTyped, LinesOnce, Events
<1>1. ASSUME NEW v \in Values, NEW stable \in BOOLEAN, Line(v, stable) PROVE EventsKept
  <2>1. UNCHANGED <<screen, since, polls, crossed, rows>> /\ lines' = lines + 1 /\ lines' <= MaxLines
    BY <1>0, <1>1 DEF Line
  <2>2. CASE UNCHANGED bus
    BY <1>0, <2>1, <2>2, AgentStep
  <2>3. CASE Push(lines + 1, v) /\ ~ UNCHANGED bus
    <3>1. bus' = [seq |-> bus.seq + 1,
                  kept |-> Newest(bus.kept \cup {[id |-> bus.seq + 1, line |-> lines + 1]}, bus.seq + 1),
                  last |-> {v}]
      BY <2>3 DEF Push
    <3>2. \A e \in bus'.kept : \/ e \in bus.kept /\ e.id <= bus'.seq
                               \/ lines' = lines + 1 /\ e = [id |-> bus'.seq, line |-> lines']
      BY <1>0, <2>1, <3>1 DEF Newest
    <3>3. /\ bus' = [seq |-> bus'.seq, kept |-> bus'.kept, last |-> bus'.last]
          /\ bus'.seq \in Nat /\ bus'.seq <= lines'
      BY <1>0, <2>1, <3>1
    <3> QED
      BY <2>1, <3>2, <3>3, AgentStep
  <2> QED
    BY <1>1, <2>2, <2>3 DEF Line
<1>2. CASE Restart
  <2>1. UNCHANGED <<lines, screen, since, polls, crossed, rows>> /\ bus' = [seq |-> 0, kept |-> {}, last |-> {}]
    BY <1>2 DEF Restart, NewBus
  <2> QED
    BY <1>0, <2>1, AgentStep
<1>3. CASE Lapse \/ (\E q \in Queries : Ask(q) \/ AskTimesOut(q)) \/ UNCHANGED eventVars
  <2>1. /\ UNCHANGED <<lines, screen, since, polls, crossed, rows>>
        /\ bus' = bus \/ bus' = [bus EXCEPT !.last = {}]
    BY <1>3 DEF Lapse, Ask, AskTimesOut, eventVars
  <2>2. /\ bus' = [seq |-> bus'.seq, kept |-> bus'.kept, last |-> bus'.last]
        /\ bus'.seq = bus.seq /\ bus'.kept = bus.kept
    BY <1>0, <2>1
  <2> QED
    BY <1>0, <2>1, <2>2, AgentStep
(* A step of the page that delivers nothing.                               *)
<1>a. ASSUME UNCHANGED <<lines, bus, crossed, rows>>, screen' \in Screens, polls' \subseteq polls,
             screen'.after = screen.after, since' \in {since, lines},
             screen.open => screen'.open,
             screen'.synced => screen.synced,
             screen'.synced \/ (screen'.ready /\ polls' # {}) => since' = since,
             screen'.ready => screen.ready \/ (polls' = {} /\ ~ screen'.synced)
      PROVE  EventsKept
  <2>1. EventsTyped'
    BY <1>0, <1>a DEF EventsInv, EventsTyped
  <2>2. LinesOnce'
    BY <1>a DEF EventsInv, LinesOnce, OfOneLine
  <2>3. ASSUME ~ crossed PROVE OnePoll'
    <3>1. OnePoll
      BY <2>3 DEF EventsInv
    <3>2. \A e \in bus'.kept : e.id > screen'.after => PastCursor(e)'
      BY <1>a, <3>1 DEF OnePoll, PastCursor, Unfilled
    <3>3. \A p \in polls' : p.answer # NoAnswer =>
              /\ \A e \in p.answer.items : InAnswer(e)'
              /\ \A e \in bus'.kept : e.id > p.answer.seq => PastAnswer(e, p.answer.items)'
      BY <1>a, <3>1 DEF OnePoll, InAnswer, PastAnswer, Unfilled
    <3> QED
      BY <1>a, <3>1, <3>2, <3>3 DEF OnePoll
  <2> QED
    BY <1>a, <2>1, <2>2, <2>3 DEF EventsKept, EventsInv, OldPrintsIgnoredNow
<1>4. CASE OpenPage \/ ToggleDialog \/ Detect
  <2>1. /\ UNCHANGED <<lines, bus, crossed, rows, polls>>
        /\ \/ ~ screen.open /\ screen' = [screen EXCEPT !.open = TRUE] /\ since' = lines
           \/ screen' = [screen EXCEPT !.blocked = ~ @] /\ since' = since
           \/ /\ screen.ready \/ (polls = {} /\ ~ screen.synced)
              /\ screen' = [screen EXCEPT !.ready = ~ @] /\ since' = since
    BY <1>4 DEF OpenPage, ToggleDialog, Detect
  <2>2. CASE ~ screen.open /\ screen' = [screen EXCEPT !.open = TRUE] /\ since' = lines
    <3>1. /\ screen' \in Screens /\ screen'.after = screen.after /\ screen'.open = TRUE
          /\ screen'.synced = screen.synced /\ screen'.ready = screen.ready
      BY <1>0, <2>2 DEF Screens
    <3>2. polls = {} /\ ~ screen.synced
      BY <2>2 DEF EventsInv, LinesOnce
    <3> QED
      BY <1>a, <2>1, <2>2, <3>1, <3>2
  <2>3. CASE screen' = [screen EXCEPT !.blocked = ~ @] /\ since' = since
    <3>1. /\ screen' \in Screens /\ screen'.after = screen.after /\ screen'.open = screen.open
          /\ screen'.synced = screen.synced /\ screen'.ready = screen.ready
      BY <1>0, <2>3 DEF Screens
    <3> QED
      BY <1>a, <2>1, <2>3, <3>1
  <2>4. CASE /\ screen.ready \/ (polls = {} /\ ~ screen.synced)
             /\ screen' = [screen EXCEPT !.ready = ~ @] /\ since' = since
    <3>1. /\ screen' \in Screens /\ screen'.after = screen.after /\ screen'.open = screen.open
          /\ screen'.synced = screen.synced
      BY <1>0, <2>4 DEF Screens
    <3> QED
      BY <1>a, <2>1, <2>4, <3>1
  <2> QED
    BY <2>1, <2>2, <2>3, <2>4
<1>5. CASE Tick /\ ~ screen.ready
  <2>1. /\ UNCHANGED <<lines, bus, crossed, rows, polls>> /\ since' = lines
        /\ screen' = [screen EXCEPT !.synced = FALSE]
    BY <1>5 DEF Tick
  <2>2. /\ screen' \in Screens /\ screen'.after = screen.after /\ screen'.open = screen.open
        /\ screen'.synced = FALSE /\ screen'.ready = screen.ready
    BY <1>0, <2>1 DEF Screens
  <2> QED
    BY <1>5, <1>a, <2>1, <2>2
<1>6. ASSUME NEW p \in polls, PollTimesOut(p) PROVE EventsKept
  BY <1>0, <1>6, <1>a DEF PollTimesOut
<1>7. CASE Tick /\ screen.ready
  <2>1. PICK n \in 1..MaxPolls :
          polls' = polls \cup {[no |-> n, after |-> screen.after, cursorOnly |-> screen.blocked, answer |-> NoAnswer]}
    BY <1>7 DEF Tick
  <2> DEFINE p == [no |-> n, after |-> screen.after, cursorOnly |-> screen.blocked, answer |-> NoAnswer]
  <2>2. /\ UNCHANGED <<lines, bus, screen, since, rows>> /\ screen.open
        /\ crossed' = (crossed \/ polls # {}) /\ polls' = polls \cup {p}
    BY <1>7, <2>1 DEF Tick
  <2>3. p \in Polls /\ p.answer = NoAnswer /\ p.after = screen.after /\ NoAnswer.items = {}
    BY <1>0, EventsAssumption DEF Polls, Answers, NoAnswer, Screens
  <2> HIDE DEF p
  <2>4. EventsTyped'
    BY <1>0, <2>2, <2>3 DEF EventsInv, EventsTyped
  <2>5. LinesOnce'
    BY <2>2, <2>3 DEF EventsInv, LinesOnce, OfOneLine
  <2>6. ASSUME ~ crossed' PROVE OnePoll'
    <3>1. OnePoll /\ polls' = {p}
      BY <2>2, <2>6 DEF EventsInv
    <3>2. \A e \in bus'.kept : e.id > screen'.after => PastCursor(e)'
      BY <1>7, <2>2, <3>1 DEF OnePoll, PastCursor, Unfilled
    <3> QED
      BY <2>2, <2>3, <3>1, <3>2 DEF OnePoll, NoAnswer
  <2> QED
    BY <2>2, <2>4, <2>5, <2>6 DEF EventsKept, EventsInv, OldPrintsIgnoredNow
<1>8. ASSUME NEW p \in polls, AnswerPoll(p) PROVE EventsKept
  <2> DEFINE new == [p EXCEPT !.answer = After(p.after)]
  <2>1. /\ UNCHANGED <<lines, bus, screen, since, crossed, rows>>
        /\ polls' = (polls \ {p}) \cup {new}
    BY <1>8 DEF AnswerPoll
  <2>2. /\ p \in Polls /\ After(p.after) \in Answers /\ After(p.after).seq = bus.seq
        /\ After(p.after).items = {e \in bus.kept : e.id > p.after}
    BY <1>0 DEF After, Answers
  <2>3. new \in Polls /\ new.after = p.after /\ new.answer = After(p.after)
    BY <2>2 DEF Polls
  <2> HIDE DEF new
  <2>4. EventsTyped'
    BY <1>0, <2>1, <2>3 DEF EventsInv, EventsTyped
  <2>5. LinesOnce'
    BY <2>1, <2>2, <2>3 DEF EventsInv, LinesOnce, OfOneLine
  <2>6. ASSUME ~ crossed PROVE OnePoll'
    <3>1. OnePoll /\ polls' = {new} /\ p.after = screen.after
      BY <2>1, <2>6 DEF EventsInv, OnePoll
    <3>2. \A e \in bus'.kept : e.id > screen'.after => PastCursor(e)'
      BY <2>1, <3>1 DEF OnePoll, PastCursor, Unfilled
    <3>3. \A e \in new.answer.items : InAnswer(e)'
      BY <2>1, <2>2, <2>3, <3>1 DEF OnePoll, PastCursor, InAnswer, Unfilled
    <3>4. \A e \in bus'.kept : ~ e.id > new.answer.seq
      BY <1>0, <2>1, <2>2, <2>3
    <3> QED
      BY <2>1, <2>3, <3>1, <3>2, <3>3, <3>4 DEF OnePoll
  <2> QED
    BY <2>1, <2>4, <2>5, <2>6 DEF EventsKept, EventsInv, OldPrintsIgnoredNow
<1>9. ASSUME NEW p \in polls, Deliver(p) PROVE EventsKept
  <2>1. /\ UNCHANGED <<lines, bus, since, crossed>> /\ polls' = polls \ {p} /\ p.answer # NoAnswer
        /\ \/ screen' = [screen EXCEPT !.after = Or(p.answer.seq, @)] /\ rows' = rows
           \/ /\ screen' = [screen EXCEPT !.after = p.answer.seq, !.synced = TRUE]
              /\ rows' = IF screen.synced THEN Filled(p.answer.items) ELSE rows
    BY <1>9 DEF Deliver
  <2>2. p \in Polls /\ p.answer.seq \in Nat /\ p.answer.items \subseteq Events /\ OfOneLine(p.answer.items)
    BY <1>0 DEF Polls, Answers, EventsInv, LinesOnce
  <2>3. /\ screen' \in Screens /\ screen'.open = screen.open /\ screen'.ready = screen.ready
        /\ screen'.after \in {p.answer.seq, screen.after}
        /\ screen.synced => screen'.synced
        /\ screen'.after = screen.after \/ screen'.after = p.answer.seq
        /\ screen'.synced # screen.synced => screen'.after = p.answer.seq
    BY <1>0, <2>1, <2>2 DEF Screens, Or
  <2>4. /\ rows' \in [1..MaxLines -> Nat]
        /\ \A n \in 1..MaxLines :
             \/ rows'[n] = rows[n]
             \/ /\ rows'[n] = rows[n] + 1 /\ screen.synced
                /\ \E e \in p.answer.items : e.line = n
    <3>1. CASE rows' = rows
      BY <1>0, <3>1
    <3>2. CASE rows' = Filled(p.answer.items) /\ screen.synced
      <4> DEFINE found(n) == {e \in p.answer.items : e.line = n}
      <4>1. \A n : Cardinality(found(n)) = IF \E e \in p.answer.items : e.line = n THEN 1 ELSE 0
        BY <2>2, CountsOne
      <4>2. rows' = [n \in 1..MaxLines |-> rows[n] + Cardinality(found(n))]
        BY <1>0, <3>2 DEF Filled
      <4> HIDE DEF found
      <4> QED
        BY <1>0, <3>2, <4>1, <4>2
    <3> QED
      BY <2>1, <3>1, <3>2
  <2>5. EventsTyped'
    BY <1>0, <2>1, <2>3, <2>4 DEF EventsInv, EventsTyped
  <2>6. LinesOnce'
    <3>1. \A e \in p.answer.items : e.line <= lines /\ e.line \in Nat
      BY <2>2 DEF EventsInv, LinesOnce, Events
    <3>2. \A n \in 1..MaxLines : n > lines => rows'[n] = 0
      BY <1>0, <2>4, <3>1 DEF EventsInv, LinesOnce
    <3>3. screen.open
      BY DEF EventsInv, LinesOnce
    <3> QED
      BY <2>1, <2>3, <3>2, <3>3 DEF EventsInv, LinesOnce
  <2>7. ASSUME ~ crossed PROVE OnePoll' /\ \A n \in 1..MaxLines : rows'[n] # rows[n] => n > since
    <3>1. OnePoll /\ polls' = {}
      BY <2>1, <2>7 DEF EventsInv, OnePoll
    <3>2. /\ \A e \in p.answer.items : rows[e.line] = 0 /\ (screen.synced => e.line > since)
          /\ \A e \in bus.kept : e.id > p.answer.seq =>
               /\ rows[e.line] = 0 /\ \A f \in p.answer.items : f.line # e.line
               /\ screen.ready => e.line > since
      BY <2>1, <3>1 DEF OnePoll, InAnswer, PastAnswer, Unfilled
    <3>3. \A e \in bus.kept : e.id > screen.after =>
               /\ rows[e.line] = 0
               /\ screen.synced => e.line > since
      BY <3>1 DEF OnePoll, PastCursor, Unfilled
    <3>4. \A n \in 1..MaxLines : rows'[n] <= 1
      BY <1>0, <2>4, <3>1, <3>2 DEF OnePoll
    <3>5. \A n \in 1..MaxLines : rows'[n] # rows[n] => n > since
      BY <2>4, <3>2
    <3>6. \A e \in bus'.kept : e.id > screen'.after => PastCursor(e)'
      <4> SUFFICES ASSUME NEW e \in bus.kept, e.id > screen'.after
                   PROVE  rows'[e.line] = 0 /\ (screen'.synced /\ screen'.ready => e.line > since)
        BY <2>1, <3>1 DEF PastCursor, Unfilled
      <4>1. e.line \in 1..MaxLines
        BY <1>0 DEF Events
      <4>2. CASE screen'.after = p.answer.seq
        BY <1>0, <2>3, <2>4, <3>2, <4>1, <4>2
      <4>3. CASE screen'.after = screen.after /\ rows' = rows /\ screen'.synced = screen.synced
        BY <3>3, <4>3
      <4> QED
        BY <1>0, <2>1, <2>2, <2>3, <4>2, <4>3 DEF Screens
    <3> QED
      BY <3>1, <3>4, <3>5, <3>6 DEF OnePoll
  <2> QED
    BY <1>0, <2>1, <2>5, <2>6, <2>7 DEF EventsKept, EventsInv, OldPrintsIgnoredNow
<1> QED
  BY <1>1, <1>2, <1>3, <1>4, <1>5, <1>6, <1>7, <1>8, <1>9 DEF EventsNext

(* A PRINT of the scale is put into one row at most, also over restarts of *)
(* the agent, and never one from before the page looked, as long as a poll *)
(* is over when the next one is sent.                                      *)
THEOREM PrintsCount == EventsSpec => PrintsCountOnce
<1>1. EventsInit => EventsInv
  BY EventsStart
<1>2. EventsInv /\ [EventsNext]_eventVars => EventsInv' /\ OldPrintsIgnoredNow
  BY EventsKeep DEF EventsKept
<1>3. EventsInv => PrintAppliedOnce
  BY DEF EventsInv, EventsTyped, OnePoll, PrintAppliedOnce
<1>4. QED
  BY <1>1, <1>2, <1>3, PTL DEF EventsSpec, PrintsCountOnce

(***************************************************************************)
(* The slots.  A set of numbers that is bounded has a greatest one: that   *)
(* is the current slot.                                                    *)
(***************************************************************************)
Less == {ss \in Nat \X Nat : ss[1] < ss[2]}

LEMMA LessIs == \A x, y \in Nat : <<x, y>> \in Less <=> x < y
BY DEF Less

LEMMA GreatestNat ==
    ASSUME NEW T \in SUBSET Nat, T # {}, NEW bound \in Nat, \A n \in T : n <= bound
    PROVE  \E n \in T : \A m \in T : m <= n
<1> DEFINE U == {bound - n : n \in T}
<1>1. IsWellFoundedOn(Less, Nat)
  BY NatLessThanWellFounded DEF OpToRel, Less
<1>2. U \subseteq Nat /\ U # {}
  <2>1. \A n \in T : bound - n \in Nat
    OBVIOUS
  <2> QED
    BY <2>1
<1> HIDE DEF U
<1>3. PICK x \in U : \A y \in U : ~ (<<y, x>> \in Less)
  BY <1>1, <1>2, WFMin
<1>4. ASSUME NEW y \in U PROVE x <= y
  <2>1. x \in Nat /\ y \in Nat
    BY <1>2
  <2>2. ~ (y < x)
    BY <1>3, <2>1, LessIs
  <2> QED
    BY <2>1, <2>2
<1>5. PICK n \in T : x = bound - n
  BY DEF U
<1>6. ASSUME NEW m \in T PROVE m <= n
  <2>1. x <= bound - m
    BY <1>4 DEF U
  <2> QED
    BY <1>5, <2>1
<1> QED
  BY <1>6

Midnight == Day * DayLength

LEMMA DayParts ==
    ASSUME NEW n \in Nat, NEW d \in Nat \ {0}
    PROVE  n \div d \in Nat /\ (n \div d) * d <= n /\ n < (n \div d) * d + d
OBVIOUS

LEMMA SameDay ==
    ASSUME NEW a \in Nat, NEW b \in Nat, NEW d \in Nat \ {0}, NEW n \in Nat,
           a * d <= n, n < a * d + d, b * d <= n, n < b * d + d
    PROVE  a = b
<1>1. a < b + 1
  <2>1. SUFFICES ASSUME a >= b + 1 PROVE FALSE
    OBVIOUS
  <2>2. a * d >= (b + 1) * d
    BY <2>1
  <2> QED
    BY <2>2
<1>2. b < a + 1
  <2>1. SUFFICES ASSUME b >= a + 1 PROVE FALSE
    OBVIOUS
  <2>2. b * d >= (a + 1) * d
    BY <2>1
  <2> QED
    BY <2>2
<1> QED
  BY <1>1, <1>2

LEMMA MidnightIs ==
    ASSUME time \in Nat
    PROVE  Midnight \in Nat /\ Midnight <= time /\ time < Midnight + DayLength
BY SlotsAssumption, DayParts DEF Midnight, Day

(* A step later it is the same day, or midnight.                           *)
LEMMA MidnightComes ==
    ASSUME time \in Nat, time' = time + 1
    PROVE  Midnight' = Midnight \/ Midnight' = time'
<1> DEFINE a == time \div DayLength
           b == (time + 1) \div DayLength
<1>1. /\ a \in Nat /\ a * DayLength <= time /\ time < a * DayLength + DayLength
      /\ b \in Nat /\ b * DayLength <= time + 1 /\ time + 1 < b * DayLength + DayLength
      /\ DayLength \in Nat \ {0}
  BY SlotsAssumption, DayParts
<1>2. Midnight = a * DayLength /\ Midnight' = b * DayLength
  BY DEF Midnight, Day
<1> HIDE DEF a, b
<1>3. CASE time + 1 < a * DayLength + DayLength
  BY <1>1, <1>2, <1>3, SameDay
<1>4. CASE time + 1 = a * DayLength + DayLength
  <2>1. (a + 1) * DayLength = a * DayLength + DayLength
    BY <1>1
  <2>2. (a + 1) * DayLength <= time + 1 /\ time + 1 < (a + 1) * DayLength + DayLength
    BY <1>1, <1>4, <2>1
  <2>3. b = a + 1
    BY <1>1, <2>2, SameDay
  <2> QED
    BY <1>2, <1>4, <2>1, <2>3
<1> QED
  BY <1>1, <1>3, <1>4

LEMMA SlotsAre ==
    ASSUME time \in Nat, hours \in HourChoices
    PROVE  /\ Slots = {Midnight + h : h \in hours} /\ Slots \subseteq Nat
           /\ \A s \in Slots : Midnight <= s /\ s < Midnight + DayLength
           /\ \/ CurrentSlot = None /\ Past = {}
              \/ CurrentSlot \in Past /\ \A q \in Past : q <= CurrentSlot
<1>1. Midnight \in Nat /\ hours \subseteq 0..(DayLength - 1) /\ DayLength \in Nat
  BY SlotsAssumption, MidnightIs
<1>2. Slots = {Midnight + h : h \in hours}
  BY DEF Slots, Midnight
<1>3. Slots \subseteq Nat /\ \A s \in Slots : Midnight <= s /\ s < Midnight + DayLength
  BY <1>1, <1>2
<1>4. ASSUME Past # {} PROVE CurrentSlot \in Past /\ \A q \in Past : q <= CurrentSlot
  <2>1. Past \subseteq Nat /\ \A s \in Past : s <= time
    BY <1>3 DEF Past
  <2>2. \E s \in Past : \A q \in Past : q <= s
    BY <1>4, <2>1, GreatestNat
  <2> QED
    BY <1>4, <2>2 DEF CurrentSlot
<1> QED
  BY <1>2, <1>3, <1>4 DEF CurrentSlot

SlotsToday ==
    /\ Slots = {Midnight + h : h \in hours} /\ Slots \subseteq Nat /\ Midnight \in Nat
    /\ \A s \in Slots : Midnight <= s

LEMMA SlotsNow == time \in Nat /\ hours \in HourChoices => SlotsToday
BY SlotsAre, MidnightIs DEF SlotsToday

(***************************************************************************)
(* The alerts.  As long as the hours stay, the slot that was answered last *)
(* is behind, and every slot that raised a popup is not after it; and what *)
(* was old at the start counts as answered, or has given way to a later.   *)
(***************************************************************************)
Histories == [since : Nat, slots : SUBSET Int, again : BOOLEAN, old : BOOLEAN, changed : BOOLEAN]

TrayTyped ==
    /\ time \in Nat /\ hours \in HourChoices /\ processed \in Int
    /\ poller = [at |-> poller.at, until |-> poller.until, slot |-> poller.slot]
    /\ poller.slot \in Int
    /\ told \in Histories /\ told.since <= time

Behind     == processed = None \/ processed \in Past \/ processed < Midnight
AllTold    == \A s \in told.slots : s <= processed
PollsDue   == poller.at = "poll" => poller.slot = CurrentSlot /\ Due
OldIsKnown ==
    \A s \in Slots : told.since - s > Grace =>
        s <= processed \/ \E r \in Slots : s < r /\ r <= told.since
SlotsKept  == Behind /\ AllTold /\ PollsDue /\ OldIsKnown

TrayInv ==
    /\ TrayTyped
    /\ ~ told.changed => ~ told.again /\ ~ told.old
    /\ ~ told.changed /\ poller.at # "off" => SlotsKept

LEMMA TrayStarts == ASSUME TrayInit PROVE TrayInv
<1>1. told = Fresh /\ told \in Histories /\ ~ told.again /\ ~ told.old /\ told.since = 0
  BY DEF TrayInit, Fresh, Histories
<1>2. /\ poller = [at |-> "off", until |-> 0, slot |-> None] /\ None \in Int
      /\ time = 0 /\ hours \in HourChoices /\ processed \in Int
  BY DEF TrayInit, Off, None
<1> QED
  BY <1>1, <1>2 DEF TrayInv, TrayTyped

(* The thread sleeps, or polls what is due.                                *)
LEMMA TrayStays ==
    ASSUME TrayInv, UNCHANGED <<time, hours, processed, told>>,
           poller' = [at |-> poller'.at, until |-> poller'.until, slot |-> poller'.slot],
           poller'.slot \in Int,
           poller'.at # "off" => poller.at # "off",
           poller'.at = "poll" => \/ poller.at = "poll" /\ poller'.slot = poller.slot
                                  \/ poller'.slot = CurrentSlot /\ Due
    PROVE  TrayInv'
<1>1. /\ Day' = Day /\ Slots' = Slots /\ Midnight' = Midnight
  BY DEF Day, Slots, Midnight
<1>2. Past' = Past
  BY <1>1 DEF Past
<1>3. CurrentSlot' = CurrentSlot
  BY <1>2 DEF CurrentSlot
<1>4. Due' = Due
  BY <1>3 DEF Due
<1>5. TrayTyped'
  BY DEF TrayInv, TrayTyped
<1>6. SlotsKept /\ poller.at # "off" => SlotsKept'
  BY <1>1, <1>2, <1>3, <1>4 DEF SlotsKept, Behind, AllTold, PollsDue, OldIsKnown
<1> QED
  BY <1>5, <1>6 DEF TrayInv

LEMMA TrayKept == ASSUME TrayInv, [TrayNext]_trayVars PROVE TrayInv'
<1>0. /\ TrayTyped /\ time \in Nat /\ hours \in HourChoices /\ processed \in Int
      /\ told \in Histories /\ told.since \in Nat /\ told.since <= time /\ told.slots \subseteq Int
      /\ poller = [at |-> poller.at, until |-> poller.until, slot |-> poller.slot]
      /\ poller.slot \in Int /\ None \in Int /\ None = -1 /\ Grace \in Nat
  BY SlotsAssumption DEF TrayInv, TrayTyped, Histories, None
<1>s. /\ Slots = {Midnight + h : h \in hours} /\ Slots \subseteq Nat
      /\ \A s \in Slots : Midnight <= s /\ s < Midnight + DayLength
      /\ \/ CurrentSlot = None /\ Past = {}
         \/ CurrentSlot \in Past /\ \A q \in Past : q <= CurrentSlot
      /\ Midnight \in Nat /\ Midnight <= time /\ time < Midnight + DayLength
  BY <1>0, SlotsAre, MidnightIs
<1>p. /\ CurrentSlot \in Int /\ \A s \in Slots : s <= time => s \in Past
      /\ \A s \in Past : s \in Slots /\ s \in Nat /\ s <= time /\ Midnight <= s
  BY <1>0, <1>s DEF Past
<1>1. CASE Start
  <2>1. /\ UNCHANGED <<time, hours>> /\ processed' = StaleSlot
        /\ poller' = [at |-> "sleep", until |-> time, slot |-> None]
        /\ told' = [since |-> time, slots |-> {}, again |-> FALSE, old |-> FALSE, changed |-> FALSE]
    BY <1>1 DEF Start, Off, Fresh
  <2>2. StaleSlot \in Int /\ (StaleSlot = None \/ StaleSlot \in Past)
    BY <1>0, <1>s, <1>p DEF StaleSlot
  <2>3. /\ Day' = Day /\ Slots' = Slots /\ Midnight' = Midnight
    BY <2>1 DEF Day, Slots, Midnight
  <2>4. Past' = Past
    BY <2>1, <2>3 DEF Past
  <2>5. told'.since = time /\ told'.slots = {} /\ told' \in Histories /\ ~ told'.again /\ ~ told'.old
    BY <1>0, <2>1 DEF Histories
  <2>6. TrayTyped'
    BY <1>0, <2>1, <2>2, <2>5 DEF TrayTyped
  <2>7. ASSUME NEW s \in Slots, time - s > Grace
        PROVE  s <= StaleSlot \/ \E r \in Slots : s < r /\ r <= time
    <3>1. s \in Nat /\ s \in Past
      BY <1>0, <1>s, <1>p, <2>7
    <3>2. CurrentSlot \in Past /\ s <= CurrentSlot /\ CurrentSlot # None
      BY <1>0, <1>s, <1>p, <3>1
    <3>3. CASE time - CurrentSlot > Grace
      BY <3>2, <3>3 DEF StaleSlot
    <3>4. CASE ~ (time - CurrentSlot > Grace)
      BY <1>0, <1>p, <2>7, <3>1, <3>2, <3>4
    <3> QED
      BY <3>3, <3>4
  <2>8. Behind' /\ AllTold' /\ PollsDue'
    BY <2>1, <2>2, <2>4, <2>5 DEF Behind, AllTold, PollsDue
  <2>9. OldIsKnown'
    BY <2>1, <2>3, <2>5, <2>7 DEF OldIsKnown
  <2> QED
    BY <2>5, <2>6, <2>8, <2>9 DEF TrayInv, SlotsKept
<1>2. CASE Quit \/ CheckNow \/ Checked \/ Switch \/ Mute \/ (\E i \in SUBSET Things : Reported(i)) \/ UNCHANGED trayVars
  <2>1. UNCHANGED <<time, hours, processed, told>> /\ (poller' = poller \/ poller' = [at |-> "off", until |-> 0, slot |-> None])
    BY <1>2 DEF Quit, CheckNow, Checked, Switch, Mute, Reported, trayVars, Off
  <2> QED
    BY <1>0, <2>1, TrayStays
<1>3. CASE Wake
  <2>1. /\ UNCHANGED <<time, hours, processed, told>> /\ poller.at = "sleep"
        /\ \/ poller' = [poller EXCEPT !.at = "poll", !.slot = CurrentSlot] /\ Due
           \/ \E u : poller' = [poller EXCEPT !.until = u]
    BY <1>3 DEF Wake
  <2>2. /\ poller' = [at |-> poller'.at, until |-> poller'.until, slot |-> poller'.slot]
        /\ \/ poller'.at = "poll" /\ poller'.slot = CurrentSlot /\ Due
           \/ poller'.at = "sleep" /\ poller'.slot = poller.slot
    BY <1>0, <2>1
  <2> QED
    BY <1>0, <1>p, <2>1, <2>2, TrayStays
<1>4. CASE PollFails
  <2>1. /\ UNCHANGED <<time, hours, processed, told>> /\ poller.at = "poll"
        /\ poller' = [at |-> "sleep", until |-> time, slot |-> None]
    BY <1>4 DEF PollFails
  <2> QED
    BY <1>0, <2>1, TrayStays
<1>5. CASE Polled
  <2> DEFINE slot == poller.slot
  <2>1. /\ UNCHANGED <<time, hours>> /\ processed' = slot /\ poller.at = "poll"
        /\ poller' = [at |-> "sleep", until |-> Sleep, slot |-> None]
        /\ told' = told \/ told' = Raise(slot)
    BY <1>5 DEF Polled
  <2>2. /\ Raise(slot) \in Histories /\ Raise(slot).since = told.since /\ Raise(slot).changed = told.changed
        /\ Raise(slot).slots = told.slots \cup {slot}
        /\ Raise(slot).again <=> told.again \/ slot \in told.slots
        /\ Raise(slot).old <=> told.old \/ told.since - slot > Grace
    <3> DEFINE again == told.again \/ slot \in told.slots
               old   == told.old \/ told.since - slot > Grace
               all   == told.slots \cup {slot}
    <3>1. Raise(slot) = [told EXCEPT !.slots = all, !.again = again, !.old = old]
      BY DEF Raise
    <3>2. again \in BOOLEAN /\ old \in BOOLEAN /\ all \in SUBSET Int
      BY <1>0 DEF Histories
    <3> HIDE DEF again, old, all
    <3>3. /\ Raise(slot) \in Histories /\ Raise(slot).since = told.since /\ Raise(slot).changed = told.changed
          /\ Raise(slot).slots = all /\ Raise(slot).again = again /\ Raise(slot).old = old
      BY <1>0, <3>1, <3>2 DEF Histories
    <3> QED
      BY <3>3 DEF again, old, all
  <2> HIDE DEF slot
  <2>3. slot \in Int
    BY <1>0 DEF slot
  <2>4. /\ told' \in Histories /\ told'.since = told.since /\ told'.changed = told.changed
        /\ told'.slots \subseteq told.slots \cup {slot}
        /\ told'.again => told.again \/ slot \in told.slots
        /\ told'.old => told.old \/ told.since - slot > Grace
    BY <1>0, <2>1, <2>2
  <2>5. TrayTyped'
    BY <1>0, <2>1, <2>3, <2>4 DEF TrayTyped
  <2>6. ASSUME ~ told.changed PROVE ~ told'.again /\ ~ told'.old /\ SlotsKept'
    <3>1. SlotsKept /\ ~ told.again /\ ~ told.old
      BY <2>1, <2>6 DEF TrayInv
    <3>2. slot = CurrentSlot /\ slot \in Past /\ slot # processed /\ slot \in Nat
      BY <1>s, <1>p, <2>1, <3>1 DEF SlotsKept, PollsDue, Due, slot
    <3>3. processed < slot
      BY <1>0, <1>s, <1>p, <3>1, <3>2 DEF SlotsKept, Behind
    <3>4. slot \notin told.slots /\ AllTold'
      BY <1>0, <2>1, <2>3, <2>4, <3>1, <3>3 DEF SlotsKept, AllTold
    <3>5. ~ (told.since - slot > Grace)
      <4>1. SUFFICES ASSUME told.since - slot > Grace PROVE FALSE
        OBVIOUS
      <4>2. PICK r \in Slots : slot < r /\ r <= told.since
        BY <1>0, <1>p, <3>1, <3>2, <3>3, <4>1 DEF SlotsKept, OldIsKnown
      <4> QED
        BY <1>0, <1>s, <1>p, <3>2, <4>2
    <3>6. Day' = Day /\ Slots' = Slots /\ Midnight' = Midnight
      BY <2>1 DEF Day, Slots, Midnight
    <3>7. Past' = Past
      BY <2>1, <3>6 DEF Past
    <3>8. Behind' /\ PollsDue'
      BY <2>1, <3>2, <3>7 DEF Behind, PollsDue
    <3>9. OldIsKnown'
      BY <1>0, <1>s, <2>1, <2>4, <3>1, <3>2, <3>3, <3>6 DEF SlotsKept, OldIsKnown
    <3> QED
      BY <2>4, <3>1, <3>4, <3>5, <3>8, <3>9 DEF SlotsKept
  <2> QED
    BY <2>4, <2>5, <2>6 DEF TrayInv
<1>6. CASE TimePasses
  <2>1. /\ time' = time + 1 /\ UNCHANGED <<hours, poller, processed, told>> /\ poller.at # "poll"
    BY <1>6 DEF TimePasses
  <2>2. TrayTyped'
    BY <1>0, <2>1 DEF TrayTyped
  <2>3. Slots' = {Midnight' + h : h \in hours} /\ Slots' \subseteq Nat /\ Midnight' \in Nat
        /\ \A s \in Slots' : Midnight' <= s
    <3>1. time' \in Nat /\ hours' \in HourChoices
      BY <1>0, <2>1
    <3>2. (time \in Nat /\ hours \in HourChoices => SlotsToday)'
      BY SlotsNow, PTL
    <3> QED
      BY <2>1, <3>1, <3>2 DEF SlotsToday
  <2>4. CASE Midnight' = Midnight
    <3>1. Slots' = Slots
      BY <1>s, <2>1, <2>3, <2>4
    <3>2. Past \subseteq Past'
      BY <1>0, <1>s, <2>1, <3>1 DEF Past
    <3>3. SlotsKept => SlotsKept'
      BY <2>1, <2>4, <3>1, <3>2 DEF SlotsKept, Behind, AllTold, PollsDue, OldIsKnown
    <3> QED
      BY <2>1, <2>2, <3>3 DEF TrayInv
  <2>5. CASE Midnight' = time'
    <3>1. SlotsKept => Behind'
      BY <1>0, <1>s, <1>p, <2>1, <2>5 DEF SlotsKept, Behind
    <3>2. ASSUME NEW s \in Slots' PROVE ~ (told'.since - s > Grace)
      <4>1. s \in Nat /\ time + 1 <= s /\ told'.since = told.since
        BY <2>1, <2>3, <2>5
      <4> QED
        BY <1>0, <4>1
    <3>3. SlotsKept => SlotsKept'
      BY <2>1, <3>1, <3>2 DEF SlotsKept, AllTold, PollsDue, OldIsKnown
    <3> QED
      BY <2>1, <2>2, <3>3 DEF TrayInv
  <2> QED
    BY <1>0, <2>1, <2>4, <2>5, MidnightComes
<1>7. ASSUME NEW h \in HourChoices, SetHours(h) PROVE TrayInv'
  <2>1. /\ UNCHANGED <<time, poller, processed>> /\ hours' = h /\ told' = [told EXCEPT !.changed = TRUE]
    BY <1>7 DEF SetHours
  <2>2. told' \in Histories /\ told'.changed = TRUE /\ told'.since = told.since
    BY <1>0, <2>1 DEF Histories
  <2> QED
    BY <1>0, <2>1, <2>2 DEF TrayInv, TrayTyped
<1> QED
  BY <1>1, <1>2, <1>3, <1>4, <1>5, <1>6, <1>7 DEF TrayNext

(* The tray: as long as the alert hours are not changed, a slot raises one *)
(* popup at most, whatever fails, is muted or checked by hand, and none    *)
(* that was old when the program started.                                  *)
THEOREM SlotsTell == TraySpec => []SlotsTellOnce
<1>1. TrayInit => TrayInv
  BY TrayStarts
<1>2. TrayInv /\ [TrayNext]_trayVars => TrayInv'
  BY TrayKept
<1>3. TrayInv => SlotsTellOnce
  BY DEF TrayInv, SlotsTellOnce, OncePerSlot, NoOldSlot
<1>4. QED
  BY <1>1, <1>2, <1>3, PTL DEF TraySpec
=============================================================================
