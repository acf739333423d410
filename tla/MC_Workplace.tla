--------------------------- MODULE MC_Workplace ----------------------------
(***************************************************************************)
(* The programs on the PC of a workplace, for TLC, in three worlds that    *)
(* share nothing: the ports of the scale agent, the events it hands to the *)
(* page, and the alerts of the tray client.                                *)
(***************************************************************************)
EXTENDS Integers, ScalePorts, ScaleEvents, TraySlots

VARIABLE world

(* Two scales of different makes: the first in passive mode on a fixed     *)
(* port that the older program uses too, the second on any port.           *)
FixedPorts == <<1, 0>>
Devices    == {<<1, 1>>, <<2, 2>>}
ASSUME EachHasAPort == OnePortEach

(* A day and the start of the next; two alert hours, or one.               *)
TwoOrOne == {{0, 3}, {0}}

all == <<world, vars, eventVars, trayVars>>

In(w) == world = w /\ world' = w

WorldInit ==
    /\ world \in {"ports", "events", "tray"}
    /\ Init /\ EventsInit /\ TrayInit
    /\ world # "tray" => hours = {0}

WorldNext ==
    \/ In("ports")  /\ Next       /\ UNCHANGED <<eventVars, trayVars>>
    \/ In("events") /\ EventsNext /\ UNCHANGED <<vars, trayVars>>
    \/ In("tray")   /\ TrayNext   /\ UNCHANGED <<vars, eventVars>>

(* The fairness of ScalePorts and of TraySlots, each in its world.         *)
Thread(F) == In("ports") /\ F /\ UNCHANGED <<eventVars, trayVars>>
Poller(F) == In("tray") /\ F /\ UNCHANGED <<vars, eventVars>>
WorldFairness ==
    /\ WF_all(Poller(Wake)) /\ WF_all(Poller(Polled \/ PollFails))
    /\ SF_all(Poller(Polled))
    /\ \A s \in {1, 2} :
         /\ WF_all(Thread(Main(s))) /\ WF_all(Thread(Reader(s)))
         /\ WF_all(Thread(ReadFails(s)))
         /\ WF_all(Thread(Yield(s))) /\ WF_all(Thread(TakeBack(s)))
         /\ \A t \in Threads :
              WF_all(Thread(Open(s, t))) /\ WF_all(Thread(Answer(s, t)))
WorldSpec == WorldInit /\ [][WorldNext]_all /\ WorldFairness

(* What failed works again in the end: a scale that stays plugged in is    *)
(* found, a slot that is due is answered.                                  *)
WorksAgain ==
    /\ world = "ports" => Reconnects
    /\ world = "tray"  => SlotIsServed
=============================================================================
