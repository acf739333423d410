----------------------------- MODULE TraySlots ------------------------------
(***************************************************************************)
(* The scheduled alerts of the tray client (viscosity_alerts.py and        *)
(* attendance_alerts.py, which work alike, with schedule.py and the        *)
(* switches of main.py): a poller thread asks the server once per slot of  *)
(* the day and raises a popup when there is something to tell; menu checks *)
(* run in threads of their own.  Time is counted in steps of 20 minutes.   *)
(***************************************************************************)
EXTENDS Integers, FiniteSets

CONSTANTS
    DayLength,      \* steps in a day
    LastTime,       \* bound
    HourChoices,    \* the alert hours (sets of steps) that may be configured
    Interval,       \* the longest sleep of the thread
    Grace,          \* SLOT_STALE_GRACE_MINUTES
    Things,         \* what the server may report
    MaxManual       \* bound: menu checks
ASSUME SlotsAssumption == /\ DayLength \in Nat \ {0} /\ Grace \in Nat
                          /\ HourChoices \subseteq SUBSET (0..(DayLength - 1))

VARIABLES
    time,       \* steps since the first midnight
    hours,      \* alert_hours
    poller,     \* the thread: where it is, until when it sleeps, the slot it polls
    processed,  \* _last_processed_slot
    signature,  \* _last_signature and _last_signature_slot
    enabled,    \* the switch of the settings
    mutedDay,   \* "not today": _alert_mute_date
    items,      \* what the server would report now
    manual,     \* a menu check is waiting for its answer; how many there were
    told        \* history of this run of the program: since when, the slots that
                \* have raised a popup, whether one did so again, whether one was
                \* old at the start, whether the hours were changed

trayVars == <<time, hours, poller, processed, signature, enabled, mutedDay, items, manual, told>>

None  == -1
Day   == time \div DayLength
Slots == {Day * DayLength + h : h \in hours}
Past  == {s \in Slots : s <= time}

(* current_slot_key()                                                      *)
CurrentSlot == IF Past = {} THEN None ELSE CHOOSE s \in Past : \A q \in Past : q <= s

(* seconds_until_next_slot()                                               *)
NextSlot ==
    LET later == {d * DayLength + h : d \in {Day, Day + 1}, h \in hours}
    IN  CHOOSE s \in later : s > time /\ \A q \in later : q > time => s <= q
Earlier(a, b) == IF a < b THEN a ELSE b
Sleep == Earlier(NextSlot, time + Interval)

(* stale_slot_key_on_startup()                                             *)
StaleSlot == IF CurrentSlot # None /\ time - CurrentSlot > Grace THEN CurrentSlot ELSE None

Off       == [at |-> "off", until |-> 0, slot |-> None]
Unsigned  == [items |-> {}, slot |-> None]
Fresh     == [since |-> 0, slots |-> {}, again |-> FALSE, old |-> FALSE, changed |-> FALSE]
Active    == enabled /\ mutedDay # Day

TrayInit ==
    /\ time = 0 /\ hours \in HourChoices
    /\ poller = Off /\ processed = None /\ signature = Unsigned
    /\ enabled = TRUE /\ mutedDay = None /\ items = {}
    /\ manual = [waits |-> FALSE, count |-> 0]
    /\ told = Fresh

(* faulty variant: a program that starts knows of no slot                  *)
StartForgetful ==
    /\ poller.at = "off" /\ poller' = [Off EXCEPT !.at = "sleep", !.until = time]
    /\ processed' = None /\ signature' = Unsigned /\ mutedDay' = None
    /\ told' = [Fresh EXCEPT !.since = time]
    /\ UNCHANGED <<time, hours, enabled, items, manual>>

Start ==
    /\ poller.at = "off" /\ poller' = [Off EXCEPT !.at = "sleep", !.until = time]
    /\ processed' = StaleSlot /\ signature' = Unsigned /\ mutedDay' = None
    /\ told' = [Fresh EXCEPT !.since = time]
    /\ UNCHANGED <<time, hours, enabled, items, manual>>

Quit ==
    /\ poller.at # "off" /\ poller' = Off
    /\ manual' = [manual EXCEPT !.waits = FALSE]
    /\ UNCHANGED <<time, hours, processed, signature, enabled, mutedDay, items, told>>

Due == CurrentSlot # None /\ CurrentSlot # processed

(* One turn of _run(): nothing due, or switched off, or ask the server.    *)
Wake ==
    /\ poller.at = "sleep" /\ poller.until <= time
    /\ poller' = IF Due /\ Active THEN [poller EXCEPT !.at = "poll", !.slot = CurrentSlot]
                 ELSE [poller EXCEPT !.until = IF Due THEN time ELSE Sleep]
    /\ UNCHANGED <<time, hours, processed, signature, enabled, mutedDay, items, manual, told>>

(* The answer: nothing to tell, told already in this slot, or a popup.     *)
Sign(slot) == signature' = [items |-> items, slot |-> slot]
Told       == items = {} \/ signature = [items |-> items, slot |-> poller.slot]
Raise(slot) ==
    [told EXCEPT !.slots = @ \cup {slot},
                 !.again = @ \/ slot \in told.slots,
                 !.old   = @ \/ told.since - slot > Grace]

(* faulty variant: the slot is not noted as processed                      *)
PolledAgain ==
    /\ poller.at = "poll"
    /\ Sign(poller.slot)
    /\ told' = IF Told THEN told ELSE Raise(poller.slot)
    /\ processed' = processed
    /\ poller' = [at |-> "sleep", until |-> Sleep, slot |-> None]
    /\ UNCHANGED <<time, hours, enabled, mutedDay, items, manual>>

Polled ==
    /\ poller.at = "poll"
    /\ Sign(poller.slot)
    /\ told' = IF Told THEN told ELSE Raise(poller.slot)
    /\ processed' = poller.slot
    /\ poller' = [at |-> "sleep", until |-> Sleep, slot |-> None]
    /\ UNCHANGED <<time, hours, enabled, mutedDay, items, manual>>

(* faulty variant: the exception ends the thread                           *)
PollFailsForGood ==
    /\ poller.at = "poll" /\ processed' = processed
    /\ poller' = [at |-> "ended", until |-> time, slot |-> None]
    /\ UNCHANGED <<time, hours, signature, enabled, mutedDay, items, manual, told>>

(* The server does not answer: again in a minute.                          *)
PollFails ==
    /\ poller.at = "poll" /\ processed' = processed
    /\ poller' = [at |-> "sleep", until |-> time, slot |-> None]
    /\ UNCHANGED <<time, hours, signature, enabled, mutedDay, items, manual, told>>

(* trigger_once(): a popup whenever there is something, in no slot.        *)
CheckNow ==
    /\ poller.at # "off" /\ ~ manual.waits /\ manual.count < MaxManual
    /\ manual' = [waits |-> TRUE, count |-> manual.count + 1]
    /\ UNCHANGED <<time, hours, poller, processed, signature, enabled, mutedDay, items, told>>

Checked ==
    /\ manual.waits /\ manual' = [manual EXCEPT !.waits = FALSE]
    /\ Sign(None) \/ UNCHANGED signature
    /\ UNCHANGED <<time, hours, poller, processed, enabled, mutedDay, items, told>>

(* The settings, and "not today" of a popup and of the menu.               *)
Switch ==
    /\ enabled' = ~ enabled
    /\ UNCHANGED <<time, hours, poller, processed, signature, mutedDay, items, manual, told>>

Mute ==
    /\ mutedDay' \in {Day, None}
    /\ UNCHANGED <<time, hours, poller, processed, signature, enabled, items, manual, told>>

SetHours(h) ==
    /\ poller.at # "off" /\ h # hours /\ hours' = h
    /\ told' = [told EXCEPT !.changed = TRUE]
    /\ UNCHANGED <<time, poller, processed, signature, enabled, mutedDay, items, manual>>

(* A sleep is over in time; a request takes ten seconds at most.           *)
TimePasses ==
    /\ time < LastTime /\ time' = time + 1
    /\ poller.at = "sleep" => poller.until > time \/ Due
    /\ poller.at # "poll"
    /\ UNCHANGED <<hours, poller, processed, signature, enabled, mutedDay, items, manual, told>>

Reported(i) ==
    /\ i # items /\ items' = i
    /\ UNCHANGED <<time, hours, poller, processed, signature, enabled, mutedDay, manual, told>>

TrayNext ==
    \/ Start \/ Quit \/ Wake \/ Polled \/ PollFails \/ CheckNow \/ Checked
    \/ Switch \/ Mute \/ TimePasses
    \/ \E h \in HourChoices : SetHours(h)
    \/ \E i \in SUBSET Things : Reported(i)

(* The thread goes on, and a server that is asked again answers some time. *)
TrayFairness ==
    /\ WF_trayVars(Wake) /\ SF_trayVars(Polled) /\ WF_trayVars(Polled \/ PollFails)
TraySpec == TrayInit /\ [][TrayNext]_trayVars /\ TrayFairness

(***************************************************************************)
(* Properties                                                              *)
(***************************************************************************)
(* A slot raises one scheduled popup at most, whatever changes at the      *)
(* server, fails, is checked by hand, muted or switched in between; and a  *)
(* program that is started does not raise what was due more than half an   *)
(* hour before.  (Not when the hours are changed while it runs: the slot   *)
(* before a removed one is current again, and not the one processed.)      *)
OncePerSlot == told.again => told.changed
NoOldSlot   == told.old => told.changed
SlotsTellOnce == OncePerSlot /\ NoOldSlot

(* A slot that is due is polled with an answer or replaced by the next,    *)
(* unless the program ends or the alerts are switched off.  (New hours     *)
(* take effect when the thread wakes, after LastTime perhaps.)             *)
SlotIsServed == poller.at # "off" /\ Due ~> ~ Due \/ ~ Active \/ poller.at = "off" \/ told.changed
=============================================================================
