----------------------------- MODULE Viscosity -----------------------------
(***************************************************************************)
(* Viscosity readings of the LOTs of one product, the records they belong  *)
(* to, "cannot be measured" marks (skips), readings of test blends, and    *)
(* the two lists of what is still to be measured                           *)
(* (viscosity_routes.py, viscosity_service.py, blend_routes.py).           *)
(*                                                                         *)
(* A LOT is named by its record.  One product is modelled: the key         *)
(* (product_id, lot_no) of viscosity_readings is the LOT.  A handler is    *)
(* one step but for skip, whose checks are read before its transaction.    *)
(***************************************************************************)
EXTENDS Naturals, FiniteSets, Functions

CONSTANTS
    Records,    \* blend records, each with a LOT of its own
    Tests,      \* those that are test blends
    Values,     \* viscosities
    MaxDay      \* bound: the last day

VARIABLES
    blends,     \* blend_records: [status, day] of the records saved so far
    readings,   \* viscosity_readings by LOT
    skips,      \* viscosity_skips
    skipping,   \* requests to skip that have passed their checks
    testValues, \* test_viscosity_readings by record: [value, fresh]
    clock,      \* [today, since]: since is viscosity_reminder_since
    logged      \* history: the LOTs named by the audit rows of the last step

viscosityVars == <<blends, readings, skips, skipping, testValues, clock, logged>>

NoRecord == "none"
ASSUME ViscosityAssumption == NoRecord \notin Tests

Put(f, x, v)  == [y \in DOMAIN f \cup {x} |-> IF y = x THEN v ELSE f[y]]
Without(f, x) == Restrict(f, DOMAIN f \ {x})

ViscosityInit ==
    /\ blends = << >> /\ readings = << >> /\ testValues = << >>
    /\ skips = {} /\ skipping = {} /\ logged = {}
    /\ clock = [today |-> 1, since |-> 0]

IsCompleted(r) == r \in DOMAIN blends /\ blends[r].status = "completed"
IsMeasured(r)    == \E l \in DOMAIN readings : readings[l].record = r
IsTestLot(r) == r \in DOMAIN blends \cap Tests

Reading(v, record) ==
    [value |-> v, record |-> record, fresh |-> TRUE, excluded |-> FALSE, reviewed |-> FALSE]

(***************************************************************************)
(* The records, as far as the readings depend on them                      *)
(***************************************************************************)
SaveBlend(r) ==
    /\ r \notin DOMAIN blends /\ clock.today < MaxDay
    /\ blends' = Put(blends, r, [status |-> "completed", day |-> clock.today])
    /\ logged' = {}
    /\ UNCHANGED <<readings, skips, skipping, testValues, clock>>

CancelBlend(r) ==
    /\ IsCompleted(r) /\ blends' = [blends EXCEPT ![r].status = "canceled"]
    /\ logged' = {r}
    /\ UNCHANGED <<readings, skips, skipping, testValues, clock>>

(* A purge leaves the reading, without its record; skip and test value go  *)
(* with the record (ON DELETE CASCADE).  The LOT is not issued again.      *)
PurgeBlend(r) ==
    /\ r \in DOMAIN blends /\ blends[r].status = "canceled"
    /\ blends' = [blends EXCEPT ![r].status = "purged"]
    /\ readings' = [l \in DOMAIN readings |->
                      [readings[l] EXCEPT !.record = IF @ = r THEN NoRecord ELSE @]]
    /\ skips' = skips \ {r} /\ testValues' = Without(testValues, r)
    /\ logged' = {r}
    /\ UNCHANGED <<skipping, clock>>

Exists(r) == r \in DOMAIN blends /\ blends[r].status # "purged"

(***************************************************************************)
(* Registering                                                             *)
(***************************************************************************)
(* POST /blend/records/{id}/viscosity: the value clears a skip.            *)
AddForBlend(r, v) ==
    /\ Exists(r) /\ ~ IsTestLot(r)
    /\ r \notin DOMAIN readings                     \* else 409
    /\ readings' = Put(readings, r, Reading(v, r))
    /\ skips' = skips \ {r}
    /\ logged' = {r}
    /\ UNCHANGED <<blends, skipping, testValues, clock>>

(* faulty variant: only the record linked to the reading is looked at      *)
AddDirectAny(r, v) ==
    /\ r \in DOMAIN blends
    /\ r \notin DOMAIN readings
    /\ readings' = Put(readings, r, Reading(v, NoRecord))
    /\ logged' = {r}
    /\ UNCHANGED <<blends, skips, skipping, testValues, clock>>

(* POST /viscosity/readings: a LOT without a link to its record.           *)
AddDirect(r, v) ==
    /\ r \in DOMAIN blends /\ ~ (Exists(r) /\ IsTestLot(r))
    /\ r \notin DOMAIN readings
    /\ readings' = Put(readings, r, Reading(v, NoRecord))
    /\ logged' = {r}
    /\ UNCHANGED <<blends, skips, skipping, testValues, clock>>

(* POST .../skip: the record, its kind and its readings are read; the row  *)
(* is inserted in the transaction that follows.                            *)
SkipChecks(r) ==
    /\ Exists(r) /\ ~ IsTestLot(r) /\ ~ IsMeasured(r)
    /\ skipping' = skipping \cup {r} /\ logged' = {}
    /\ UNCHANGED <<blends, readings, skips, testValues, clock>>

SkipInsert(r) ==
    /\ r \in skipping /\ skipping' = skipping \ {r}
    /\ IF Exists(r) /\ r \notin skips              \* foreign key, UNIQUE
       THEN skips' = skips \cup {r} /\ logged' = {r}
       ELSE UNCHANGED skips /\ logged' = {}
    /\ UNCHANGED <<blends, readings, testValues, clock>>

Unskip(r) ==
    /\ r \in skips /\ skips' = skips \ {r} /\ logged' = {r}
    /\ UNCHANGED <<blends, readings, skipping, testValues, clock>>

(***************************************************************************)
(* Changing a reading                                                      *)
(***************************************************************************)
(* faulty variant: the correction of a manager writes no audit row         *)
CorrectUnlogged(l, v, manager) ==
    /\ l \in DOMAIN readings /\ (manager \/ readings[l].fresh)
    /\ v # readings[l].value
    /\ readings' = [readings EXCEPT ![l].value = v]
    /\ logged' = IF manager THEN {} ELSE {l}
    /\ UNCHANGED <<blends, skips, skipping, testValues, clock>>

(* Anyone within ten minutes, a manager at any time.                       *)
CorrectReading(l, v, manager) ==
    /\ l \in DOMAIN readings /\ (manager \/ readings[l].fresh)
    /\ v # readings[l].value
    /\ readings' = [readings EXCEPT ![l].value = v] /\ logged' = {l}
    /\ UNCHANGED <<blends, skips, skipping, testValues, clock>>

DeleteReading(l) ==
    /\ l \in DOMAIN readings
    /\ readings' = Without(readings, l) /\ logged' = {l}
    /\ UNCHANGED <<blends, skips, skipping, testValues, clock>>

(* exclude, include, review, unreview: marks beside the value.             *)
Exclude(l, yes) ==
    /\ l \in DOMAIN readings
    /\ readings' = [readings EXCEPT ![l].excluded = yes] /\ logged' = {l}
    /\ UNCHANGED <<blends, skips, skipping, testValues, clock>>

Review(l, yes) ==
    /\ l \in DOMAIN readings
    /\ readings' = [readings EXCEPT ![l].reviewed = yes] /\ logged' = {l}
    /\ UNCHANGED <<blends, skips, skipping, testValues, clock>>

(* review-batch leaves out what is reviewed or excluded already.           *)
ReviewBatch(ls) ==
    /\ LET open == {l \in ls \cap DOMAIN readings :
                      ~ readings[l].reviewed /\ ~ readings[l].excluded}
       IN  /\ readings' = [l \in DOMAIN readings |->
                             [readings[l] EXCEPT !.reviewed = @ \/ l \in open]]
           /\ logged' = open
    /\ UNCHANGED <<blends, skips, skipping, testValues, clock>>

(***************************************************************************)
(* Test blends: one value per record                                       *)
(***************************************************************************)
AddTest(r, v) ==
    /\ IsCompleted(r) /\ r \in Tests /\ r \notin DOMAIN testValues
    /\ testValues' = Put(testValues, r, [value |-> v, fresh |-> TRUE]) /\ logged' = {r}
    /\ UNCHANGED <<blends, readings, skips, skipping, clock>>

CorrectTest(r, v, manager) ==
    /\ r \in DOMAIN testValues /\ (manager \/ testValues[r].fresh)
    /\ v # testValues[r].value
    /\ testValues' = [testValues EXCEPT ![r].value = v] /\ logged' = {r}
    /\ UNCHANGED <<blends, readings, skips, skipping, clock>>

DeleteTest(r) ==
    /\ r \in DOMAIN testValues
    /\ testValues' = Without(testValues, r) /\ logged' = {r}
    /\ UNCHANGED <<blends, readings, skips, skipping, clock>>

(***************************************************************************)
(* Time and restarts                                                       *)
(***************************************************************************)
(* Ten minutes pass for every value there is; a day may.                   *)
TimePasses(days) ==
    /\ clock.today + days <= MaxDay
    /\ clock' = [clock EXCEPT !.today = @ + days]
    /\ readings' = [l \in DOMAIN readings |-> [readings[l] EXCEPT !.fresh = FALSE]]
    /\ testValues' = [r \in DOMAIN testValues |-> [testValues[r] EXCEPT !.fresh = FALSE]]
    /\ logged' = {}
    /\ UNCHANGED <<blends, skips, skipping>>

(* "All settled up to now": the reminders look no further back.            *)
SettleReminders ==
    /\ clock' = [clock EXCEPT !.since = clock.today] /\ logged' = {}
    /\ UNCHANGED <<blends, readings, skips, skipping, testValues>>

(* init_db links every reading whose LOT has a record.                     *)
RestartServer ==
    /\ readings' = [l \in DOMAIN readings |->
                      [readings[l] EXCEPT !.record = IF @ = NoRecord /\ Exists(l) THEN l ELSE @]]
    /\ skipping' = {} /\ logged' = {}
    /\ UNCHANGED <<blends, skips, testValues, clock>>

(***************************************************************************)
(* What is still to be measured                                            *)
(***************************************************************************)
(* faulty variant: a skipped LOT stays in the queue                        *)
QueueWithSkips ==
    {r \in DOMAIN blends : IsCompleted(r) /\ r \notin Tests /\ IsMeasured(r) = FALSE /\ r \in skips}

(* The registration panel, "unregistered only".                            *)
Queue == {r \in DOMAIN blends : IsCompleted(r) /\ r \notin Tests /\ ~ IsMeasured(r) /\ r \notin skips}

(* daily_reading_reminders on a day.                                       *)
Due(day) ==
    {r \in DOMAIN blends :
        /\ IsCompleted(r) /\ blends[r].day < day /\ ~ IsMeasured(r) /\ r \notin Tests
        /\ clock.since = 0 \/ blends[r].day >= clock.since
        /\ r \notin skips}

ViscosityNext ==
    \/ \E r \in Records :
         \/ SaveBlend(r) \/ CancelBlend(r) \/ PurgeBlend(r)
         \/ SkipChecks(r) \/ SkipInsert(r) \/ Unskip(r)
         \/ DeleteReading(r) \/ DeleteTest(r)
         \/ \E yes \in BOOLEAN : Exclude(r, yes) \/ Review(r, yes)
         \/ \E v \in Values :
              \/ AddForBlend(r, v) \/ AddDirect(r, v) \/ AddTest(r, v)
              \/ \E manager \in BOOLEAN : CorrectReading(r, v, manager) \/ CorrectTest(r, v, manager)
    \/ ReviewBatch(Records)
    \/ \E days \in {0, 1} : TimePasses(days)
    \/ SettleReminders \/ RestartServer

ViscositySpec == ViscosityInit /\ [][ViscosityNext]_viscosityVars

(***************************************************************************)
(* Properties                                                              *)
(***************************************************************************)
(* The tray reminds of a LOT only if the panel offers it for registration  *)
(* (viscosity_service.py 1610-1625), and after the day all of the panel's  *)
(* LOTs that were not settled are reminded of.                             *)
DueIsQueued ==
    \A day \in 1..MaxDay + 1 :
        Due(day) = {r \in Queue : blends[r].day < day
                                   /\ (clock.since = 0 \/ blends[r].day >= clock.since)}

(* No value of a test blend gets into the readings of a product, neither   *)
(* by a record nor by its LOT, also not by the links that are made when    *)
(* the server starts (viscosity_service.py 1777-1783).                     *)
TestsStayApart == \A l \in DOMAIN readings : readings[l].record \notin Tests

(* A value changes or goes away only with an audit row that names its LOT  *)
(* (viscosity_routes.py 710-718), over deletions by cascade and restarts.  *)
NoSilentChangeNow ==
    /\ \A l \in DOMAIN readings :
         (l \in DOMAIN readings' /\ readings'[l].value = readings[l].value) \/ l \in logged'
    /\ \A r \in DOMAIN testValues :
         (r \in DOMAIN testValues' /\ testValues'[r].value = testValues[r].value) \/ r \in logged'

(* The tray reminds of the LOTs that the panel offers to be measured, no   *)
(* value of a test blend becomes a reading of a product, and a value       *)
(* changes only with an audit row (viscosity_routes.py,                    *)
(* viscosity_service.py).                                                  *)
ReadingsAreKept ==
    [][NoSilentChangeNow /\ DueIsQueued' /\ TestsStayApart']_viscosityVars

(* A LOT is not both measured and marked as impossible to measure          *)
(* (blend_routes.py 1301-1303).                                            *)
MeasuredNotSkipped == \A r \in skips : ~ IsMeasured(r)
=============================================================================
