----------------------------- MODULE Migrations -----------------------------
(***************************************************************************)
(* What a start of the server does to a database that an older program     *)
(* left (init_db of src/src/db/schema.py, migrations.py).  The first       *)
(* UPDATE opens a transaction that holds all the steps; it commits at the  *)
(* end, and a step that fails or a stop of the machine rolls all of it     *)
(* back.  Some steps run once, by an entry of schema_migrations, the       *)
(* others at every start.  Steps that add columns or tables, the fill of   *)
(* source_code, and seeds of the same form as that of warn_low are left    *)
(* out.                                                                    *)
(*                                                                         *)
(* A LOT is a sequence: <<base, n>> for the n-th LOT of a product and day, *)
(* <<label>> for one of another form, of which <<label, 2>> is the copy    *)
(* "label-2".  A code is a key and whether it is in capitals.              *)
(***************************************************************************)
EXTENDS Integers, Sequences, FiniteSets, FiniteSetsExt, SequencesExt

CONSTANTS
    Materials, NewCodes, \* materials; codes that a tool gives them
    Records,            \* ids of blend records, older ones first: 1..n
    Tests,              \* those of test blends
    Base,               \* Base[i]: product and day of a record
    Readings,           \* ids of viscosity readings
    Old(_),             \* the databases an older program may leave
    Areas,              \* what the parts of such a database are called
    WarnLow,            \* values a manager gives warn_low
    None, Blank         \* no code, an empty code

VARIABLES
    disk,       \* the database as committed
    work,       \* the transaction of a start
    at,         \* its next step
    server      \* "down", "starting", "up"

startVars == <<disk, work, at, server>>

(* disk.done are the rows of schema_migrations; unit, active, weight and   *)
(* code are columns of a material and its recipe item, index the kind of   *)
(* idx_materials_code; lot[i] the LOT of a record; reading[r] a row of     *)
(* viscosity_readings; test[i] the row of test_viscosity_readings of a     *)
(* record, log the values that audit_logs keeps; warn is warn_low of PB.   *)

----------------------------------------------------------------------------
(* standardize_recipe_units_to_grams                                       *)

\* Faulty variant: the step is not recorded.
UnitsUnrecorded(db) ==
    LET kg == {m \in Materials : db.active[m] /\ db.unit[m] = "kg"}
    IN  [db EXCEPT !.weight = [m \in Materials |-> IF m \in kg THEN 1000 * @[m] ELSE @[m]]]

Units(db) ==
    LET kg == {m \in Materials : db.active[m] /\ db.unit[m] = "kg"}
    IN  IF "units" \in db.done THEN db
        ELSE [db EXCEPT !.weight = [m \in Materials |-> IF m \in kg THEN 1000 * @[m] ELSE @[m]],
                        !.unit   = [m \in Materials |-> IF db.active[m] THEN "g" ELSE @[m]],
                        !.done   = @ \cup {"units"}]

----------------------------------------------------------------------------
(* ensure_materials_code_nocase_unique                                     *)

Coded(db)     == {m \in Materials : db.code[m] \notin {None, Blank}}
Conflicts(db) == {m \in Coded(db) : \E n \in Coded(db) \ {m} : db.code[n].key = db.code[m].key}

\* Faulty variant: the index is made whatever the codes are.
CodesAnyway(db) ==
    [db EXCEPT !.code = [m \in Materials |-> IF m \in Coded(db) THEN [@[m] EXCEPT !.upper = TRUE]
                                             ELSE None],
               !.index = "nocase"]

Codes(db) ==
    LET clean == Coded(db) \ Conflicts(db)
    IN  [db EXCEPT !.code = [m \in Materials |-> CASE m \in clean -> [@[m] EXCEPT !.upper = TRUE]
                                                   [] db.code[m] = Blank -> None
                                                   [] OTHER -> @[m]],
                   !.index = IF Conflicts(db) = {} THEN "nocase" ELSE @]

----------------------------------------------------------------------------
(* Readings are linked to the records of their LOT, the oldest first       *)

OldestOf(db, lot) == Min({i \in Records : db.lot[i] = lot})

Link(db) ==
    [db EXCEPT !.reading = [r \in Readings |->
        IF @[r] # None /\ @[r].rec = None /\ \E i \in Records : db.lot[i] = @[r].lot
        THEN [@[r] EXCEPT !.rec = OldestOf(db, db.reading[r].lot)] ELSE @[r]]]

\* Faulty variant: the seed is not recorded.
WarnAgain(db) == [db EXCEPT !.warn = IF @ = None THEN 48 ELSE @]

(* warn_low of PB is seeded once if there is none; then it belongs to the  *)
(* screen of the settings.                                                 *)
Warn(db) ==
    IF "warn" \in db.done THEN db
    ELSE [db EXCEPT !.warn = IF @ = None THEN 48 ELSE @, !.done = @ \cup {"warn"}]

----------------------------------------------------------------------------
(* migrate_v1_test_viscosity: the record of a value of a test is the test  *)
(* it is linked to, else the oldest test of its LOT, made before it.       *)

Candidates(db, row) ==
    LET before == {i \in Tests : i <= row.at}
    IN  IF row.rec \in before THEN {row.rec} ELSE {i \in before : db.lot[i] = row.lot}

\* Faulty variant: the value that comes later in the table wins, unlogged.
MoveLast(db, r) ==
    LET row == db.reading[r]
    IN  IF row = None \/ ~ row.test \/ Candidates(db, row) = {} THEN db
        ELSE [db EXCEPT !.reading[r] = None,
                        !.test[Min(Candidates(db, row))] = [value |-> r, at |-> row.at]]

\* The later of two values stays, the other is kept in the audit log.
Move(db, r) ==
    LET row    == db.reading[r]
        target == Min(Candidates(db, row))
        had    == db.test[target]
        new    == [value |-> r, at |-> row.at]
    IN  IF row = None \/ ~ row.test \/ Candidates(db, row) = {} THEN db
        ELSE [db EXCEPT !.reading[r] = None,
                        !.test[target] = IF had = None \/ row.at > had.at THEN new ELSE had,
                        !.log = IF had = None THEN @
                                ELSE @ \cup {IF row.at > had.at THEN had.value ELSE r}]

MoveTests(db) == FoldSeq(LAMBDA r, d : Move(d, r), db, SetToSortSeq(Readings, <))

----------------------------------------------------------------------------
(* dedup_product_lots and the unique index on LOTs                         *)

Taken(db) == {db.lot[i] : i \in Records}
Shorter(a, b) == LET n == IF Len(a) < Len(b) THEN Len(a) ELSE Len(b)
                 IN  \/ SubSeq(a, 1, n) = SubSeq(b, 1, n) /\ Len(a) < Len(b)
                     \/ \E k \in 1..n : SubSeq(a, 1, k - 1) = SubSeq(b, 1, k - 1) /\ a[k] < b[k]
Copies(db) ==       \* all but the oldest of the records of a LOT, by LOT and id
    SetToSortSeq({i \in Records : OldestOf(db, db.lot[i]) # i},
                 LAMBDA i, j : \/ Shorter(db.lot[i], db.lot[j])
                               \/ db.lot[i] = db.lot[j] /\ i < j)

\* The next free number of the product and day, or of the label.
NewLot(db, i) ==
    LET old     == db.lot[i]
        regular == Len(old) = 2 /\ old[1] = Base[i]
        lots    == IF regular THEN [n \in (old[2] + 1)..(old[2] + Cardinality(Records)) |-> <<Base[i], n>>]
                   ELSE [n \in 2..(Cardinality(Records) + 1) |-> Append(old, n)]
    IN  lots[Min({n \in DOMAIN lots : lots[n] \notin Taken(db)})]

\* Faulty variant: the readings keep the LOT their record had.
RelotOnly(db, i) == [db EXCEPT !.lot[i] = NewLot(db, i)]

(* The record's own readings get its new LOT; the unique index on product  *)
(* and LOT of the readings may refuse that.                                *)
Relot(db, i) ==
    LET new == NewLot(db, i)
        own == {r \in Readings : db.reading[r] # None /\ db.reading[r].rec = i
                                 /\ db.reading[r].lot = db.lot[i]}
        other == {r \in Readings : db.reading[r] # None /\ db.reading[r].lot = new}
    IN  [db EXCEPT !.lot[i] = new,
                   !.reading = [r \in Readings |-> IF r \in own THEN [@[r] EXCEPT !.lot = new] ELSE @[r]],
                   !.refused = @ \/ \E r \in own, q \in other :
                                       db.reading[r].product = db.reading[q].product]

UniqueLots(db) ==
    IF "lots" \in db.done THEN db
    ELSE [FoldSeq(LAMBDA i, d : Relot(d, i), db, Copies(db)) EXCEPT !.done = @ \cup {"lots"}]

----------------------------------------------------------------------------
(* A start                                                                 *)

LastStep == 6
Step(k, db) ==
    CASE k = 1 -> Units(db)  [] k = 2 -> Codes(db)     [] k = 3 -> Link(db)
      [] k = 4 -> Warn(db)   [] k = 5 -> MoveTests(db) [] k = 6 -> UniqueLots(db)

Migrated(db) == FoldSeq(Step, db, <<1, 2, 3, 4, 5, 6>>)

MigrationsInit ==
    /\ \E area \in Areas : disk \in Old(area)
    /\ work = None /\ at = 0 /\ server = "down"

Start ==
    /\ server = "down"
    /\ server' = "starting" /\ work' = disk /\ at' = 1
    /\ UNCHANGED disk

RunStep ==
    /\ server = "starting" /\ at <= LastStep /\ ~ work.refused
    /\ work' = Step(at, work) /\ at' = at + 1
    /\ UNCHANGED <<disk, server>>

CommitStart ==
    /\ server = "starting" /\ at > LastStep /\ ~ work.refused
    /\ disk' = work /\ server' = "up" /\ work' = None /\ at' = 0

\* An error of a step, a stop of the machine or of the server.
Stop ==
    /\ server # "down"
    /\ server' = "down" /\ work' = None /\ at' = 0
    /\ UNCHANGED disk

(* A tool or a statement of SQL gives a material a code; the index, under  *)
(* which exact or any copies are refused, is the only check.               *)
EditCode(m, code) ==
    /\ server # "starting"
    /\ \A n \in Materials \ {m} :
         /\ disk.code[n] # code \/ code = None
         /\ disk.index = "nocase" /\ code \notin {None, Blank} /\ n \in Coded(disk)
            => disk.code[n].key # code.key
    /\ disk' = [disk EXCEPT !.code[m] = code]
    /\ UNCHANGED <<work, at, server>>

\* A manager sets or clears the limit.
EditWarn(value) ==
    /\ server = "up"
    /\ disk' = [disk EXCEPT !.warn = value]
    /\ UNCHANGED <<work, at, server>>

MigrationsNext ==
    \/ Start \/ RunStep \/ CommitStart \/ Stop
    \/ \E m \in Materials, code \in NewCodes : EditCode(m, code)
    \/ \E value \in WarnLow : EditWarn(value)

----------------------------------------------------------------------------
(* Properties                                                              *)

Grams(db, m) == IF db.unit[m] = "kg" THEN 1000 * db.weight[m] ELSE db.weight[m]
Values(db) ==
    {r \in Readings : db.reading[r] # None} \cup db.log
        \cup {db.test[i].value : i \in {j \in Records : db.test[j] # None}}

(* A start changes no amount of a recipe, however often it was cut short   *)
(* or repeated.                                                            *)
AmountsSurviveNow == \A m \in Materials : Grams(disk', m) = Grams(disk, m)

(* A second start finds nothing left to do, unless a new LOT is one that a *)
(* reading without a record names: only the LOTs of records are avoided.   *)
NewLotsAreUnread ==
    \A r \in Readings : disk.reading[r] # None /\ disk.reading[r].lot \notin Taken(disk)
                        => disk.reading[r].lot \notin Taken(disk')
OneStartIsEnoughNow == CommitStart /\ NewLotsAreUnread => Migrated(disk') = disk'

(* What managers set since the first start is left alone.                  *)
SettingsStayNow == CommitStart /\ disk.done # {} => disk'.warn = disk.warn

(* When the server is up no two records share a LOT, and the index on the  *)
(* codes stands on codes that allow it.                                    *)
KeysAreUnique ==
    /\ server = "up" => Cardinality(Taken(disk)) = Cardinality(Records)
    /\ disk.index = "nocase" => Conflicts(disk) = {}

(* The first record of a LOT keeps it, since its document was printed, and *)
(* a reading goes with its record.                                         *)
ReadingsFollowNow ==
    CommitStart =>
        /\ \A i \in Records : OldestOf(disk, disk.lot[i]) = i => disk'.lot[i] = disk.lot[i]
        /\ \A r \in Readings, i \in Records :
             /\ disk.reading[r] # None /\ disk'.reading[r] # None
             /\ disk.reading[r].rec = i /\ disk.reading[r].lot = disk.lot[i]
             => disk'.reading[r].lot = disk'.lot[i]

(* No viscosity is lost: a value that is neither a reading nor the value   *)
(* of a test is in the audit log; and a test has no value older than it.   *)
NoValueIsLostNow ==
    CommitStart =>
        /\ Values(disk') = Values(disk)
        /\ \A i \in Records : disk'.test[i] # None => disk'.test[i].at >= i
=============================================================================
