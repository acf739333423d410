---------------------------- MODULE MC_Versions -----------------------------
(***************************************************************************)
(* What outlives a version, for TLC, one world at a time: the versions of  *)
(* a recipe, with one manager and all operations ("one"), with two and     *)
(* texts that register up to two recipes ("two"), or with two who link and *)
(* delete first stages ("links"), and what a new version inherits          *)
(* ("settings"); the documents of the versions of a record ("documents");  *)
(* the database of an older program, with its materials or its rows        *)
(* ("starts", "rows").                                                     *)
(*                                                                         *)
(* RecipeVersions, RecipeSettings and Documents get their constants from   *)
(* the configuration: three recipes, a reactor with one assignment; two    *)
(* materials, a category that is not allowed, two revisions; two downloads,*)
(* a change of the record, two values of the settings of documents.        *)
(***************************************************************************)
EXTENDS Integers, Sequences, RecipeVersions, RecipeSettings, Documents

CONSTANTS Blank, Worlds

VARIABLES world, disk, work, at, server

(* The requests of each world.                                             *)
Sent(r) ==
    CASE world = "one"   -> r.name = "import" => r.rows = 1
      [] world = "two"   -> \/ r.name \in {"status", "current", "delete"}
                            \/ r.name = "import" /\ r.stage1 = NULL
      [] world = "links" -> \/ r.name \in {"delete", "stage1"}
                            \/ r.name = "import" /\ r.id = NULL
      [] OTHER           -> FALSE

(* Two materials, three records of one product and day, the last two of    *)
(* them tests, two readings.                                               *)
Plain ==
    [done |-> {}, unit |-> [m \in {"a", "b"} |-> "g"], active |-> [m \in {"a", "b"} |-> TRUE],
     weight |-> [m \in {"a", "b"} |-> 1], code |-> [m \in {"a", "b"} |-> None], index |-> "binary",
     lot |-> [i \in 1..3 |-> <<1, i>>], reading |-> [r \in {1, 2} |-> None],
     test |-> [i \in 1..3 |-> None], log |-> {}, warn |-> None, refused |-> FALSE]
Rows(lots, tests) ==
    {None} \cup [product : {1}, lot : lots, rec : {None, 2, 3}, test : tests, at : {1, 3}]
Apart(f) == f[1] = None \/ f[2] = None \/ f[1].lot # f[2].lot
OldDatabases(area) ==
    CASE area = "units" ->
           {[Plain EXCEPT !.unit = u, !.active = a] :
                u \in [{"a", "b"} -> {"g", "kg"}], a \in [{"a", "b"} -> BOOLEAN]}
      [] area = "lots" ->
           {[Plain EXCEPT !.lot = l, !.reading = f] :
                l \in [1..3 -> {<<1, 1>>, <<1, 2>>, <<9>>}],
                f \in {g \in [{1, 2} -> Rows({<<1, 1>>, <<1, 3>>, <<9, 2>>}, {FALSE})] : Apart(g)}}
      [] area = "tests" ->
           {[Plain EXCEPT !.lot = [i \in 1..3 |-> IF i = 3 THEN l ELSE <<1, i>>], !.reading = f] :
                l \in {<<1, 2>>, <<1, 3>>},
                f \in {g \in [{1, 2} -> Rows({<<1, 1>>, <<1, 2>>}, BOOLEAN)] : Apart(g)}}

M == INSTANCE Migrations WITH
        Materials <- {"a", "b"}, Records <- 1..3, Tests <- {2, 3},
        Base <- [i \in 1..3 |-> 1], Readings <- {1, 2}, Old <- OldDatabases,
        Areas <- {"units"}, WarnLow <- {None, 50},
        NewCodes <- {None, Blank, [key |-> "k", upper |-> TRUE], [key |-> "k", upper |-> FALSE]}

(* The same without changes between two starts.                            *)
N == INSTANCE Migrations WITH
        Materials <- {"a", "b"}, Records <- 1..3, Tests <- {2, 3},
        Base <- [i \in 1..3 |-> 1], Readings <- {1, 2}, Old <- OldDatabases,
        Areas <- {"lots", "tests"}, WarnLow <- {}, NewCodes <- {}

starts == <<disk, work, at, server>>
vars   == <<world, versionVars, settingsVars, docVars, starts>>

Init ==
    /\ world \in Worlds
    /\ VersionsInit /\ SettingsInit /\ DocumentsInit
    /\ IF world = "rows" THEN N!MigrationsInit ELSE M!MigrationsInit
    /\ world # "settings" => about = "anchor"
    /\ world # "documents" => settings = 1
    /\ world \notin {"starts", "rows"} => disk = Plain

Only(w) == world = w /\ world' = w

Next ==
    \/ /\ UNCHANGED world /\ world \in {"one", "two", "links"}
       /\ VersionsNext /\ UNCHANGED <<settingsVars, docVars, starts>>
       /\ \A m \in InFlight' : Sent(request'[m]) /\ (world = "one" => m = 1)
    \/ Only("settings") /\ SettingsNext /\ UNCHANGED <<versionVars, docVars, starts>>
    \/ Only("documents") /\ DocumentsNext /\ UNCHANGED <<versionVars, settingsVars, starts>>
    \/ Only("starts") /\ M!MigrationsNext /\ UNCHANGED <<versionVars, settingsVars, docVars>>
    \/ Only("rows") /\ N!MigrationsNext /\ UNCHANGED <<versionVars, settingsVars, docVars>>

Spec == Init /\ [][Next]_vars

(* A start of a new program on an old database, repeated, cut short or     *)
(* refused, changes no amount, makes LOTs and codes unique, takes readings *)
(* along with their records, loses no viscosity, leaves settings alone,    *)
(* and needs to be done once (migrations.py).                              *)
StartsAreSafe ==
    [][/\ world = "starts" => M!AmountsSurviveNow /\ M!SettingsStayNow
       /\ world = "rows"   => N!ReadingsFollowNow /\ N!NoValueIsLostNow
       /\ world \in {"starts", "rows"} => M!OneStartIsEnoughNow /\ M!KeysAreUnique']_vars
=============================================================================
