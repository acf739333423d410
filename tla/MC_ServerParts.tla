--------------------------- MODULE MC_ServerParts ---------------------------
(***************************************************************************)
(* The parts of the server that share no state with a save, for TLC.  One  *)
(* run explores each of them by itself: part is the one that runs.         *)
(*                                                                         *)
(* They get their constants from the configuration: a screen with two      *)
(* answers under way; two pages, three wrong passwords; a LOT of the first *)
(* stage and one that does not exist, two saves in flight for one record   *)
(* of the second ("lots"), or one for two records when the list of         *)
(* unresolved LOTs looks at one row ("scan"); two spellings of a name and  *)
(* another name that reads as the one code, two recorded lines; a record,  *)
(* a test blend and two days of viscosities; a roster that grows to three  *)
(* rows, with one request at a time ("roster") or with two and two rows    *)
(* ("race").                                                               *)
(***************************************************************************)
EXTENDS Integers, Sessions, AttendanceLogin, LotChain, MaterialCodes, Viscosity, WorkerRoster

CONSTANTS Parts

VARIABLE part

A1 == <<"a", 1>>
A2 == <<"a", 2>>
B1 == <<"b", 1>>
TwoNames        == {A1, A2, B1}
NameOfA         == [p \in Products |-> A1]
BReadsAsC       == [n \in TwoNames |-> IF n = B1 THEN "c" ELSE NoCode]
NothingImported == [c \in {} |-> A1]

vars == <<part, viscosityVars, lotVars, sessionVars, loginVars, codeVars, rosterVars>>

Init ==
    /\ part \in Parts
    /\ ViscosityInit /\ LotInit /\ SessionsInit /\ LoginInit /\ CodesInit /\ RosterInit
    /\ part # "codes"    => rows = [r \in Lines |-> NoLine]
    /\ worker[1].name = "kim"

Only(p) == part = p /\ part' = p

Next ==
    \/ /\ Only("viscosity") /\ ViscosityNext
       /\ UNCHANGED <<lotVars, sessionVars, loginVars, codeVars, rosterVars>>
    \/ /\ part \in {"lots", "scan"} /\ UNCHANGED part /\ LotNext
       /\ UNCHANGED <<viscosityVars, sessionVars, loginVars, codeVars, rosterVars>>
       /\ IF part = "lots" THEN \A q \in Requests : save'[q].id # 2
          ELSE save'[2] = NoSave /\ 2 \notin {total'[l] : l \in Lots}
    \/ /\ Only("sessions") /\ SessionsNext
       /\ UNCHANGED <<viscosityVars, lotVars, loginVars, codeVars, rosterVars>>
    \/ /\ Only("login") /\ LoginNext
       /\ UNCHANGED <<viscosityVars, lotVars, sessionVars, codeVars, rosterVars>>
    \/ /\ Only("codes") /\ CodesNext
       /\ UNCHANGED <<viscosityVars, lotVars, sessionVars, loginVars, rosterVars>>
    \/ /\ part \in {"roster", "race"} /\ UNCHANGED part /\ RosterNext
       /\ UNCHANGED <<viscosityVars, lotVars, sessionVars, loginVars, codeVars>>
       /\ IF part = "roster" THEN request'[2] = NoName
          ELSE nextId' <= 2 /\ UNCHANGED screen

Spec == Init /\ [][Next]_vars
=============================================================================
