------------------------------ MODULE LotRules ------------------------------
(***************************************************************************)
(* Material LOTs as they are read: when a recipe's material changed its    *)
(* LOT (lot_history_service.py), and whether a LOT is known to the stock   *)
(* file of the ERP or was entered by a manager (erp_lot_service.py and the *)
(* list of material_lot_routes.py).                                        *)
(***************************************************************************)
EXTENDS Integers, FiniteSets, SequencesExt

Blank == "-"

(***************************************************************************)
(* lot_history(): the rows of one recipe family and material, in order of  *)
(* their dates: [date, lot].                                               *)
(***************************************************************************)
Segment(i, lot) == [lot |-> lot, first |-> i, last |-> i]

(* faulty variant: a LOT is compared with that of the row before, blank or *)
(* not                                                                     *)
AddRowForgetting(h, i, lot) ==
    [segments |-> IF h.segments # <<>> /\ Last(h.segments).lot = lot
                  THEN Front(h.segments) \o <<[Last(h.segments) EXCEPT !.last = i]>>
                  ELSE Append(h.segments, Segment(i, lot)),
     changes  |-> IF lot # Blank /\ h.previous \notin {Blank, lot}
                  THEN h.changes \cup {i} ELSE h.changes,
     previous |-> lot]

(* One row more: it extends the last segment or opens one, and is a change *)
(* when its LOT is not the last one that was not blank.                    *)
AddRow(h, i, lot) ==
    [segments |-> IF h.segments # <<>> /\ Last(h.segments).lot = lot
                  THEN Front(h.segments) \o <<[Last(h.segments) EXCEPT !.last = i]>>
                  ELSE Append(h.segments, Segment(i, lot)),
     changes  |-> IF lot # Blank /\ h.previous \notin {Blank, lot}
                  THEN h.changes \cup {i} ELSE h.changes,
     previous |-> IF lot = Blank THEN h.previous ELSE lot]

History(rows) ==
    LET step[i \in 0..Len(rows)] ==
          IF i = 0 THEN [segments |-> <<>>, changes |-> {}, previous |-> Blank]
          ELSE AddRow(step[i - 1], i, rows[i].lot)
    IN  step[Len(rows)]

InRange(date, from, to) == from <= date /\ date <= to

(* faulty variant: only the rows of the period are looked at               *)
ShownChangesInside(rows, from, to) ==
    LET inside == {i \in DOMAIN rows : InRange(rows[i].date, from, to)}
        start  == CHOOSE i \in inside \cup {1} : \A j \in inside : i <= j
    IN  {i \in inside : i = start \/ i \in History(rows).changes}

(* The period is cut out when all is computed.                             *)
ShownChanges(rows, from, to) ==
    {i \in History(rows).changes : InRange(rows[i].date, from, to)}
ShownSegments(rows, from, to) ==
    SelectSeq(History(rows).segments,
              LAMBDA s : rows[s.last].date >= from /\ rows[s.first].date <= to)

(***************************************************************************)
(* A family: the chain of the record's recipe, else the chain that has a   *)
(* recipe of the product's name, else the product.  table: id -> [parent,  *)
(* name, active], ids counted upwards.                                     *)
(***************************************************************************)
RECURSIVE Climb(_, _)
Climb(table, i) == IF i \notin DOMAIN table THEN 0
                   ELSE IF table[i].parent = 0 THEN i ELSE Climb(table, table[i].parent)

Named(table, name) == {i \in DOMAIN table : table[i].name = name /\ Climb(table, i) # 0}
Family(table, recipe, product) ==
    CASE recipe \in DOMAIN table /\ Climb(table, recipe) # 0 -> <<"chain", Climb(table, recipe)>>
      [] Named(table, product) # {} ->
            <<"chain", Climb(table, CHOOSE i \in Named(table, product) :
                                       \A j \in Named(table, product) : i <= j)>>
      [] OTHER -> <<"product", product>>

(***************************************************************************)
(* check_lot(): codes of raw materials only; managers first.  file: the    *)
(* rows [code, lot, stock] of the newest file, and whether there is one.   *)
(***************************************************************************)
Raw(code) == code \in {"AS1", "as1", "AC2"}
Upper(code) == IF code = "as1" THEN "AS1" ELSE code

(* The last row of a LOT counts.                                           *)
Stock(file, code, lot) ==
    LET rows == {i \in DOMAIN file.rows : file.rows[i].code = code /\ file.rows[i].lot = lot}
    IN  file.rows[CHOOSE i \in rows : \A j \in rows : j <= i].stock
Codes(file)      == {file.rows[i].code : i \in DOMAIN file.rows}
LotsOf(file, c)  == {file.rows[i].lot : i \in {j \in DOMAIN file.rows : file.rows[j].code = c}}

(* The code as the file spells it, or without regard to case.              *)
CodeIn(file, code) ==
    IF code \in Codes(file) THEN code
    ELSE LET rows == {i \in DOMAIN file.rows : Upper(file.rows[i].code) = Upper(code)}
         IN  IF rows = {} THEN Blank
             ELSE file.rows[CHOOSE i \in rows : \A j \in rows : i <= j].code

Entered(manual, code, lot) == \E m \in manual : Upper(m.code) = Upper(code) /\ m.lot = lot

CheckLot(file, manual, code, lot) ==
    CASE ~ Raw(code)                -> [valid |-> TRUE, reason |-> "not_erp_managed"]
      [] ~ file.read                -> [valid |-> TRUE, reason |-> "file_missing"]
      [] Entered(manual, code, lot) -> [valid |-> TRUE, reason |-> "manual"]
      [] CodeIn(file, code) = Blank -> [valid |-> FALSE, reason |-> "code_not_in_file"]
      [] lot \notin LotsOf(file, CodeIn(file, code)) ->
                                       [valid |-> FALSE, reason |-> "lot_not_in_file"]
      [] Stock(file, CodeIn(file, code), lot) > 0 -> [valid |-> TRUE, reason |-> "ok"]
      [] OTHER                      -> [valid |-> FALSE, reason |-> "depleted"]

(* faulty variant: an entry of a manager does not replace the file's row   *)
ListedBoth(file, manual) ==
    {[code |-> c, lot |-> l, valid |-> Stock(file, c, l) > 0] :
        <<c, l>> \in {<<file.rows[i].code, file.rows[i].lot>> : i \in DOMAIN file.rows}}
    \cup {[code |-> m.code, lot |-> m.lot, valid |-> TRUE] : m \in manual}

(* material_lot_status(): what the file has, and what managers entered.    *)
Listed(file, manual) ==
    {[code |-> c, lot |-> l, valid |-> Stock(file, c, l) > 0] :
        <<c, l>> \in {<<file.rows[i].code, file.rows[i].lot>> : i \in DOMAIN file.rows}
                      \ {<<m.code, m.lot>> : m \in manual}}
    \cup {[code |-> m.code, lot |-> m.lot, valid |-> TRUE] : m \in manual}
=============================================================================
