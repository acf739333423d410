------------------------------ MODULE LotChain ------------------------------
(***************************************************************************)
(* Two stages of production: a record of the first stage has a product LOT *)
(* which the second stage names as the LOT of a material.  A save of the   *)
(* second stage is not stopped by a LOT nobody made; it leaves a row in    *)
(* blend_lot_acks, and the list of unresolved LOTs compares those rows with*)
(* the completed records of the first stage whenever it is opened.  The    *)
(* list looks at the oldest of those rows only.  A carried-over row takes  *)
(* its amount from the first stage.                                        *)
(*                                                                         *)
(* A handler reads without a lock and then writes in one transaction.      *)
(***************************************************************************)
EXTENDS Naturals, FiniteSets

CONSTANTS
    Lots,       \* product LOTs of the first stage
    Typo,       \* a LOT that nobody makes
    Totals,     \* amounts
    SecondIds,  \* records of the second stage
    Requests,   \* saves and corrections in flight
    ScanLimit   \* rows of blend_lot_acks the list looks at: 2000
ASSUME ScanAssumption == ScanLimit \in Nat

VARIABLES
    made,       \* first stage: per LOT "none", "completed", "canceled", "gone"
    total,      \* first stage: per LOT its total_amount
    second,     \* second stage: per id its record, or Unsaved
    acks,       \* blend_lot_acks: [id, lot, nr], nr being its place in time
    save,       \* per request: what the handler read and will write
    lotHistory  \* LOTs ever completed; <<lot, total>> ever recorded

lotVars == <<made, total, second, acks, save, lotHistory>>

(* A LOT is typed as it is printed or without the product's name in front. *)
Unsaved   == [status |-> "unsaved"]
NoSave    == [id |-> 0]

LotInit ==
    /\ made = [l \in Lots |-> "none"] /\ total = [l \in Lots |-> 0]
    /\ second = [i \in SecondIds |-> Unsaved] /\ acks = {}
    /\ save = [q \in Requests |-> NoSave]
    /\ lotHistory = [lots |-> {}, totals |-> {}]

Completed == {l \in Lots : made[l] = "completed"}

(***************************************************************************)
(* The checks of a save                                                    *)
(***************************************************************************)
(* unregistered_product_lot_pairs() compares what was typed.               *)
Unregistered(row) ==
    /\ ~ row.carried /\ Completed # {}
    /\ ~ (row.spelled = "printed" /\ row.lot \in Completed)

LotAcksOfNew(id, row) ==                  \* faulty variant: not of corrections
    IF Unregistered(row) /\ second[id] = Unsaved THEN {row.lot} ELSE {}

(* collect_lot_acks(): the LOTs that get a row                             *)
LotAcks(id, row) == IF Unregistered(row) THEN {row.lot} ELSE {}

(* enforce_carry_over(): a completed LOT, and its total whatever was sent. *)
CarryAllowed(row)  == row.carried => row.spelled = "printed" /\ row.lot \in Completed
CarryAsSent(row)   == row                                          \* faulty variant
Carry(row)         == IF row.carried THEN [row EXCEPT !.amount = total[row.lot]] ELSE row

(* unresolved_lot_acks(): normalize_lot_key() makes both spellings one.    *)
(* The rows of completed records, oldest first, up to the limit; those of  *)
(* LOTs that are completed by now count towards it, too.                   *)
Standing   == {a \in acks : second[a.id].status = "completed"}
Scanned    == {a \in Standing : Cardinality({b \in Standing : b.nr < a.nr}) < ScanLimit}
Unresolved == {a \in Scanned : a.lot \notin Completed}

Rows == [lot : Lots \cup {Typo}, spelled : {"printed", "short"}, carried : {FALSE}, amount : {0}]
          \cup [lot : Lots \cup {Typo}, spelled : {"printed"}, carried : {TRUE}, amount : {0}]

(* POST and PUT up to the transaction.  own is history: the material was   *)
(* known as a product of the first stage.                                  *)
ReadSave(q, id, row) ==
    /\ save[q] = NoSave /\ second[id].status # "deleted"
    /\ CarryAllowed(row)
    /\ save' = [save EXCEPT ![q] =
                  [id |-> id, new |-> second[id].status = "unsaved",
                   row |-> Carry(row), acks |-> LotAcks(id, row),
                   own |-> Completed # {}]]
    /\ UNCHANGED <<made, total, second, acks, lotHistory>>

Record(s, status) == [status |-> status, lot |-> s.row.lot, carried |-> s.row.carried,
                      amount |-> s.row.amount, own |-> s.own]

(* The places in time are counted from 0, and new rows come after all      *)
(* others.                                                                 *)
AckRow(id, lot, nr) == [id |-> id, lot |-> lot, nr |-> nr]
Extended(old, id, lots) ==
    {AckRow(a.id, a.lot, Cardinality({b \in old : b.nr < a.nr})) : a \in old}
      \cup {AckRow(id, l, Cardinality(old)) : l \in lots}

Add(id, lots)        == Extended(acks, id, lots)                   \* faulty variant
(* record_lot_acks(replace=True)                                           *)
Replace(id, lots)    == Extended({a \in acks : a.id # id}, id, lots)

(* The transaction of a new record; of a correction, which keeps the status*)
WriteNew(q) ==
    /\ save[q] # NoSave /\ save[q].new /\ second[save[q].id] = Unsaved
    /\ second' = [second EXCEPT ![save[q].id] = Record(save[q], "completed")]
    /\ acks' = Extended(acks, save[q].id, save[q].acks)
    /\ save' = [save EXCEPT ![q] = NoSave]
    /\ UNCHANGED <<made, total, lotHistory>>

WriteCorrection(q) ==
    /\ save[q] # NoSave /\ ~ save[q].new
    /\ second[save[q].id].status \in {"completed", "canceled"}
    /\ second' = [second EXCEPT ![save[q].id] = Record(save[q], @.status)]
    /\ acks' = Replace(save[q].id, save[q].acks)
    /\ save' = [save EXCEPT ![q] = NoSave]
    /\ UNCHANGED <<made, total, lotHistory>>

(* The record was taken by the other request, or is gone.                  *)
Abandon(q) ==
    /\ save[q] # NoSave
    /\ IF save[q].new THEN second[save[q].id] # Unsaved ELSE second[save[q].id].status = "deleted"
    /\ save' = [save EXCEPT ![q] = NoSave]
    /\ UNCHANGED <<made, total, second, acks, lotHistory>>

(* Cancel, restore, delete for good: blend_lot_acks is not touched.        *)
SetStatus(id, from, to) ==
    /\ second[id].status = from
    /\ second' = [second EXCEPT ![id] = IF to = "deleted" THEN [status |-> to] ELSE [@ EXCEPT !.status = to]]
    /\ UNCHANGED <<made, total, acks, save, lotHistory>>

(***************************************************************************)
(* The first stage: saved, corrected, canceled, restored, deleted          *)
(***************************************************************************)
Known(l, t) == lotHistory' = [lots   |-> lotHistory.lots \cup {l},
                           totals |-> lotHistory.totals \cup {<<l, t>>}]
MakeFirst(l, t) ==
    /\ made[l] # "gone" /\ (made[l] = "none" \/ total[l] # t)
    /\ made' = [made EXCEPT ![l] = IF @ = "none" THEN "completed" ELSE @]
    /\ total' = [total EXCEPT ![l] = t]
    /\ Known(l, t)
    /\ UNCHANGED <<second, acks, save>>

SetFirst(l, from, to) ==
    /\ made[l] = from /\ made' = [made EXCEPT ![l] = to]
    /\ UNCHANGED <<total, second, acks, save, lotHistory>>

LotNext ==
    \/ \E q \in Requests :
         \/ \E id \in SecondIds, row \in Rows : ReadSave(q, id, row)
         \/ WriteNew(q) \/ WriteCorrection(q) \/ Abandon(q)
    \/ \E id \in SecondIds : \/ SetStatus(id, "completed", "canceled")
                       \/ SetStatus(id, "canceled", "completed")
                       \/ SetStatus(id, "canceled", "deleted")
    \/ \E l \in Lots, t \in Totals : MakeFirst(l, t)
    \/ \E l \in Lots : \/ SetFirst(l, "completed", "canceled")
                       \/ SetFirst(l, "canceled", "completed")
                       \/ SetFirst(l, "canceled", "gone")
LotSpec == LotInit /\ [][LotNext]_lotVars

(***************************************************************************)
(* Properties                                                              *)
(***************************************************************************)
(* A row about a LOT never outlives the LOT: what the list shows of a      *)
(* record is what the record names now, however its corrections overlap.   *)
AcksFollowTheRow ==
    \A a \in acks : second[a.id].status # "deleted" =>
        second[a.id].lot = a.lot /\ ~ second[a.id].carried

(* A LOT that nobody ever made does not get lost: as long as the second    *)
(* stage stands, the list shows it, unless the rows of other standing      *)
(* records that are older fill the list's scan.  (Of a material that had no*)
(* completed record at all when it was saved the server does not know it   *)
(* is made.)                                                               *)
Typos == {i \in SecondIds : /\ second[i].status = "completed" /\ ~ second[i].carried
                            /\ second[i].own /\ second[i].lot \notin lotHistory.lots}
TyposAreListed ==
    \A i \in Typos : \E a \in Standing :
        a.id = i /\ a.lot = second[i].lot /\ (a \in Scanned => a \in Unresolved)

(* The docstring of unresolved_lot_acks(): what is never resolved does not *)
(* disappear without a word.                                               *)
NoTypoDisappears == \A i \in Typos : \E a \in Unresolved : a.id = i /\ a.lot = second[i].lot

(* The amount of a carried-over row was the total of that LOT, never what  *)
(* the client sent.                                                        *)
CarriedWasTotal ==
    \A i \in SecondIds : second[i].status \in {"completed", "canceled"} /\ second[i].carried
                     => <<second[i].lot, second[i].amount>> \in lotHistory.totals

(* What the second stage says of the first is traced to it: rows of        *)
(* blend_lot_acks, the list of LOTs nobody made, amounts carried over.     *)
LotsAreTraced == AcksFollowTheRow /\ TyposAreListed /\ CarriedWasTotal

(* A carried-over LOT is completed, with that total, when it is written.   *)
CarriedIsCompleted ==
    [][\A i \in SecondIds : second'[i] # second[i] /\ second'[i].status = "completed"
                        /\ second[i].status # "canceled" /\ second'[i].carried
          => second'[i].lot \in Completed /\ second'[i].amount = total[second'[i].lot]]_lotVars
=============================================================================
