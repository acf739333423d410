-------------------------- MODULE MaterialProofs --------------------------
(***************************************************************************)
(* Proofs about LotChain, for any LOTs, records and number of saves and    *)
(* corrections in flight: what blend_lot_acks says of a record is what the *)
(* record says, a LOT nobody made is listed as far as the list looks, and a*)
(* carried-over amount was a total of the first stage; about MaterialCodes, for any materials,     *)
(* names, codes and recipe lines: a name and a code belong to one          *)
(* material, and no change of the names moves a line to another code; and  *)
(* about Viscosity, for any records, values and days: no test blend gets   *)
(* into the readings of a product, and no value changes without a log.     *)
(***************************************************************************)
EXTENDS Integers, LotChain, MaterialCodes, Viscosity, FiniteSetTheorems, TLAPS

(***************************************************************************)
(* The inductive invariant.  A handler decides before its transaction, so  *)
(* each part says the same of the records and of the saves in flight.      *)
(***************************************************************************)
AnyLot   == Lots \cup {Typo}
Amounts  == Totals \cup {0}
Statuses == {"none", "completed", "canceled", "gone"}
Deleted  == [status |-> "deleted"]
TypedRow == [lot : AnyLot, spelled : {"printed", "short"}, carried : BOOLEAN, amount : Amounts]
Saves    == [id : SecondIds, new : BOOLEAN, row : TypedRow, acks : SUBSET AnyLot, own : BOOLEAN]
SecondRecords == [status : {"completed", "canceled"}, lot : AnyLot, carried : BOOLEAN,
                  amount : Amounts, own : BOOLEAN]

LotsTyped ==
    /\ made \in [Lots -> Statuses] /\ total \in [Lots -> Amounts]
    /\ second \in [SecondIds -> SecondRecords \cup {Unsaved, Deleted}]
    /\ \A a \in acks : a.id \in SecondIds
    /\ save \in [Requests -> Saves \cup {NoSave}]

(* What is remembered of the first stage.                                  *)
FirstRemembered ==
    \A l \in Lots : made[l] # "none" => /\ l \in lotHistory.lots
                                        /\ <<l, total[l]>> \in lotHistory.totals

(* The rows of blend_lot_acks, and those a save will write.                *)
RowsFollow ==
    \A a \in acks : /\ second[a.id].status # "unsaved"
                    /\ second[a.id].status # "deleted"
                         => second[a.id].lot = a.lot /\ ~ second[a.id].carried
SaveFollows(s) ==
    \A l \in s.acks : l = s.row.lot /\ ~ s.row.carried

(* A LOT that was never completed has its row, in the table or in the save;*)
(* a carried-over amount was a total.  h is the history.                   *)
LotsOf(listed, i) == {a.lot : a \in {b \in listed : b.id = i}}
HasRow(record, lots, h) ==
    ~ record.carried /\ record.own /\ record.lot \notin h.lots => record.lot \in lots
WasTotal(row, h) == row.carried => <<row.lot, row.amount>> \in h.totals

RecordSound(record, listed, i, h) ==
    record \in SecondRecords => HasRow(record, LotsOf(listed, i), h) /\ WasTotal(record, h)
SaveSound(s, h) ==
    s \in Saves => /\ SaveFollows(s)
                   /\ HasRow(Record(s, "completed"), s.acks, h)
                   /\ WasTotal(s.row, h)

LotInv ==
    /\ LotsTyped /\ FirstRemembered /\ RowsFollow
    /\ \A i \in SecondIds : RecordSound(second[i], acks, i, lotHistory)
    /\ \A q \in Requests : SaveSound(save[q], lotHistory)

LEMMA StatusTells ==
    ASSUME NEW r \in SecondRecords \cup {Unsaved, Deleted}
    PROVE  /\ r \in SecondRecords <=> r.status \in {"completed", "canceled"}
           /\ r = Unsaved => r.status = "unsaved"
           /\ r.status = "unsaved" => r = Unsaved
           /\ r.status = "deleted" => r = Deleted
           /\ Deleted.status = "deleted"
           /\ Deleted \notin SecondRecords
BY DEF SecondRecords, Unsaved, Deleted

LEMMA LotsBegin ==
    LotInit => LotInv
<1>1. SUFFICES ASSUME LotInit PROVE LotInv
  OBVIOUS
<1>2. /\ made = [l \in Lots |-> "none"] /\ total = [l \in Lots |-> 0]
      /\ second = [i \in SecondIds |-> Unsaved] /\ acks = {}
      /\ save = [q \in Requests |-> NoSave]
  BY <1>1 DEF LotInit
<1>3. LotsTyped
  BY <1>2 DEF LotsTyped, Statuses, Amounts
<1>4. FirstRemembered /\ RowsFollow
  BY <1>2 DEF FirstRemembered, RowsFollow
<1>5. \A i \in SecondIds : RecordSound(second[i], acks, i, lotHistory)
  <2>1. Unsaved \notin SecondRecords
    BY DEF Unsaved, SecondRecords
  <2>2. QED
    BY <1>2, <2>1 DEF RecordSound
<1>6. \A q \in Requests : SaveSound(save[q], lotHistory)
  <2>1. NoSave \notin Saves
    BY DEF NoSave, Saves
  <2>2. QED
    BY <1>2, <2>1 DEF SaveSound
<1>7. QED
  BY <1>3, <1>4, <1>5, <1>6 DEF LotInv

(***************************************************************************)
(* A save                                                                  *)
(***************************************************************************)
LEMMA ReadSaveStep ==
    ASSUME LotInv, NEW q \in Requests, NEW id \in SecondIds, NEW row \in Rows, ReadSave(q, id, row)
    PROVE  LotInv'
<1> DEFINE s == [id |-> id, new |-> second[id].status = "unsaved",
                 row |-> Carry(row), acks |-> LotAcks(id, row), own |-> Completed # {}]
<1>1. /\ save' = [save EXCEPT ![q] = s] /\ CarryAllowed(row)
      /\ made' = made /\ total' = total /\ second' = second /\ acks' = acks
      /\ lotHistory' = lotHistory
  BY DEF ReadSave
<1>2. /\ row.lot \in AnyLot /\ row.spelled \in {"printed", "short"} /\ row.carried \in BOOLEAN
      /\ row.amount \in Amounts /\ row \in TypedRow
  BY DEF Rows, AnyLot, Amounts, TypedRow
<1>3. /\ LotsTyped /\ FirstRemembered
  BY DEF LotInv
<1>4. row.carried => row.lot \in Lots /\ made[row.lot] = "completed"
  BY <1>1 DEF CarryAllowed, Completed
<1>5. /\ Carry(row) \in TypedRow /\ Carry(row).lot = row.lot
      /\ Carry(row).carried = row.carried
      /\ row.carried => Carry(row).amount = total[row.lot]
  BY <1>2, <1>3, <1>4 DEF Carry, TypedRow, LotsTyped
<1>6. /\ LotAcks(id, row) \subseteq AnyLot
      /\ \A l \in LotAcks(id, row) : l = row.lot /\ ~ row.carried
  BY <1>2 DEF LotAcks, Unregistered
<1>7. ~ row.carried /\ Completed # {} /\ row.lot \notin Completed => row.lot \in LotAcks(id, row)
  BY DEF LotAcks, Unregistered
<1>8. Completed \subseteq lotHistory.lots
  BY <1>3 DEF Completed, FirstRemembered
<1>9. s \in Saves
  <2>1. (second[id].status = "unsaved") \in BOOLEAN /\ (Completed # {}) \in BOOLEAN
    OBVIOUS
  <2> DEFINE new == second[id].status = "unsaved"
             own == Completed # {}
  <2> HIDE DEF new, own
  <2>2. new \in BOOLEAN /\ own \in BOOLEAN
    BY <2>1 DEF new, own
  <2>3. [id |-> id, new |-> new, row |-> Carry(row),
         acks |-> LotAcks(id, row), own |-> own] \in Saves
    BY <1>5, <1>6, <2>2 DEF Saves
  <2>4. QED
    BY <2>3 DEF new, own
<1> HIDE DEF s
<1>10. SaveSound(s, lotHistory)
  <2>1. s.id = id /\ s.row = Carry(row) /\ s.acks = LotAcks(id, row) /\ s.own = (Completed # {})
    BY DEF s
  <2>2. SaveFollows(s)
    BY <1>5, <1>6, <2>1 DEF SaveFollows
  <2>3. HasRow(Record(s, "completed"), s.acks, lotHistory)
    BY <1>5, <1>7, <1>8, <2>1 DEF HasRow, Record
  <2>4. WasTotal(s.row, lotHistory)
    BY <1>3, <1>4, <1>5, <2>1 DEF WasTotal, FirstRemembered
  <2>5. QED
    BY <2>2, <2>3, <2>4 DEF SaveSound
<1>11. LotsTyped'
  BY <1>1, <1>3, <1>9 DEF LotsTyped
<1>12. FirstRemembered' /\ RowsFollow'
  BY <1>1 DEF LotInv, FirstRemembered, RowsFollow
<1>13. \A i \in SecondIds : RecordSound(second'[i], acks', i, lotHistory')
  BY <1>1 DEF LotInv
<1>14. \A r \in Requests : SaveSound(save'[r], lotHistory')
  BY <1>1, <1>3, <1>10 DEF LotInv, LotsTyped
<1>15. QED
  BY <1>11, <1>12, <1>13, <1>14 DEF LotInv

(* The new rows come to the others, which keep what they are about.        *)
LEMMA ExtendedRows ==
    ASSUME NEW old, NEW id, NEW lots
    PROVE  /\ \A a \in Extended(old, id, lots) :
                \/ \E b \in old : b.id = a.id /\ b.lot = a.lot
                \/ a.id = id /\ a.lot \in lots
           /\ \A b \in old : \E a \in Extended(old, id, lots) : a.id = b.id /\ a.lot = b.lot
           /\ \A l \in lots : \E a \in Extended(old, id, lots) : a.id = id /\ a.lot = l
<1>1. \A i, l, n : AckRow(i, l, n).id = i /\ AckRow(i, l, n).lot = l
  BY DEF AckRow
<1> DEFINE place(a) == Cardinality({b \in old : b.nr < a.nr})
           kept     == {AckRow(a.id, a.lot, place(a)) : a \in old}
           added    == {AckRow(id, l, Cardinality(old)) : l \in lots}
<1>2. Extended(old, id, lots) = kept \cup added
  BY DEF Extended
<1>3. \A a \in kept : \E b \in old : b.id = a.id /\ b.lot = a.lot
  <2> HIDE DEF place
  <2> QED
    BY <1>1
<1>4. \A b \in old : \E a \in kept : a.id = b.id /\ a.lot = b.lot
  <2> HIDE DEF place
  <2> QED
    BY <1>1
<1>5. \A a \in added : a.id = id /\ a.lot \in lots
  BY <1>1
<1>6. ASSUME NEW l \in lots PROVE \E a \in added : a.id = id /\ a.lot = l
  <2>1. AckRow(id, l, Cardinality(old)) \in added
    OBVIOUS
  <2> HIDE DEF added
  <2> QED
    BY <1>1, <2>1
<1> HIDE DEF kept, added
<1>7. \A a \in kept \cup added : \/ \E b \in old : b.id = a.id /\ b.lot = a.lot
                                 \/ a.id = id /\ a.lot \in lots
  BY <1>3, <1>5
<1>8. \A b \in old : \E a \in kept \cup added : a.id = b.id /\ a.lot = b.lot
  BY <1>4
<1>9. \A l \in lots : \E a \in kept \cup added : a.id = id /\ a.lot = l
  BY <1>6
<1> QED
  BY <1>2, <1>7, <1>8, <1>9, Zenon

(* Another record's soundness does not depend on what a save writes.       *)
LEMMA WrittenKeeps ==
    ASSUME LotInv, NEW q \in Requests, NEW status \in {"completed", "canceled"}, NEW old,
           old \subseteq acks,
           \A a \in acks : a.id # save[q].id => a \in old,
           \A a \in old : a.id # save[q].id,
           save[q] \in Saves,
           second' = [second EXCEPT ![save[q].id] = Record(save[q], status)],
           acks' = Extended(old, save[q].id, save[q].acks),
           save' = [save EXCEPT ![q] = NoSave],
           UNCHANGED <<made, total, lotHistory>>
    PROVE  LotInv'
<1> DEFINE s == save[q]
           id == s.id
           record == Record(s, status)
<1>1. /\ LotsTyped /\ SaveSound(s, lotHistory) /\ s \in Saves
  BY DEF LotInv
<1>2. /\ id \in SecondIds /\ s.row \in TypedRow /\ s.own \in BOOLEAN
  BY <1>1 DEF Saves
<1>3. /\ record \in SecondRecords /\ record.status = status /\ record.lot = s.row.lot
      /\ record.carried = s.row.carried /\ record.amount = s.row.amount /\ record.own = s.own
  BY <1>2 DEF Record, SecondRecords, TypedRow
<1>4. /\ SaveFollows(s) /\ WasTotal(s.row, lotHistory)
      /\ HasRow(Record(s, "completed"), s.acks, lotHistory)
  BY <1>1 DEF SaveSound
<1> HIDE DEF s, id, record
<1>5. /\ second' = [second EXCEPT ![id] = record] /\ acks' = Extended(old, id, s.acks)
      /\ save' = [save EXCEPT ![q] = NoSave]
  BY DEF s, id, record
<1>6. /\ second' \in [SecondIds -> SecondRecords \cup {Unsaved, Deleted}]
      /\ second'[id] = record /\ \A i \in SecondIds : i # id => second'[i] = second[i]
  BY <1>1, <1>2, <1>3, <1>5 DEF LotsTyped
<1>7. \A a \in old : a \in acks /\ a.id # id /\ a.id \in SecondIds
  BY <1>1 DEF LotsTyped, s, id
<1>8. \A a \in acks' : \/ \E b \in old : b.id = a.id /\ b.lot = a.lot
                       \/ a.id = id /\ a.lot \in s.acks
  BY <1>5, ExtendedRows
<1>9. LotsTyped'
  BY <1>1, <1>2, <1>5, <1>6, <1>7, <1>8 DEF LotsTyped
<1>14. FirstRemembered'
  BY DEF LotInv, FirstRemembered
<1>10. RowsFollow'
  <2>1. \A a \in old : second'[a.id] = second[a.id]
    BY <1>6, <1>7
  <2>2. \A l \in s.acks : l = record.lot /\ ~ record.carried
    BY <1>3, <1>4 DEF SaveFollows
  <2>3. QED
    BY <1>3, <1>6, <1>7, <1>8, <2>1, <2>2 DEF LotInv, RowsFollow
<1>11. ASSUME NEW i \in SecondIds PROVE RecordSound(second'[i], acks', i, lotHistory')
  <2>1. CASE i = id
    <3>1. s.acks \subseteq LotsOf(acks', id)
      BY <1>5, ExtendedRows DEF LotsOf
    <3>2. HasRow(record, LotsOf(acks', id), lotHistory)
      BY <1>3, <1>4, <3>1 DEF HasRow, Record
    <3>3. WasTotal(record, lotHistory)
      BY <1>3, <1>4 DEF WasTotal
    <3>4. QED
      BY <1>6, <2>1, <3>2, <3>3 DEF RecordSound
  <2>2. CASE i # id
    <3>1. second'[i] = second[i] /\ RecordSound(second[i], acks, i, lotHistory)
      BY <1>6, <2>2 DEF LotInv
    <3>2. LotsOf(acks, i) \subseteq LotsOf(acks', i)
      <4>1. \A a \in acks : a.id = i => a \in old
        BY <2>2 DEF id, s
      <4>2. \A b \in old : \E a \in acks' : a.id = b.id /\ a.lot = b.lot
        BY <1>5, ExtendedRows
      <4> QED
        BY <4>1, <4>2 DEF LotsOf
    <3>3. QED
      BY <3>1, <3>2 DEF RecordSound, HasRow
  <2>3. QED
    BY <2>1, <2>2
<1>12. \A r \in Requests : SaveSound(save'[r], lotHistory')
  <2>1. NoSave \notin Saves
    BY DEF NoSave, Saves
  <2>2. \A r \in Requests : save'[r] = save[r] \/ save'[r] = NoSave
    BY <1>1, <1>5 DEF LotsTyped
  <2>3. QED
    BY <2>1, <2>2 DEF LotInv, SaveSound
<1>13. QED
  BY <1>9, <1>14, <1>10, <1>11, <1>12 DEF LotInv

LEMMA WriteNewStep ==
    ASSUME LotInv, NEW q \in Requests, WriteNew(q)
    PROVE  LotInv'
<1>1. /\ save[q] \in Saves /\ second[save[q].id] = Unsaved
  BY DEF WriteNew, LotInv, LotsTyped
<1>2. \A a \in acks : a.id # save[q].id
  BY <1>1 DEF LotInv, RowsFollow, Unsaved
<1>3. acks' = Extended(acks, save[q].id, save[q].acks)
  BY DEF WriteNew
<1>4. QED
  BY <1>1, <1>2, <1>3, WrittenKeeps DEF WriteNew

LEMMA WriteCorrectionStep ==
    ASSUME LotInv, NEW q \in Requests, WriteCorrection(q)
    PROVE  LotInv'
<1> DEFINE status == second[save[q].id].status
           old == {a \in acks : a.id # save[q].id}
<1>1. save[q] \in Saves /\ status \in {"completed", "canceled"}
  BY DEF WriteCorrection, LotInv, LotsTyped
<1>2. second' = [second EXCEPT ![save[q].id] = Record(save[q], status)]
  BY DEF WriteCorrection
<1>3. acks' = Extended(old, save[q].id, save[q].acks)
  BY DEF WriteCorrection, Replace
<1>4. old \subseteq acks /\ \A a \in acks : a.id # save[q].id => a \in old
  OBVIOUS
<1>5. \A a \in old : a.id # save[q].id
  OBVIOUS
<1>6. save' = [save EXCEPT ![q] = NoSave] /\ UNCHANGED <<made, total, lotHistory>>
  BY DEF WriteCorrection
<1> HIDE DEF status, old
<1>7. QED
  BY <1>1, <1>2, <1>3, <1>4, <1>5, <1>6, WrittenKeeps

LEMMA AbandonStep ==
    ASSUME LotInv, NEW q \in Requests, Abandon(q)
    PROVE  LotInv'
<1>1. /\ save' = [save EXCEPT ![q] = NoSave]
      /\ made' = made /\ total' = total /\ second' = second /\ acks' = acks
      /\ lotHistory' = lotHistory
  BY DEF Abandon
<1>2. LotsTyped'
  BY <1>1 DEF LotInv, LotsTyped
<1>3. NoSave \notin Saves
  BY DEF NoSave, Saves
<1>4. \A r \in Requests : save'[r] = save[r] \/ save'[r] = NoSave
  BY <1>1 DEF LotInv, LotsTyped
<1>5. \A r \in Requests : SaveSound(save'[r], lotHistory')
  BY <1>1, <1>3, <1>4 DEF LotInv, SaveSound
<1>6. QED
  BY <1>1, <1>2, <1>5 DEF LotInv, FirstRemembered, RowsFollow

(* Cancel, restore and delete leave the row a record has and its rows in     *)
(* blend_lot_acks alone; the list drops those of a deleted record.         *)
LEMMA SetStatusStep ==
    ASSUME LotInv, NEW id \in SecondIds, NEW from \in {"completed", "canceled"},
           NEW to \in {"completed", "canceled", "deleted"}, SetStatus(id, from, to)
    PROVE  LotInv'
<1> DEFINE record == IF to = "deleted" THEN Deleted ELSE [second[id] EXCEPT !.status = to]
<1>1. /\ second[id].status = from /\ second' = [second EXCEPT ![id] = record]
      /\ made' = made /\ total' = total /\ acks' = acks /\ save' = save
      /\ lotHistory' = lotHistory
  BY DEF SetStatus, Deleted
<1>2. LotsTyped /\ second[id] \in SecondRecords
  BY <1>1, StatusTells DEF LotInv, LotsTyped
<1>3. CASE to = "deleted"
  <2>1. second' \in [SecondIds -> SecondRecords \cup {Unsaved, Deleted}] /\ second'[id] = Deleted
    BY <1>1, <1>2, <1>3 DEF LotsTyped
  <2>2. \A i \in SecondIds : i # id => second'[i] = second[i]
    BY <1>1, <1>2 DEF LotsTyped
  <2>3. LotsTyped'
    BY <1>1, <1>2, <2>1 DEF LotsTyped
  <2>4. RowsFollow'
    BY <1>1, <1>2, <2>1, <2>2, StatusTells DEF LotInv, RowsFollow, LotsTyped, Deleted
  <2>5. \A i \in SecondIds : RecordSound(second'[i], acks', i, lotHistory')
    BY <1>1, <2>1, <2>2, StatusTells DEF LotInv, RecordSound
  <2>6. QED
    BY <1>1, <2>3, <2>4, <2>5 DEF LotInv, FirstRemembered
<1>4. CASE to # "deleted"
  <2>1. /\ record \in SecondRecords /\ record.lot = second[id].lot
        /\ record.carried = second[id].carried /\ record.amount = second[id].amount
        /\ record.own = second[id].own /\ record.status = to
    BY <1>2, <1>4 DEF SecondRecords
  <2> HIDE DEF record
  <2>2. /\ second' \in [SecondIds -> SecondRecords \cup {Unsaved, Deleted}] /\ second'[id] = record
        /\ \A i \in SecondIds : i # id => second'[i] = second[i]
    BY <1>1, <1>2, <2>1 DEF LotsTyped
  <2>3. LotsTyped'
    BY <1>1, <1>2, <2>2 DEF LotsTyped
  <2>4. RowsFollow'
    BY <1>1, <1>2, <1>4, <2>1, <2>2 DEF LotInv, RowsFollow, LotsTyped
  <2>5. RecordSound(record, acks, id, lotHistory)
    BY <1>2, <2>1 DEF LotInv, RecordSound, HasRow, WasTotal
  <2>6. \A i \in SecondIds : RecordSound(second'[i], acks', i, lotHistory')
    BY <1>1, <2>2, <2>5 DEF LotInv
  <2>7. QED
    BY <1>1, <2>3, <2>4, <2>6 DEF LotInv, FirstRemembered
<1>5. QED
  BY <1>3, <1>4

(***************************************************************************)
(* The first stage                                                         *)
(***************************************************************************)
(* Nothing that was remembered is forgotten.                               *)
LEMMA RememberingKeeps ==
    ASSUME LotInv, UNCHANGED <<second, acks, save>>,
           made' \in [Lots -> Statuses], total' \in [Lots -> Amounts],
           lotHistory.lots \subseteq lotHistory'.lots,
           lotHistory.totals \subseteq lotHistory'.totals,
           FirstRemembered'
    PROVE  LotInv'
<1>1. LotsTyped' /\ RowsFollow'
  BY DEF LotInv, LotsTyped, RowsFollow
<1>2. \A record, listed, i :
         RecordSound(record, listed, i, lotHistory) => RecordSound(record, listed, i, lotHistory')
  BY DEF RecordSound, HasRow, WasTotal
<1>3. \A s : SaveSound(s, lotHistory) => SaveSound(s, lotHistory')
  BY DEF SaveSound, HasRow, WasTotal
<1>4. QED
  BY <1>1, <1>2, <1>3 DEF LotInv

LEMMA MakeFirstStep ==
    ASSUME LotInv, NEW l \in Lots, NEW t \in Totals, MakeFirst(l, t)
    PROVE  LotInv'
<1>1. /\ made' = [made EXCEPT ![l] = IF @ = "none" THEN "completed" ELSE @]
      /\ total' = [total EXCEPT ![l] = t]
      /\ UNCHANGED <<second, acks, save>>
  BY DEF MakeFirst
<1>2. /\ lotHistory'.lots = lotHistory.lots \cup {l}
      /\ lotHistory'.totals = lotHistory.totals \cup {<<l, t>>}
  BY DEF MakeFirst, Known
<1>3. LotsTyped /\ FirstRemembered
  BY DEF LotInv
<1>4. made' \in [Lots -> Statuses] /\ total' \in [Lots -> Amounts]
  BY <1>1, <1>3 DEF LotsTyped, Statuses, Amounts
<1>5. \A k \in Lots : /\ k # l => made'[k] = made[k] /\ total'[k] = total[k]
                      /\ k = l => total'[k] = t
  BY <1>1, <1>3 DEF LotsTyped
<1>6. FirstRemembered'
  BY <1>2, <1>3, <1>5 DEF FirstRemembered
<1>7. QED
  BY <1>1, <1>2, <1>4, <1>6, RememberingKeeps

LEMMA SetFirstStep ==
    ASSUME LotInv, NEW l \in Lots, NEW from \in {"completed", "canceled"}, NEW to \in Statuses,
           SetFirst(l, from, to)
    PROVE  LotInv'
<1>1. /\ made[l] = from /\ made' = [made EXCEPT ![l] = to] /\ total' = total
      /\ UNCHANGED <<second, acks, save>> /\ lotHistory' = lotHistory
  BY DEF SetFirst
<1>2. LotsTyped /\ FirstRemembered
  BY DEF LotInv
<1>3. made' \in [Lots -> Statuses] /\ total' \in [Lots -> Amounts]
  BY <1>1, <1>2 DEF LotsTyped
<1>4. FirstRemembered'
  BY <1>1, <1>2 DEF FirstRemembered, LotsTyped
<1>5. QED
  BY <1>1, <1>3, <1>4, RememberingKeeps

LEMMA LotsKept ==
    LotInv /\ [LotNext]_lotVars => LotInv'
<1>1. SUFFICES ASSUME LotInv, [LotNext]_lotVars PROVE LotInv'
  OBVIOUS
<1>2. CASE UNCHANGED lotVars
  BY <1>1, <1>2 DEF lotVars, LotInv, LotsTyped, FirstRemembered, RowsFollow
<1>3. ASSUME NEW q \in Requests, (\E id \in SecondIds, row \in Rows : ReadSave(q, id, row))
      PROVE  LotInv'
  BY <1>1, <1>3, ReadSaveStep
<1>4. ASSUME NEW q \in Requests, WriteNew(q) \/ WriteCorrection(q) \/ Abandon(q)
      PROVE  LotInv'
  BY <1>1, <1>4, WriteNewStep, WriteCorrectionStep, AbandonStep
<1>5. ASSUME NEW id \in SecondIds, \/ SetStatus(id, "completed", "canceled")
                             \/ SetStatus(id, "canceled", "completed")
                             \/ SetStatus(id, "canceled", "deleted")
      PROVE  LotInv'
  BY <1>1, <1>5, SetStatusStep
<1>6. ASSUME NEW l \in Lots, NEW t \in Totals, MakeFirst(l, t)
      PROVE  LotInv'
  BY <1>1, <1>6, MakeFirstStep
<1>7. ASSUME NEW l \in Lots, \/ SetFirst(l, "completed", "canceled")
                             \/ SetFirst(l, "canceled", "completed")
                             \/ SetFirst(l, "canceled", "gone")
      PROVE  LotInv'
  BY <1>1, <1>7, SetFirstStep DEF Statuses
<1>8. QED
  BY <1>1, <1>2, <1>3, <1>4, <1>5, <1>6, <1>7 DEF LotNext

(***************************************************************************)
(* The theorems                                                            *)
(***************************************************************************)
(* The row of a record whose LOT was never completed is of a standing      *)
(* record, and its LOT is not completed now: when the list reaches the row,*)
(* it shows it.                                                            *)
LEMMA TyposInTheList ==
    LotInv => TyposAreListed
<1>1. SUFFICES ASSUME LotInv, NEW i \in Typos
               PROVE  \E a \in Standing : /\ a.id = i /\ a.lot = second[i].lot
                                          /\ a \in Scanned => a \in Unresolved
  BY DEF TyposAreListed
<1>2. /\ i \in SecondIds /\ second[i].status = "completed" /\ ~ second[i].carried
      /\ second[i].own /\ second[i].lot \notin lotHistory.lots
  BY DEF Typos
<1>3. second[i] \in SecondRecords
  BY <1>1, <1>2, StatusTells DEF LotInv, LotsTyped
<1>4. second[i].lot \in LotsOf(acks, i)
  BY <1>1, <1>2, <1>3 DEF LotInv, RecordSound, HasRow
<1>5. PICK a \in acks : a.id = i /\ a.lot = second[i].lot
  BY <1>4 DEF LotsOf
<1>6. Completed \subseteq lotHistory.lots
  BY <1>1 DEF LotInv, FirstRemembered, Completed
<1>7. a \in Standing /\ (a \in Scanned => a \in Unresolved)
  BY <1>2, <1>5, <1>6 DEF Standing, Unresolved
<1>8. QED
  BY <1>5, <1>7

(* A row of blend_lot_acks is about the LOT its record names now, the list *)
(* of unresolved LOTs shows every LOT that a standing record names and     *)
(* nobody ever made, as far as it looks at the rows, and the amount of a   *)
(* carried-over row was the total of that LOT, however saves and           *)
(* corrections overlap (collect_lot_acks, record_lot_acks,                 *)
(* unresolved_lot_acks, enforce_carry_over).                               *)
THEOREM LotsStayTraced == LotSpec => []LotsAreTraced
<1>1. LotInv => AcksFollowTheRow
  BY DEF LotInv, RowsFollow, AcksFollowTheRow
<1>2. LotInv => CarriedWasTotal
  <2>1. SUFFICES ASSUME LotInv PROVE CarriedWasTotal
    OBVIOUS
  <2>2. \A i \in SecondIds :
           second[i].status \in {"completed", "canceled"} => second[i] \in SecondRecords
    BY <2>1, StatusTells DEF LotInv, LotsTyped
  <2>3. QED
    BY <2>1, <2>2 DEF LotInv, RecordSound, WasTotal, CarriedWasTotal
<1>3. LotInv => LotsAreTraced
  BY <1>1, <1>2, TyposInTheList DEF LotsAreTraced
<1>4. QED
  BY LotsBegin, LotsKept, <1>3, PTL DEF LotSpec

---------------------------------------------------------------------------
(***************************************************************************)
(* Names and codes: the inductive invariant.                               *)
(***************************************************************************)
AllNames     == Names \cup {Absent.name}
Links        == Materials \cup {NoLink}
AllCodes     == Codes \cup {NoCode}
MaterialRows == [name : Names, code : AllCodes]
LineRows     == [name : AllNames, link : Links, stored : AllCodes]
Marks        == [taken : SUBSET {Key(n) : n \in Names}, renamed : SUBSET Materials,
                 given : SUBSET AllCodes]

CodesTyped ==
    /\ materials \in [Materials -> MaterialRows \cup {Absent}]
    /\ aliases \subseteq Materials \X Names
    /\ products \in [Products -> AllCodes]
    /\ DOMAIN master \subseteq Codes
    /\ rows \in [Lines -> LineRows]
    /\ \A r \in Lines : rows[r] # NoLine <=> rows[r].name \in Names
    /\ codeHistory \in Marks

(* Whom a key leads to, by the name of a material or an alias.             *)
Owns(m, key) == m \in Called(key) \cup Aliased(key)
KeysUnique ==
    \A key \in {Key(n) : n \in Names} \ codeHistory.taken :
        \A x, y : Owns(x, key) /\ Owns(y, key) => x = y

(* Two materials may be called by one key after a rename, never by one     *)
(* name; and a line that is linked has the name of its material.  These    *)
(* two are why the lines of a name are linked to one material.             *)
NamesUnique == \A m, n \in Present : Name(m) = Name(n) => m = n
LinksNamed ==
    \A r \in Lines : rows[r].link # NoLink =>
        rows[r].link \in Present /\ rows[r].name = Name(rows[r].link)

(* A code that a product has was given to it, so that no entry of the      *)
(* master list that counts is held by a product alone.                     *)
GivenRemembered == \A p \in Products : products[p] # NoCode => products[p] \in codeHistory.given

NamesInv == KeysUnique /\ NamesUnique /\ LinksNamed
HeldInv  == OneOwnerOfCode /\ GivenRemembered /\ NoGhostCode
CodesInv == CodesTyped /\ NamesInv /\ HeldInv

(***************************************************************************)
(* The operators of the model.                                             *)
(***************************************************************************)
LEMMA CalledIs ==
  \A m, key : m \in Called(key) <=>
      m \in Materials /\ materials[m] # Absent /\ Key(materials[m].name) = key
  BY DEF Called, Present, Name

LEMMA AliasedIs ==
  \A m, key : m \in Aliased(key) <=> \E a \in aliases : a[1] = m /\ Key(a[2]) = key
  BY DEF Aliased

LEMMA OwnsIs ==
  \A m, key : Owns(m, key) <=>
      \/ m \in Materials /\ materials[m] # Absent /\ Key(materials[m].name) = key
      \/ \E a \in aliases : a[1] = m /\ Key(a[2]) = key
  BY CalledIs, AliasedIs DEF Owns

LEMMA OwnsIsNext ==
  \A m, key : Owns(m, key)' <=>
      \/ m \in Materials /\ materials'[m] # Absent /\ Key(materials'[m].name) = key
      \/ \E a \in aliases' : a[1] = m /\ Key(a[2]) = key
  BY DEF Owns, Called, Aliased, Present, Name

LEMMA MaterialRow ==
  ASSUME NEW x \in MaterialRows \cup {Absent}
  PROVE  /\ x.code \in AllCodes /\ x.name \in AllNames
         /\ x # Absent => x \in MaterialRows /\ x.name \in Names
         /\ x = Absent => x.code = NoCode
         /\ x \in MaterialRows => x # Absent
         /\ [x EXCEPT !.code = NoCode] \in MaterialRows \cup {Absent}
         /\ [x EXCEPT !.code = NoCode] # Absent <=> x # Absent
         /\ [x EXCEPT !.code = NoCode].code = NoCode
         /\ [x EXCEPT !.code = NoCode].name = x.name
<1>1. Absent.code = NoCode /\ Absent.name \notin Names /\ Absent.name \in AllNames /\ NoCode \in AllCodes
  BY CodesAssumption DEF Absent, AllCodes, AllNames
<1>2. CASE x = Absent
  <2>1. /\ [x EXCEPT !.code = NoCode] = Absent
        /\ [x EXCEPT !.code = NoCode].code = NoCode /\ [x EXCEPT !.code = NoCode].name = x.name
    BY <1>2 DEF Absent
  <2>2. Absent \notin MaterialRows
    BY <1>1 DEF MaterialRows
  <2> QED
    BY <1>1, <1>2, <2>1, <2>2
<1>3. CASE x \in MaterialRows
  <2>1. x.name \in Names /\ x.code \in AllCodes
    BY <1>3 DEF MaterialRows
  <2>2. /\ [x EXCEPT !.code = NoCode] \in MaterialRows
        /\ [x EXCEPT !.code = NoCode].code = NoCode /\ [x EXCEPT !.code = NoCode].name = x.name
    BY <1>1, <1>3 DEF MaterialRows
  <2> QED
    BY <1>1, <1>3, <2>1, <2>2 DEF AllNames
<1> QED
  BY <1>2, <1>3

(* A new material, and a new name or code of one that is there.            *)
LEMMA FreshRow ==
  ASSUME NEW n \in Names, NEW c \in AllCodes
  PROVE  /\ [Absent EXCEPT !.name = n, !.code = c] \in MaterialRows
         /\ [Absent EXCEPT !.name = n, !.code = c].name = n
         /\ [Absent EXCEPT !.name = n, !.code = c].code = c
  BY DEF Absent, MaterialRows

LEMMA NewRow ==
  ASSUME NEW x \in MaterialRows, NEW n \in Names, NEW c \in AllCodes
  PROVE  /\ [x EXCEPT !.code = c] \in MaterialRows
         /\ [x EXCEPT !.code = c].name = x.name
         /\ [x EXCEPT !.code = c].code = c
         /\ [x EXCEPT !.name = n] \in MaterialRows
         /\ [x EXCEPT !.name = n].name = n
         /\ [x EXCEPT !.name = n].code = x.code
  BY DEF MaterialRows

(* A line with a new name, a new link, or both.                            *)
LEMMA NewLine ==
  ASSUME NEW n \in Names, NEW l \in Links, NEW c \in AllCodes
  PROVE  /\ [name |-> n, link |-> l, stored |-> c] \in LineRows
         /\ [name |-> n, link |-> l, stored |-> c] # NoLine
  BY CodesAssumption DEF LineRows, AllNames, NoLine, Absent

Relinked(x, n, m) == [x EXCEPT !.name = n, !.link = m]

LEMMA ChangedLine ==
  ASSUME NEW x \in LineRows, NEW n \in Names, NEW m \in Materials
  PROVE  /\ Relinked(x, n, m) \in LineRows
         /\ Relinked(x, n, m).name = n
         /\ Relinked(x, n, m).link = m
         /\ Relinked(x, n, m) # NoLine
  BY CodesAssumption DEF Relinked, LineRows, AllNames, Links, NoLine, Absent

LEMMA NoLineIs ==
  NoLine \in LineRows /\ NoLine.link = NoLink /\ NoLine.name \notin Names
  BY CodesAssumption DEF LineRows, AllNames, Links, AllCodes, NoLine, Absent

LEMMA UnlinkedLine ==
  ASSUME NEW x \in LineRows
  PROVE  /\ [x EXCEPT !.link = NoLink] \in LineRows
         /\ [x EXCEPT !.link = NoLink].name = x.name
         /\ [x EXCEPT !.link = NoLink].link = NoLink
  BY DEF LineRows, Links

LEMMA Entries ==
  ASSUME CodesTyped, NEW m \in Materials
  PROVE  /\ materials[m] \in MaterialRows \cup {Absent}
         /\ Code(m) \in AllCodes
         /\ m \in Present => Name(m) \in Names /\ materials[m] # Absent
         /\ m \notin Present => Code(m) = NoCode /\ materials[m] = Absent
  BY MaterialRow DEF CodesTyped, Code, Name, Present

LEMMA MovedIs ==
  ASSUME CodesTyped, NEW m \in Materials, NEW new \in MaterialRows,
         NEW c, c = "none" \/ c \in Codes
  PROVE  /\ Moved(m, new, c) \in [Materials -> MaterialRows \cup {Absent}]
         /\ Moved(m, new, c)[m] = new
         /\ \A o \in Materials \ {m} :
              /\ Moved(m, new, c)[o] # Absent <=> materials[o] # Absent
              /\ Moved(m, new, c)[o].name = materials[o].name
              /\ Moved(m, new, c)[o].code = IF Code(o) = c THEN NoCode ELSE Code(o)
<1>1. ASSUME NEW o \in Materials \ {m}
      PROVE  /\ Moved(m, new, c)[o] \in MaterialRows \cup {Absent}
             /\ Moved(m, new, c)[o] # Absent <=> materials[o] # Absent
             /\ Moved(m, new, c)[o].name = materials[o].name
             /\ Moved(m, new, c)[o].code = IF Code(o) = c THEN NoCode ELSE Code(o)
  <2>1. materials[o] \in MaterialRows \cup {Absent} /\ c # NoCode
    BY CodesAssumption, Entries DEF NoCode
  <2>2. CASE o \in Others(m, c)
    <3>1. Moved(m, new, c)[o] = [materials[o] EXCEPT !.code = NoCode] /\ Code(o) = c
      BY <1>1, <2>2 DEF Moved, Others
    <3> QED
      BY <2>1, <3>1, MaterialRow
  <2>3. CASE o \notin Others(m, c)
    <3>1. Moved(m, new, c)[o] = materials[o]
      BY <1>1, <2>3 DEF Moved
    <3>2. Code(o) = c => o \in Others(m, c)
      BY <1>1, <2>1, Entries DEF Others
    <3> QED
      BY <2>1, <2>3, <3>1, <3>2 DEF Code
  <2> QED
    BY <2>2, <2>3
<1>2. Moved(m, new, c)[m] = new
  BY DEF Moved
<1>3. Moved(m, new, c) \in [Materials -> MaterialRows \cup {Absent}]
  <2>1. \A o \in Materials : Moved(m, new, c)[o] \in MaterialRows \cup {Absent}
    BY <1>1, <1>2
  <2>2. Moved(m, new, c) = [o \in Materials |-> Moved(m, new, c)[o]]
    BY DEF Moved
  <2> QED
    BY <2>1, <2>2
<1> QED
  BY <1>1, <1>2, <1>3

LEMMA MasterIs ==
  ASSUME CodesTyped, NEW m, NEW name, NEW c \in AllCodes
  PROVE  /\ DOMAIN MasterAfter(m, name, c) \subseteq Codes
         /\ \A d \in DOMAIN MasterAfter(m, name, c) :
              d \in DOMAIN master \/ (d = c /\ c # NoCode)
         /\ \A d \in DOMAIN Ensured(master, c, name) :
              d \in Codes /\ (d \in DOMAIN master \/ (d = c /\ c # NoCode))
<1>1. /\ DOMAIN Ensured(master, c, name) \subseteq Codes
      /\ \A d \in DOMAIN Ensured(master, c, name) : d \in DOMAIN master \/ (d = c /\ c # NoCode)
  BY DEF CodesTyped, AllCodes, Ensured
<1>2. DOMAIN MasterAfter(m, name, c) = DOMAIN Ensured(master, c, name)
  BY DEF MasterAfter, Refreshed
<1> QED
  BY <1>1, <1>2

LEMMA CleanedIs ==
  ASSUME NEW list, NEW ms, NEW c
  PROVE  /\ DOMAIN Cleaned(list, ms, c) \subseteq DOMAIN list
         /\ c \in DOMAIN Cleaned(list, ms, c) => HeldIn(ms, c)
  BY DEF Cleaned

(* An entry that counts is held by a material.                             *)
LEMMA HeldByMaterial ==
  ASSUME CodesInv, NEW d \in DOMAIN master \ codeHistory.given
  PROVE  \E o \in Materials : materials[o] # Absent /\ materials[o].code = d
<1>1. HeldIn(materials, d) /\ d # NoCode
  BY CodesAssumption DEF CodesInv, HeldInv, NoGhostCode, CodesTyped
<1>2. \A p \in Products : products[p] # d
  BY <1>1 DEF CodesInv, HeldInv, GivenRemembered
<1> QED
  BY <1>1, <1>2 DEF HeldIn

(***************************************************************************)
(* Keys                                                                    *)
(***************************************************************************)
LEMMA KeysGrow ==
  ASSUME KeysUnique, codeHistory.taken \subseteq codeHistory'.taken, NEW m, NEW key,
         \A x, k : Owns(x, k)' => Owns(x, k) \/ (x = m /\ k = key),
         key \in codeHistory'.taken \/ \A y : Owns(y, key) => y = m
  PROVE  KeysUnique'
<1> SUFFICES ASSUME NEW k \in {Key(n) : n \in Names} \ codeHistory'.taken,
                    NEW x, NEW y, Owns(x, k)', Owns(y, k)'
             PROVE  x = y
  BY DEF KeysUnique
<1>1. \A a, b : Owns(a, k) /\ Owns(b, k) => a = b
  BY DEF KeysUnique
<1>2. /\ Owns(x, k) \/ (x = m /\ k = key)
      /\ Owns(y, k) \/ (y = m /\ k = key)
  OBVIOUS
<1> QED
  BY <1>1, <1>2

LEMMA KeysShrink ==
  ASSUME KeysUnique, codeHistory.taken \subseteq codeHistory'.taken,
         \A x, k : Owns(x, k)' => Owns(x, k)
  PROVE  KeysUnique'
<1> SUFFICES ASSUME NEW k \in {Key(n) : n \in Names} \ codeHistory'.taken,
                    NEW x, NEW y, Owns(x, k)', Owns(y, k)'
             PROVE  x = y
  BY DEF KeysUnique
<1>1. \A a, b : Owns(a, k) /\ Owns(b, k) => a = b
  BY DEF KeysUnique
<1>2. Owns(x, k) /\ Owns(y, k)
  OBVIOUS
<1> QED
  BY <1>1, <1>2

(* A step after which each material that is there has the name it had, and *)
(* the lines and aliases are what they were.                               *)
SameNames == \A o \in Materials : /\ materials'[o] # Absent <=> materials[o] # Absent
                                  /\ materials'[o].name = materials[o].name
LEMMA NamesStay ==
  ASSUME CodesInv, SameNames, aliases' = aliases, rows' = rows,
         codeHistory'.taken = codeHistory.taken
  PROVE  NamesInv' /\ \A x, k : Owns(x, k)' <=> Owns(x, k)
<1>1. \A x, k : Owns(x, k)' <=> Owns(x, k)
  BY OwnsIs, OwnsIsNext DEF SameNames
<1>2. KeysUnique'
  BY <1>1, KeysShrink DEF CodesInv, NamesInv
<1>3. NamesUnique'
  BY DEF CodesInv, NamesInv, NamesUnique, SameNames, Present, Name
<1>4. LinksNamed'
  BY DEF CodesInv, NamesInv, LinksNamed, SameNames, Present, Name
<1> QED
  BY <1>1, <1>2, <1>3, <1>4 DEF NamesInv

(***************************************************************************)
(* One action after the other keeps the invariant.                         *)
(***************************************************************************)
LEMMA SetMaterialCodeKeeps ==
  ASSUME CodesInv, NEW m \in Materials, NEW c \in AllCodes, NEW force, SetMaterialCode(m, c, force)
  PROVE  CodesInv' /\ SameNames
<1> DEFINE k   == IF c = NoCode THEN "none" ELSE c
<1> DEFINE new == [materials[m] EXCEPT !.code = c]
<1> DEFINE list == MasterAfter(m, Name(m), c)
<1>1. /\ m \in Present /\ MayHave(m, Name(m), c, force)
      /\ materials' = Moved(m, new, k)
      /\ master' = IF Code(m) \notin {NoCode, c} THEN Cleaned(list, materials', Code(m)) ELSE list
      /\ aliases' = aliases /\ products' = products /\ rows' = rows /\ codeHistory' = codeHistory
  BY DEF SetMaterialCode
<1>2. CodesTyped /\ materials[m] \in MaterialRows \cup {Absent} /\ materials[m] # Absent
  BY <1>1, Entries DEF CodesInv
<1>3. new \in MaterialRows /\ new.name = Name(m) /\ new.code = c
  <2>1. materials[m].name \in Names
    BY <1>2, MaterialRow
  <2> QED
    BY <1>2, <2>1, NewRow DEF Name
<1>4. k = "none" \/ k \in Codes
  BY DEF AllCodes
<1> HIDE DEF new, k
<1>5. /\ materials' \in [Materials -> MaterialRows \cup {Absent}]
      /\ materials'[m] = new
      /\ \A o \in Materials \ {m} : /\ materials'[o] # Absent <=> materials[o] # Absent
                                    /\ materials'[o].name = materials[o].name
                                    /\ materials'[o].code = IF Code(o) = k THEN NoCode ELSE Code(o)
  BY <1>1, <1>2, <1>3, <1>4, MovedIs
<1>6. new # Absent
  BY <1>3, MaterialRow
<1>7. SameNames
  BY <1>2, <1>3, <1>5, <1>6 DEF SameNames, Name
<1>8. NamesInv'
  BY <1>1, <1>7, NamesStay
<1>9. /\ DOMAIN list \subseteq Codes
      /\ \A d \in DOMAIN list : d \in DOMAIN master \/ (d = c /\ c # NoCode)
  BY <1>2, MasterIs
<1> HIDE DEF list
<1>10. /\ DOMAIN master' \subseteq DOMAIN list
       /\ Code(m) \in DOMAIN master' /\ Code(m) \notin {NoCode, c} => HeldIn(materials', Code(m))
  BY <1>1, CleanedIs
<1>11. CodesTyped'
  BY <1>1, <1>2, <1>5, <1>9, <1>10 DEF CodesTyped
<1>12. OneOwnerOfCode'
  <2> SUFFICES ASSUME NEW o \in Materials, materials'[o] # Absent, o \notin codeHistory.renamed,
                      NEW p \in Products, materials'[o].code # NoCode, products[p] = materials'[o].code
               PROVE  Key(materials'[o].name) = Key(ProductName[p])
    BY <1>1 DEF OneOwnerOfCode, Present, Code, Name
  <2>1. CASE o = m
    <3>1. ~ TakenByProduct(c, Name(m))
      BY <1>1, <1>3, <1>5, <2>1 DEF MayHave
    <3> QED
      BY <1>3, <1>5, <2>1, <3>1 DEF TakenByProduct
  <2>2. CASE o # m
    <3>1. Code(o) = materials'[o].code /\ o \in Present /\ Name(o) = materials'[o].name
      BY <1>5, <2>2 DEF Present, Name
    <3> QED
      BY <3>1 DEF CodesInv, HeldInv, OneOwnerOfCode
  <2> QED
    BY <2>1, <2>2
<1>13. NoGhostCode'
  <2> SUFFICES ASSUME NEW d \in DOMAIN master' \ codeHistory.given
               PROVE  HeldIn(materials', d)
    BY <1>1 DEF NoGhostCode, HeldIn
  <2>1. CASE d = c /\ c # NoCode
    BY <1>3, <1>5, <1>6, <2>1 DEF HeldIn
  <2>2. CASE ~ (d = c /\ c # NoCode)
    <3>1. d \in DOMAIN master \ codeHistory.given /\ d \in Codes
      BY <1>9, <1>10, <2>2
    <3>2. PICK o \in Materials : materials[o] # Absent /\ materials[o].code = d
      BY <3>1, HeldByMaterial
    <3>3. CASE o = m
      BY <1>10, <2>2, <3>1, <3>2, <3>3, CodesAssumption DEF Code
    <3>4. CASE o # m
      <4>1. Code(o) # k
        BY <2>2, <3>1, <3>2, CodesAssumption DEF Code, k
      <4>2. materials'[o] # Absent /\ materials'[o].code = d
        BY <1>5, <3>2, <3>4, <4>1 DEF Code
      <4> QED
        BY <4>2 DEF HeldIn
    <3> QED
      BY <3>3, <3>4
  <2> QED
    BY <2>1, <2>2
<1>14. GivenRemembered'
  BY <1>1 DEF CodesInv, HeldInv, GivenRemembered
<1> QED
  BY <1>7, <1>8, <1>11, <1>12, <1>13, <1>14 DEF CodesInv, HeldInv

LEMMA CreateMaterialKeeps ==
  ASSUME CodesInv, NEW m \in Materials, NEW name \in Names, NEW c \in AllCodes, NEW force,
         CreateMaterial(m, name, c, force)
  PROVE  CodesInv' /\ (\A x, k : Owns(x, k) => Owns(x, k)')
<1> DEFINE k   == IF c = NoCode THEN "none" ELSE c
<1> DEFINE new == [Absent EXCEPT !.name = name, !.code = c]
<1> DEFINE list == MasterAfter(m, name, c)
<1>1. /\ m \notin Present /\ MayHave(m, name, c, force) /\ materials' = Moved(m, new, k)
      /\ \A y : ~ Owns(y, Key(name))
      /\ master' = list
      /\ aliases' = aliases /\ products' = products /\ rows' = rows /\ codeHistory' = codeHistory
  BY DEF CreateMaterial, Owns
<1>2. CodesTyped /\ materials[m] = Absent
  BY <1>1, Entries DEF CodesInv
<1>3. new \in MaterialRows /\ new.name = name /\ new.code = c
  BY FreshRow
<1>4. k = "none" \/ k \in Codes
  BY DEF AllCodes
<1> HIDE DEF new, k
<1>5. /\ materials' \in [Materials -> MaterialRows \cup {Absent}]
      /\ materials'[m] = new
      /\ \A o \in Materials \ {m} : /\ materials'[o] # Absent <=> materials[o] # Absent
                                    /\ materials'[o].name = materials[o].name
                                    /\ materials'[o].code = IF Code(o) = k THEN NoCode ELSE Code(o)
  BY <1>1, <1>2, <1>3, <1>4, MovedIs
<1>6. new # Absent
  BY <1>3, MaterialRow
<1>7. \A x, l : Owns(x, l)' <=> Owns(x, l) \/ (x = m /\ l = Key(name))
  <2> TAKE x, l
  <2>1. CASE x = m
    BY <1>1, <1>2, <1>3, <1>5, <1>6, <2>1, OwnsIs, OwnsIsNext
  <2>2. CASE x # m
    BY <1>1, <1>5, <2>2, OwnsIs, OwnsIsNext
  <2> QED
    BY <2>1, <2>2
<1>8. KeysUnique'
  BY <1>1, <1>7, KeysGrow DEF CodesInv, NamesInv
<1>9. \A o \in Present : Name(o) # name
  BY <1>1, OwnsIs DEF Present, Name
<1>10. NamesUnique'
  <2> SUFFICES ASSUME NEW a \in Materials, NEW b \in Materials, materials'[a] # Absent,
                      materials'[b] # Absent, materials'[a].name = materials'[b].name
               PROVE  a = b
    BY DEF NamesUnique, Present, Name
  <2>1. CASE a # m /\ b # m
    BY <1>5, <2>1 DEF CodesInv, NamesInv, NamesUnique, Present, Name
  <2>2. CASE a = m \/ b = m
    BY <1>3, <1>5, <1>9, <2>2 DEF Present, Name
  <2> QED
    BY <2>1, <2>2
<1>11. LinksNamed'
  BY <1>1, <1>2, <1>5 DEF CodesInv, NamesInv, LinksNamed, Present, Name
<1>12. /\ DOMAIN list \subseteq Codes
       /\ \A d \in DOMAIN list : d \in DOMAIN master \/ (d = c /\ c # NoCode)
  BY <1>2, MasterIs
<1> HIDE DEF list
<1>13. CodesTyped'
  BY <1>1, <1>2, <1>5, <1>12 DEF CodesTyped
<1>14. OneOwnerOfCode'
  <2> SUFFICES ASSUME NEW o \in Materials, materials'[o] # Absent, o \notin codeHistory.renamed,
                      NEW p \in Products, materials'[o].code # NoCode, products[p] = materials'[o].code
               PROVE  Key(materials'[o].name) = Key(ProductName[p])
    BY <1>1 DEF OneOwnerOfCode, Present, Code, Name
  <2>1. CASE o = m
    <3>1. ~ TakenByProduct(c, name)
      BY <1>1, <1>3, <1>5, <2>1 DEF MayHave
    <3> QED
      BY <1>3, <1>5, <2>1, <3>1 DEF TakenByProduct
  <2>2. CASE o # m
    <3>1. Code(o) = materials'[o].code /\ o \in Present /\ Name(o) = materials'[o].name
      BY <1>5, <2>2 DEF Present, Name
    <3> QED
      BY <3>1 DEF CodesInv, HeldInv, OneOwnerOfCode
  <2> QED
    BY <2>1, <2>2
<1>15. NoGhostCode'
  <2> SUFFICES ASSUME NEW d \in DOMAIN master' \ codeHistory.given
               PROVE  HeldIn(materials', d)
    BY <1>1 DEF NoGhostCode, HeldIn
  <2>1. CASE d = c /\ c # NoCode
    BY <1>3, <1>5, <1>6, <2>1 DEF HeldIn
  <2>2. CASE ~ (d = c /\ c # NoCode)
    <3>1. d \in DOMAIN master \ codeHistory.given /\ d \in Codes
      BY <1>1, <1>12, <2>2
    <3>2. PICK o \in Materials : materials[o] # Absent /\ materials[o].code = d
      BY <3>1, HeldByMaterial
    <3>3. o # m /\ Code(o) # k
      BY <1>2, <2>2, <3>1, <3>2, CodesAssumption DEF Code, k
    <3>4. materials'[o] # Absent /\ materials'[o].code = d
      BY <1>5, <3>2, <3>3 DEF Code
    <3> QED
      BY <3>4 DEF HeldIn
  <2> QED
    BY <2>1, <2>2
<1>16. GivenRemembered'
  BY <1>1 DEF CodesInv, HeldInv, GivenRemembered
<1> QED
  BY <1>7, <1>8, <1>10, <1>11, <1>13, <1>14, <1>15, <1>16 DEF CodesInv, NamesInv, HeldInv

LEMMA SetProductCodeKeeps ==
  ASSUME CodesInv, NEW p \in Products, NEW c \in AllCodes, SetProductCode(p, c)
  PROVE  CodesInv'
<1>1. /\ c # NoCode => ~ TakenByMaterial(c, ProductName[p])
      /\ products' = [products EXCEPT ![p] = c]
      /\ master' = Ensured(master, c, ProductName[p])
      /\ codeHistory' = [codeHistory EXCEPT !.given = @ \cup {c}]
      /\ materials' = materials /\ aliases' = aliases /\ rows' = rows
  BY DEF SetProductCode
<1>2. CodesTyped
  BY DEF CodesInv
<1>3. \A d \in DOMAIN master' : d \in Codes /\ (d \in DOMAIN master \/ d = c)
  BY <1>1, <1>2, MasterIs DEF AllCodes, CodesTyped
<1>4. /\ codeHistory' \in Marks
      /\ codeHistory'.taken = codeHistory.taken /\ codeHistory'.renamed = codeHistory.renamed
      /\ codeHistory'.given = codeHistory.given \cup {c}
  BY <1>1, <1>2 DEF CodesTyped, Marks
<1>5. CodesTyped'
  BY <1>1, <1>2, <1>3, <1>4 DEF CodesTyped
<1>6. NamesInv'
  BY <1>1, <1>4, NamesStay DEF SameNames
<1>7. OneOwnerOfCode'
  <2> SUFFICES ASSUME NEW o \in Present \ codeHistory.renamed, NEW q \in Products,
                      Code(o) # NoCode, products'[q] = Code(o)
               PROVE  Key(Name(o)) = Key(ProductName[q])
    BY <1>1, <1>4 DEF OneOwnerOfCode, Present, Code, Name
  <2>1. CASE q = p
    BY <1>1, <1>2, <2>1 DEF CodesTyped, TakenByMaterial
  <2>2. CASE q # p
    BY <1>1, <1>2, <2>2 DEF CodesTyped, CodesInv, HeldInv, OneOwnerOfCode
  <2> QED
    BY <2>1, <2>2
<1>8. GivenRemembered'
  BY <1>1, <1>2, <1>4 DEF CodesInv, HeldInv, GivenRemembered, CodesTyped
<1>9. NoGhostCode'
  <2> SUFFICES ASSUME NEW d \in DOMAIN master' \ codeHistory'.given
               PROVE  \E o \in Materials : materials'[o] # Absent /\ materials'[o].code = d
    BY DEF NoGhostCode, HeldIn
  <2>1. d \in DOMAIN master \ codeHistory.given
    BY <1>3, <1>4
  <2>2. PICK o \in Materials : materials[o] # Absent /\ materials[o].code = d
    BY <2>1, HeldByMaterial
  <2> QED
    BY <1>1, <2>2
<1> QED
  BY <1>5, <1>6, <1>7, <1>8, <1>9 DEF CodesInv, HeldInv

(* A line that is renamed has the new name and the link.                   *)
LEMMA RenamedIs ==
  ASSUME CodesTyped, NEW m \in Present, NEW name \in Names, rows' = Renamed(m, name)
  PROVE  /\ rows' \in [Lines -> LineRows]
         /\ \A r \in Lines :
              /\ rows'[r] # NoLine <=> rows'[r].name \in Names
              /\ \/ rows[r].link = m \/ Loose(r, Key(Name(m)))
                    => /\ rows'[r] # NoLine
                       /\ rows'[r].name = name /\ rows'[r].link = m
              /\ ~ (rows[r].link = m \/ Loose(r, Key(Name(m)))) => rows'[r] = rows[r]
<1> DEFINE new(r) == Relinked(rows[r], name, m)
<1>1. ASSUME NEW r \in Lines
      PROVE  new(r) \in LineRows /\ new(r).name = name /\ new(r).link = m /\ new(r) # NoLine
  <2>1. rows[r] \in LineRows /\ m \in Materials
    BY DEF Present, CodesTyped
  <2> QED
    BY <2>1, ChangedLine
<1> HIDE DEF new
<1>2. ASSUME NEW r \in Lines
      PROVE  rows'[r] = IF rows[r].link = m \/ Loose(r, Key(Name(m))) THEN new(r) ELSE rows[r]
  BY DEF Renamed, Relinked, new
<1>3. \A r \in Lines : rows'[r] \in LineRows
  BY <1>1, <1>2 DEF CodesTyped
<1>4. rows' \in [Lines -> LineRows]
  BY <1>3 DEF Renamed
<1>5. ASSUME NEW r \in Lines
      PROVE  rows'[r] # NoLine <=> rows'[r].name \in Names
  BY <1>1, <1>2 DEF CodesTyped
<1> QED
  BY <1>1, <1>2, <1>4, <1>5

LEMMA RenameMaterialKeeps ==
  ASSUME CodesInv, NEW m \in Materials, NEW name \in Names, RenameMaterial(m, name)
  PROVE  CodesInv'
<1> DEFINE key == Key(name)
<1>1. /\ m \in Present /\ \A o \in Present \ {m} : Name(o) # name
      /\ \A y : y \in Aliased(key) => y = m
      /\ materials' = [materials EXCEPT ![m].name = name]
      /\ aliases' \subseteq aliases /\ rows' = Renamed(m, name)
      /\ master' = Refreshed(master, Code(m), name) /\ products' = products
  BY DEF RenameMaterial
<1>2. CodesTyped /\ materials[m] # Absent /\ materials[m] \in MaterialRows
  BY <1>1, Entries DEF CodesInv
<1>3. /\ codeHistory' \in Marks /\ codeHistory'.given = codeHistory.given
      /\ codeHistory'.renamed = codeHistory.renamed \cup {m}
      /\ codeHistory.taken \subseteq codeHistory'.taken
      /\ key \in codeHistory'.taken \/ Called(key) \ {m} = {}
  <2> DEFINE more == IF Called(key) \ {m} = {} THEN {} ELSE {key}
  <2>1. codeHistory' = [codeHistory EXCEPT !.renamed = @ \cup {m}, !.taken = @ \cup more]
    BY DEF RenameMaterial
  <2>2. more \subseteq {Key(n) : n \in Names}
    OBVIOUS
  <2>3. key \in more \/ Called(key) \ {m} = {}
    OBVIOUS
  <2> HIDE DEF more
  <2> QED
    BY <1>2, <2>1, <2>2, <2>3 DEF CodesTyped, Marks
<1>4. /\ materials' \in [Materials -> MaterialRows \cup {Absent}]
      /\ materials'[m].name = name /\ materials'[m].code = Code(m) /\ materials'[m] # Absent
      /\ \A o \in Materials \ {m} : materials'[o] = materials[o]
  <2> DEFINE new == [materials[m] EXCEPT !.name = name]
  <2>1. new \in MaterialRows /\ new.name = name /\ new.code = Code(m)
    BY <1>2, NewRow, Entries DEF Code
  <2>2. materials' = [materials EXCEPT ![m] = new]
    BY <1>1
  <2>3. new # Absent
    BY <2>1, MaterialRow
  <2> HIDE DEF new
  <2> QED
    BY <1>2, <2>1, <2>2, <2>3 DEF CodesTyped
<1>5. /\ rows' \in [Lines -> LineRows]
      /\ \A r \in Lines :
           /\ rows'[r] # NoLine <=> rows'[r].name \in Names
           /\ \/ rows[r].link = m \/ Loose(r, Key(Name(m)))
                 => /\ rows'[r] # NoLine
                    /\ rows'[r].name = name /\ rows'[r].link = m
           /\ ~ (rows[r].link = m \/ Loose(r, Key(Name(m)))) => rows'[r] = rows[r]
  BY <1>1, <1>2, RenamedIs
<1>6. CodesTyped'
  <2>1. DOMAIN master' = DOMAIN master
    BY <1>1 DEF Refreshed
  <2> QED
    BY <1>1, <1>2, <1>3, <1>4, <1>5, <2>1 DEF CodesTyped
<1>7. KeysUnique'
  <2>1. \A x, k : Owns(x, k)' => Owns(x, k) \/ (x = m /\ k = key)
    <3> TAKE x, k
    <3>1. CASE x = m
      BY <1>1, <1>4, <3>1, OwnsIs, OwnsIsNext
    <3>2. CASE x # m
      BY <1>1, <1>4, <3>2, OwnsIs, OwnsIsNext
    <3> QED
      BY <3>1, <3>2
  <2>2. key \in codeHistory'.taken \/ \A y : Owns(y, key) => y = m
    BY <1>1, <1>3 DEF Owns
  <2> QED
    BY <1>3, <2>1, <2>2, KeysGrow DEF CodesInv, NamesInv
<1>8. NamesUnique'
  <2> SUFFICES ASSUME NEW a \in Materials, NEW b \in Materials, materials'[a] # Absent,
                      materials'[b] # Absent, materials'[a].name = materials'[b].name
               PROVE  a = b
    BY DEF NamesUnique, Present, Name
  <2>1. CASE a # m /\ b # m
    BY <1>4, <2>1 DEF CodesInv, NamesInv, NamesUnique, Present, Name
  <2>2. CASE a = m \/ b = m
    BY <1>1, <1>4, <2>2 DEF Present, Name
  <2> QED
    BY <2>1, <2>2
<1>9. LinksNamed'
  <2> SUFFICES ASSUME NEW r \in Lines, rows'[r].link # NoLink
               PROVE  /\ rows'[r].link \in Materials /\ materials'[rows'[r].link] # Absent
                      /\ rows'[r].name = materials'[rows'[r].link].name
    BY DEF LinksNamed, Present, Name
  <2>1. CASE rows[r].link = m \/ Loose(r, Key(Name(m)))
    BY <1>4, <1>5, <2>1
  <2>2. CASE ~ (rows[r].link = m \/ Loose(r, Key(Name(m))))
    <3>1. rows'[r] = rows[r] /\ rows[r].link # m
      BY <1>5, <2>2
    <3>2. rows[r].link \in Present /\ rows[r].name = Name(rows[r].link)
      BY <3>1 DEF CodesInv, NamesInv, LinksNamed
    <3> QED
      BY <1>4, <3>1, <3>2 DEF Present, Name
  <2> QED
    BY <2>1, <2>2
<1>10. OneOwnerOfCode'
  <2> SUFFICES ASSUME NEW o \in Materials, materials'[o] # Absent, o \notin codeHistory'.renamed,
                      NEW p \in Products, materials'[o].code # NoCode, products[p] = materials'[o].code
               PROVE  Key(materials'[o].name) = Key(ProductName[p])
    BY <1>1 DEF OneOwnerOfCode, Present, Code, Name
  <2>1. o # m /\ o \notin codeHistory.renamed /\ materials'[o] = materials[o]
    BY <1>3, <1>4
  <2> QED
    BY <2>1 DEF CodesInv, HeldInv, OneOwnerOfCode, Present, Code, Name
<1>11. NoGhostCode'
  <2> SUFFICES ASSUME NEW d \in DOMAIN master' \ codeHistory'.given
               PROVE  \E o \in Materials : materials'[o] # Absent /\ materials'[o].code = d
    BY DEF NoGhostCode, HeldIn
  <2>1. d \in DOMAIN master \ codeHistory.given
    BY <1>1, <1>3 DEF Refreshed
  <2>2. PICK o \in Materials : materials[o] # Absent /\ materials[o].code = d
    BY <2>1, HeldByMaterial
  <2> QED
    BY <1>4, <2>2 DEF Code
<1>12. GivenRemembered'
  BY <1>1, <1>3 DEF CodesInv, HeldInv, GivenRemembered
<1> QED
  BY <1>6, <1>7, <1>8, <1>9, <1>10, <1>11, <1>12 DEF CodesInv, NamesInv, HeldInv

LEMMA DeleteMaterialKeeps ==
  ASSUME CodesInv, NEW m \in Materials, DeleteMaterial(m)
  PROVE  CodesInv'
<1>1. /\ m \in Present /\ materials' = [materials EXCEPT ![m] = Absent]
      /\ aliases' = {a \in aliases : a[1] # m}
      /\ rows' = [r \in Lines |-> IF rows[r].link = m THEN [rows[r] EXCEPT !.link = NoLink] ELSE rows[r]]
      /\ master' = IF Code(m) = NoCode THEN master ELSE Cleaned(master, materials', Code(m))
      /\ codeHistory' = [codeHistory EXCEPT !.renamed = @ \ {m}]
      /\ products' = products
  BY DEF DeleteMaterial
<1>2. CodesTyped
  BY DEF CodesInv
<1>3. /\ codeHistory' \in Marks /\ codeHistory'.given = codeHistory.given
      /\ codeHistory'.renamed = codeHistory.renamed \ {m} /\ codeHistory'.taken = codeHistory.taken
  BY <1>1, <1>2 DEF CodesTyped, Marks
<1>4. /\ materials' \in [Materials -> MaterialRows \cup {Absent}]
      /\ materials'[m] = Absent /\ \A o \in Materials \ {m} : materials'[o] = materials[o]
  BY <1>1, <1>2 DEF CodesTyped
<1>5. ASSUME NEW r \in Lines
      PROVE  /\ rows'[r] \in LineRows /\ rows'[r].name = rows[r].name
             /\ rows'[r].link = IF rows[r].link = m THEN NoLink ELSE rows[r].link
             /\ rows[r].link # m => rows'[r] = rows[r]
  <2>1. rows[r] \in LineRows
    BY <1>2 DEF CodesTyped
  <2> QED
    BY <1>1, <2>1, UnlinkedLine
<1>6. rows' \in [Lines -> LineRows] /\ \A r \in Lines : rows'[r] # NoLine <=> rows'[r].name \in Names
  <2>1. rows' \in [Lines -> LineRows]
    BY <1>1, <1>5
  <2>2. ASSUME NEW r \in Lines
        PROVE  rows'[r] # NoLine <=> rows'[r].name \in Names
    <3>1. CASE rows[r].link # m
      BY <1>2, <1>5, <3>1 DEF CodesTyped
    <3>2. CASE rows[r].link = m
      <4>1. rows[r] # NoLine
        BY <3>2, NoLineIs, CodesAssumption
      <4>2. rows'[r].name \in Names
        BY <1>2, <1>5, <4>1 DEF CodesTyped
      <4> QED
        BY <4>1, <4>2, NoLineIs
    <3> QED
      BY <3>1, <3>2
  <2> QED
    BY <2>1, <2>2
<1>7. CodesTyped'
  <2>1. DOMAIN master' \subseteq DOMAIN master
    BY <1>1, CleanedIs
  <2> QED
    BY <1>1, <1>2, <1>3, <1>4, <1>6, <2>1 DEF CodesTyped
<1>8. KeysUnique'
  <2>1. \A x, k : Owns(x, k)' => Owns(x, k)
    BY <1>1, <1>4, OwnsIs, OwnsIsNext
  <2> QED
    BY <1>3, <2>1, KeysShrink DEF CodesInv, NamesInv
<1>9. NamesUnique'
  BY <1>4 DEF CodesInv, NamesInv, NamesUnique, Present, Name
<1>10. LinksNamed'
  BY <1>4, <1>5 DEF CodesInv, NamesInv, LinksNamed, Present, Name
<1>11. OneOwnerOfCode'
  <2> SUFFICES ASSUME NEW o \in Materials, materials'[o] # Absent, o \notin codeHistory'.renamed,
                      NEW p \in Products, materials'[o].code # NoCode, products[p] = materials'[o].code
               PROVE  Key(materials'[o].name) = Key(ProductName[p])
    BY <1>1 DEF OneOwnerOfCode, Present, Code, Name
  <2>1. o # m /\ o \notin codeHistory.renamed /\ materials'[o] = materials[o]
    BY <1>3, <1>4
  <2> QED
    BY <2>1 DEF CodesInv, HeldInv, OneOwnerOfCode, Present, Code, Name
<1>12. NoGhostCode'
  <2> SUFFICES ASSUME NEW d \in DOMAIN master' \ codeHistory.given
               PROVE  HeldIn(materials', d)
    BY <1>1, <1>3 DEF NoGhostCode, HeldIn
  <2>1. d \in DOMAIN master \ codeHistory.given /\ d # NoCode
    BY <1>1, <1>2, CleanedIs, CodesAssumption DEF CodesTyped
  <2>2. PICK o \in Materials : materials[o] # Absent /\ materials[o].code = d
    BY <2>1, HeldByMaterial
  <2>3. CASE o = m
    <3>1. Code(m) = d /\ master' = Cleaned(master, materials', d)
      BY <1>1, <2>1, <2>2, <2>3 DEF Code
    <3> QED
      BY <3>1, CleanedIs
  <2>4. CASE o # m
    BY <1>4, <2>2, <2>4 DEF HeldIn
  <2> QED
    BY <2>3, <2>4
<1>13. GivenRemembered'
  BY <1>1, <1>3 DEF CodesInv, HeldInv, GivenRemembered
<1> QED
  BY <1>7, <1>8, <1>9, <1>10, <1>11, <1>12, <1>13 DEF CodesInv, NamesInv, HeldInv

(* Steps that leave materials, products and the master list alone.         *)
LEMMA HeldStays ==
  ASSUME CodesInv, UNCHANGED <<materials, products, master, codeHistory>>
  PROVE  HeldInv' /\ NamesUnique'
  BY DEF CodesInv, NamesInv, NamesUnique, HeldInv, OneOwnerOfCode, GivenRemembered, NoGhostCode,
         HeldIn, Present, Code, Name

LEMMA AbsorbNameKeeps ==
  ASSUME CodesInv, NEW m \in Materials, NEW name \in Names, AbsorbName(m, name)
  PROVE  CodesInv'
<1> DEFINE new(r) == Relinked(rows[r], Name(m), m)
<1>1. /\ m \in Present /\ aliases' \subseteq aliases
      /\ rows' = [r \in Lines |-> IF Absorbable(m, r, Key(name)) THEN new(r) ELSE rows[r]]
      /\ UNCHANGED <<materials, products, master, codeHistory>>
  BY DEF AbsorbName, Relinked
<1>2. CodesTyped /\ Name(m) \in Names
  BY <1>1, Entries DEF CodesInv
<1>3. ASSUME NEW r \in Lines
      PROVE  new(r) \in LineRows /\ new(r).name = Name(m) /\ new(r).link = m /\ new(r) # NoLine
  <2>1. rows[r] \in LineRows
    BY <1>2 DEF CodesTyped
  <2> QED
    BY <1>2, <2>1, ChangedLine
<1> HIDE DEF new
<1>4. \A r \in Lines : rows'[r] = new(r) \/ rows'[r] = rows[r]
  BY <1>1
<1>5. CodesTyped'
  <2>1. rows' \in [Lines -> LineRows]
    BY <1>1, <1>2, <1>3 DEF CodesTyped
  <2>2. \A r \in Lines : rows'[r] # NoLine <=> rows'[r].name \in Names
    BY <1>2, <1>3, <1>4 DEF CodesTyped
  <2> QED
    BY <1>1, <1>2, <2>1, <2>2 DEF CodesTyped
<1>6. KeysUnique'
  <2>1. \A x, k : Owns(x, k)' => Owns(x, k)
    BY <1>1, OwnsIs, OwnsIsNext
  <2> QED
    BY <1>1, <2>1, KeysShrink DEF CodesInv, NamesInv
<1>7. LinksNamed'
  BY <1>1, <1>3, <1>4 DEF CodesInv, NamesInv, LinksNamed, Present, Name
<1> QED
  BY <1>1, <1>5, <1>6, <1>7, HeldStays DEF CodesInv, NamesInv

LEMMA AddAliasKeeps ==
  ASSUME CodesInv, NEW m \in Materials, NEW name \in Names, AddAlias(m, name)
  PROVE  CodesInv' /\ (\A x, k : Owns(x, k) => Owns(x, k)')
<1>1. /\ \A y : ~ Owns(y, Key(name))
      /\ aliases' = aliases \cup {<<m, name>>}
      /\ UNCHANGED <<materials, products, master, rows, codeHistory>>
  BY DEF AddAlias, Owns
<1>2. CodesTyped'
  BY <1>1 DEF CodesInv, CodesTyped
<1>3. \A x, k : Owns(x, k)' <=> Owns(x, k) \/ (x = m /\ k = Key(name))
  <2> TAKE x, k
  <2>1. <<m, name>>[1] = m /\ <<m, name>>[2] = name
    OBVIOUS
  <2>2. (\E a \in aliases' : a[1] = x /\ Key(a[2]) = k) <=>
           (\E a \in aliases : a[1] = x /\ Key(a[2]) = k) \/ (x = m /\ k = Key(name))
    BY <1>1, <2>1
  <2> QED
    BY <1>1, <2>2, OwnsIs, OwnsIsNext
<1>4. KeysUnique'
  BY <1>1, <1>3, KeysGrow DEF CodesInv, NamesInv
<1>5. LinksNamed'
  BY <1>1 DEF CodesInv, NamesInv, LinksNamed, Present, Name
<1> QED
  BY <1>1, <1>2, <1>3, <1>4, <1>5, HeldStays DEF CodesInv, NamesInv

LEMMA DeleteAliasKeeps ==
  ASSUME CodesInv, NEW a, DeleteAlias(a)
  PROVE  CodesInv'
<1>1. aliases' \subseteq aliases /\ UNCHANGED <<materials, products, master, rows, codeHistory>>
  BY DEF DeleteAlias
<1>2. CodesTyped'
  BY <1>1 DEF CodesInv, CodesTyped
<1>3. KeysUnique'
  <2>1. \A x, k : Owns(x, k)' => Owns(x, k)
    BY <1>1, OwnsIs, OwnsIsNext
  <2> QED
    BY <1>1, <2>1, KeysShrink DEF CodesInv, NamesInv
<1>4. LinksNamed'
  BY <1>1 DEF CodesInv, NamesInv, LinksNamed, Present, Name
<1> QED
  BY <1>1, <1>2, <1>3, <1>4, HeldStays DEF CodesInv, NamesInv

(* A line is written anew, with the link of a material only if it has its  *)
(* name; or it goes.                                                       *)
LEMMA LineWritten ==
  ASSUME CodesInv, NEW r \in Lines, NEW new \in LineRows,
         new # NoLine <=> new.name \in Names,
         new.link # NoLink => new.link \in Present /\ new.name = Name(new.link),
         rows' = [rows EXCEPT ![r] = new],
         UNCHANGED <<materials, aliases, products, master, codeHistory>>
  PROVE  CodesInv' /\ \A x, k : Owns(x, k)' <=> Owns(x, k)
<1>1. CodesTyped
  BY DEF CodesInv
<1>2. CodesTyped'
  <2>1. rows' \in [Lines -> LineRows]
    BY <1>1 DEF CodesTyped
  <2>2. \A s \in Lines : rows'[s] # NoLine <=> rows'[s].name \in Names
    BY <1>1 DEF CodesTyped
  <2> QED
    BY <1>1, <2>1, <2>2 DEF CodesTyped
<1>3. \A x, k : Owns(x, k)' <=> Owns(x, k)
  BY OwnsIs, OwnsIsNext
<1>4. KeysUnique'
  BY <1>3, KeysShrink DEF CodesInv, NamesInv
<1>5. LinksNamed'
  BY <1>1 DEF CodesTyped, CodesInv, NamesInv, LinksNamed, Present, Name
<1> QED
  BY <1>2, <1>3, <1>4, <1>5, HeldStays DEF CodesInv, NamesInv

LEMMA SaveRowKeeps ==
  ASSUME CodesInv, NEW m \in Materials, NEW r \in Lines, SaveRow(r, m)
  PROVE  CodesInv' /\ \A x, k : Owns(x, k)' <=> Owns(x, k)
<1> DEFINE new == [name |-> Name(m), link |-> m, stored |-> Code(m)]
<1>1. /\ m \in Present /\ rows' = [rows EXCEPT ![r] = new]
      /\ UNCHANGED <<materials, aliases, products, master, codeHistory>>
  BY DEF SaveRow
<1>2. Name(m) \in Names /\ Code(m) \in AllCodes
  BY <1>1, Entries DEF CodesInv
<1>3. new \in LineRows /\ new.name = Name(m) /\ new.link = m /\ new # NoLine
  BY <1>2, NewLine DEF Links
<1> HIDE DEF new
<1> QED
  BY <1>1, <1>2, <1>3, LineWritten

LEMMA TypeRowKeeps ==
  ASSUME CodesInv, NEW n \in Names, NEW r \in Lines, TypeRow(r, n)
  PROVE  CodesInv' /\ \A x, k : Owns(x, k)' <=> Owns(x, k)
<1>1. PICK c \in StoredCodes(n) : rows' = [rows EXCEPT ![r] = [name |-> n, link |-> NoLink, stored |-> c]]
  BY DEF TypeRow
<1>2. c \in AllCodes
  <2>1. CASE c = NoCode
    BY <2>1 DEF AllCodes
  <2>2. CASE c # NoCode
    <3>1. PICK m : c = Code(m) /\ (m \in Present \/ \E a \in aliases : m = a[1])
      BY <2>2 DEF StoredCodes
    <3>2. m \in Materials
      BY <3>1 DEF Present, CodesInv, CodesTyped
    <3> QED
      BY <3>1, <3>2, Entries DEF CodesInv
  <2> QED
    BY <2>1, <2>2
<1> DEFINE new == [name |-> n, link |-> NoLink, stored |-> c]
<1>3. rows' = [rows EXCEPT ![r] = new] /\ UNCHANGED <<materials, aliases, products, master, codeHistory>>
  BY <1>1 DEF TypeRow
<1>4. new \in LineRows /\ new.name = n /\ new.link = NoLink /\ new # NoLine
  BY <1>2, NewLine DEF Links
<1> HIDE DEF new
<1> QED
  BY <1>3, <1>4, LineWritten

LEMMA DropRowKeeps ==
  ASSUME CodesInv, NEW r \in Lines, DropRow(r)
  PROVE  CodesInv' /\ \A x, k : Owns(x, k)' <=> Owns(x, k)
  BY NoLineIs, LineWritten DEF DropRow

LEMMA CodesInitially == CodesInit => CodesInv
<1> SUFFICES ASSUME CodesInit PROVE CodesInv
  OBVIOUS
<1>1. PICK old \in SUBSET Lines, name \in Names, code \in [Lines -> AllCodes] :
        rows = [r \in Lines |->
                  IF r \in old THEN [name |-> name, link |-> NoLink, stored |-> code[r]] ELSE NoLine]
  BY DEF CodesInit, AllCodes
<1>2. /\ materials = [m \in Materials |-> Absent] /\ aliases = {}
      /\ products = [p \in Products |-> NoCode] /\ DOMAIN master = {}
      /\ codeHistory = [taken |-> {}, renamed |-> {}, given |-> {}]
  BY DEF CodesInit
<1>3. \A r \in Lines : /\ [name |-> name, link |-> NoLink, stored |-> code[r]] \in LineRows
                       /\ [name |-> name, link |-> NoLink, stored |-> code[r]] # NoLine
  BY NewLine DEF Links
<1>4. \A r \in Lines : /\ rows[r] \in LineRows /\ rows[r].link = NoLink
                       /\ rows[r] # NoLine <=> rows[r].name \in Names
  BY <1>1, <1>3, NoLineIs
<1>5. CodesTyped
  BY <1>1, <1>2, <1>4 DEF CodesTyped, Marks, AllCodes
<1>6. Present = {} /\ \A x, k : ~ Owns(x, k)
  BY <1>2, OwnsIs DEF Present
<1>7. NamesInv
  BY <1>4, <1>6 DEF NamesInv, KeysUnique, NamesUnique, LinksNamed
<1>8. HeldInv
  BY <1>2, <1>6 DEF HeldInv, OneOwnerOfCode, GivenRemembered, NoGhostCode
<1> QED
  BY <1>5, <1>7, <1>8 DEF CodesInv

LEMMA CodesStep ==
  ASSUME CodesInv, [CodesNext]_codeVars
  PROVE  CodesInv'
<1>1. CASE UNCHANGED codeVars
  <2>1. CodesTyped' /\ LinksNamed'
    BY <1>1 DEF codeVars, CodesInv, CodesTyped, NamesInv, LinksNamed, Present, Name
  <2>2. KeysUnique'
    <3>1. \A x, k : Owns(x, k)' => Owns(x, k)
      BY <1>1, OwnsIs, OwnsIsNext DEF codeVars
    <3> QED
      BY <1>1, <3>1, KeysShrink DEF CodesInv, NamesInv, codeVars
  <2> QED
    BY <1>1, <2>1, <2>2, HeldStays DEF CodesInv, NamesInv, codeVars
<1>2. CASE CodesNext
  BY <1>2, SetMaterialCodeKeeps, CreateMaterialKeeps, SetProductCodeKeeps, RenameMaterialKeeps,
     DeleteMaterialKeeps, AbsorbNameKeeps, AddAliasKeeps, DeleteAliasKeeps, SaveRowKeeps,
     TypeRowKeeps, DropRowKeeps
     DEF CodesNext, AllCodes
<1> QED
  BY <1>1, <1>2

(***************************************************************************)
(* The code under which a line is reported.                                *)
(***************************************************************************)
(* As long as no key was taken by a rename, the three ways from a name to  *)
(* a code lead to the one owner of its key.                                *)
Leads(r, m) == rows[r] # NoLine /\ Owns(m, Key(rows[r].name))
OwnersCodes(r) == {Code(m) : m \in {o \in Materials : Leads(r, o)}} \ {NoCode}

LEMMA OneOwner ==
  ASSUME CodesInv, codeHistory.taken = {}, NEW n \in Names, NEW x, NEW y,
         Owns(x, Key(n)), Owns(y, Key(n))
  PROVE  x = y
  BY DEF CodesInv, NamesInv, KeysUnique

LEMMA OwnersAreMaterials ==
  ASSUME CodesTyped, NEW x, NEW k, Owns(x, k)
  PROVE  x \in Materials
  BY OwnsIs DEF CodesTyped

LEMMA LinkOwns ==
  ASSUME CodesInv, NEW r \in Lines, rows[r].link # NoLink
  PROVE  Owns(rows[r].link, Key(rows[r].name)) /\ rows[r].link \in Called(Key(rows[r].name))
  BY CalledIs DEF CodesInv, NamesInv, LinksNamed, Owns, Present, Name

LEMMA TrustedIsOwners ==
  ASSUME CodesInv, codeHistory.taken = {}, NEW r \in Lines, rows[r] # NoLine
  PROVE  Trusted(r) = OwnersCodes(r)
<1> DEFINE n == rows[r].name
<1>1. CodesTyped /\ n \in Names
  BY DEF CodesInv, CodesTyped
<1>2. \A x, y : Owns(x, Key(n)) /\ Owns(y, Key(n)) => x = y
  BY <1>1, OneOwner
<1>3. OwnersCodes(r) = {Code(m) : m \in {o \in Materials : Owns(o, Key(n))}} \ {NoCode}
  BY DEF OwnersCodes, Leads
<1> HIDE DEF n
<1>4. \A c \in Linked(r) : \E m \in Called(Key(n)) : c = Code(m) /\ c # NoCode
  <2> TAKE c \in Linked(r)
  <2>1. PICK s \in Lines : rows[s].name = n /\ rows[s].link # NoLink /\ c = Code(rows[s].link) /\ c # NoCode
    BY DEF Linked, n
  <2> QED
    BY <2>1, LinkOwns
<1>5. \A c : c \in ByName(n) <=> c # NoCode /\ \E m \in Called(Key(n)) : c = Code(m)
  BY DEF ByName
<1>6. \A c : c \in ByAlias(n) <=> c # NoCode /\ \E m \in Aliased(Key(n)) : c = Code(m)
  BY DEF ByAlias
<1>7. \A c : c \in OwnersCodes(r) <=> c # NoCode /\ \E m : Owns(m, Key(n)) /\ c = Code(m)
  BY <1>1, <1>3, OwnersAreMaterials
<1>8. \A m : Owns(m, Key(n)) <=> m \in Called(Key(n)) \/ m \in Aliased(Key(n))
  BY DEF Owns
<1>9. CASE Linked(r) # {}
  <2>1. Trusted(r) = Linked(r)
    BY <1>9 DEF Trusted, n
  <2> QED
    BY <1>2, <1>4, <1>7, <1>8, <1>9, <2>1 DEF n
<1>10. CASE Linked(r) = {} /\ ByName(n) # {}
  <2>1. Trusted(r) = ByName(n)
    BY <1>10 DEF Trusted, n
  <2> QED
    BY <1>2, <1>5, <1>7, <1>8, <1>10, <2>1 DEF n
<1>11. CASE Linked(r) = {} /\ ByName(n) = {}
  <2>1. Trusted(r) = ByAlias(n)
    BY <1>11 DEF Trusted, n
  <2>2. \A c : c \in OwnersCodes(r) <=> c \in ByAlias(n)
    BY <1>2, <1>5, <1>6, <1>7, <1>8, <1>11
  <2> QED
    BY <2>1, <2>2 DEF n
<1> QED
  BY <1>9, <1>10, <1>11

(* A step after which every line that is still there leads to the material *)
(* with a code to which it led, leaves its code in force.                  *)
KeepsLeads == \A r \in Lines, o \in Materials :
                 Leads(r, o) /\ Code(o) # NoCode /\ rows'[r] # NoLine => Leads(r, o)'

OwnersDecide == CodesInv /\ codeHistory.taken = {} =>
                   \A r \in Lines : rows[r] # NoLine => Trusted(r) = OwnersCodes(r)
LEMMA OwnersDecideAlways == OwnersDecide
  BY TrustedIsOwners DEF OwnersDecide
LEMMA OwnersDecideNext == OwnersDecide'
  BY OwnersDecideAlways, PTL

LEMMA LeadsKeepCodes ==
  ASSUME CodesInv, CodesInv',
         codeHistory'.taken = {} /\ codeHistory.taken = {},
         [m \in Materials |-> Code(m)] = [m \in Materials |-> materials'[m].code],
         KeepsLeads
  PROVE  \A r \in Lines : (rows[r] # NoLine /\ rows'[r] # NoLine /\ Trusted(r) # {}) =>
             Resolved(r)' = Resolved(r)
<1> SUFFICES ASSUME NEW r \in Lines, rows[r] # NoLine, rows'[r] # NoLine, Trusted(r) # {}
             PROVE  Resolved(r)' = Resolved(r)
  OBVIOUS
<1>1. Trusted(r) = OwnersCodes(r)
  BY TrustedIsOwners
<1>2. \A m \in Materials : Code(m)' = Code(m)
  <2> TAKE m \in Materials
  <2>1. [o \in Materials |-> Code(o)][m] = [o \in Materials |-> materials'[o].code][m]
    OBVIOUS
  <2> QED
    BY <2>1 DEF Code
<1>3. PICK m \in Materials : Leads(r, m) /\ Code(m) # NoCode
  BY <1>1 DEF OwnersCodes
<1>4. Leads(r, m)'
  BY <1>3 DEF KeepsLeads
<1>5. \A o : Leads(r, o) => o = m
  <2>1. rows[r].name \in Names
    BY DEF CodesInv, CodesTyped
  <2> QED
    BY <1>3, <2>1, OneOwner DEF Leads
<1>6. rows'[r] # NoLine /\ Owns(m, Key(rows[r].name))'
  BY <1>4 DEF Leads
<1>7. \A o : Leads(r, o)' => o = m
  <2>1. rows'[r].name \in Names
    BY <1>6 DEF CodesInv, CodesTyped
  <2>2. \A x, y : Owns(x, Key(rows[r].name))' /\ Owns(y, Key(rows[r].name))' => x = y
    BY <2>1 DEF CodesInv, NamesInv, KeysUnique
  <2> QED
    BY <1>6, <2>2 DEF Leads
<1>8. Trusted(r)' = OwnersCodes(r)'
  BY <1>6, OwnersDecideNext DEF OwnersDecide
<1>9. OwnersCodes(r) = {Code(m)}
  BY <1>3, <1>5 DEF OwnersCodes
<1>10. OwnersCodes(r)' = {Code(m)'}
  BY <1>2, <1>3, <1>4, <1>7 DEF OwnersCodes
<1>11. Resolved(r) = {Code(m)}
  BY <1>1, <1>9 DEF Resolved
<1>12. Trusted(r)' = {Code(m)'}
  BY <1>8, <1>10
<1>13. Resolved(r)' = {Code(m)'}
  BY <1>12 DEF Resolved
<1> QED
  BY <1>2, <1>11, <1>13

LEMMA NameOwnsNext ==
  ASSUME NEW o \in Materials, materials'[o] # Absent, NEW k, Key(materials'[o].name) = k
  PROVE  Owns(o, k)'
  BY OwnsIsNext

LEMMA AliasOwnsNext ==
  ASSUME NEW o, NEW k, NEW a \in aliases', a[1] = o, Key(a[2]) = k
  PROVE  Owns(o, k)'
  BY OwnsIsNext

LEMMA RenameKeepsLeads ==
  ASSUME CodesInv, codeHistory.taken = {}, NEW m \in Materials, NEW name \in Names,
         RenameMaterial(m, name)
  PROVE  KeepsLeads
<1> DEFINE key == Key(name)
<1>1. /\ m \in Present /\ materials' = [materials EXCEPT ![m].name = name]
      /\ aliases' = {a \in aliases : ~ (a[1] = m /\ Key(a[2]) = key)}
      /\ rows' = Renamed(m, name)
  BY DEF RenameMaterial
<1>2. CodesTyped /\ materials[m] # Absent /\ materials[m] \in MaterialRows
  BY <1>1, Entries DEF CodesInv
<1>3. /\ materials'[m].name = name /\ materials'[m] # Absent
      /\ \A o \in Materials \ {m} : materials'[o] = materials[o]
  <2> DEFINE new == [materials[m] EXCEPT !.name = name]
  <2>1. new \in MaterialRows /\ new.name = name
    BY <1>2, NewRow, Entries
  <2>2. materials' = [materials EXCEPT ![m] = new] /\ new # Absent
    BY <1>1, <2>1, MaterialRow
  <2> HIDE DEF new
  <2> QED
    BY <1>2, <2>1, <2>2 DEF CodesTyped
<1>4. Owns(m, key)' /\ Owns(m, Key(Name(m)))
  BY <1>2, <1>3, OwnsIs, OwnsIsNext DEF Name
<1> SUFFICES ASSUME NEW r \in Lines, NEW o \in Materials, Leads(r, o)
             PROVE  Leads(r, o)'
  BY DEF KeepsLeads
<1>5. rows[r] # NoLine /\ Owns(o, Key(rows[r].name)) /\ rows[r].name \in Names /\ Name(m) \in Names
  BY <1>1, <1>2, Entries DEF Leads, CodesTyped
<1>6. CASE rows[r].link = m \/ Loose(r, Key(Name(m)))
  <2>1. rows'[r] # NoLine /\ rows'[r].name = name
    BY <1>1, <1>2, <1>6, RenamedIs
  <2>2. Key(rows[r].name) = Key(Name(m))
    BY <1>6, CodesAssumption DEF Loose, CodesInv, NamesInv, LinksNamed
  <2>3. o = m
    BY <1>4, <1>5, <2>2, OneOwner
  <2> QED
    BY <1>4, <2>1, <2>3 DEF Leads
<1>7. CASE ~ (rows[r].link = m \/ Loose(r, Key(Name(m))))
  <2>1. rows'[r] = rows[r]
    BY <1>1, <1>2, <1>7, RenamedIs
  <2>2. CASE o # m
    <3>1. CASE materials[o] # Absent /\ Key(materials[o].name) = Key(rows[r].name)
      BY <1>3, <1>5, <2>1, <2>2, <3>1, NameOwnsNext DEF Leads
    <3>2. CASE \E a \in aliases : a[1] = o /\ Key(a[2]) = Key(rows[r].name)
      <4>1. PICK a \in aliases : a[1] = o /\ Key(a[2]) = Key(rows[r].name)
        BY <3>2
      <4>2. a \in aliases'
        BY <1>1, <2>2, <4>1
      <4>3. Owns(o, Key(rows[r].name))'
        BY <2>1, <4>1, <4>2, AliasOwnsNext
      <4> QED
        BY <1>5, <2>1, <4>3 DEF Leads
    <3> QED
      BY <1>5, <3>1, <3>2, OwnsIs
  <2>3. CASE o = m
    <3>1. Key(rows[r].name) # Key(Name(m))
      <4> SUFFICES ASSUME Key(rows[r].name) = Key(Name(m)) PROVE FALSE
        OBVIOUS
      <4>1. rows[r].link # NoLink /\ rows[r].link # m
        BY <1>5, <1>7 DEF Loose
      <4> QED
        BY <1>5, <2>3, <4>1, LinkOwns, OneOwner
    <3>2. PICK a \in aliases : a[1] = m /\ Key(a[2]) = Key(rows[r].name)
      BY <1>5, <2>3, <3>1, OwnsIs DEF Name
    <3>3. Owns(m, Key(rows[r].name))'
      <4>1. CASE Key(rows[r].name) = key
        BY <1>4, <2>1, <4>1
      <4>2. CASE Key(rows[r].name) # key
        <5>1. a \in aliases'
          BY <1>1, <3>2, <4>2
        <5> QED
          BY <2>1, <3>2, <5>1, AliasOwnsNext
      <4> QED
        BY <4>1, <4>2
    <3> QED
      BY <1>5, <2>1, <2>3, <3>3 DEF Leads
  <2> QED
    BY <2>2, <2>3
<1> QED
  BY <1>6, <1>7

LEMMA AbsorbKeepsLeads ==
  ASSUME CodesInv, codeHistory.taken = {}, NEW m \in Materials, NEW name \in Names,
         AbsorbName(m, name)
  PROVE  KeepsLeads
<1> DEFINE new(r) == Relinked(rows[r], Name(m), m)
<1>1. /\ m \in Present /\ \A y : Owns(y, Key(name)) => y = m
      /\ rows' = [r \in Lines |-> IF Absorbable(m, r, Key(name)) THEN new(r) ELSE rows[r]]
      /\ aliases' = {a \in aliases : ~ (a[1] = m /\ Key(a[2]) = Key(name))}
      /\ materials' = materials
  BY DEF AbsorbName, Owns, Relinked
<1>2. CodesTyped /\ Name(m) \in Names
  BY <1>1, Entries DEF CodesInv
<1>3. ASSUME NEW r \in Lines
      PROVE  new(r).name = Name(m) /\ new(r) # NoLine
  <2>1. rows[r] \in LineRows
    BY <1>2 DEF CodesTyped
  <2> QED
    BY <1>2, <2>1, ChangedLine
<1> HIDE DEF new
<1>4. \A k : k = Key(Name(m)) => Owns(m, k)'
  BY <1>1, OwnsIsNext DEF Present, Name
<1> SUFFICES ASSUME NEW r \in Lines, NEW o \in Materials, Leads(r, o)
             PROVE  Leads(r, o)'
  BY DEF KeepsLeads
<1>5. rows[r] # NoLine /\ Owns(o, Key(rows[r].name))
  BY DEF Leads
<1>6. CASE Absorbable(m, r, Key(name))
  <2>1. Key(rows[r].name) = Key(name)
    BY <1>6 DEF Absorbable, Loose
  <2>2. o = m
    BY <1>1, <1>5, <2>1
  <2>3. rows'[r] = new(r)
    BY <1>1, <1>6
  <2> QED
    <3>1. Owns(m, Key(rows[r].name))'
      BY <1>3, <1>4, <2>3
    <3> QED
      BY <1>3, <2>2, <2>3, <3>1 DEF Leads
<1>7. CASE ~ Absorbable(m, r, Key(name))
  <2>1. rows'[r] = rows[r]
    BY <1>1, <1>7
  <2>2. ~ (o = m /\ Key(rows[r].name) = Key(name))
    <3> SUFFICES ASSUME o = m, Key(rows[r].name) = Key(name) PROVE FALSE
      OBVIOUS
    <3>1. rows[r].link # NoLink /\ rows[r].link # m
      BY <1>5, <1>7 DEF Absorbable, Loose
    <3> QED
      BY <1>1, <3>1, LinkOwns
  <2>3. CASE materials[o] # Absent /\ Key(materials[o].name) = Key(rows[r].name)
    BY <1>1, <1>5, <2>1, <2>3, NameOwnsNext DEF Leads
  <2>4. CASE \E a \in aliases : a[1] = o /\ Key(a[2]) = Key(rows[r].name)
    <3>1. PICK a \in aliases : a[1] = o /\ Key(a[2]) = Key(rows[r].name)
      BY <2>4
    <3>2. a \in aliases'
      BY <1>1, <2>2, <3>1
    <3>3. Owns(o, Key(rows[r].name))'
      BY <2>1, <3>1, <3>2, AliasOwnsNext
    <3> QED
      BY <1>5, <2>1, <3>3 DEF Leads
  <2> QED
    BY <1>5, <2>3, <2>4, OwnsIs
<1> QED
  BY <1>6, <1>7

(* Names and aliases that are there stay.                                  *)
LEMMA OwnersStayLeads ==
  ASSUME rows' = rows, \A x, k : Owns(x, k) => Owns(x, k)'
  PROVE  KeepsLeads
  BY DEF KeepsLeads, Leads

LEMMA DeleteKeepsLeads ==
  ASSUME CodesInv, NEW m \in Materials, DeleteMaterial(m), Code(m) = NoCode
  PROVE  KeepsLeads
<1>1. /\ materials' = [materials EXCEPT ![m] = Absent]
      /\ aliases' = {a \in aliases : a[1] # m}
      /\ rows' = [r \in Lines |-> IF rows[r].link = m THEN [rows[r] EXCEPT !.link = NoLink] ELSE rows[r]]
  BY DEF DeleteMaterial
<1>2. CodesTyped
  BY DEF CodesInv
<1> SUFFICES ASSUME NEW r \in Lines, NEW o \in Materials, Leads(r, o), Code(o) # NoCode
             PROVE  Leads(r, o)'
  BY DEF KeepsLeads
<1>3. o # m
  OBVIOUS
<1>4. rows[r] # NoLine /\ rows[r].name \in Names /\ Owns(o, Key(rows[r].name)) /\ rows[r] \in LineRows
  BY <1>2 DEF Leads, CodesTyped
<1>5. rows'[r].name = rows[r].name
  BY <1>1, <1>4, UnlinkedLine
<1>6. rows'[r] # NoLine
  BY <1>4, <1>5, NoLineIs
<1>7. Owns(o, Key(rows[r].name))'
  <2>1. materials'[o] = materials[o]
    BY <1>1, <1>2, <1>3 DEF CodesTyped
  <2>2. Owns(o, Key(rows[r].name)) => \/ materials[o] # Absent /\ Key(materials[o].name) = Key(rows[r].name)
                                      \/ \E a \in aliases : a[1] = o /\ Key(a[2]) = Key(rows[r].name)
    BY OwnsIs
  <2> QED
    BY <1>1, <1>3, <1>4, <1>5, <2>1, <2>2, OwnsIsNext
<1> QED
  BY <1>5, <1>6, <1>7 DEF Leads

(* A line that is written anew keeps its name.                             *)
LEMMA WrittenLeads ==
  ASSUME \A x, k : Owns(x, k)' <=> Owns(x, k),
         \A s \in Lines : rows[s] # NoLine /\ rows'[s] # NoLine => rows'[s].name = rows[s].name
  PROVE  KeepsLeads
<1> SUFFICES ASSUME NEW r \in Lines, NEW o \in Materials, Leads(r, o), rows'[r] # NoLine
             PROVE  Leads(r, o)'
  BY DEF KeepsLeads
<1>1. rows'[r].name = rows[r].name /\ Owns(o, Key(rows[r].name))
  BY DEF Leads
<1>2. Owns(o, Key(rows[r].name))'
  BY <1>1
<1> QED
  BY <1>2 DEF Leads

LEMMA SaveKeepsLeads ==
  ASSUME CodesInv, NEW m \in Materials, NEW r \in Lines, SaveRow(r, m)
  PROVE  KeepsLeads
<1>1. \A s \in Lines : rows[s] # NoLine /\ rows'[s] # NoLine => rows'[s].name = rows[s].name
  BY DEF SaveRow, CodesInv, CodesTyped
<1> QED
  BY <1>1, SaveRowKeeps, WrittenLeads

LEMMA TypeKeepsLeads ==
  ASSUME CodesInv, NEW n \in Names, NEW r \in Lines, TypeRow(r, n)
  PROVE  KeepsLeads
<1>1. \A s \in Lines : rows[s] # NoLine /\ rows'[s] # NoLine => rows'[s].name = rows[s].name
  BY DEF TypeRow, CodesInv, CodesTyped
<1> QED
  BY <1>1, TypeRowKeeps, WrittenLeads

LEMMA DropKeepsLeads ==
  ASSUME CodesInv, NEW r \in Lines, DropRow(r)
  PROVE  KeepsLeads
<1>1. \A s \in Lines : rows[s] # NoLine /\ rows'[s] # NoLine => rows'[s].name = rows[s].name
  BY DEF DropRow, CodesInv, CodesTyped
<1> QED
  BY <1>1, DropRowKeeps, WrittenLeads

(* What NamesKeepCodesNow is asked of: a step of names alone.              *)
OfNames == /\ codeHistory'.taken = {} /\ products' = products
           /\ [m \in Materials |-> Code(m)] = [m \in Materials |-> materials'[m].code]
           /\ aliases \ aliases' = {} \/ <<rows, materials>>' # <<rows, materials>>

LEMMA TakenStays == ASSUME CodesInv, CodesNext PROVE codeHistory.taken \subseteq codeHistory'.taken
<1>1. codeHistory \in Marks
  BY DEF CodesInv, CodesTyped
<1>2. ASSUME NEW m, NEW name, RenameMaterial(m, name)
      PROVE  codeHistory.taken \subseteq codeHistory'.taken
  BY <1>1, <1>2 DEF RenameMaterial, Marks
<1>3. ASSUME NEW p, NEW c, SetProductCode(p, c)
      PROVE  codeHistory'.taken = codeHistory.taken
  BY <1>1, <1>3 DEF SetProductCode, Marks
<1>4. ASSUME NEW m, DeleteMaterial(m)
      PROVE  codeHistory'.taken = codeHistory.taken
  BY <1>1, <1>4 DEF DeleteMaterial, Marks
<1> QED
  BY <1>2, <1>3, <1>4 DEF CodesNext, SetMaterialCode, CreateMaterial, AbsorbName, AddAlias,
     DeleteAlias, SaveRow, TypeRow, DropRow

LEMMA NamesKeepLeads ==
  ASSUME CodesInv, CodesNext, OfNames
  PROVE  KeepsLeads
<1>1. codeHistory.taken = {}
  BY TakenStays DEF OfNames
<1>2. ASSUME NEW m \in Materials, NEW c \in AllCodes, NEW force, SetMaterialCode(m, c, force)
      PROVE  KeepsLeads
  <2>1. /\ aliases' = aliases /\ rows' = rows /\ codeHistory' = codeHistory
        /\ SameNames
    BY <1>2, SetMaterialCodeKeeps DEF SetMaterialCode
  <2> QED
    BY <2>1, NamesStay, OwnersStayLeads
<1>3. ASSUME NEW m \in Materials, NEW c \in AllCodes, NEW force, NEW n \in Names,
             CreateMaterial(m, n, c, force)
      PROVE  KeepsLeads
  BY <1>3, CreateMaterialKeeps, OwnersStayLeads DEF CreateMaterial
<1>4. ASSUME NEW m \in Materials, DeleteMaterial(m)
      PROVE  KeepsLeads
  <2>1. [o \in Materials |-> Code(o)][m] = [o \in Materials |-> materials'[o].code][m]
    BY DEF OfNames
  <2>2. materials'[m] = Absent
    BY <1>4 DEF DeleteMaterial, CodesInv, CodesTyped
  <2>3. Code(m) = NoCode
    BY <2>1, <2>2 DEF Absent
  <2> QED
    BY <1>4, <2>3, DeleteKeepsLeads
<1>5. ASSUME NEW m \in Materials, NEW n \in Names, AddAlias(m, n)
      PROVE  KeepsLeads
  BY <1>5, AddAliasKeeps, OwnersStayLeads DEF AddAlias
<1>6. ASSUME NEW p \in Products, NEW c \in AllCodes, SetProductCode(p, c)
      PROVE  KeepsLeads
  <2>1. rows' = rows /\ aliases' = aliases /\ materials' = materials
    BY <1>6 DEF SetProductCode
  <2>2. \A x, k : Owns(x, k) => Owns(x, k)'
    BY <2>1, OwnsIs, OwnsIsNext
  <2> QED
    BY <2>1, <2>2, OwnersStayLeads
<1>7. ASSUME NEW a \in aliases, DeleteAlias(a)
      PROVE  FALSE
  BY <1>7 DEF DeleteAlias, OfNames
<1> QED
  BY <1>1, <1>2, <1>3, <1>4, <1>5, <1>6, <1>7, RenameKeepsLeads, AbsorbKeepsLeads, SaveKeepsLeads,
     TypeKeepsLeads, DropKeepsLeads
     DEF CodesNext, AllCodes

LEMMA AtMostOne ==
  ASSUME NEW S, \A x, y \in S : x = y
  PROVE  Cardinality(S) <= 1
<1>1. CASE S = {}
  BY <1>1, FS_EmptySet
<1>2. CASE S # {}
  <2>1. PICK x : x \in S
    BY <1>2
  <2>2. S = {x}
    BY <2>1
  <2> QED
    BY <2>2, FS_Singleton
<1> QED
  BY <1>1, <1>2

LEMMA UniqueFromInv ==
  CodesInv => OneMaterialPerKey /\ OneCodePerName /\ OneOwnerOfCode /\ NoGhostCode
<1> SUFFICES ASSUME CodesInv PROVE OneMaterialPerKey /\ OneCodePerName
  BY DEF CodesInv, HeldInv
<1>1. OneMaterialPerKey
  BY AtMostOne DEF CodesInv, NamesInv, KeysUnique, Owns, OneMaterialPerKey
<1>2. OneCodePerName
  BY DEF CodesInv, NamesInv, NamesUnique, LinksNamed, OneCodePerName
<1> QED
  BY <1>1, <1>2

(* A name leads to one material, a code has one owner, an entry of the     *)
(* master list is held, and no work on names alone (rename, absorb, alias) *)
(* nor a correction moves a recorded line from one code that managers gave *)
(* to another: however often names are spelled, moved, taken away and      *)
(* given again, and whatever code is stored with a line                    *)
(* (item_code_routes.py, _resolve_erp_code, stages 1 to 3).                *)
THEOREM CodesStayUnique == CodesSpec => CodesAreUnique
<1> DEFINE All == OneMaterialPerKey /\ OneCodePerName /\ OneOwnerOfCode /\ NoGhostCode
<1>1. CodesInv /\ [CodesNext]_codeVars => CodesInv'
  BY CodesStep
<1>2. CodesInv => All
  BY UniqueFromInv
<1>3. CodesInv /\ CodesInv' /\ [CodesNext]_codeVars => [NamesKeepCodesNow /\ All']_codeVars
  <2> SUFFICES ASSUME CodesInv, CodesInv', [CodesNext]_codeVars, ~ UNCHANGED codeVars
               PROVE  NamesKeepCodesNow /\ All'
    OBVIOUS
  <2>1. CodesNext
    OBVIOUS
  <2>2. All'
    BY <1>2, PTL
  <2>3. NamesKeepCodesNow
    <3> SUFFICES ASSUME OfNames
                 PROVE  \A r \in Lines : (rows[r] # NoLine /\ rows'[r] # NoLine /\ Trusted(r) # {}) =>
                            Resolved(r)' = Resolved(r)
      BY DEF NamesKeepCodesNow, OfNames
    <3>1. KeepsLeads
      BY <2>1, NamesKeepLeads
    <3>2. codeHistory.taken = {} /\ codeHistory'.taken = {}
      BY <2>1, TakenStays DEF OfNames
    <3> QED
      BY <3>1, <3>2, LeadsKeepCodes DEF OfNames
  <2> QED
    BY <2>2, <2>3
<1> QED
  BY <1>1, <1>2, <1>3, CodesInitially, PTL DEF CodesSpec, CodesAreUnique

(***************************************************************************)
(* Viscosity.  A reading is of the record of its LOT or of none, and the   *)
(* LOT of a test blend has a reading only once its record was purged, when *)
(* nothing will link the two any more.                                     *)
(***************************************************************************)
ReadingRows == [value : Values, record : Records \cup {NoRecord},
                fresh : BOOLEAN, excluded : BOOLEAN, reviewed : BOOLEAN]
TestRows    == [value : Values, fresh : BOOLEAN]
BlendRows   == [status : {"completed", "canceled", "purged"}, day : Nat]

ViscosityTyped ==
    /\ DOMAIN blends \subseteq Records /\ blends \in [DOMAIN blends -> BlendRows]
    /\ readings \in [DOMAIN readings -> ReadingRows]
    /\ testValues \in [DOMAIN testValues -> TestRows]
    /\ clock \in [today : Nat, since : Nat]

MayBeOf(l, record) ==
    /\ l \in DOMAIN blends /\ record \in {NoRecord, l}
    /\ l \in Tests => blends[l].status = "purged" /\ record = NoRecord
ReadingsOwned == \A l \in DOMAIN readings : MayBeOf(l, readings[l].record)

ViscosityInv == ViscosityTyped /\ ReadingsOwned

LEMMA ViscosityStarts == ASSUME ViscosityInit PROVE ViscosityInv
<1>1. /\ blends = << >> /\ readings = << >> /\ testValues = << >>
      /\ clock = [today |-> 1, since |-> 0]
  BY DEF ViscosityInit
<1>2. DOMAIN blends = {} /\ DOMAIN readings = {} /\ DOMAIN testValues = {}
  BY <1>1
<1>3. /\ blends \in [{} -> BlendRows] /\ readings \in [{} -> ReadingRows]
      /\ testValues \in [{} -> TestRows]
  BY <1>1
<1> QED
  BY <1>1, <1>2, <1>3 DEF ViscosityInv, ViscosityTyped, ReadingsOwned

(* A test blend has no reading of a product, and the two lists are of the  *)
(* same LOTs.                                                              *)
LEMMA ReadingsSound == ASSUME ViscosityInv PROVE TestsStayApart /\ DueIsQueued
<1>1. TestsStayApart
  BY ViscosityAssumption DEF ViscosityInv, ReadingsOwned, MayBeOf, TestsStayApart
<1>2. DueIsQueued
  BY DEF DueIsQueued, Due, Queue
<1> QED
  BY <1>1, <1>2

(* The rows a step leaves.  Of a reading that was there the value is kept  *)
(* or its LOT is logged.                                                   *)
LEMMA StepOfReadings ==
    ASSUME ViscosityInv,
           DOMAIN blends' \subseteq Records, blends' \in [DOMAIN blends' -> BlendRows],
           \A r \in DOMAIN blends : /\ r \in DOMAIN blends'
                                    /\ blends[r].status = "purged" => blends'[r].status = "purged",
           readings' \in [DOMAIN readings' -> ReadingRows],
           \A l \in DOMAIN readings' : MayBeOf(l, readings'[l].record),
           testValues' \in [DOMAIN testValues' -> TestRows], clock' \in [today : Nat, since : Nat],
           NoSilentChangeNow
    PROVE  ViscosityInv' /\ NoSilentChangeNow
BY DEF ViscosityInv, ViscosityTyped, ReadingsOwned, MayBeOf

LEMMA ViscosityKept ==
    ASSUME ViscosityInv, [ViscosityNext]_viscosityVars
    PROVE  ViscosityInv' /\ NoSilentChangeNow
<1>0. /\ DOMAIN blends \subseteq Records /\ blends \in [DOMAIN blends -> BlendRows]
      /\ readings \in [DOMAIN readings -> ReadingRows]
      /\ testValues \in [DOMAIN testValues -> TestRows]
      /\ clock \in [today : Nat, since : Nat] /\ clock.today \in Nat
      /\ \A l \in DOMAIN readings : readings[l] \in ReadingRows /\ MayBeOf(l, readings[l].record)
      /\ \A r \in DOMAIN testValues : testValues[r] \in TestRows
  BY DEF ViscosityInv, ViscosityTyped, ReadingsOwned
(* Steps that leave the readings.                                          *)
<1>a. ASSUME UNCHANGED readings,
             DOMAIN blends' \subseteq Records, blends' \in [DOMAIN blends' -> BlendRows],
             \A r \in DOMAIN blends : /\ r \in DOMAIN blends'
                                      /\ blends[r].status = "purged" => blends'[r].status = "purged",
             clock' \in [today : Nat, since : Nat],
             testValues' \in [DOMAIN testValues' -> TestRows],
             \A r \in DOMAIN testValues :
               (r \in DOMAIN testValues' /\ testValues'[r].value = testValues[r].value) \/ r \in logged'
      PROVE  ViscosityInv' /\ NoSilentChangeNow
  <2>1. NoSilentChangeNow
    BY <1>a DEF NoSilentChangeNow
  <2> QED
    BY <1>0, <1>a, <2>1, StepOfReadings
(* Steps that leave the rest.                                              *)
<1>b. ASSUME UNCHANGED <<blends, testValues, clock>>,
             readings' \in [DOMAIN readings' -> ReadingRows],
             \A l \in DOMAIN readings' : MayBeOf(l, readings'[l].record),
             \A l \in DOMAIN readings :
               (l \in DOMAIN readings' /\ readings'[l].value = readings[l].value) \/ l \in logged'
      PROVE  ViscosityInv' /\ NoSilentChangeNow
  <2>1. NoSilentChangeNow
    BY <1>b DEF NoSilentChangeNow
  <2> QED
    BY <1>0, <1>b, <2>1, StepOfReadings
<1>c. ASSUME UNCHANGED <<blends, readings, testValues, clock>> PROVE ViscosityInv' /\ NoSilentChangeNow
  BY <1>0, <1>a, <1>c
<1>1. ASSUME NEW r \in Records, SaveBlend(r) PROVE ViscosityInv' /\ NoSilentChangeNow
  <2>1. blends' = [x \in DOMAIN blends \cup {r} |->
                     IF x = r THEN [status |-> "completed", day |-> clock.today] ELSE blends[x]]
    BY <1>1 DEF SaveBlend, Put
  <2>2. [status |-> "completed", day |-> clock.today] \in BlendRows
    BY <1>0 DEF BlendRows
  <2>3. blends' \in [DOMAIN blends' -> BlendRows] /\ DOMAIN blends' \subseteq Records
    BY <1>0, <2>1, <2>2
  <2> QED
    BY <1>0, <1>1, <1>a, <2>1, <2>3 DEF SaveBlend
<1>2. ASSUME NEW r \in Records, CancelBlend(r) PROVE ViscosityInv' /\ NoSilentChangeNow
  <2>1. /\ r \in DOMAIN blends /\ blends[r].status = "completed"
        /\ blends' = [blends EXCEPT ![r].status = "canceled"]
        /\ UNCHANGED <<readings, testValues, clock>>
    BY <1>2 DEF CancelBlend, IsCompleted
  <2> DEFINE row == [blends[r] EXCEPT !.status = "canceled"]
  <2>2. row \in BlendRows
    BY <1>0, <2>1 DEF BlendRows
  <2>3. blends' = [blends EXCEPT ![r] = row]
    BY <2>1
  <2> HIDE DEF row
  <2>4. /\ DOMAIN blends' = DOMAIN blends /\ blends' \in [DOMAIN blends' -> BlendRows]
        /\ \A x \in DOMAIN blends : x # r => blends'[x] = blends[x]
    BY <1>0, <2>2, <2>3
  <2> QED
    BY <1>0, <1>a, <2>1, <2>4
<1>3. ASSUME NEW r \in Records, PurgeBlend(r) PROVE ViscosityInv' /\ NoSilentChangeNow
  <2>1. /\ r \in DOMAIN blends /\ blends[r].status = "canceled"
        /\ blends' = [blends EXCEPT ![r].status = "purged"]
        /\ readings' = [l \in DOMAIN readings |->
                          [readings[l] EXCEPT !.record = IF @ = r THEN NoRecord ELSE @]]
        /\ testValues' = Without(testValues, r) /\ logged' = {r} /\ UNCHANGED clock
    BY <1>3 DEF PurgeBlend
  <2> DEFINE row == [blends[r] EXCEPT !.status = "purged"]
             Cut(l) == [readings[l] EXCEPT !.record = IF @ = r THEN NoRecord ELSE @]
  <2>2. row \in BlendRows /\ row.status = "purged"
    BY <1>0, <2>1 DEF BlendRows
  <2>3. blends' = [blends EXCEPT ![r] = row]
    BY <2>1
  <2>4. \A l \in DOMAIN readings : /\ Cut(l) \in ReadingRows /\ Cut(l).value = readings[l].value
                                   /\ Cut(l).record \in {readings[l].record, NoRecord}
    BY <1>0 DEF ReadingRows
  <2> HIDE DEF row, Cut
  <2>5. /\ DOMAIN blends' = DOMAIN blends /\ blends' \in [DOMAIN blends' -> BlendRows]
        /\ \A x \in DOMAIN blends : x # r => blends'[x] = blends[x]
        /\ blends'[r] = row
    BY <1>0, <2>1, <2>2, <2>3
  <2>6. /\ DOMAIN readings' = DOMAIN readings /\ readings' \in [DOMAIN readings' -> ReadingRows]
        /\ \A l \in DOMAIN readings : readings'[l] = Cut(l)
    BY <2>1, <2>4 DEF Cut
  <2>7. /\ DOMAIN testValues' = DOMAIN testValues \ {r}
        /\ \A x \in DOMAIN testValues' : testValues'[x] = testValues[x]
        /\ testValues' \in [DOMAIN testValues' -> TestRows]
    BY <1>0, <2>1 DEF Without, Restrict
  <2>8. NoSilentChangeNow
    BY <2>1, <2>4, <2>6, <2>7 DEF NoSilentChangeNow
  <2>9. \A x \in DOMAIN blends : blends[x].status = "purged" => blends'[x].status = "purged"
    BY <2>2, <2>5
  <2>10. \A l \in DOMAIN readings' : MayBeOf(l, readings'[l].record)
    BY <1>0, <2>4, <2>6 DEF MayBeOf
  <2> QED
    BY <1>0, <2>1, <2>5, <2>6, <2>7, <2>8, <2>9, <2>10, StepOfReadings
<1>4. ASSUME NEW r \in Records, NEW v \in Values, AddForBlend(r, v) \/ AddDirect(r, v)
      PROVE  ViscosityInv' /\ NoSilentChangeNow
  <2>1. PICK record \in {NoRecord, r} :
           /\ readings' = Put(readings, r, Reading(v, record))
           /\ r \notin Tests \/ record = NoRecord
    BY <1>4 DEF AddForBlend, AddDirect, IsTestLot, Exists
  <2>2. /\ r \in DOMAIN blends /\ r \notin DOMAIN readings
        /\ r \in Tests => blends[r].status = "purged"
        /\ UNCHANGED <<blends, testValues, clock>>
    BY <1>4 DEF AddForBlend, AddDirect, IsTestLot, Exists
  <2> DEFINE row == Reading(v, record)
  <2>3. row \in ReadingRows /\ row.record = record
    BY DEF Reading, ReadingRows
  <2> HIDE DEF row
  <2>4. /\ DOMAIN readings' = DOMAIN readings \cup {r} /\ readings'[r] = row
        /\ \A l \in DOMAIN readings : readings'[l] = readings[l]
        /\ readings' = [l \in DOMAIN readings' |-> readings'[l]]
    BY <2>1, <2>2 DEF Put, row
  <2>5. readings' \in [DOMAIN readings' -> ReadingRows]
    BY <1>0, <2>3, <2>4
  <2>6. MayBeOf(r, record)
    BY <2>1, <2>2 DEF MayBeOf
  <2>7. \A l \in DOMAIN readings' : MayBeOf(l, readings'[l].record)
    BY <1>0, <2>3, <2>4, <2>6
  <2> QED
    BY <1>0, <1>b, <2>2, <2>4, <2>5, <2>7
(* Steps that change each reading, or some, but not what it is of.         *)
<1>d. ASSUME UNCHANGED <<blends, testValues, clock>>,
             DOMAIN readings' \subseteq DOMAIN readings, readings' = [l \in DOMAIN readings' |-> readings'[l]],
             \A l \in DOMAIN readings' : readings'[l] \in ReadingRows /\ readings'[l].record = readings[l].record,
             \A l \in DOMAIN readings :
               (l \in DOMAIN readings' /\ readings'[l].value = readings[l].value) \/ l \in logged'
      PROVE  ViscosityInv' /\ NoSilentChangeNow
  <2>1. readings' \in [DOMAIN readings' -> ReadingRows]
    BY <1>d
  <2> QED
    BY <1>0, <1>b, <1>d, <2>1
<1>5. ASSUME NEW r \in Records, SkipChecks(r) \/ SkipInsert(r) \/ Unskip(r) PROVE ViscosityInv' /\ NoSilentChangeNow
  BY <1>5, <1>c DEF SkipChecks, SkipInsert, Unskip
<1>6. ASSUME NEW r \in Records, DeleteReading(r) PROVE ViscosityInv' /\ NoSilentChangeNow
  <2>1. readings' = [l \in DOMAIN readings \ {r} |-> readings[l]] /\ logged' = {r}
        /\ UNCHANGED <<blends, testValues, clock>>
    BY <1>6 DEF DeleteReading, Without, Restrict
  <2> QED
    BY <1>0, <1>d, <2>1
<1>e. ASSUME NEW r \in DOMAIN readings, NEW row \in ReadingRows, row.record = readings[r].record,
             readings' = [readings EXCEPT ![r] = row], logged' = {r}, UNCHANGED <<blends, testValues, clock>>
      PROVE  ViscosityInv' /\ NoSilentChangeNow
  <2>1. /\ DOMAIN readings' = DOMAIN readings /\ readings' = [l \in DOMAIN readings' |-> readings'[l]]
        /\ readings'[r] = row /\ \A l \in DOMAIN readings : l # r => readings'[l] = readings[l]
    BY <1>0, <1>e
  <2> QED
    BY <1>0, <1>d, <1>e, <2>1
<1>7. ASSUME NEW r \in Records, NEW v \in Values, NEW manager \in BOOLEAN, CorrectReading(r, v, manager)
      PROVE  ViscosityInv' /\ NoSilentChangeNow
  <2> DEFINE row == [readings[r] EXCEPT !.value = v]
  <2>1. /\ r \in DOMAIN readings /\ readings' = [readings EXCEPT ![r] = row]
        /\ logged' = {r} /\ UNCHANGED <<blends, testValues, clock>>
    BY <1>7 DEF CorrectReading
  <2>2. row \in ReadingRows /\ row.record = readings[r].record
    BY <1>0, <2>1 DEF ReadingRows
  <2> HIDE DEF row
  <2> QED
    BY <1>e, <2>1, <2>2
<1>8. ASSUME NEW r \in Records, NEW yes \in BOOLEAN, Exclude(r, yes) \/ Review(r, yes)
      PROVE  ViscosityInv' /\ NoSilentChangeNow
  <2> DEFINE Ex == [readings[r] EXCEPT !.excluded = yes]
             Re == [readings[r] EXCEPT !.reviewed = yes]
  <2>1. PICK row \in {Ex, Re} :
           /\ r \in DOMAIN readings /\ readings' = [readings EXCEPT ![r] = row]
           /\ logged' = {r} /\ UNCHANGED <<blends, testValues, clock>>
    BY <1>8 DEF Exclude, Review
  <2>2. /\ Ex \in ReadingRows /\ Ex.record = readings[r].record
        /\ Re \in ReadingRows /\ Re.record = readings[r].record
    BY <1>0, <2>1 DEF ReadingRows
  <2> HIDE DEF Ex, Re
  <2> QED
    BY <1>e, <2>1, <2>2
<1>9. ASSUME ReviewBatch(Records) PROVE ViscosityInv' /\ NoSilentChangeNow
  <2>1. PICK open : /\ readings' = [l \in DOMAIN readings |-> [readings[l] EXCEPT !.reviewed = @ \/ l \in open]]
                    /\ UNCHANGED <<blends, testValues, clock>>
    BY <1>9 DEF ReviewBatch
  <2> DEFINE Seen(l) == [readings[l] EXCEPT !.reviewed = @ \/ l \in open]
  <2>2. \A l \in DOMAIN readings : /\ Seen(l) \in ReadingRows /\ Seen(l).value = readings[l].value
                                   /\ Seen(l).record = readings[l].record
    BY <1>0 DEF ReadingRows
  <2>3. /\ DOMAIN readings' = DOMAIN readings /\ readings' = [l \in DOMAIN readings' |-> readings'[l]]
        /\ \A l \in DOMAIN readings : readings'[l] = Seen(l)
    BY <2>1
  <2> HIDE DEF Seen
  <2> QED
    BY <1>d, <2>1, <2>2, <2>3
<1>10. ASSUME NEW r \in Records, NEW v \in Values, AddTest(r, v) PROVE ViscosityInv' /\ NoSilentChangeNow
  <2>1. testValues' = [x \in DOMAIN testValues \cup {r} |-> IF x = r THEN [value |-> v, fresh |-> TRUE] ELSE testValues[x]]
        /\ r \notin DOMAIN testValues /\ UNCHANGED <<blends, readings, clock>>
    BY <1>10 DEF AddTest, Put
  <2>2. [value |-> v, fresh |-> TRUE] \in TestRows
    BY DEF TestRows
  <2>3. testValues' \in [DOMAIN testValues' -> TestRows]
    BY <1>0, <2>1, <2>2
  <2> QED
    BY <1>0, <1>a, <2>1, <2>3
<1>11. ASSUME NEW r \in Records, NEW v \in Values, NEW manager \in BOOLEAN, CorrectTest(r, v, manager)
       PROVE  ViscosityInv' /\ NoSilentChangeNow
  <2> DEFINE row == [testValues[r] EXCEPT !.value = v]
  <2>1. /\ r \in DOMAIN testValues /\ testValues' = [testValues EXCEPT ![r] = row]
        /\ logged' = {r} /\ UNCHANGED <<blends, readings, clock>>
    BY <1>11 DEF CorrectTest
  <2>2. row \in TestRows
    BY <1>0, <2>1 DEF TestRows
  <2> HIDE DEF row
  <2>3. /\ testValues' \in [DOMAIN testValues' -> TestRows] /\ DOMAIN testValues' = DOMAIN testValues
        /\ \A x \in DOMAIN testValues : x # r => testValues'[x] = testValues[x]
    BY <1>0, <2>1, <2>2
  <2> QED
    BY <1>0, <1>a, <2>1, <2>3
<1>12. ASSUME NEW r \in Records, DeleteTest(r) PROVE ViscosityInv' /\ NoSilentChangeNow
  <2>1. /\ testValues' = [x \in DOMAIN testValues \ {r} |-> testValues[x]] /\ logged' = {r}
        /\ UNCHANGED <<blends, readings, clock>>
    BY <1>12 DEF DeleteTest, Without, Restrict
  <2>2. testValues' \in [DOMAIN testValues' -> TestRows]
    BY <1>0, <2>1
  <2> QED
    BY <1>0, <1>a, <2>1, <2>2
<1>13. ASSUME NEW days \in {0, 1}, TimePasses(days) PROVE ViscosityInv' /\ NoSilentChangeNow
  <2> DEFINE Old(l) == [readings[l] EXCEPT !.fresh = FALSE]
             OldTest(r) == [testValues[r] EXCEPT !.fresh = FALSE]
  <2>1. /\ clock' = [clock EXCEPT !.today = @ + days] /\ UNCHANGED blends
        /\ readings' = [l \in DOMAIN readings |-> Old(l)]
        /\ testValues' = [r \in DOMAIN testValues |-> OldTest(r)]
    BY <1>13 DEF TimePasses
  <2>2. clock' \in [today : Nat, since : Nat]
    BY <1>0, <2>1
  <2>3. \A l \in DOMAIN readings : /\ Old(l) \in ReadingRows /\ Old(l).value = readings[l].value
                                   /\ Old(l).record = readings[l].record
    BY <1>0 DEF ReadingRows
  <2>4. \A r \in DOMAIN testValues : OldTest(r) \in TestRows /\ OldTest(r).value = testValues[r].value
    BY <1>0 DEF TestRows
  <2> HIDE DEF Old, OldTest
  <2>5. /\ DOMAIN readings' = DOMAIN readings /\ readings' \in [DOMAIN readings' -> ReadingRows]
        /\ DOMAIN testValues' = DOMAIN testValues /\ testValues' \in [DOMAIN testValues' -> TestRows]
        /\ \A l \in DOMAIN readings : readings'[l] = Old(l)
        /\ \A r \in DOMAIN testValues : testValues'[r] = OldTest(r)
    BY <2>1, <2>3, <2>4
  <2>6. NoSilentChangeNow
    BY <2>3, <2>4, <2>5 DEF NoSilentChangeNow
  <2> QED
    BY <1>0, <2>1, <2>2, <2>3, <2>5, <2>6, StepOfReadings
<1>14. ASSUME SettleReminders PROVE ViscosityInv' /\ NoSilentChangeNow
  <2>1. clock' = [clock EXCEPT !.since = clock.today] /\ UNCHANGED <<blends, readings, testValues>>
    BY <1>14 DEF SettleReminders
  <2>2. clock' \in [today : Nat, since : Nat]
    BY <1>0, <2>1
  <2> QED
    BY <1>0, <1>a, <2>1, <2>2
<1>15. ASSUME RestartServer PROVE ViscosityInv' /\ NoSilentChangeNow
  <2> DEFINE Tied(l) == [readings[l] EXCEPT !.record = IF @ = NoRecord /\ Exists(l) THEN l ELSE @]
  <2>1. readings' = [l \in DOMAIN readings |-> Tied(l)] /\ UNCHANGED <<blends, testValues, clock>>
    BY <1>15 DEF RestartServer
  <2>2. \A l \in DOMAIN readings :
          /\ Tied(l) \in ReadingRows /\ Tied(l).value = readings[l].value
          /\ Tied(l).record = (IF readings[l].record = NoRecord /\ Exists(l) THEN l ELSE readings[l].record)
    BY <1>0 DEF ReadingRows, MayBeOf
  <2> HIDE DEF Tied
  <2>3. /\ DOMAIN readings' = DOMAIN readings /\ readings' \in [DOMAIN readings' -> ReadingRows]
        /\ \A l \in DOMAIN readings : readings'[l] = Tied(l)
    BY <2>1, <2>2
  <2>4. \A l \in DOMAIN readings' : MayBeOf(l, readings'[l].record)
    BY <1>0, <2>2, <2>3 DEF Exists, MayBeOf
  <2> QED
    BY <1>0, <1>b, <2>1, <2>2, <2>3, <2>4
<1>16. CASE UNCHANGED viscosityVars
  BY <1>16, <1>c DEF viscosityVars
<1> QED
  BY <1>1, <1>2, <1>3, <1>4, <1>5, <1>6, <1>7, <1>8, <1>9, <1>10, <1>11, <1>12, <1>13, <1>14,
     <1>15, <1>16 DEF ViscosityNext

(* The tray reminds of the LOTs that the panel offers, no value of a test  *)
(* blend becomes a reading of a product, by whatever way its LOT is named, *)
(* and a value changes only with an audit row (viscosity_routes.py,        *)
(* viscosity_service.py).                                                  *)
THEOREM ReadingsStayKept == ViscositySpec => ReadingsAreKept
<1>1. ViscosityInit => ViscosityInv
  BY ViscosityStarts
<1>2. ViscosityInv /\ [ViscosityNext]_viscosityVars => ViscosityInv'
  BY ViscosityKept
<1>3. ViscosityInv => TestsStayApart /\ DueIsQueued
  BY ReadingsSound
<1>4. ViscosityInv /\ [ViscosityNext]_viscosityVars => NoSilentChangeNow
  BY ViscosityKept
<1>5. ViscosityInv' => TestsStayApart' /\ DueIsQueued'
  BY <1>3, PTL
<1>6. ViscosityInv /\ [ViscosityNext]_viscosityVars
        => [NoSilentChangeNow /\ DueIsQueued' /\ TestsStayApart']_viscosityVars
  BY <1>2, <1>4, <1>5
<1> QED
  BY <1>1, <1>2, <1>6, PTL DEF ViscositySpec, ReadingsAreKept
=============================================================================
