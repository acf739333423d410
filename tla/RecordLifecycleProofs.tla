----------------------- MODULE RecordLifecycleProofs -----------------------
(***************************************************************************)
(* Theorems about what happens to a blend record after it was saved, for   *)
(* any records, contents, requests and any choice of operations: the audit *)
(* log explains the status, a total raised without a manager stays on the  *)
(* list, and nothing deleted comes back.                                   *)
(***************************************************************************)
EXTENDS RecordLifecycle, TLAPS

Acts == {"create", "create_unacked", "update", "review", "approve", "cancel",
         "restore", "ack_rescale", "ack_manual", "deleted", "purged"}
AuditRows == [act : Acts, before : Bodies \cup {None}, after : Bodies \cup {None}]

(***************************************************************************)
(* The type invariant, with what a request under way knows of its record.  *)
(***************************************************************************)
TablesTyped ==
    /\ rec \in [Records -> Rows \cup {Gone}]
    /\ audit \in [Records -> Seq(AuditRows)]
    /\ \A i \in Exists : Saved(i) /\ (rec[i].expired => rec[i].status = "canceled")

RequestsTyped ==
    /\ recipe \in BOOLEAN
    /\ pc \in [Managers -> {"idle", "read", "copied", "listed", "done"}]
    /\ DOMAIN op = Managers /\ DOMAIN seen = Managers
    /\ \A m \in Managers : pc[m] = "read" =>
          /\ op[m].id \in Records /\ Saved(op[m].id)
          /\ seen[m][op[m].id] \in Bodies
    /\ \A m \in Managers : pc[m] = "copied" => op[m] = [name |-> "delete_recipe", id |-> {}]
    /\ \A m \in Managers : pc[m] = "listed" => op[m].id \subseteq Records
    /\ \A m \in Managers : pc[m] \in {"copied", "listed"} =>
          \A i \in DOMAIN seen[m] : i \in Records /\ Saved(i) /\ seen[m][i] \in Bodies

PurgeTyped ==
    /\ purge \in [pc : {"idle", "selected", "read"}, ids : SUBSET Records,
                  first : Records \cup {None}, body : Bodies \cup {None}]
    /\ \A i \in purge.ids : Saved(i)
    /\ purge.pc = "read" => purge.body \in Bodies

(* A record that was copied for a deletion with its recipe is on the list  *)
(* of those to delete, unless it went by itself in between.                *)
CopiedAreListed ==
    \A m \in Managers : pc[m] = "listed" =>
        \A i \in DOMAIN seen[m] : i \in op[m].id \/ rec[i] = Gone

Typed == TablesTyped /\ RequestsTyped /\ PurgeTyped /\ CopiedAreListed

(***************************************************************************)
(* What one step does to one record and to its audit log.                  *)
(***************************************************************************)
Logs(i, act) == \E e \in AuditRows : e.act = act /\ audit'[i] = Append(audit[i], e)

IsKept(i) == rec'[i] = rec[i] /\ audit'[i] = audit[i]

IsSaved(i) ==
    /\ ~Saved(i) /\ rec'[i] \in Rows
    /\ rec'[i].status = "completed" /\ rec'[i].expired = FALSE
    /\ \E e \in AuditRows :
         /\ audit'[i] = Append(audit[i], e)
         /\ e.act = IF rec'[i].rescaleUnacked THEN "create_unacked" ELSE "create"

Ages(i) ==
    /\ rec[i] \in Rows /\ rec'[i] \in Rows /\ audit'[i] = audit[i]
    /\ rec[i].status = "canceled" /\ rec'[i].status = "canceled"
    /\ rec'[i].rescaleUnacked = rec[i].rescaleUnacked

StatusAfter(act, status) == IF act = "cancel" THEN "canceled"
                            ELSE IF act = "restore" THEN "completed" ELSE status
Changes(i, act) ==
    /\ act \in {"update", "review", "approve", "cancel", "restore", "ack_rescale", "ack_manual"}
    /\ Saved(i) /\ Logs(i, act)
    /\ rec[i] = Gone => rec'[i] = Gone
    /\ rec[i] # Gone =>
         /\ rec[i] \in Rows /\ rec'[i] \in Rows
         /\ rec'[i].status = StatusAfter(act, rec[i].status)
         /\ rec'[i].expired => rec[i].expired /\ rec'[i].status = rec[i].status
         /\ act # "ack_rescale" => rec'[i].rescaleUnacked = rec[i].rescaleUnacked

Goes(i) ==
    /\ rec'[i] = Gone
    /\ \/ audit'[i] = audit[i]
       \/ Saved(i) /\ Logs(i, "deleted")
       \/ Saved(i) /\ Logs(i, "purged") /\ i \in purge.ids

EachRecord == \A i \in Records : \/ IsKept(i) \/ IsSaved(i) \/ Ages(i) \/ Goes(i)
                                 \/ \E act : Changes(i, act)

(* A row written by a handler, and the audit row beside it.                *)
Fits(i, act, row) ==
    /\ act \in {"update", "review", "approve", "cancel", "restore", "ack_rescale", "ack_manual"}
    /\ rec[i] # Gone =>
         /\ row \in Rows /\ row.status = StatusAfter(act, rec[i].status)
         /\ row.expired => rec[i].expired /\ row.status = rec[i].status
         /\ act # "ack_rescale" => row.rescaleUnacked = rec[i].rescaleUnacked

LEMMA OneChange ==
  ASSUME Typed, NEW i \in Records, Saved(i), NEW act, NEW row,
         Fits(i, act, row), SetRow(i, row),
         NEW e \in AuditRows, e.act = act, LogOne(i, e)
  PROVE  EachRecord
<1>1. audit' = [audit EXCEPT ![i] = Append(audit[i], e)]
  BY DEF LogOne
<1>2. Logs(i, act)
  BY <1>1 DEF Logs, Typed, TablesTyped
<1>3. ASSUME NEW j \in Records, j # i PROVE IsKept(j)
  BY <1>1, <1>3 DEF IsKept, SetRow, Typed, TablesTyped
<1>4. Changes(i, act)
  <2>1. CASE rec[i] = Gone
    BY <1>2, <2>1 DEF Changes, SetRow, Fits
  <2>2. CASE rec[i] # Gone
    <3>1. rec'[i] = row /\ rec[i] \in Rows
      BY <2>2 DEF SetRow, Typed, TablesTyped
    <3> QED
      BY <1>2, <2>2, <3>1 DEF Changes, Fits
  <2> QED
    BY <2>1, <2>2
<1> QED
  BY <1>3, <1>4 DEF EachRecord

LEMMA EntryIsAuditRow ==
  ASSUME NEW act \in Acts, NEW body \in Bodies \cup {None}
  PROVE  Entry(act, body) \in AuditRows /\ Entry(act, body).act = act
BY DEF Entry, AuditRows

(* The record a request under way wrote about before it began.             *)
LEMMA WritingTyped ==
  ASSUME Typed, NEW m \in Managers, pc[m] = "read"
  PROVE  /\ Id(m) \in Records /\ Saved(Id(m)) /\ seen[m][Id(m)] \in Bodies
         /\ rec[Id(m)] # Gone => rec[Id(m)] \in Rows
BY DEF Typed, TablesTyped, RequestsTyped, Id

LEMMA SavingRecord == ASSUME Typed, NEW i \in Records, SaveRecord(i) PROVE EachRecord
<1>1. PICK body \in Bodies, rescale \in BOOLEAN, manual \in BOOLEAN :
        /\ rec' = [rec EXCEPT ![i] = Row(body, rescale, manual)]
        /\ LogOne(i, Created(Row(body, rescale, manual)))
  BY DEF SaveRecord
<1> DEFINE row == Row(body, rescale, manual)
<1>2. /\ row \in Rows /\ row.status = "completed" /\ row.expired = FALSE
      /\ row.body \in Bodies
  BY DEF Row, Rows
<1> HIDE DEF row
<1>3. Created(row) \in AuditRows
      /\ Created(row).act = IF row.rescaleUnacked THEN "create_unacked" ELSE "create"
  BY <1>2 DEF Created, AuditRows, Acts
<1>4. rec'[i] = row /\ audit'[i] = Append(audit[i], Created(row))
  BY <1>1 DEF LogOne, Typed, TablesTyped, row
<1>5. IsSaved(i)
  BY <1>2, <1>3, <1>4 DEF IsSaved, SaveRecord
<1>6. ASSUME NEW j \in Records, j # i PROVE IsKept(j)
  BY <1>1, <1>6 DEF IsKept, LogOne, Typed, TablesTyped
<1> QED
  BY <1>5, <1>6 DEF EachRecord

LEMMA Aging == ASSUME Typed, NEW i \in Records, Expire(i) PROVE EachRecord
<1>1. /\ rec[i] \in Rows /\ rec[i].status = "canceled" /\ UNCHANGED audit
      /\ rec' = [rec EXCEPT ![i].expired = TRUE]
  BY DEF Expire, Exists, Typed, TablesTyped
<1>2. rec'[i] = [rec[i] EXCEPT !.expired = TRUE]
  BY <1>1 DEF Typed, TablesTyped
<1>3. /\ rec'[i] \in Rows /\ rec'[i].status = rec[i].status
      /\ rec'[i].rescaleUnacked = rec[i].rescaleUnacked
  <2> DEFINE row == rec[i]
             aged == [row EXCEPT !.expired = TRUE]
  <2>1. row \in Rows
    BY <1>1
  <2> HIDE DEF row
  <2>2. aged \in Rows /\ aged.status = row.status /\ aged.rescaleUnacked = row.rescaleUnacked
    BY <2>1 DEF Rows
  <2> QED
    BY <1>2, <2>2 DEF row
<1>4. Ages(i)
  BY <1>1, <1>3 DEF Ages
<1>5. ASSUME NEW j \in Records, j # i PROVE IsKept(j)
  BY <1>1, <1>5 DEF IsKept, Typed, TablesTyped
<1> QED
  BY <1>4, <1>5 DEF EachRecord

LEMMA Updating == ASSUME Typed, NEW m \in Managers, WriteUpdate(m) PROVE EachRecord
<1> DEFINE i == Id(m)
<1>1. /\ i \in Records /\ Saved(i) /\ seen[m][i] \in Bodies
      /\ rec[i] # Gone => rec[i] \in Rows
  BY WritingTyped DEF WriteUpdate, Write
<1>2. PICK body \in Bodies :
        IF rec[i] = Gone THEN UNCHANGED <<rec, audit>>
        ELSE /\ rec' = [rec EXCEPT ![i] = Corrected(@, body)]
             /\ LogOne(i, [act |-> "update", before |-> seen[m][i],
                           after |-> IF body = seen[m][i] THEN None ELSE body])
  BY DEF WriteUpdate
<1> DEFINE e == [act |-> "update", before |-> seen[m][i],
                 after |-> IF body = seen[m][i] THEN None ELSE body]
           row == Corrected(rec[i], body)
<1>3. CASE rec[i] = Gone
  BY <1>2, <1>3 DEF EachRecord, IsKept
<1>4. CASE rec[i] # Gone
  <2>1. e \in AuditRows /\ e.act = "update"
    BY <1>1 DEF AuditRows, Acts
  <2>2. /\ row \in Rows /\ row.status = rec[i].status /\ row.expired = FALSE
        /\ row.rescaleUnacked = rec[i].rescaleUnacked
    BY <1>1, <1>4 DEF Corrected, Rows
  <2>3. SetRow(i, row) /\ LogOne(i, e)
    BY <1>2, <1>4 DEF SetRow
  <2> HIDE DEF row, e, i
  <2>4. Fits(i, "update", row)
    BY <2>2 DEF Fits, StatusAfter
  <2> QED
    BY <1>1, <2>1, <2>3, <2>4, OneChange
<1> QED
  BY <1>3, <1>4

LEMMA Signing == ASSUME Typed, NEW m \in Managers, WriteSign(m) PROVE EachRecord
<1> DEFINE i == Id(m)
<1>1. PICK role \in {"review", "approve"} :
        /\ Write(m, role)
        /\ SetRow(i, IF role = "review"
                     THEN [rec[i] EXCEPT !.reviewed = TRUE, !.expired = FALSE]
                     ELSE [rec[i] EXCEPT !.approved = TRUE, !.expired = FALSE])
        /\ LogOne(i, Entry(role, None))
  BY DEF WriteSign
<1>2. i \in Records /\ Saved(i) /\ (rec[i] # Gone => rec[i] \in Rows)
  BY <1>1, WritingTyped DEF Write
<1> DEFINE row == IF role = "review" THEN [rec[i] EXCEPT !.reviewed = TRUE, !.expired = FALSE]
                  ELSE [rec[i] EXCEPT !.approved = TRUE, !.expired = FALSE]
<1>3. rec[i] # Gone => /\ row \in Rows /\ row.status = rec[i].status /\ row.expired = FALSE
                       /\ row.rescaleUnacked = rec[i].rescaleUnacked
  BY <1>2 DEF Rows
<1>4. Entry(role, None) \in AuditRows /\ Entry(role, None).act = role
  BY EntryIsAuditRow DEF Acts
<1> HIDE DEF row, i
<1>5. SetRow(i, row) /\ LogOne(i, Entry(role, None))
  BY <1>1 DEF row, i
<1>6. Fits(i, role, row)
  BY <1>3 DEF Fits, StatusAfter
<1> QED
  BY <1>2, <1>4, <1>5, <1>6, OneChange

LEMMA Canceling == ASSUME Typed, NEW m \in Managers, WriteCancel(m) PROVE EachRecord
<1> DEFINE i == Id(m)
           row == [rec[i] EXCEPT !.status = "canceled", !.expired = FALSE]
<1>1. i \in Records /\ Saved(i) /\ (rec[i] # Gone => rec[i] \in Rows)
  BY WritingTyped DEF Write, WriteCancel
<1>2. rec[i] # Gone => /\ row \in Rows /\ row.status = "canceled" /\ row.expired = FALSE
                       /\ row.rescaleUnacked = rec[i].rescaleUnacked
  BY <1>1 DEF Rows
<1>3. Entry("cancel", None) \in AuditRows /\ Entry("cancel", None).act = "cancel"
  BY EntryIsAuditRow DEF Acts
<1>4. SetRow(i, row) /\ LogOne(i, Entry("cancel", None))
  BY DEF WriteCancel
<1> HIDE DEF row, i
<1>5. Fits(i, "cancel", row)
  BY <1>2 DEF Fits, StatusAfter
<1> QED
  BY <1>1, <1>3, <1>4, <1>5, OneChange

LEMMA Restoring == ASSUME Typed, NEW m \in Managers, WriteRestore(m) PROVE EachRecord
<1> DEFINE i == Id(m)
           row == [rec[i] EXCEPT !.status = "completed", !.expired = FALSE]
<1>1. i \in Records /\ Saved(i) /\ (rec[i] # Gone => rec[i] \in Rows)
  BY WritingTyped DEF Write, WriteRestore
<1>2. rec[i] # Gone => /\ row \in Rows /\ row.status = "completed" /\ row.expired = FALSE
                       /\ row.rescaleUnacked = rec[i].rescaleUnacked
  BY <1>1 DEF Rows
<1>3. Entry("restore", None) \in AuditRows /\ Entry("restore", None).act = "restore"
  BY EntryIsAuditRow DEF Acts
<1>4. SetRow(i, row) /\ LogOne(i, Entry("restore", None))
  BY DEF WriteRestore
<1> HIDE DEF row, i
<1>5. Fits(i, "restore", row)
  BY <1>2 DEF Fits, StatusAfter
<1> QED
  BY <1>1, <1>3, <1>4, <1>5, OneChange

LEMMA Acknowledging == ASSUME Typed, NEW m \in Managers, WriteAck(m) PROVE EachRecord
<1> DEFINE i == Id(m)
<1>1. PICK act \in {"ack_rescale", "ack_manual"} :
        /\ Write(m, act)
        /\ SetRow(i, IF act = "ack_rescale" THEN [rec[i] EXCEPT !.rescaleUnacked = FALSE]
                     ELSE [rec[i] EXCEPT !.manualUnacked = FALSE])
  BY DEF WriteAck
<1>2. LogOne(i, Entry(act, None))
  BY <1>1 DEF WriteAck, Write
<1>3. i \in Records /\ Saved(i) /\ (rec[i] # Gone => rec[i] \in Rows)
  BY <1>1, WritingTyped DEF Write
<1> DEFINE row == IF act = "ack_rescale" THEN [rec[i] EXCEPT !.rescaleUnacked = FALSE]
                  ELSE [rec[i] EXCEPT !.manualUnacked = FALSE]
<1>4. rec[i] # Gone => /\ row \in Rows /\ row.status = rec[i].status
                       /\ row.expired = rec[i].expired
                       /\ act # "ack_rescale" => row.rescaleUnacked = rec[i].rescaleUnacked
  BY <1>3 DEF Rows
<1>5. Entry(act, None) \in AuditRows /\ Entry(act, None).act = act
  BY EntryIsAuditRow DEF Acts
<1>6. SetRow(i, row)
  BY <1>1
<1> HIDE DEF row, i
<1>7. Fits(i, act, row)
  BY <1>4 DEF Fits, StatusAfter
<1> QED
  BY <1>2, <1>3, <1>5, <1>6, <1>7, OneChange

LEMMA Deleting == ASSUME Typed, NEW m \in Managers, WriteDelete(m) PROVE EachRecord
<1> DEFINE i == Id(m)
           e == Entry("deleted", seen[m][i])
<1>1. i \in Records /\ Saved(i) /\ seen[m][i] \in Bodies
  BY WritingTyped DEF Write, WriteDelete
<1>2. CASE UNCHANGED <<rec, audit>>
  BY <1>2 DEF EachRecord, IsKept
<1>3. CASE rec' = [rec EXCEPT ![i] = Gone] /\ LogOne(i, e)
  <2>1. e \in AuditRows /\ e.act = "deleted"
    BY <1>1, EntryIsAuditRow DEF Acts
  <2> HIDE DEF i, e
  <2>2. rec'[i] = Gone /\ audit'[i] = Append(audit[i], e)
    BY <1>1, <1>3 DEF LogOne, Typed, TablesTyped
  <2>3. Goes(i)
    BY <1>1, <2>1, <2>2 DEF Goes, Logs
  <2>4. ASSUME NEW j \in Records, j # i PROVE IsKept(j)
    BY <1>3, <2>4 DEF IsKept, LogOne, Typed, TablesTyped
  <2> QED
    BY <2>3, <2>4 DEF EachRecord
<1> QED
  BY <1>2, <1>3 DEF WriteDelete

LEMMA DeletingRecipe ==
  ASSUME Typed, NEW m \in Managers, WriteDeleteRecipe(m) PROVE EachRecord
<1> SUFFICES ASSUME NEW i \in Records PROVE IsKept(i) \/ Goes(i)
  BY DEF EachRecord
<1>1. /\ pc[m] = "listed"
      /\ rec'[i] = IF i \in op[m].id THEN Gone ELSE rec[i]
      /\ audit'[i] = IF i \in DOMAIN seen[m] THEN Append(audit[i], Entry("deleted", seen[m][i]))
                     ELSE audit[i]
  BY DEF WriteDeleteRecipe, Log
<1>2. CASE i \in DOMAIN seen[m]
  <2>1. Saved(i) /\ seen[m][i] \in Bodies /\ (i \in op[m].id \/ rec[i] = Gone)
    BY <1>1, <1>2 DEF Typed, RequestsTyped, CopiedAreListed
  <2>2. Entry("deleted", seen[m][i]) \in AuditRows /\ Entry("deleted", seen[m][i]).act = "deleted"
    BY <2>1, EntryIsAuditRow DEF Acts
  <2> QED
    BY <1>1, <1>2, <2>1, <2>2 DEF Goes, Logs
<1>3. CASE i \notin DOMAIN seen[m]
  BY <1>1, <1>3 DEF Goes, IsKept
<1> QED
  BY <1>2, <1>3

LEMMA Purging == ASSUME Typed, PurgeWrite PROVE EachRecord
<1> SUFFICES ASSUME NEW i \in Records PROVE IsKept(i) \/ Goes(i)
  BY DEF EachRecord
<1>1. CASE ~(PurgeRest \subseteq Exists)
  BY <1>1 DEF PurgeWrite, IsKept
<1>2. CASE PurgeRest \subseteq Exists
  <2>1. /\ rec'[i] = IF i \in purge.ids THEN Gone ELSE rec[i]
        /\ audit'[i] = IF i \in purge.ids THEN Append(audit[i], Entry("purged", PurgeBody(i)))
                       ELSE audit[i]
    BY <1>2 DEF PurgeWrite, Log
  <2>2. CASE i \in purge.ids
    <3>1. PurgeBody(i) \in Bodies
      <4>1. CASE i = purge.first
        BY <4>1 DEF PurgeBody, PurgeWrite, Typed, PurgeTyped
      <4>2. CASE i # purge.first
        <5>1. rec[i] \in Rows
          BY <1>2, <2>2, <4>2 DEF PurgeRest, Exists, Typed, TablesTyped
        <5> QED
          BY <4>2, <5>1 DEF PurgeBody, Rows
      <4> QED
        BY <4>1, <4>2
    <3>2. Entry("purged", PurgeBody(i)) \in AuditRows /\ Entry("purged", PurgeBody(i)).act = "purged"
      BY <3>1, EntryIsAuditRow DEF Acts
    <3>3. Saved(i)
      BY <2>2 DEF Typed, PurgeTyped
    <3> QED
      BY <2>1, <2>2, <3>2, <3>3 DEF Goes, Logs
  <2>3. CASE i \notin purge.ids
    BY <2>1, <2>3 DEF IsKept
  <2> QED
    BY <2>2, <2>3
<1> QED
  BY <1>1, <1>2

LEMMA EveryStepIsOfThese == ASSUME Typed, [Next]_vars PROVE EachRecord
<1>1. CASE UNCHANGED <<rec, audit>>
  BY <1>1 DEF EachRecord, IsKept
<1>2. ASSUME NEW m \in Managers,
             \/ \E o \in Ops \ {"delete_recipe"}, i \in Records : Begin(m, o, i)
             \/ BeginDeleteRecipe(m) \/ ListLinked(m)
      PROVE  UNCHANGED <<rec, audit>>
  BY <1>2 DEF Begin, BeginDeleteRecipe, ListLinked
<1>3. CASE PurgeSelect \/ PurgeRead \/ PurgeSkip
  BY <1>1, <1>3 DEF PurgeSelect, PurgeRead, PurgeSkip
<1>4. CASE UNCHANGED vars
  BY <1>1, <1>4 DEF vars
<1> QED
  BY <1>1, <1>2, <1>3, <1>4, SavingRecord, Aging, Updating, Signing, Canceling, Restoring,
     Acknowledging, Deleting, DeletingRecipe, Purging DEF Next, WriteStep, Purge

(***************************************************************************)
(* The type invariant.                                                     *)
(***************************************************************************)
LEMMA TablesStayFunctions ==
  ASSUME Typed, [Next]_vars
  PROVE  rec' = [i \in Records |-> rec'[i]] /\ audit' = [i \in Records |-> audit'[i]]
<1> DEFINE Functions == /\ rec' = [i \in Records |-> rec'[i]]
                        /\ audit' = [i \in Records |-> audit'[i]]
<1>1. rec = [i \in Records |-> rec[i]] /\ audit = [i \in Records |-> audit[i]]
  BY DEF Typed, TablesTyped
<1>2. ASSUME NEW i \in Records, SaveRecord(i) \/ Expire(i) PROVE Functions
  BY <1>1, <1>2 DEF SaveRecord, Expire, LogOne
<1>3. ASSUME NEW m \in Managers,
             \/ \E o \in Ops \ {"delete_recipe"}, i \in Records : Begin(m, o, i)
             \/ BeginDeleteRecipe(m) \/ ListLinked(m)
      PROVE  Functions
  BY <1>1, <1>3 DEF Begin, BeginDeleteRecipe, ListLinked
<1>4. ASSUME NEW m \in Managers, WriteUpdate(m) PROVE Functions
  BY <1>1, <1>4 DEF WriteUpdate, LogOne
<1>5. ASSUME NEW m \in Managers, WriteSign(m) \/ WriteCancel(m) \/ WriteRestore(m) \/ WriteAck(m)
      PROVE  Functions
  BY <1>1, <1>5 DEF WriteSign, WriteCancel, WriteRestore, WriteAck, LogOne, SetRow
<1>6. ASSUME NEW m \in Managers, WriteDelete(m) PROVE Functions
  BY <1>1, <1>6 DEF WriteDelete, LogOne
<1>7. ASSUME NEW m \in Managers, WriteDeleteRecipe(m) PROVE Functions
  BY <1>7 DEF WriteDeleteRecipe, Log
<1>8. CASE PurgeSelect \/ PurgeRead \/ PurgeSkip
  BY <1>1, <1>8 DEF PurgeSelect, PurgeRead, PurgeSkip
<1>9. CASE PurgeWrite
  BY <1>1, <1>9 DEF PurgeWrite, Log
<1>10. CASE UNCHANGED vars
  BY <1>1, <1>10 DEF vars
<1> QED
  BY <1>2, <1>3, <1>4, <1>5, <1>6, <1>7, <1>8, <1>9, <1>10 DEF Next, WriteStep, Purge

(* What is in the audit log stays there, in its place.                     *)
LEMMA AuditGrows ==
  ASSUME Typed, EachRecord, NEW i \in Records
  PROVE  /\ audit'[i] \in Seq(AuditRows)
         /\ audit'[i] = audit[i] \/ \E e \in AuditRows : audit'[i] = Append(audit[i], e)
         /\ Saved(i) => Saved(i)'
<1>1. audit[i] \in Seq(AuditRows)
  BY DEF Typed, TablesTyped
<1>2. audit'[i] = audit[i] \/ \E e \in AuditRows : audit'[i] = Append(audit[i], e)
  BY DEF EachRecord, IsKept, IsSaved, Ages, Goes, Changes, Logs
<1> QED
  BY <1>1, <1>2 DEF Saved

(* A record that is gone, or goes, was not brought back.                   *)
LEMMA GoneStaysGone ==
  ASSUME EachRecord, NEW i \in Records, Saved(i), rec[i] = Gone PROVE rec'[i] = Gone
BY NoneAssumption DEF EachRecord, IsKept, IsSaved, Ages, Goes, Changes

LEMMA TablesTypedStep == ASSUME Typed, [Next]_vars PROVE TablesTyped'
<1>1. EachRecord
  BY EveryStepIsOfThese
<1>2. ASSUME NEW i \in Records
      PROVE  /\ rec'[i] \in Rows \cup {Gone}
             /\ rec'[i] # Gone => /\ Saved(i)'
                                  /\ rec'[i].expired => rec'[i].status = "canceled"
  <2>1. rec[i] \in Rows \cup {Gone}
    BY DEF Typed, TablesTyped
  <2>2. rec[i] # Gone => Saved(i) /\ (rec[i].expired => rec[i].status = "canceled")
    BY DEF Typed, TablesTyped, Exists
  <2>3. Saved(i) => Saved(i)'
    BY <1>1, AuditGrows
  <2>4. CASE IsKept(i)
    BY <2>1, <2>2, <2>3, <2>4 DEF IsKept
  <2>5. CASE IsSaved(i)
    <3>1. Saved(i)'
      BY <2>5 DEF IsSaved, Saved, Typed, TablesTyped
    <3> QED
      BY <2>5, <3>1 DEF IsSaved
  <2>6. CASE Ages(i)
    BY <2>2, <2>3, <2>6, NoneAssumption DEF Ages
  <2>7. ASSUME NEW act, Changes(i, act)
        PROVE  /\ rec'[i] \in Rows \cup {Gone}
               /\ rec'[i] # Gone => /\ Saved(i)'
                                    /\ rec'[i].expired => rec'[i].status = "canceled"
    BY <2>2, <2>3, <2>7 DEF Changes
  <2>8. CASE Goes(i)
    BY <2>8 DEF Goes
  <2> QED
    BY <1>1, <2>4, <2>5, <2>6, <2>7, <2>8 DEF EachRecord
<1>3. rec' \in [Records -> Rows \cup {Gone}]
  BY <1>2, TablesStayFunctions
<1>4. audit' \in [Records -> Seq(AuditRows)]
  BY <1>1, AuditGrows, TablesStayFunctions
<1> QED
  BY <1>2, <1>3, <1>4 DEF TablesTyped, Exists

(* The steps by what they do to the requests.                              *)
Ends(m) == /\ pc' = [pc EXCEPT ![m] = "done"]
           /\ op' = op \/ op' = [op EXCEPT ![m] = None]
           /\ seen' = seen \/ seen' = [seen EXCEPT ![m] = << >>]
           /\ recipe' \in {recipe, FALSE}
Reads(m) == \E o, i : /\ i \in Records /\ Saved(i) /\ rec[i] # Gone
                      /\ pc' = [pc EXCEPT ![m] = "read"]
                      /\ op' = [op EXCEPT ![m] = [name |-> o, id |-> i]]
                      /\ seen' = [seen EXCEPT ![m] = [j \in {i} |-> rec[i].body]]
                      /\ UNCHANGED <<rec, recipe, audit>>
Lists(m) == /\ pc[m] = "copied" /\ pc' = [pc EXCEPT ![m] = "listed"]
            /\ op' = [op EXCEPT ![m].id = Exists]
            /\ UNCHANGED <<rec, recipe, audit, seen>>

LEMMA RequestSteps ==
  ASSUME Typed, [Next]_vars
  PROVE  \/ UNCHANGED <<recipe, pc, op, seen>>
         \/ \E m \in Managers : Ends(m) \/ Reads(m) \/ BeginDeleteRecipe(m) \/ Lists(m)
<1>1. ASSUME NEW i \in Records, SaveRecord(i) \/ Expire(i)
      PROVE  UNCHANGED <<recipe, pc, op, seen>>
  BY <1>1 DEF SaveRecord, Expire
<1>2. ASSUME NEW m \in Managers, NEW o, NEW i \in Records, Begin(m, o, i)
      PROVE  Ends(m) \/ Reads(m)
  BY <1>2 DEF Begin, Ends, Reads
<1>3. ASSUME NEW m \in Managers, ListLinked(m) PROVE Ends(m) \/ Lists(m)
  BY <1>3 DEF ListLinked, Finish, Ends, Lists
<1>4. ASSUME NEW m \in Managers, WriteStep(m), ~ListLinked(m) PROVE Ends(m)
  BY <1>4 DEF WriteStep, WriteUpdate, WriteSign, WriteCancel, WriteRestore, WriteAck,
              WriteDelete, WriteDeleteRecipe, Finish, Ends
<1>5. CASE Purge
  BY <1>5 DEF Purge, PurgeSelect, PurgeRead, PurgeSkip, PurgeWrite
<1>6. CASE UNCHANGED vars
  BY <1>6 DEF vars
<1> QED
  BY <1>1, <1>2, <1>3, <1>4, <1>5, <1>6 DEF Next

Labels == {"idle", "read", "copied", "listed", "done"}

(* What the invariant says of one request.                                 *)
RequestTyped(m) ==
    /\ pc[m] = "read" => /\ op[m].id \in Records /\ Saved(op[m].id)
                         /\ seen[m][op[m].id] \in Bodies
    /\ pc[m] = "copied" => op[m] = [name |-> "delete_recipe", id |-> {}]
    /\ pc[m] = "listed" => /\ op[m].id \subseteq Records
                           /\ \A i \in DOMAIN seen[m] : i \in op[m].id \/ rec[i] = Gone
    /\ pc[m] \in {"copied", "listed"} =>
          \A i \in DOMAIN seen[m] : i \in Records /\ Saved(i) /\ seen[m][i] \in Bodies

LEMMA RequestsTypedOneByOne ==
  RequestsTyped /\ CopiedAreListed
  <=> /\ recipe \in BOOLEAN /\ pc \in [Managers -> Labels]
      /\ DOMAIN op = Managers /\ DOMAIN seen = Managers
      /\ \A m \in Managers : RequestTyped(m)
BY DEF RequestsTyped, CopiedAreListed, RequestTyped, Labels

(* A request that does not move keeps what it knows: no record it saw      *)
(* comes back.                                                             *)
LEMMA RequestStaysTyped ==
  ASSUME Typed, EachRecord, NEW m \in Managers, RequestTyped(m),
         pc'[m] = pc[m], op'[m] = op[m], seen'[m] = seen[m]
  PROVE  RequestTyped(m)'
BY AuditGrows, GoneStaysGone DEF RequestTyped

LEMMA RequestsTypedStep == ASSUME Typed, [Next]_vars PROVE (RequestsTyped /\ CopiedAreListed)'
<1>1. EachRecord
  BY EveryStepIsOfThese
<1>2. /\ recipe \in BOOLEAN /\ pc \in [Managers -> Labels]
      /\ DOMAIN op = Managers /\ DOMAIN seen = Managers
      /\ \A m \in Managers : RequestTyped(m)
  BY RequestsTypedOneByOne DEF Typed
<1> DEFINE Result == /\ recipe' \in BOOLEAN /\ pc' \in [Managers -> Labels]
                     /\ DOMAIN op' = Managers /\ DOMAIN seen' = Managers
                     /\ \A m \in Managers : RequestTyped(m)'
<1>3. ASSUME UNCHANGED <<recipe, pc, op, seen>> PROVE Result
  BY <1>1, <1>2, <1>3, RequestStaysTyped
<1>4. ASSUME NEW m \in Managers, Ends(m) \/ Reads(m) \/ BeginDeleteRecipe(m) \/ Lists(m)
      PROVE  Result
  <2>1. ASSUME NEW n \in Managers, n # m PROVE RequestTyped(n)'
    <3>1. pc'[n] = pc[n] /\ op'[n] = op[n] /\ seen'[n] = seen[n]
      BY <1>2, <1>4, <2>1 DEF Ends, Reads, BeginDeleteRecipe, Lists
    <3> QED
      BY <1>1, <1>2, <3>1, RequestStaysTyped
  <2>2. RequestTyped(m)'
    <3>1. CASE Ends(m)
      BY <1>2, <3>1 DEF Ends, RequestTyped
    <3>2. CASE Reads(m)
      <4>1. PICK o, i : /\ i \in Records /\ Saved(i) /\ rec[i] # Gone
                        /\ pc' = [pc EXCEPT ![m] = "read"]
                        /\ op' = [op EXCEPT ![m] = [name |-> o, id |-> i]]
                        /\ seen' = [seen EXCEPT ![m] = [j \in {i} |-> rec[i].body]]
                        /\ UNCHANGED <<rec, recipe, audit>>
        BY <3>2 DEF Reads
      <4>2. pc'[m] = "read" /\ op'[m].id = i /\ seen'[m][i] = rec[i].body /\ Saved(i)'
        BY <1>2, <4>1 DEF Saved
      <4>3. rec[i].body \in Bodies
        BY <4>1 DEF Typed, TablesTyped, Rows
      <4> QED
        BY <4>1, <4>2, <4>3 DEF RequestTyped
    <3>3. CASE BeginDeleteRecipe(m)
      <4>1. /\ pc'[m] = "copied" /\ op'[m] = [name |-> "delete_recipe", id |-> {}]
            /\ seen'[m] = [i \in Exists |-> rec[i].body] /\ UNCHANGED audit
        BY <1>2, <3>3 DEF BeginDeleteRecipe
      <4>2. \A i \in Exists : i \in Records /\ Saved(i)' /\ rec[i].body \in Bodies
        BY <4>1 DEF Exists, Typed, TablesTyped, Rows, Saved
      <4> QED
        BY <4>1, <4>2 DEF RequestTyped
    <3>4. CASE Lists(m)
      <4>1. /\ pc[m] = "copied" /\ pc'[m] = "listed" /\ seen'[m] = seen[m]
            /\ UNCHANGED <<rec, audit>>
        BY <1>2, <3>4 DEF Lists
      <4>2. op'[m].id = Exists
        <5>1. op'[m] = [op[m] EXCEPT !.id = Exists]
          BY <1>2, <3>4 DEF Lists
        <5>2. op[m] = [name |-> "delete_recipe", id |-> {}]
          BY <1>2, <4>1 DEF RequestTyped
        <5> QED
          BY <5>1, <5>2
      <4>3. \A i \in DOMAIN seen[m] : i \in Records /\ Saved(i)' /\ seen[m][i] \in Bodies
        BY <1>2, <4>1 DEF RequestTyped, Saved
      <4> QED
        BY <4>1, <4>2, <4>3 DEF RequestTyped, Exists
    <3> QED
      BY <1>4, <3>1, <3>2, <3>3, <3>4
  <2>3. /\ recipe' \in BOOLEAN /\ pc' \in [Managers -> Labels]
        /\ DOMAIN op' = Managers /\ DOMAIN seen' = Managers
    BY <1>2, <1>4 DEF Ends, Reads, BeginDeleteRecipe, Lists, Labels
  <2> QED
    BY <2>1, <2>2, <2>3
<1>5. Result
  BY <1>3, <1>4, RequestSteps
<1> QED
  BY <1>5 DEF RequestsTyped, CopiedAreListed, RequestTyped, Labels

LEMMA PurgeTypedStep == ASSUME Typed, [Next]_vars PROVE PurgeTyped'
<1>1. \A i \in Records : Saved(i) => Saved(i)'
  BY EveryStepIsOfThese, AuditGrows
<1>2. purge \in [pc : {"idle", "selected", "read"}, ids : SUBSET Records,
                first : Records \cup {None}, body : Bodies \cup {None}]
  BY DEF Typed, PurgeTyped
<1>3. CASE UNCHANGED purge
  BY <1>1, <1>2, <1>3 DEF Typed, PurgeTyped
<1>4. CASE PurgeSelect
  <2>1. PICK due \in SUBSET Exists : purge' = [PurgeIdle EXCEPT !.pc = "selected", !.ids = due]
    BY <1>4 DEF PurgeSelect
  <2>2. \A i \in Exists : i \in Records /\ Saved(i)'
    BY <1>1 DEF Typed, TablesTyped, Exists
  <2> QED
    BY <2>1, <2>2 DEF PurgeTyped, PurgeIdle
<1>5. CASE PurgeRead
  <2>1. PICK i \in purge.ids :
          purge' = IF rec[i] = Gone THEN PurgeIdle
                   ELSE [purge EXCEPT !.pc = "read", !.first = i, !.body = rec[i].body]
    BY <1>5 DEF PurgeRead
  <2>2. i \in Records
    BY <1>2
  <2>3. CASE rec[i] = Gone
    BY <2>1, <2>3 DEF PurgeTyped, PurgeIdle
  <2>4. CASE rec[i] # Gone
    <3>1. rec[i].body \in Bodies
      BY <2>2, <2>4 DEF Typed, TablesTyped, Rows
    <3> QED
      BY <1>1, <1>2, <2>1, <2>2, <2>4, <3>1 DEF Typed, PurgeTyped
  <2> QED
    BY <2>3, <2>4
<1>6. CASE PurgeSkip
  BY <1>1, <1>2, <1>6 DEF PurgeSkip, PurgeIdle, PurgeRest, Typed, PurgeTyped
<1>7. CASE PurgeWrite
  BY <1>7 DEF PurgeWrite, PurgeIdle, PurgeTyped
<1>8. ASSUME NEW m \in Managers, WriteStep(m) PROVE UNCHANGED purge
  BY <1>8 DEF WriteStep, WriteUpdate, WriteSign, WriteCancel, WriteRestore, WriteAck,
              WriteDelete, ListLinked, WriteDeleteRecipe, Finish
<1> QED
  BY <1>3, <1>4, <1>5, <1>6, <1>7, <1>8
     DEF Next, SaveRecord, Expire, Begin, BeginDeleteRecipe, Purge, vars

LEMMA TypedInvariant == Spec => []Typed
<1>1. Init => Typed
  <2> SUFFICES ASSUME Init PROVE Typed
    OBVIOUS
  <2>1. PICK body \in Bodies, flags \in BOOLEAN :
          /\ rec = [i \in Records |-> IF i \in Initial THEN Row(body, flags, flags) ELSE Gone]
          /\ audit = [i \in Records |-> IF i \in Initial
                        THEN <<Created(Row(body, flags, flags))>> ELSE <<>>]
    BY DEF Init
  <2> DEFINE row == Row(body, flags, flags)
  <2>2. row \in Rows /\ row.expired = FALSE /\ Created(row) \in AuditRows
    BY DEF Row, Rows, Created, AuditRows, Acts
  <2> HIDE DEF row
  <2>3. <<Created(row)>> \in Seq(AuditRows) /\ <<Created(row)>> # <<>>
    BY <2>2
  <2>4. TablesTyped
    BY <2>1, <2>2, <2>3 DEF TablesTyped, Exists, Saved, row
  <2>5. RequestsTyped /\ PurgeTyped /\ CopiedAreListed
    BY DEF Init, RequestsTyped, PurgeTyped, CopiedAreListed, PurgeIdle
  <2> QED
    BY <2>4, <2>5 DEF Typed
<1>2. Typed /\ [Next]_vars => Typed'
  BY TablesTypedStep, RequestsTypedStep, PurgeTypedStep DEF Typed
<1> QED
  BY <1>1, <1>2, PTL DEF Spec

(* Every table holds only values of its kind, and a record that is there   *)
(* was logged when it was saved.                                           *)
THEOREM TypesHold == Spec => []TypeOK
<1>1. Typed => TypeOK
  BY DEF Typed, TablesTyped, RequestsTyped, PurgeTyped, TypeOK, Exists
<1> QED
  BY <1>1, TypedInvariant, PTL

(* What was deleted stays deleted: a correction, a signature or a restore  *)
(* that read the record before it went brings nothing back.                *)
THEOREM DeletedStaysDeleted == Spec => NothingComesBack
<1>1. Typed /\ [Next]_vars
      => [\A i \in Records : Saved(i) /\ rec[i] = Gone => rec'[i] = Gone]_vars
  BY EveryStepIsOfThese, GoneStaysGone
<1> QED
  BY <1>1, TypedInvariant, PTL DEF Spec, NothingComesBack

(***************************************************************************)
(* The audit log.  To append keeps all earlier rows; the last row about    *)
(* the status is the appended one or the one it was.                       *)
(***************************************************************************)
StatusActs       == {"cancel", "restore"}
StatusEntries(i) == {k \in 1..Len(audit[i]) : audit[i][k].act \in StatusActs}
HasLast(i)       == \/ StatusEntries(i) = {}
                    \/ \E k \in StatusEntries(i) : \A j \in StatusEntries(i) : j <= k

LEMMA AppendKeeps ==
  ASSUME Typed, NEW i \in Records, NEW e \in AuditRows, audit'[i] = Append(audit[i], e)
  PROVE  /\ Len(audit[i]) \in Nat /\ Len(audit'[i]) = Len(audit[i]) + 1
         /\ \A k \in 1..Len(audit[i]) : audit'[i][k] = audit[i][k]
         /\ audit'[i][Len(audit[i]) + 1] = e
<1>1. audit[i] \in Seq(AuditRows)
  BY DEF Typed, TablesTyped
<1> QED
  BY <1>1

LEMMA LoggedGrows ==
  ASSUME Typed, NEW i \in Records, NEW e \in AuditRows, audit'[i] = Append(audit[i], e),
         NEW acts
  PROVE  Logged(i, acts)' <=> Logged(i, acts) \/ e.act \in acts
<1>1. /\ Len(audit[i]) \in Nat /\ Len(audit'[i]) = Len(audit[i]) + 1
      /\ \A k \in 1..Len(audit[i]) : audit'[i][k] = audit[i][k]
      /\ audit'[i][Len(audit[i]) + 1] = e
  BY AppendKeeps
<1> QED
  BY <1>1 DEF Logged

LastStatusIsLast ==
    \A i \in Records :
        /\ StatusEntries(i) = {} => LastStatus(i) = "restore"
        /\ \A k \in StatusEntries(i) :
              (\A j \in StatusEntries(i) : j <= k) => LastStatus(i) = audit[i][k].act

LEMMA LastStatusCases == LastStatusIsLast
<1> SUFFICES ASSUME NEW i \in Records
             PROVE  /\ StatusEntries(i) = {} => LastStatus(i) = "restore"
                    /\ \A k \in StatusEntries(i) :
                          (\A j \in StatusEntries(i) : j <= k) => LastStatus(i) = audit[i][k].act
  BY DEF LastStatusIsLast
<1>1. StatusEntries(i) = {} => LastStatus(i) = "restore"
  BY DEF LastStatus, StatusEntries, StatusActs
<1>2. ASSUME NEW k \in StatusEntries(i), \A j \in StatusEntries(i) : j <= k
      PROVE  LastStatus(i) = audit[i][k].act
  <2>1. (CHOOSE c \in StatusEntries(i) : \A j \in StatusEntries(i) : j <= c) = k
    <3>1. ASSUME NEW c \in StatusEntries(i), \A j \in StatusEntries(i) : j <= c PROVE c = k
      BY <1>2, <3>1 DEF StatusEntries
    <3> QED
      BY <1>2, <3>1
  <2> QED
    BY <2>1, <1>2 DEF LastStatus, StatusEntries, StatusActs
<1> QED
  BY <1>1, <1>2

LEMMA LastStatusAfter ==
  ASSUME Typed, NEW i \in Records, HasLast(i), NEW e \in AuditRows,
         audit'[i] = Append(audit[i], e)
  PROVE  /\ HasLast(i)'
         /\ LastStatus(i)' = IF e.act \in StatusActs THEN e.act ELSE LastStatus(i)
<1>1. /\ Len(audit[i]) \in Nat /\ Len(audit'[i]) = Len(audit[i]) + 1
      /\ \A k \in 1..Len(audit[i]) : audit'[i][k] = audit[i][k]
      /\ audit'[i][Len(audit[i]) + 1] = e
  BY AppendKeeps
<1>2. /\ StatusEntries(i)' = {} => LastStatus(i)' = "restore"
      /\ \A k \in StatusEntries(i)' :
            (\A j \in StatusEntries(i)' : j <= k) => LastStatus(i)' = audit'[i][k].act
  <2>1. LastStatusIsLast'
    BY LastStatusCases, PTL
  <2> QED
    BY <2>1 DEF LastStatusIsLast
<1>3. CASE e.act \in StatusActs
  <2>1. /\ Len(audit[i]) + 1 \in StatusEntries(i)'
        /\ \A j \in StatusEntries(i)' : j <= Len(audit[i]) + 1
    BY <1>1, <1>3 DEF StatusEntries
  <2> QED
    BY <1>1, <1>2, <1>3, <2>1 DEF HasLast
<1>4. CASE e.act \notin StatusActs
  <2>1. StatusEntries(i)' = StatusEntries(i)
    BY <1>1, <1>4 DEF StatusEntries
  <2>2. \A k \in StatusEntries(i) : audit'[i][k] = audit[i][k]
    BY <1>1 DEF StatusEntries
  <2> QED
    BY <1>2, <1>4, <2>1, <2>2, LastStatusCases DEF HasLast, LastStatusIsLast
<1> QED
  BY <1>3, <1>4

(***************************************************************************)
(* What the log says of one record, in a form that every step keeps.  The  *)
(* purge deletes what it selected some steps before, so the cancellation   *)
(* it relies on has to be remembered with its list.                        *)
(***************************************************************************)
Explained(i) ==
    /\ HasLast(i)
    /\ Logged(i, Deletions) => rec[i] = Gone
    /\ rec[i] # Gone => (rec[i].status = "canceled" <=> LastStatus(i) = "cancel")
    /\ \A n \in 1..Len(audit[i]) : audit[i][n].act = "purged" =>
          \E k \in 1..(n - 1) : audit[i][k].act = "cancel"
SelectedWereCanceled == \A i \in purge.ids : Logged(i, {"cancel"})
AuditInv == SelectedWereCanceled /\ \A i \in Records : Explained(i)

LEMMA ExplainedStep ==
  ASSUME Typed, EachRecord, AuditInv, NEW i \in Records PROVE Explained(i)'
<1>1. Explained(i)
  BY DEF AuditInv
<1>2. CASE audit'[i] = audit[i]
  <2>1. /\ HasLast(i)' /\ LastStatus(i)' = LastStatus(i)
        /\ Logged(i, Deletions)' <=> Logged(i, Deletions)
    BY <1>1, <1>2 DEF Explained, HasLast, LastStatus, StatusEntries, Logged
  <2>2. CASE IsKept(i)
    BY <1>1, <2>1, <2>2 DEF Explained, IsKept
  <2>3. CASE Ages(i)
    BY <1>1, <1>2, <2>1, <2>3, NoneAssumption DEF Explained, Ages
  <2>4. CASE Goes(i)
    BY <1>1, <1>2, <2>1, <2>4 DEF Explained, Goes
  <2>5. ASSUME NEW e \in AuditRows, audit'[i] = Append(audit[i], e) PROVE FALSE
    BY <1>2, <2>5, AppendKeeps
  <2> QED
    BY <2>2, <2>3, <2>4, <2>5 DEF EachRecord, IsSaved, Changes, Logs
<1>3. ASSUME NEW e \in AuditRows, audit'[i] = Append(audit[i], e),
             e.act = "purged" => Logged(i, {"cancel"}),
             e.act \in Deletions => rec'[i] = Gone,
             rec[i] = Gone /\ Saved(i) => rec'[i] = Gone,
             rec'[i] # Gone => (rec'[i].status = "canceled" <=> LastStatus(i)' = "cancel")
      PROVE  Explained(i)'
  <2>1. HasLast(i)'
    BY <1>1, <1>3, LastStatusAfter DEF Explained
  <2>2. Logged(i, Deletions)' => rec'[i] = Gone
    <3>1. Logged(i, Deletions) => Saved(i)
      BY DEF Logged, Saved
    <3> QED
      BY <1>1, <1>3, <3>1, LoggedGrows DEF Explained
  <2>3. ASSUME NEW n \in 1..Len(audit'[i]), audit'[i][n].act = "purged"
        PROVE  \E k \in 1..(n - 1) : audit'[i][k].act = "cancel"
    <3>1. /\ Len(audit[i]) \in Nat /\ Len(audit'[i]) = Len(audit[i]) + 1
          /\ \A k \in 1..Len(audit[i]) : audit'[i][k] = audit[i][k]
          /\ audit'[i][Len(audit[i]) + 1] = e
      BY <1>3, AppendKeeps
    <3>2. CASE n \in 1..Len(audit[i])
      <4>1. PICK k \in 1..(n - 1) : audit[i][k].act = "cancel"
        BY <1>1, <2>3, <3>1, <3>2 DEF Explained
      <4> QED
        BY <3>1, <3>2, <4>1
    <3>3. CASE n = Len(audit[i]) + 1
      <4>1. PICK k \in 1..Len(audit[i]) : audit[i][k].act = "cancel"
        BY <1>3, <2>3, <3>1, <3>3 DEF Logged
      <4> QED
        BY <3>1, <3>3, <4>1
    <3> QED
      BY <3>1, <3>2, <3>3
  <2> QED
    BY <1>3, <2>1, <2>2, <2>3 DEF Explained
<1>4. CASE IsSaved(i)
  <2>1. PICK e \in AuditRows : /\ audit'[i] = Append(audit[i], e)
                               /\ e.act \in {"create", "create_unacked"}
    BY <1>4 DEF IsSaved
  <2>2. ~Saved(i) /\ rec'[i].status = "completed"
    BY <1>4 DEF IsSaved
  <2>3. StatusEntries(i) = {}
    BY <2>2 DEF StatusEntries, Saved
  <2>4. LastStatus(i)' = "restore"
    BY <1>1, <2>1, <2>3, LastStatusAfter, LastStatusCases
       DEF Explained, StatusActs, LastStatusIsLast
  <2> QED
    BY <1>3, <2>1, <2>2, <2>4 DEF Deletions
<1>5. ASSUME NEW act, Changes(i, act) PROVE Explained(i)'
  <2>1. PICK e \in AuditRows : e.act = act /\ audit'[i] = Append(audit[i], e)
    BY <1>5 DEF Changes, Logs
  <2>2. /\ act \in {"update", "review", "approve", "cancel", "restore", "ack_rescale", "ack_manual"}
        /\ rec[i] = Gone => rec'[i] = Gone
        /\ rec[i] # Gone => rec'[i].status = StatusAfter(act, rec[i].status)
    BY <1>5 DEF Changes
  <2>3. LastStatus(i)' = IF act \in StatusActs THEN act ELSE LastStatus(i)
    BY <1>1, <2>1, LastStatusAfter DEF Explained
  <2>4. rec[i] # Gone => (rec'[i].status = "canceled" <=> LastStatus(i)' = "cancel")
    BY <1>1, <2>2, <2>3 DEF Explained, StatusAfter, StatusActs
  <2> QED
    BY <1>3, <2>1, <2>2, <2>4 DEF Deletions
<1>6. CASE Goes(i) /\ audit'[i] # audit[i]
  <2>1. PICK e \in AuditRows : /\ audit'[i] = Append(audit[i], e)
                               /\ e.act = "purged" => i \in purge.ids
    BY <1>6 DEF Goes, Logs
  <2> QED
    BY <1>3, <1>6, <2>1 DEF Goes, AuditInv, SelectedWereCanceled
<1> QED
  BY <1>2, <1>4, <1>5, <1>6 DEF EachRecord, IsKept, Ages

LEMMA SelectedStep ==
  ASSUME Typed, AuditInv, [Next]_vars PROVE SelectedWereCanceled'
<1>1. \A i \in Records : Logged(i, {"cancel"}) => Logged(i, {"cancel"})'
  <2> SUFFICES ASSUME NEW i \in Records, Logged(i, {"cancel"}) PROVE Logged(i, {"cancel"})'
    OBVIOUS
  <2>1. audit'[i] = audit[i] \/ \E e \in AuditRows : audit'[i] = Append(audit[i], e)
    BY EveryStepIsOfThese, AuditGrows
  <2>2. CASE audit'[i] = audit[i]
    BY <2>2 DEF Logged
  <2> QED
    BY <2>1, <2>2, LoggedGrows
<1>2. purge.ids \subseteq Records
  BY DEF Typed, PurgeTyped
<1>3. CASE purge'.ids \subseteq purge.ids
  BY <1>1, <1>2, <1>3 DEF AuditInv, SelectedWereCanceled
<1>4. CASE PurgeSelect
  <2>1. ASSUME NEW i \in Exists, Due(rec[i]) PROVE Logged(i, {"cancel"})
    <3>1. LastStatus(i) = "cancel" /\ HasLast(i)
      BY <2>1 DEF AuditInv, Explained, Exists, Due
    <3>2. PICK k \in StatusEntries(i) : \A j \in StatusEntries(i) : j <= k
      BY <2>1, <3>1, LastStatusCases DEF HasLast, LastStatusIsLast, Exists
    <3>3. audit[i][k].act = "cancel"
      BY <2>1, <3>1, <3>2, LastStatusCases DEF LastStatusIsLast, Exists
    <3> QED
      BY <3>2, <3>3 DEF StatusEntries, Logged
  <2>2. purge'.ids = {i \in Exists : Due(rec[i])}
    BY <1>4 DEF PurgeSelect, PurgeIdle
  <2> QED
    BY <1>1, <2>1, <2>2 DEF SelectedWereCanceled, Exists
<1>5. CASE PurgeRead \/ PurgeSkip \/ PurgeWrite \/ UNCHANGED purge
  <2>1. PurgeIdle.ids = {}
    BY DEF PurgeIdle
  <2>2. CASE PurgeRead
    <3>1. PICK i \in purge.ids :
            purge' = IF rec[i] = Gone THEN PurgeIdle
                     ELSE [purge EXCEPT !.pc = "read", !.first = i, !.body = rec[i].body]
      BY <2>2 DEF PurgeRead
    <3>2. purge'.ids = {} \/ purge'.ids = purge.ids
      BY <2>1, <3>1 DEF Typed, PurgeTyped
    <3> QED
      BY <1>3, <3>2
  <2>3. CASE PurgeSkip
    <3>1. purge' = PurgeIdle \/ purge'.ids = PurgeRest
      BY <2>3 DEF PurgeSkip, PurgeIdle
    <3> QED
      BY <1>3, <2>1, <3>1 DEF PurgeRest
  <2>4. CASE PurgeWrite \/ UNCHANGED purge
    BY <1>3, <2>1, <2>4 DEF PurgeWrite
  <2> QED
    BY <1>5, <2>2, <2>3, <2>4
<1>6. ASSUME NEW m \in Managers, WriteStep(m) PROVE UNCHANGED purge
  BY <1>6 DEF WriteStep, WriteUpdate, WriteSign, WriteCancel, WriteRestore, WriteAck,
              WriteDelete, ListLinked, WriteDeleteRecipe, Finish
<1> QED
  BY <1>4, <1>5, <1>6 DEF Next, SaveRecord, Expire, Begin, BeginDeleteRecipe, Purge, vars

LEMMA AuditInvariant == Spec => []AuditInv
<1>1. Init => AuditInv
  <2> SUFFICES ASSUME Init PROVE AuditInv
    OBVIOUS
  <2>1. PICK body \in Bodies, flags \in BOOLEAN :
          /\ rec = [i \in Records |-> IF i \in Initial THEN Row(body, flags, flags) ELSE Gone]
          /\ audit = [i \in Records |-> IF i \in Initial
                        THEN <<Created(Row(body, flags, flags))>> ELSE <<>>]
    BY DEF Init
  <2> DEFINE row == Row(body, flags, flags)
             e == Created(row)
  <2>2. row.status = "completed" /\ e.act \in {"create", "create_unacked"}
    BY DEF Row, Created
  <2> HIDE DEF e
  <2>3. SelectedWereCanceled
    BY DEF Init, PurgeIdle, SelectedWereCanceled
  <2>4. ASSUME NEW i \in Records PROVE Explained(i)
    <3>1. \/ audit[i] = <<e>> /\ rec[i] = row
          \/ audit[i] = <<>> /\ rec[i] = Gone
      BY <2>1 DEF e
    <3>2. \A n \in 1..Len(audit[i]) : audit[i][n].act \in {"create", "create_unacked"}
      BY <2>2, <3>1
    <3>3. StatusEntries(i) = {}
      BY <3>2 DEF StatusEntries, StatusActs
    <3>4. LastStatus(i) = "restore" /\ HasLast(i)
      BY <3>3, LastStatusCases DEF HasLast, LastStatusIsLast
    <3>5. ~Logged(i, Deletions)
      BY <3>2 DEF Logged, Deletions
    <3>6. rec[i] # Gone => rec[i].status = "completed"
      BY <2>2, <3>1
    <3> QED
      BY <3>2, <3>4, <3>5, <3>6 DEF Explained
  <2> QED
    BY <2>3, <2>4 DEF AuditInv
<1>2. Typed /\ AuditInv /\ [Next]_vars => AuditInv'
  BY EveryStepIsOfThese, ExplainedStep, SelectedStep DEF AuditInv
<1> QED
  BY <1>1, <1>2, TypedInvariant, PTL DEF Spec

(* The audit log tells what became of every record: a logged deletion      *)
(* happened, the status is that of the last row about it, and nothing was  *)
(* purged that was never canceled, whatever corrections, signatures,       *)
(* restores, deletions and purges overlap.                                 *)
THEOREM AuditIsTrue == Spec => []AuditExplainsStatus
<1>1. AuditInv => AuditExplainsStatus
  BY DEF AuditInv, Explained, AuditExplainsStatus
<1> QED
  BY <1>1, AuditInvariant, PTL

(***************************************************************************)
(* Totals raised without a manager.                                        *)
(***************************************************************************)
Answered(i) == rec[i] # Gone /\ Logged(i, {"create_unacked"}) /\ ~rec[i].rescaleUnacked
               => Logged(i, {"ack_rescale"})

LEMMA AnsweredStep ==
  ASSUME Typed, EachRecord, NEW i \in Records, Answered(i) PROVE Answered(i)'
<1>1. CASE audit'[i] = audit[i]
  <2>1. \A acts : Logged(i, acts)' <=> Logged(i, acts)
    BY <1>1 DEF Logged
  <2>2. CASE IsKept(i)
    BY <2>1, <2>2 DEF Answered, IsKept
  <2>3. CASE Ages(i)
    BY <2>1, <2>3, NoneAssumption DEF Answered, Ages
  <2>4. CASE Goes(i)
    BY <2>4 DEF Answered, Goes
  <2>5. ASSUME NEW e \in AuditRows, audit'[i] = Append(audit[i], e) PROVE FALSE
    BY <1>1, <2>5, AppendKeeps
  <2> QED
    BY <2>2, <2>3, <2>4, <2>5 DEF EachRecord, IsSaved, Changes, Logs
<1>2. CASE IsSaved(i)
  <2>1. PICK e \in AuditRows :
          /\ audit'[i] = Append(audit[i], e)
          /\ e.act = IF rec'[i].rescaleUnacked THEN "create_unacked" ELSE "create"
    BY <1>2 DEF IsSaved
  <2>2. ~Logged(i, {"create_unacked"})
    BY <1>2 DEF IsSaved, Saved, Logged
  <2>3. Logged(i, {"create_unacked"})' => e.act = "create_unacked"
    BY <2>1, <2>2, LoggedGrows
  <2> QED
    BY <2>1, <2>3 DEF Answered
<1>3. ASSUME NEW act, Changes(i, act) PROVE Answered(i)'
  <2>1. PICK e \in AuditRows : e.act = act /\ audit'[i] = Append(audit[i], e)
    BY <1>3 DEF Changes, Logs
  <2>2. /\ Logged(i, {"create_unacked"})' => Logged(i, {"create_unacked"})
        /\ Logged(i, {"ack_rescale"})' <=> Logged(i, {"ack_rescale"}) \/ act = "ack_rescale"
    <3>1. act # "create_unacked"
      BY <1>3 DEF Changes
    <3> QED
      BY <2>1, <3>1, LoggedGrows
  <2>3. CASE act = "ack_rescale"
    BY <2>2, <2>3 DEF Answered
  <2>4. CASE act # "ack_rescale"
    <3>1. /\ rec[i] = Gone => rec'[i] = Gone
          /\ rec[i] # Gone => rec'[i].rescaleUnacked = rec[i].rescaleUnacked
      BY <1>3, <2>4 DEF Changes
    <3> QED
      BY <2>2, <3>1 DEF Answered
  <2> QED
    BY <2>3, <2>4
<1>4. CASE Goes(i)
  BY <1>4 DEF Goes, Answered
<1> QED
  BY <1>1, <1>2, <1>3, <1>4 DEF EachRecord, IsKept, Ages

(* A total that was raised without a manager stays on the manager's list   *)
(* until one acknowledges it: no correction, signature, cancellation or    *)
(* restore takes it off, in whatever order they commit.                    *)
THEOREM RaisedTotalsWait == Spec => []UnackedUntilAck
<1> DEFINE AllAnswered == \A i \in Records : Answered(i)
<1>1. Init => AllAnswered
  <2> SUFFICES ASSUME Init, NEW i \in Records PROVE Answered(i)
    OBVIOUS
  <2>1. PICK body \in Bodies, flags \in BOOLEAN :
          /\ rec = [j \in Records |-> IF j \in Initial THEN Row(body, flags, flags) ELSE Gone]
          /\ audit = [j \in Records |-> IF j \in Initial
                        THEN <<Created(Row(body, flags, flags))>> ELSE <<>>]
    BY DEF Init
  <2> DEFINE row == Row(body, flags, flags)
             e == Created(row)
  <2>2. e.act = IF row.rescaleUnacked THEN "create_unacked" ELSE "create"
    BY DEF Created
  <2> HIDE DEF e, row
  <2>3. \/ audit[i] = <<e>> /\ rec[i] = row
        \/ rec[i] = Gone
    BY <2>1 DEF e, row
  <2>4. audit[i] = <<e>> => (Logged(i, {"create_unacked"}) => e.act = "create_unacked")
    BY DEF Logged
  <2> QED
    BY <2>2, <2>3, <2>4 DEF Answered
<1>2. Typed /\ AllAnswered /\ [Next]_vars => AllAnswered'
  BY EveryStepIsOfThese, AnsweredStep
<1>3. AllAnswered => UnackedUntilAck
  BY DEF Answered, UnackedUntilAck, Exists
<1> QED
  BY <1>1, <1>2, <1>3, TypedInvariant, PTL DEF Spec

=============================================================================
