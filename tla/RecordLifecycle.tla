-------------------------- MODULE RecordLifecycle --------------------------
(***************************************************************************)
(* What happens to a blend record after it was saved: corrected, signed,   *)
(* canceled, restored, acknowledged, deleted for good, deleted with its    *)
(* recipe, or purged three days after its cancellation -- and the audit    *)
(* log that is to explain all of it.                                       *)
(*                                                                         *)
(* Each handler reads the record outside any transaction (Begin...) and    *)
(* then writes in one (Write...); between the two any other handler, and   *)
(* the purge that serve.py starts as a process of its own, may commit.     *)
(***************************************************************************)
EXTENDS Naturals, Sequences, SequencesExt

CONSTANTS
    Records,    \* record ids
    Initial,    \* the records that exist at the start
    Bodies,     \* contents a correction may write (header and detail rows)
    Managers,   \* requests: each runs one operation
    Ops,        \* the operations of this instance
    Gone,       \* no such row
    None

AllOps == {"update", "review", "approve", "cancel", "restore", "delete",
           "ack_rescale", "ack_manual", "delete_recipe"}

ASSUME OpsAssumption     == Ops \subseteq AllOps
ASSUME InitialAssumption == Initial \subseteq Records

Rows == [status : {"completed", "canceled"}, body : Bodies,
         reviewed : BOOLEAN, approved : BOOLEAN,
         rescaleUnacked : BOOLEAN, manualUnacked : BOOLEAN, expired : BOOLEAN]
ASSUME NoneAssumption == None \notin Bodies /\ Gone \notin Bodies \cup Rows

VARIABLES
    rec,      \* blend_records: id -> row, or Gone
    recipe,   \* does the recipe the records belong to still exist
    audit,    \* audit_logs: id -> the rows about that record, in order
    pc, op,   \* per request: where it is; what it does, and to which record
    seen,     \* per request: the contents it read before its transaction, by id
    purge     \* purge_expired_canceled: [pc, ids, first, body]

vars == <<rec, recipe, audit, pc, op, seen, purge>>

Exists    == {i \in Records : rec[i] # Gone}
Saved(i)  == audit[i] # <<>>
Entry(act, body)       == [act |-> act, before |-> body, after |-> None]
Log(ids, entryOf(_))   == audit' = [i \in Records |-> IF i \in ids
                                       THEN Append(audit[i], entryOf(i)) ELSE audit[i]]
LogOne(i, e)           == audit' = [audit EXCEPT ![i] = Append(@, e)]
Logged(i, acts)        == \E n \in 1..Len(audit[i]) : audit[i][n].act \in acts

(***************************************************************************)
(* blend_create: a new row, with its absence flags, and its audit row.     *)
(***************************************************************************)
Row(body, rescale, manual) ==
    [status |-> "completed", body |-> body, reviewed |-> FALSE, approved |-> FALSE,
     rescaleUnacked |-> rescale, manualUnacked |-> manual, expired |-> FALSE]
Created(row) == [act |-> IF row.rescaleUnacked THEN "create_unacked" ELSE "create",
                 before |-> None, after |-> row.body]

SaveRecord(i) ==
    /\ ~Saved(i) /\ recipe
    /\ \E body \in Bodies, rescale, manual \in BOOLEAN :
         LET row == Row(body, rescale, manual)
         IN  /\ rec' = [rec EXCEPT ![i] = row]
             /\ LogOne(i, Created(row))
    /\ UNCHANGED <<recipe, pc, op, seen, purge>>

Finish(m) == /\ pc' = [pc EXCEPT ![m] = "done"]
             /\ op' = [op EXCEPT ![m] = None]
             /\ seen' = [seen EXCEPT ![m] = << >>]
             /\ UNCHANGED <<recipe, purge>>

(***************************************************************************)
(* Reading.  404 without a row; a restore wants a canceled row (400); an   *)
(* acknowledged flag is answered at once and not audited again.            *)
(***************************************************************************)
Refused(o, row) == \/ o = "restore" /\ row.status # "canceled"
                   \/ o = "ack_rescale" /\ ~row.rescaleUnacked
                   \/ o = "ack_manual" /\ ~row.manualUnacked

Begin(m, o, i) ==
    /\ pc[m] = "idle" /\ Saved(i)
    /\ IF rec[i] = Gone \/ Refused(o, rec[i])
       THEN pc' = [pc EXCEPT ![m] = "done"] /\ UNCHANGED <<op, seen>>
       ELSE /\ pc' = [pc EXCEPT ![m] = "read"]
            /\ op' = [op EXCEPT ![m] = [name |-> o, id |-> i]]
            /\ seen' = [seen EXCEPT ![m] = [j \in {i} |-> rec[i].body]]
    /\ UNCHANGED <<rec, recipe, audit, purge>>

(* Deleting a recipe with its records: first a full copy of each linked    *)
(* record, then, in delete_recipe, the list of the records to delete.      *)
BeginDeleteRecipe(m) ==
    /\ pc[m] = "idle" /\ recipe
    /\ pc' = [pc EXCEPT ![m] = "copied"]
    /\ op' = [op EXCEPT ![m] = [name |-> "delete_recipe", id |-> {}]]
    /\ seen' = [seen EXCEPT ![m] = [i \in Exists |-> rec[i].body]]
    /\ UNCHANGED <<rec, recipe, audit, purge>>

ListLinked(m) ==
    /\ pc[m] = "copied"
    /\ IF recipe
       THEN /\ pc' = [pc EXCEPT ![m] = "listed"]
            /\ op' = [op EXCEPT ![m].id = Exists]
            /\ UNCHANGED <<seen, purge, recipe>>
       ELSE Finish(m)                                                   \* 404
    /\ UNCHANGED <<rec, audit>>

(***************************************************************************)
(* Writing.                                                                *)
(***************************************************************************)
Write(m, o) == pc[m] = "read" /\ op[m].name = o
Id(m) == op[m].id

(* An UPDATE ... WHERE id = ? on a row that is gone changes nothing, and   *)
(* the audit row that follows is written all the same.                     *)
SetRow(i, row) == rec' = IF rec[i] = Gone THEN rec ELSE [rec EXCEPT ![i] = row]

(* Correction: the details are replaced; the audit row holds the image     *)
(* read at the start and what differs from it now.  On a row that is gone  *)
(* the INSERT of the details breaks their foreign key: nothing is kept.    *)
CorrectedAndAcked(row, body) ==                         \* faulty variant
    [row EXCEPT !.body = body, !.expired = FALSE, !.rescaleUnacked = FALSE]
Corrected(row, body) == [row EXCEPT !.body = body, !.expired = FALSE]
WriteUpdateOrInsert(m) ==                               \* faulty variant
    /\ Write(m, "update")
    /\ \E body \in Bodies :
         /\ rec' = [rec EXCEPT ![Id(m)] = IF @ = Gone THEN Row(body, FALSE, FALSE)
                                          ELSE Corrected(@, body)]
         /\ LogOne(Id(m), [act |-> "update", before |-> seen[m][Id(m)], after |-> body])
    /\ Finish(m)
WriteUpdate(m) ==
    /\ Write(m, "update")
    /\ \E body \in Bodies :
         IF rec[Id(m)] = Gone THEN UNCHANGED <<rec, audit>>
         ELSE /\ rec' = [rec EXCEPT ![Id(m)] = Corrected(@, body)]
              /\ LogOne(Id(m), [act |-> "update", before |-> seen[m][Id(m)],
                                after |-> IF body = seen[m][Id(m)] THEN None ELSE body])
    /\ Finish(m)

WriteSign(m) ==
    /\ \E role \in {"review", "approve"} :
         /\ Write(m, role)
         /\ SetRow(Id(m), IF role = "review"
                          THEN [rec[Id(m)] EXCEPT !.reviewed = TRUE, !.expired = FALSE]
                          ELSE [rec[Id(m)] EXCEPT !.approved = TRUE, !.expired = FALSE])
         /\ LogOne(Id(m), Entry(role, None))
    /\ Finish(m)

WriteCancel(m) ==
    /\ Write(m, "cancel")
    /\ SetRow(Id(m), [rec[Id(m)] EXCEPT !.status = "canceled", !.expired = FALSE])
    /\ LogOne(Id(m), Entry("cancel", None))
    /\ Finish(m)

WriteRestoreSilently(m) ==                              \* faulty variant
    /\ Write(m, "restore")
    /\ SetRow(Id(m), [rec[Id(m)] EXCEPT !.status = "completed", !.expired = FALSE])
    /\ UNCHANGED audit
    /\ Finish(m)
WriteRestoreStillDue(m) ==                              \* faulty variant
    /\ Write(m, "restore")
    /\ SetRow(Id(m), [rec[Id(m)] EXCEPT !.status = "completed"])
    /\ LogOne(Id(m), Entry("restore", None))
    /\ Finish(m)
WriteRestore(m) ==
    /\ Write(m, "restore")
    /\ SetRow(Id(m), [rec[Id(m)] EXCEPT !.status = "completed", !.expired = FALSE])
    /\ LogOne(Id(m), Entry("restore", None))
    /\ Finish(m)

WriteAck(m) ==
    /\ \/ /\ Write(m, "ack_rescale")
          /\ SetRow(Id(m), [rec[Id(m)] EXCEPT !.rescaleUnacked = FALSE])
       \/ /\ Write(m, "ack_manual")
          /\ SetRow(Id(m), [rec[Id(m)] EXCEPT !.manualUnacked = FALSE])
    /\ LogOne(Id(m), Entry(op[m].name, None))
    /\ Finish(m)

(* delete_blend_record, with the copy read at the start in the audit row.  *)
(* It looks the row up once more before its first write: a row that was    *)
(* gone by then is a 404, one that vanished since is audited all the same. *)
WriteDelete(m) ==
    /\ Write(m, "delete")
    /\ \/ rec[Id(m)] = Gone /\ UNCHANGED <<rec, audit>>
       \/ /\ rec' = [rec EXCEPT ![Id(m)] = Gone]
          /\ LogOne(Id(m), Entry("deleted", seen[m][Id(m)]))
    /\ Finish(m)

(* The listed records go, the copied ones are audited.                     *)
WriteDeleteRecipe(m) ==
    /\ pc[m] = "listed"
    /\ rec' = [i \in Records |-> IF i \in op[m].id THEN Gone ELSE rec[i]]
    /\ Log(DOMAIN seen[m], LAMBDA i : Entry("deleted", seen[m][i]))
    /\ recipe' = FALSE
    /\ pc' = [pc EXCEPT ![m] = "done"]
    /\ op' = [op EXCEPT ![m] = None]
    /\ seen' = [seen EXCEPT ![m] = << >>]
    /\ UNCHANGED purge

(***************************************************************************)
(* purge_expired_canceled, at server start and after the daily backup.     *)
(***************************************************************************)
AnyRow(row) == TRUE                                     \* faulty variant
DueUnlessApproved(row) == row.status = "canceled" /\ row.expired /\ ~row.approved  \* faulty variant
Due(row) == row.status = "canceled" /\ row.expired
PurgeIdle == [pc |-> "idle", ids |-> {}, first |-> None, body |-> None]

PurgeSelect ==
    /\ purge.pc = "idle"
    /\ LET due == {i \in Exists : Due(rec[i])}
       IN  due # {} /\ purge' = [PurgeIdle EXCEPT !.pc = "selected", !.ids = due]
    /\ UNCHANGED <<rec, recipe, audit, pc, op, seen>>

(* The copy of the first record is still read outside a transaction; its   *)
(* header missing ends the whole purge with an AttributeError.             *)
PurgeRead ==
    /\ purge.pc = "selected"
    /\ \E i \in purge.ids :
         purge' = IF rec[i] = Gone THEN PurgeIdle
                  ELSE [purge EXCEPT !.pc = "read", !.first = i, !.body = rec[i].body]
    /\ UNCHANGED <<rec, recipe, audit, pc, op, seen>>

(* The first record is looked up once more and skipped when it is gone     *)
(* (or gone only after that: then it is audited).  From its deletion on    *)
(* all is one transaction, rolled back when a later record of the list is  *)
(* gone.  No status is looked at again.                                    *)
PurgeBody(i) == IF i = purge.first THEN purge.body ELSE rec[i].body
PurgeRest    == purge.ids \ {purge.first}
PurgeSkip ==
    /\ purge.pc = "read" /\ rec[purge.first] = Gone
    /\ purge' = IF PurgeRest = {} THEN PurgeIdle
                ELSE [PurgeIdle EXCEPT !.pc = "selected", !.ids = PurgeRest]
    /\ UNCHANGED <<rec, recipe, audit, pc, op, seen>>

PurgeWrite ==
    /\ purge.pc = "read"
    /\ IF PurgeRest \subseteq Exists
       THEN /\ rec' = [i \in Records |-> IF i \in purge.ids THEN Gone ELSE rec[i]]
            /\ Log(purge.ids, LAMBDA i : Entry("purged", PurgeBody(i)))
       ELSE UNCHANGED <<rec, audit>>
    /\ purge' = PurgeIdle
    /\ UNCHANGED <<recipe, pc, op, seen>>

(* Three days pass over the last write to a canceled record.               *)
Expire(i) ==
    /\ i \in Exists /\ rec[i].status = "canceled" /\ ~rec[i].expired
    /\ rec' = [rec EXCEPT ![i].expired = TRUE]
    /\ UNCHANGED <<recipe, audit, pc, op, seen, purge>>

Init ==
    /\ \E body \in Bodies, flags \in BOOLEAN :
         LET row == Row(body, flags, flags)
         IN  /\ rec = [i \in Records |-> IF i \in Initial THEN row ELSE Gone]
             /\ audit = [i \in Records |-> IF i \in Initial THEN <<Created(row)>> ELSE <<>>]
    /\ recipe = TRUE
    /\ pc = [m \in Managers |-> "idle"]
    /\ op = [m \in Managers |-> None]
    /\ seen = [m \in Managers |-> << >>]
    /\ purge = PurgeIdle

WriteStep(m) == \/ WriteUpdate(m) \/ WriteSign(m) \/ WriteCancel(m) \/ WriteRestore(m)
                \/ WriteAck(m) \/ WriteDelete(m) \/ ListLinked(m) \/ WriteDeleteRecipe(m)
Purge == PurgeSelect \/ PurgeRead \/ PurgeSkip \/ PurgeWrite

Next ==
    \/ \E i \in Records : SaveRecord(i) \/ Expire(i)
    \/ \E m \in Managers :
         \/ \E o \in Ops \ {"delete_recipe"}, i \in Records : Begin(m, o, i)
         \/ "delete_recipe" \in Ops /\ BeginDeleteRecipe(m)
         \/ WriteStep(m)
    \/ Purge

(* serve.py runs the purge again every day and at every start; a request   *)
(* that was accepted is carried through.                                   *)
Fairness == WF_vars(Purge) /\ \A m \in Managers : WF_vars(WriteStep(m))
Spec     == Init /\ [][Next]_vars
FairSpec == Spec /\ Fairness

(***************************************************************************)
(* Properties.                                                             *)
(***************************************************************************)
TypeOK ==
    /\ rec \in [Records -> Rows \cup {Gone}]
    /\ recipe \in BOOLEAN
    /\ \A i \in Records : rec[i] # Gone => Saved(i)
    /\ \A i \in Exists : rec[i].expired => rec[i].status = "canceled"
    /\ pc \in [Managers -> {"idle", "read", "copied", "listed", "done"}]
    /\ purge.pc \in {"idle", "selected", "read"} /\ purge.ids \subseteq Records

Deletions == {"deleted", "purged"}

(* The audit log tells what became of a record: a logged deletion really   *)
(* happened, a record that is there is canceled exactly if the last entry  *)
(* about its status is a cancellation, and only what was canceled before   *)
(* is ever purged.                                                         *)
LastStatus(i) == LET n == {k \in 1..Len(audit[i]) :
                             audit[i][k].act \in {"cancel", "restore"}}
                 IN  IF n = {} THEN "restore"
                     ELSE audit[i][CHOOSE k \in n : \A j \in n : j <= k].act
AuditExplainsStatus ==
    \A i \in Records : Saved(i) =>
        /\ Logged(i, Deletions) => rec[i] = Gone
        /\ rec[i] # Gone => (rec[i].status = "canceled" <=> LastStatus(i) = "cancel")
        /\ \A n \in DOMAIN audit[i] : audit[i][n].act = "purged" =>
              \E k \in 1..(n - 1) : audit[i][k].act = "cancel"

(* A total that was raised without a manager stays on the manager's list   *)
(* until a manager acknowledges it: no correction, signature, cancellation *)
(* or restore clears it (rescale_unacked).                                 *)
UnackedUntilAck ==
    \A i \in Exists : Logged(i, {"create_unacked"}) /\ ~rec[i].rescaleUnacked
                      => Logged(i, {"ack_rescale"})

(* What was deleted stays deleted: a correction, a signature or a restore  *)
(* that arrives late brings nothing back.                                  *)
NothingComesBack == [][\A i \in Records : Saved(i) /\ rec[i] = Gone => rec'[i] = Gone]_vars

(* A canceled record whose three days are over does not stay for ever: it  *)
(* is deleted, or somebody wrote to it (its updated_at moved).             *)
ExpiredIsPurged == \A i \in Records :
    (i \in Exists /\ rec[i].expired) ~> (rec[i] = Gone \/ ~rec[i].expired)

(* The purge deletes canceled records only (its docstring).                *)
PurgeSparesRestored ==
    [][\A i \in Exists : PurgeWrite /\ rec'[i] = Gone => rec[i].status = "canceled"]_vars

(* A canceled record is only restored, acknowledged or deleted: "취소된     *)
(* 기록은 수정 불가" (purge_expired_canceled).                               *)
(* Does not hold: see "further disagreements" in the README.               *)
CanceledIsFrozen ==
    [][\A i \in Exists : rec[i].status = "canceled" /\ rec'[i] # Gone
          /\ rec'[i].status = "canceled" => rec'[i].body = rec[i].body]_vars

(* The before-image of a correction is the record as it was corrected      *)
(* ("변경을 적용하기 전에 현재 헤더와 상세 행을 포착한다", blend_update).      *)
(* Does not hold: see "further disagreements" in the README.               *)
BeforeImageIsCurrent ==
    [][\A i \in Exists : Len(audit'[i]) > Len(audit[i]) /\ Last(audit'[i]).act = "update"
          => Last(audit'[i]).before = rec[i].body]_vars

(* Whoever is deleted with a recipe leaves a copy in the audit log         *)
(* ("기록마다 전체 사본을 감사에 남긴다", delete_recipe).                     *)
(* Does not hold: see "further disagreements" in the README.               *)
DeletedLeavesCopy == \A i \in Records : Saved(i) /\ rec[i] = Gone => Logged(i, Deletions)

(* Acknowledging twice is audited once ("재확인은 성공으로 취급, audit 은    *)
(* 남기지 않음", ack_rescale).                                              *)
(* Does not hold: see "further disagreements" in the README.               *)
AckAuditedOnce ==
    \A i \in Records : \A j, k \in 1..Len(audit[i]) :
        audit[i][j].act = "ack_rescale" /\ audit[i][k].act = "ack_rescale" => j = k
=============================================================================
