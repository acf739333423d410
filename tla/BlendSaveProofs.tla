-------------------------- MODULE BlendSaveProofs --------------------------
(***************************************************************************)
(* Theorems about saving a blend, for any number of screens, requests,     *)
(* keys, forms and approvals.                                              *)
(***************************************************************************)
EXTENDS BlendSave, TLAPS

Requests == [key : RequestIds, endpoint : Endpoints, form : Forms, blend : Tabs \X Nat]

(* The functions of the model stay functions on their index sets.          *)
Shape ==
    /\ tab \in [Tabs -> [blend : Nat, key : RequestIds \cup {None},
                         waits : Attempts \cup {None}]]
    /\ pc \in [Attempts -> {"unused", "received", "checking", "locking",
                            "resolving", "done"}]
    /\ DOMAIN req = Attempts /\ DOMAIN ledger = Attempts
    /\ \A a \in Attempts : pc[a] # "unused" => req[a] \in Requests

LEMMA ShapeInit == Init => Shape
<1> SUFFICES ASSUME Init PROVE Shape
  OBVIOUS
<1>1. tab \in [Tabs -> [blend : Nat, key : RequestIds \cup {None},
                       waits : Attempts \cup {None}]]
  BY DEF Init
<1>2. pc = [a \in Attempts |-> "unused"] /\ DOMAIN req = Attempts /\ DOMAIN ledger = Attempts
  BY DEF Init
<1> QED
  BY <1>1, <1>2 DEF Shape

LEMMA ShapeStep == ASSUME Shape, [Next]_vars PROVE Shape'
<1>1. CASE UNCHANGED vars
  BY <1>1 DEF Shape, vars, db
<1>2. ASSUME NEW t \in Tabs, NEW a \in Attempts, NEW f \in Forms, Save(t, a, f) PROVE Shape'
  <2>1. PICK k \in RequestIds :
          /\ tab' = [tab EXCEPT ![t].key = k, ![t].waits = a]
          /\ req' = [req EXCEPT ![a] = [key |-> k, endpoint |-> Screen[t],
                                       form |-> f, blend |-> <<t, tab[t].blend>>]]
    BY <1>2 DEF Save
  <2>2. pc' = [pc EXCEPT ![a] = "received"] /\ UNCHANGED ledger
    BY <1>2 DEF Save
  <2>3. tab' \in [Tabs -> [blend : Nat, key : RequestIds \cup {None},
                          waits : Attempts \cup {None}]]
    BY <2>1 DEF Shape
  <2>4. req'[a] \in Requests
    <3>1. Screen[t] \in Endpoints /\ tab[t].blend \in Nat
      BY ScreenAssumption DEF Shape
    <3> QED
      BY <2>1, <3>1 DEF Shape, Requests
  <2>5. ASSUME NEW b \in Attempts, pc'[b] # "unused" PROVE req'[b] \in Requests
    <3>1. CASE b = a
      BY <2>4, <3>1
    <3>2. CASE b # a
      <4>1. req'[b] = req[b]
        BY <2>1, <3>2 DEF Shape
      <4>2. pc'[b] = pc[b]
        BY <2>2, <3>2 DEF Shape
      <4> QED
        BY <2>5, <4>1, <4>2 DEF Shape
    <3> QED
      BY <3>1, <3>2
  <2>6. DOMAIN req' = Attempts /\ DOMAIN ledger' = Attempts
    BY <2>1, <2>2 DEF Shape
  <2>7. pc' \in [Attempts -> {"unused", "received", "checking", "locking",
                             "resolving", "done"}]
    BY <2>2 DEF Shape
  <2> QED
    BY <2>3, <2>5, <2>6, <2>7 DEF Shape
<1>3. ASSUME NEW t \in Tabs, Deliver(t) PROVE Shape'
  BY <1>3 DEF Shape, Deliver, NextBlend, db
<1>4. ASSUME NEW t \in Tabs, Disconnect(t) PROVE Shape'
  BY <1>4 DEF Shape, Disconnect, db
<1>5. ASSUME NEW t \in Tabs, Reload(t) PROVE Shape'
  <2> DEFINE Tab == [blend : Nat, key : RequestIds \cup {None}, waits : Attempts \cup {None}]
  <2>1. tab[t] \in Tab
    BY DEF Shape
  <2>2. [tab[t] EXCEPT !.key = None, !.waits = None] \in Tab
    BY <2>1
  <2>3. NextBlend(t) \in Tab
    BY <2>1 DEF NextBlend
  <2>4. tab' \in [Tabs -> Tab]
    <3> HIDE DEF Tab
    <3>1. PICK draft \in Tab : tab' = [tab EXCEPT ![t] = draft]
      BY <1>5, <2>2, <2>3 DEF Reload
    <3>2. tab \in [Tabs -> Tab]
      BY DEF Shape, Tab
    <3> QED
      BY <3>1, <3>2
  <2>5. UNCHANGED <<pc, req, ledger>>
    BY <1>5 DEF Reload
  <2> QED
    BY <2>4, <2>5 DEF Shape
<1>6. ASSUME NEW a \in Attempts, Lookup(a) PROVE Shape'
  BY <1>6 DEF Shape, Lookup, Answer, Goto, db
<1>7. ASSUME NEW a \in Attempts, Check(a) PROVE Shape'
  BY <1>7 DEF Shape, Check, Answer, Goto, db
<1>8. ASSUME NEW a \in Attempts, Transact(a) PROVE Shape'
  BY <1>8 DEF Shape, Transact, Answer, Goto, Rollback, db
<1>9. ASSUME NEW a \in Attempts, Resolve(a) PROVE Shape'
  BY <1>9 DEF Shape, Resolve, Answer, db
<1>10. ASSUME NEW a \in Attempts, Refuse(a) PROVE Shape'
  BY <1>10 DEF Shape, Refuse, Answer, db
<1>11. ASSUME NEW purpose \in Purposes, IssueApproval(purpose) PROVE Shape'
  BY <1>11 DEF Shape, IssueApproval
<1>12. ASSUME NEW p \in DOMAIN approvals, ExpireApproval(p) PROVE Shape'
  BY <1>12 DEF Shape, ExpireApproval
<1>13. ASSUME NEW i \in DOMAIN records, HardDelete(i) PROVE Shape'
  BY <1>13 DEF Shape, HardDelete
<1>14. ASSUME NEW k \in DOMAIN saveRequests, AgeRequest(k) PROVE Shape'
  BY <1>14 DEF Shape, AgeRequest
<1> QED
  BY <1>1, <1>2, <1>3, <1>4, <1>5, <1>6, <1>7, <1>8, <1>9, <1>10, <1>11, <1>12,
     <1>13, <1>14 DEF Next, Handle

(***************************************************************************)
(* The steps by what they do to the database and to the ledger: most do    *)
(* nothing, and a transaction that is not rolled back commits a save.      *)
(***************************************************************************)
Length(a) == Len(req[a].form.events)
NewIds(a) == (nextId + 1)..(nextId + Length(a))
NewRow(a) == [endpoint |-> req[a].endpoint, ids |-> NewIds(a),
              hash |-> req[a].form.body, old |-> FALSE]
NewEntry(a, top) ==
    [key |-> req[a].key, blend |-> req[a].blend, body |-> req[a].form.body,
     ids |-> NewIds(a), spent |-> Spent(req[a].form), series |-> req[a].form.series,
     numbers |-> (top + 1)..(top + Length(a))]

Committing(a, top) ==
    /\ pc[a] = "locking" /\ req[a].key \notin DOMAIN saveRequests
    /\ ApprovalsHold(req[a].form)
    /\ top \in {0} \cup Numbers(req[a].form.series)
    /\ IsTop(req[a].form.series, top)
    /\ records' = SaveRecords(req[a].form, nextId, top)
    /\ nextId' = nextId + Length(a)
    /\ approvals' = Consume(req[a].form)
    /\ saveRequests' = Remember(req[a].key, NewRow(a))
    /\ ledger' = [ledger EXCEPT ![a] = NewEntry(a, top)]
    /\ pc' = [pc EXCEPT ![a] = "done"]
    /\ resp' = [resp EXCEPT ![a] = Ok(NewIds(a))]
    /\ UNCHANGED <<retired, tab, req, before>>

LEMMA TransactCommits ==
  ASSUME NEW a \in Attempts, Transact(a),
         ApprovalsHold(req[a].form), ~AlreadySaved(req[a].key)
  PROVE  \E top : Committing(a, top)
<1>1. PICK top \in {0} \cup Numbers(req[a].form.series) :
        /\ IsTop(req[a].form.series, top)
        /\ records' = SaveRecords(req[a].form, nextId, top)
        /\ nextId' = nextId + Length(a)
        /\ approvals' = Consume(req[a].form)
        /\ saveRequests' = Remember(req[a].key, NewRow(a))
        /\ ledger' = [ledger EXCEPT ![a] = NewEntry(a, top)]
        /\ Answer(a, Ok(NewIds(a)))
        /\ UNCHANGED retired
  BY DEF Transact, Length, NewIds, NewRow, NewEntry
<1>2. pc[a] = "locking" /\ UNCHANGED <<tab, req, before>>
  BY DEF Transact
<1>3. pc' = [pc EXCEPT ![a] = "done"] /\ resp' = [resp EXCEPT ![a] = Ok(NewIds(a))]
  BY <1>1 DEF Answer
<1>4. Committing(a, top)
  BY <1>1, <1>2, <1>3 DEF Committing, AlreadySaved
<1> QED
  BY <1>4

LEMMA TransactCases ==
  ASSUME NEW a \in Attempts, Transact(a)
  PROVE  \/ UNCHANGED <<db, ledger>>
         \/ \E top : Committing(a, top)
<1>1. CASE ~ApprovalsHold(req[a].form)
  BY <1>1 DEF Transact, Rollback
<1>2. CASE AlreadySaved(req[a].key)
  BY <1>2 DEF Transact, Rollback
<1>3. CASE ApprovalsHold(req[a].form) /\ ~AlreadySaved(req[a].key)
  BY <1>3, TransactCommits
<1> QED
  BY <1>1, <1>2, <1>3

(* What a committed request carries over, field by field.                  *)
LEMMA NewRowFields ==
  ASSUME NEW a
  PROVE  /\ NewRow(a).endpoint = req[a].endpoint /\ NewRow(a).ids = NewIds(a)
         /\ NewRow(a).hash = req[a].form.body /\ NewRow(a).old = FALSE
  BY DEF NewRow

LEMMA NewEntryFields ==
  ASSUME NEW a, NEW top
  PROVE  /\ NewEntry(a, top).key = req[a].key /\ NewEntry(a, top).blend = req[a].blend
         /\ NewEntry(a, top).body = req[a].form.body /\ NewEntry(a, top).ids = NewIds(a)
         /\ NewEntry(a, top).spent = Spent(req[a].form)
         /\ NewEntry(a, top).series = req[a].form.series
         /\ NewEntry(a, top).numbers = (top + 1)..(top + Length(a))
  BY DEF NewEntry

LEMMA DatabaseSteps ==
  ASSUME [Next]_vars
  PROVE  \/ UNCHANGED <<db, ledger>>
         \/ \E a \in Attempts : \E top : Committing(a, top)
         \/ \E purpose \in Purposes : IssueApproval(purpose)
         \/ \E p \in DOMAIN approvals : ExpireApproval(p)
         \/ \E i \in DOMAIN records : HardDelete(i)
         \/ \E k \in DOMAIN saveRequests : AgeRequest(k)
<1>1. CASE UNCHANGED vars
  BY <1>1 DEF vars
<1>2. ASSUME NEW t \in Tabs, \/ \E a \in Attempts, f \in Forms : Save(t, a, f)
                            \/ Deliver(t) \/ Disconnect(t) \/ Reload(t)
      PROVE  UNCHANGED <<db, ledger>>
  BY <1>2 DEF Save, Deliver, Disconnect, Reload
<1>3. ASSUME NEW a \in Attempts, Lookup(a) \/ Check(a) \/ Resolve(a) \/ Refuse(a)
      PROVE  UNCHANGED <<db, ledger>>
  BY <1>3 DEF Lookup, Check, Resolve, Refuse
<1>4. ASSUME NEW a \in Attempts, Transact(a)
      PROVE  UNCHANGED <<db, ledger>> \/ \E top : Committing(a, top)
  BY <1>4, TransactCases
<1> QED
  BY <1>1, <1>2, <1>3, <1>4 DEF Next, Handle

(***************************************************************************)
(* Types of the tables.                                                    *)
(***************************************************************************)
RecordsTyped ==
    /\ nextId \in Nat /\ DOMAIN records \subseteq 1..nextId
    /\ \A i \in DOMAIN records :
          /\ records[i].lot = Lot(records[i].lot.series, records[i].lot.n)
          /\ records[i].lot.n \in Nat \ {0}
          /\ records[i].unacked \in BOOLEAN
    /\ \A l \in retired : l = Lot(l.series, l.n) /\ l.n \in Nat \ {0}

RequestsTyped ==
    /\ DOMAIN saveRequests \subseteq RequestIds
    /\ \A k \in DOMAIN saveRequests :
          /\ saveRequests[k].endpoint \in Endpoints
          /\ saveRequests[k].ids \in SUBSET (1..nextId)
          /\ saveRequests[k].old \in BOOLEAN

ApprovalsTyped ==
    /\ DOMAIN approvals \subseteq 1..MaxApprovals
    /\ \A p \in DOMAIN approvals :
          approvals[p] \in [purpose : Purposes, used : BOOLEAN, expired : BOOLEAN]

LEMMA LengthIsPositive ==
  ASSUME Shape, NEW a \in Attempts, pc[a] = "locking"
  PROVE  Length(a) \in Nat \ {0}
<1>1. req[a].form \in Forms
  BY DEF Shape, Requests
<1> QED
  BY <1>1, FormsAssumption DEF Length

LEMMA NumbersAreNat ==
  ASSUME RecordsTyped, NEW series PROVE Numbers(series) \subseteq Nat \ {0}
  BY DEF RecordsTyped, Numbers

(* What a commit does to the records: the old ones stay, the new ones take *)
(* the ids above nextId and the numbers above top, one each.               *)
LEMMA NewRecords ==
  ASSUME Shape, RecordsTyped, NEW a \in Attempts, NEW top, Committing(a, top)
  PROVE  /\ top \in Nat
         /\ DOMAIN records' = DOMAIN records \cup (nextId + 1)..(nextId + Length(a))
         /\ \A i \in DOMAIN records : records'[i] = records[i]
         /\ \A i \in (nextId + 1)..(nextId + Length(a)) :
               /\ i \notin DOMAIN records
               /\ records'[i].lot = Lot(req[a].form.series, top + (i - nextId))
               /\ records'[i].unacked \in BOOLEAN
<1>1. top \in Nat
  BY NumbersAreNat DEF Committing
<1>2. records' = SaveRecords(req[a].form, nextId, top)
  BY DEF Committing
<1>3. DOMAIN records' = DOMAIN records \cup (nextId + 1)..(nextId + Length(a))
  BY <1>2 DEF SaveRecords, Length
<1>4. \A i \in DOMAIN records : records'[i] = records[i]
  BY <1>2 DEF SaveRecords
<1>5. ASSUME NEW i \in (nextId + 1)..(nextId + Length(a))
      PROVE  /\ i \notin DOMAIN records
             /\ records'[i].lot = Lot(req[a].form.series, top + (i - nextId))
             /\ records'[i].unacked \in BOOLEAN
  <2> DEFINE flag == Absent \in ToSet(req[a].form.events[i - nextId])
             lot == Lot(req[a].form.series, top + (i - nextId))
  <2>1. i \notin DOMAIN records
    <3>1. Length(a) \in Nat /\ nextId \in Nat
      BY LengthIsPositive DEF Committing, RecordsTyped
    <3> QED
      BY <3>1 DEF RecordsTyped
  <2>2. records'[i] = [lot |-> lot, body |-> req[a].form.body, unacked |-> flag]
    BY <1>2, <1>5, <2>1 DEF SaveRecords, Length
  <2>3. flag \in BOOLEAN
    OBVIOUS
  <2> HIDE DEF flag, lot
  <2>4. records'[i].lot = lot /\ records'[i].unacked = flag
    BY <2>2
  <2>5. records'[i].unacked \in BOOLEAN
    BY <2>3, <2>4
  <2> USE DEF lot
  <2> QED
    BY <2>1, <2>4, <2>5
<1> QED
  BY <1>1, <1>3, <1>4, <1>5

LEMMA RecordsTypedStep ==
  ASSUME Shape, RecordsTyped, [Next]_vars PROVE RecordsTyped'
<1>1. CASE UNCHANGED <<db, ledger>>
  BY <1>1 DEF RecordsTyped, db
<1>2. ASSUME NEW a \in Attempts, NEW top, Committing(a, top) PROVE RecordsTyped'
  <2>1. Length(a) \in Nat /\ nextId \in Nat /\ top \in Nat
    BY <1>2, LengthIsPositive, NewRecords DEF Committing, RecordsTyped
  <2>2. nextId' = nextId + Length(a) /\ retired' = retired
    BY <1>2 DEF Committing
  <2>3. DOMAIN records' \subseteq 1..nextId'
    <3>1. DOMAIN records' = DOMAIN records \cup (nextId + 1)..(nextId + Length(a))
      BY <1>2, NewRecords
    <3>2. DOMAIN records \subseteq 1..nextId
      BY DEF RecordsTyped
    <3> QED
      BY <2>1, <2>2, <3>1, <3>2
  <2>4. ASSUME NEW i \in DOMAIN records'
        PROVE  /\ records'[i].lot = Lot(records'[i].lot.series, records'[i].lot.n)
               /\ records'[i].lot.n \in Nat \ {0}
               /\ records'[i].unacked \in BOOLEAN
    <3>1. CASE i \in DOMAIN records
      BY <1>2, <3>1, NewRecords DEF RecordsTyped
    <3>2. CASE i \in (nextId + 1)..(nextId + Length(a))
      <4>1. /\ records'[i].lot = Lot(req[a].form.series, top + (i - nextId))
            /\ records'[i].unacked \in BOOLEAN
        BY <1>2, <3>2, NewRecords
      <4>2. top + (i - nextId) \in Nat \ {0}
        BY <2>1, <3>2
      <4> QED
        BY <4>1, <4>2 DEF Lot
    <3> QED
      BY <1>2, <2>4, <3>1, <3>2, NewRecords
  <2> QED
    BY <2>1, <2>2, <2>3, <2>4 DEF RecordsTyped
<1>3. ASSUME NEW i \in DOMAIN records, HardDelete(i) PROVE RecordsTyped'
  <2>1. /\ records' = [j \in DOMAIN records \ {i} |-> records[j]]
        /\ retired' = retired \cup {records[i].lot}
        /\ nextId' = nextId
    BY <1>3 DEF HardDelete
  <2> QED
    BY <2>1 DEF RecordsTyped
<1>4. CASE \/ \E purpose \in Purposes : IssueApproval(purpose)
           \/ \E p \in DOMAIN approvals : ExpireApproval(p)
           \/ \E k \in DOMAIN saveRequests : AgeRequest(k)
  BY <1>4 DEF RecordsTyped, IssueApproval, ExpireApproval, AgeRequest
<1> QED
  BY <1>1, <1>2, <1>3, <1>4, DatabaseSteps

LEMMA RequestsTypedStep ==
  ASSUME Shape, RecordsTyped, RequestsTyped, [Next]_vars PROVE RequestsTyped'
<1>1. CASE UNCHANGED <<db, ledger>>
  BY <1>1 DEF RequestsTyped, db
<1>2. ASSUME NEW a \in Attempts, NEW top, Committing(a, top) PROVE RequestsTyped'
  <2>1. Length(a) \in Nat /\ nextId \in Nat /\ nextId' = nextId + Length(a)
    BY <1>2, LengthIsPositive DEF Committing, RecordsTyped
  <2>2. req[a].key \in RequestIds /\ req[a].endpoint \in Endpoints
    BY <1>2 DEF Committing, Shape, Requests
  <2>3. PICK row : /\ saveRequests' = Remember(req[a].key, row)
                   /\ row.endpoint = req[a].endpoint /\ row.old = FALSE
                   /\ row.ids = (nextId + 1)..(nextId + Length(a))
    BY <1>2, NewRowFields DEF Committing, NewIds
  <2>4. row.ids \subseteq 1..nextId' /\ 1..nextId \subseteq 1..nextId'
    BY <2>1, <2>3
  <2>5. DOMAIN saveRequests' \subseteq DOMAIN saveRequests \cup {req[a].key}
    BY <2>3 DEF Remember
  <2>6. \A k \in DOMAIN saveRequests' :
          saveRequests'[k] = IF k = req[a].key THEN row ELSE saveRequests[k]
    BY <2>3 DEF Remember
  <2> QED
    BY <2>2, <2>3, <2>4, <2>5, <2>6 DEF RequestsTyped
<1>3. ASSUME NEW k \in DOMAIN saveRequests, AgeRequest(k) PROVE RequestsTyped'
  <2>1. saveRequests' = [saveRequests EXCEPT ![k].old = TRUE] /\ nextId' = nextId
    BY <1>3 DEF AgeRequest
  <2>2. DOMAIN saveRequests' = DOMAIN saveRequests
    BY <2>1
  <2>3. ASSUME NEW j \in DOMAIN saveRequests
        PROVE  /\ saveRequests'[j].endpoint \in Endpoints
               /\ saveRequests'[j].ids \in SUBSET (1..nextId)
               /\ saveRequests'[j].old \in BOOLEAN
    <3>1. CASE j = k
      <4>1. saveRequests'[j] = [saveRequests[k] EXCEPT !.old = TRUE]
        BY <2>1, <3>1
      <4> QED
        BY <4>1, <3>1 DEF RequestsTyped
    <3>2. CASE j # k
      BY <2>1, <3>2 DEF RequestsTyped
    <3> QED
      BY <3>1, <3>2
  <2> QED
    BY <2>1, <2>2, <2>3 DEF RequestsTyped
<1>4. CASE \/ \E purpose \in Purposes : IssueApproval(purpose)
           \/ \E p \in DOMAIN approvals : ExpireApproval(p)
           \/ \E i \in DOMAIN records : HardDelete(i)
  BY <1>4 DEF RequestsTyped, IssueApproval, ExpireApproval, HardDelete
<1> QED
  BY <1>1, <1>2, <1>3, <1>4, DatabaseSteps

LEMMA ApprovalsTypedStep ==
  ASSUME ApprovalsTyped, [Next]_vars PROVE ApprovalsTyped'
<1> DEFINE Approval == [purpose : Purposes, used : BOOLEAN, expired : BOOLEAN]
<1>1. CASE UNCHANGED <<db, ledger>>
  BY <1>1 DEF ApprovalsTyped, db
<1>2. ASSUME NEW a \in Attempts, NEW top, Committing(a, top) PROVE ApprovalsTyped'
  <2>1. approvals' = Consume(req[a].form)
    BY <1>2 DEF Committing
  <2>2. ASSUME NEW p \in DOMAIN approvals
        PROVE  [approvals[p] EXCEPT !.used = TRUE] \in Approval
    BY DEF ApprovalsTyped
  <2>3. DOMAIN approvals' = DOMAIN approvals
    BY <2>1 DEF Consume
  <2>4. \A p \in DOMAIN approvals :
          approvals'[p] = IF p \in Spent(req[a].form)
                          THEN [approvals[p] EXCEPT !.used = TRUE] ELSE approvals[p]
    BY <2>1 DEF Consume
  <2> HIDE DEF Approval
  <2>5. \A p \in DOMAIN approvals : approvals[p] \in Approval
    BY DEF ApprovalsTyped, Approval
  <2>6. \A p \in DOMAIN approvals' : approvals'[p] \in Approval
    BY <2>2, <2>3, <2>4, <2>5
  <2> QED
    BY <2>3, <2>6 DEF ApprovalsTyped, Approval
<1>3. ASSUME NEW purpose \in Purposes, IssueApproval(purpose) PROVE ApprovalsTyped'
  BY <1>3 DEF ApprovalsTyped, IssueApproval
<1>4. ASSUME NEW p \in DOMAIN approvals, ExpireApproval(p) PROVE ApprovalsTyped'
  <2>1. approvals' = [approvals EXCEPT ![p] = [approvals[p] EXCEPT !.expired = TRUE]]
    BY <1>4 DEF ExpireApproval
  <2>2. [approvals[p] EXCEPT !.expired = TRUE] \in Approval
    BY DEF ApprovalsTyped
  <2> QED
    BY <2>1, <2>2 DEF ApprovalsTyped
<1>5. CASE \/ \E i \in DOMAIN records : HardDelete(i)
           \/ \E k \in DOMAIN saveRequests : AgeRequest(k)
  BY <1>5 DEF ApprovalsTyped, HardDelete, AgeRequest
<1> QED
  BY <1>1, <1>2, <1>3, <1>4, <1>5, DatabaseSteps

Typed == Shape /\ RecordsTyped /\ RequestsTyped /\ ApprovalsTyped

LEMMA TypedInvariant == Spec => []Typed
<1>1. Init => Typed
  <2> SUFFICES ASSUME Init PROVE Typed
    OBVIOUS
  <2>1. Shape
    BY ShapeInit
  <2>2. /\ DOMAIN records = {} /\ nextId = 0 /\ retired = {}
        /\ DOMAIN saveRequests = {} /\ DOMAIN approvals = {}
    BY DEF Init
  <2> QED
    BY <2>1, <2>2 DEF Typed, RecordsTyped, RequestsTyped, ApprovalsTyped
<1>2. Typed /\ [Next]_vars => Typed'
  BY ShapeStep, RecordsTypedStep, RequestsTypedStep, ApprovalsTypedStep DEF Typed
<1> QED
  BY <1>1, <1>2, PTL DEF Spec

(* Every table and every request keeps its type, whatever the screens, the *)
(* network, the manager and the clock do.                                  *)
THEOREM TypesHold == Spec => []TypeOK
<1>1. Typed => TypeOK
  BY DEF Typed, TypeOK, Shape, RecordsTyped, RequestsTyped, ApprovalsTyped, Requests
<1> QED
  BY <1>1, TypedInvariant, PTL

(***************************************************************************)
(* Product LOTs.  LotsNeverReused is inductive together with the fact that *)
(* every number a save took is still in sight of generate_product_lot:     *)
(* its record exists, or its LOT was retired when the record was deleted.  *)
(***************************************************************************)
NumbersRemembered ==
    \A a \in Committed : \A series :
        ledger[a].series = series => ledger[a].numbers \subseteq Numbers(series)

LotsInv == NumbersRemembered /\ LotsNeverReused

(* A commit forgets no number and remembers the new ones.                  *)
LEMMA CommitNumbers ==
  ASSUME Shape, RecordsTyped, NEW a \in Attempts, NEW top, Committing(a, top)
  PROVE  \A series :
           /\ Numbers(series) \subseteq Numbers(series)'
           /\ series = req[a].form.series
                => (top + 1)..(top + Length(a)) \subseteq Numbers(series)'
<1> DEFINE new == (nextId + 1)..(nextId + Length(a))
<1>1. Length(a) \in Nat /\ nextId \in Nat /\ top \in Nat /\ retired' = retired
  BY LengthIsPositive, NewRecords DEF Committing, RecordsTyped
<1>2. ASSUME NEW series PROVE Numbers(series) \subseteq Numbers(series)'
  <2>1. ASSUME NEW i \in DOMAIN records PROVE i \in DOMAIN records' /\ records'[i] = records[i]
    BY NewRecords
  <2> QED
    BY <1>1, <2>1 DEF Numbers
<1>3. ASSUME NEW series, series = req[a].form.series,
             NEW n \in (top + 1)..(top + Length(a))
      PROVE  n \in Numbers(series)'
  <2> DEFINE i == nextId + (n - top)
  <2>1. i \in new /\ top + (i - nextId) = n
    BY <1>1
  <2>2. i \in DOMAIN records' /\ records'[i].lot = Lot(series, n)
    BY <1>3, <2>1, NewRecords
  <2>3. records'[i].lot.series = series /\ records'[i].lot.n = n
    BY <2>2 DEF Lot
  <2> HIDE DEF i
  <2> QED
    BY <2>2, <2>3 DEF Numbers
<1> QED
  BY <1>2, <1>3

(* The new numbers are above every number of their series.                 *)
LEMMA NewNumbersAreNew ==
  ASSUME Shape, RecordsTyped, NEW a \in Attempts, NEW top, Committing(a, top),
         NEW n \in (top + 1)..(top + Length(a))
  PROVE  n \notin Numbers(req[a].form.series)
<1>1. top \in Nat /\ Length(a) \in Nat
  BY LengthIsPositive, NewRecords DEF Committing
<1>2. \A m \in Numbers(req[a].form.series) : m \in Nat /\ m <= top
  BY NumbersAreNat DEF Committing, IsTop
<1> QED
  BY <1>1, <1>2

LEMMA LotsCommit ==
  ASSUME Shape, RecordsTyped, LotsInv, NEW a \in Attempts, NEW top, Committing(a, top)
  PROVE  LotsInv'
<1> DEFINE taken == (top + 1)..(top + Length(a))
<1>0. PICK series : series = req[a].form.series
  OBVIOUS
<1>1. PICK entry : /\ ledger' = [ledger EXCEPT ![a] = entry]
                   /\ entry.series = series /\ entry.numbers = taken
  BY <1>0, NewEntryFields DEF Committing
<1>2. \A b \in Committed' : b # a => b \in Committed /\ ledger'[b] = ledger[b]
  BY <1>1 DEF Committed
<1>3. ledger'[a].series = series /\ ledger'[a].numbers = taken
  BY <1>1 DEF Shape
<1>4. \A n \in taken : n \notin Numbers(series)
  BY <1>0, NewNumbersAreNew
<1> HIDE DEF taken
<1>5. NumbersRemembered'
  <2>1. ASSUME NEW b \in Committed', NEW s, ledger'[b].series = s
        PROVE  ledger'[b].numbers \subseteq Numbers(s)'
    <3>1. CASE b = a
      BY <1>0, <1>3, <2>1, <3>1, CommitNumbers DEF taken
    <3>2. CASE b # a
      <4>1. ledger[b].numbers \subseteq Numbers(s) /\ ledger'[b] = ledger[b]
        BY <1>2, <2>1, <3>2 DEF LotsInv, NumbersRemembered
      <4>2. Numbers(s) \subseteq Numbers(s)'
        BY CommitNumbers
      <4> QED
        BY <4>1, <4>2
    <3> QED
      BY <3>1, <3>2
  <2> QED
    BY <2>1 DEF NumbersRemembered
<1>6. ASSUME NEW b \in Committed', NEW c \in Committed', b # c,
             ledger'[b].series = ledger'[c].series
      PROVE  ledger'[b].numbers \cap ledger'[c].numbers = {}
  <2>1. CASE b # a /\ c # a
    BY <1>2, <1>6, <2>1 DEF LotsInv, LotsNeverReused
  <2>2. ASSUME NEW d \in Committed', d # a, ledger'[d].series = series
        PROVE  ledger'[d].numbers \cap taken = {}
    <3>1. ledger'[d].numbers \subseteq Numbers(series)
      BY <1>2, <2>2 DEF LotsInv, NumbersRemembered
    <3> QED
      BY <1>4, <3>1
  <2> QED
    BY <1>3, <1>6, <2>1, <2>2
<1>7. ASSUME NEW i \in DOMAIN records', i \notin DOMAIN records
      PROVE  /\ i - nextId \in 1..Length(a) /\ i \in Nat
             /\ records'[i].lot = Lot(series, top + (i - nextId))
             /\ top + (i - nextId) \notin Numbers(series)
  <2>1. i \in (nextId + 1)..(nextId + Length(a))
    BY <1>7, NewRecords
  <2>2. Length(a) \in Nat /\ nextId \in Nat /\ top \in Nat
    BY LengthIsPositive, NewRecords DEF Committing, RecordsTyped
  <2>3. records'[i].lot = Lot(series, top + (i - nextId))
    BY <1>0, <2>1, NewRecords
  <2>4. i - nextId \in 1..Length(a) /\ i \in Nat /\ top + (i - nextId) \in taken
    BY <2>1, <2>2 DEF taken
  <2> QED
    BY <1>4, <2>3, <2>4
<1>8. \A i \in DOMAIN records : records'[i] = records[i]
  BY NewRecords
<1>9. ASSUME NEW i \in DOMAIN records, NEW n, records[i].lot = Lot(series, n)
      PROVE  n \in Numbers(series)
  BY <1>9 DEF Numbers, Lot
<1>10. ASSUME NEW i \in DOMAIN records', NEW j \in DOMAIN records',
              records'[i].lot = records'[j].lot
       PROVE  i = j
  <2>1. CASE i \in DOMAIN records /\ j \in DOMAIN records
    <3>1. records[i].lot = records[j].lot
      BY <1>8, <1>10, <2>1
    <3> QED
      BY <2>1, <3>1 DEF LotsInv, LotsNeverReused
  <2>2. CASE i \notin DOMAIN records /\ j \notin DOMAIN records
    <3>1. nextId \in Nat /\ top \in Nat
      BY NewRecords DEF RecordsTyped
    <3>2. Lot(series, top + (i - nextId)) = Lot(series, top + (j - nextId))
      BY <1>7, <1>10, <2>2
    <3>3. top + (i - nextId) = top + (j - nextId)
      BY <3>2 DEF Lot
    <3>4. i \in Nat /\ j \in Nat
      BY <1>7, <2>2
    <3> QED
      BY <3>1, <3>3, <3>4
  <2>3. ASSUME NEW k \in DOMAIN records', NEW l \in DOMAIN records,
               k \notin DOMAIN records, records'[k].lot = records'[l].lot
        PROVE  FALSE
    <3>1. records[l].lot = Lot(series, top + (k - nextId))
      BY <1>7, <1>8, <2>3
    <3> QED
      BY <1>7, <1>9, <2>3, <3>1
  <2>4. CASE i \in DOMAIN records /\ j \notin DOMAIN records
    BY <1>10, <2>3, <2>4
  <2>5. CASE i \notin DOMAIN records /\ j \in DOMAIN records
    BY <1>10, <2>3, <2>5
  <2> QED
    BY <2>1, <2>2, <2>4, <2>5
<1>11. ASSUME NEW i \in DOMAIN records' PROVE records'[i].lot \notin retired'
  <2>1. retired' = retired
    BY DEF Committing
  <2>2. CASE i \in DOMAIN records
    <3>1. records[i].lot \notin retired
      BY <2>2 DEF LotsInv, LotsNeverReused
    <3> QED
      BY <1>8, <2>1, <2>2, <3>1
  <2>3. CASE i \notin DOMAIN records
    <3>1. ASSUME NEW n, Lot(series, n) \in retired PROVE n \in Numbers(series)
      BY <3>1 DEF Numbers, Lot
    <3> QED
      BY <1>7, <2>1, <2>3, <3>1
  <2> QED
    BY <2>2, <2>3
<1>12. LotsNeverReused'
  BY <1>6, <1>10, <1>11 DEF LotsNeverReused
<1> QED
  BY <1>5, <1>12 DEF LotsInv

LEMMA LotsDelete ==
  ASSUME LotsInv, NEW i \in DOMAIN records, HardDelete(i) PROVE LotsInv'
<1>1. /\ records' = [j \in DOMAIN records \ {i} |-> records[j]]
      /\ retired' = retired \cup {records[i].lot}
      /\ ledger' = ledger
  BY DEF HardDelete
<1>2. Committed' = Committed
  BY <1>1 DEF Committed
<1>3. ASSUME NEW series PROVE Numbers(series) \subseteq Numbers(series)'
  <2>1. ASSUME NEW j \in DOMAIN records, records[j].lot.series = series
        PROVE  records[j].lot.n \in Numbers(series)'
    <3>1. CASE j = i
      BY <1>1, <2>1, <3>1 DEF Numbers
    <3>2. CASE j # i
      BY <1>1, <2>1, <3>2 DEF Numbers
    <3> QED
      BY <3>1, <3>2
  <2>2. ASSUME NEW l \in retired, l.series = series PROVE l.n \in Numbers(series)'
    BY <1>1, <2>2 DEF Numbers
  <2> QED
    BY <2>1, <2>2 DEF Numbers
<1>4. NumbersRemembered'
  BY <1>1, <1>2, <1>3 DEF LotsInv, NumbersRemembered
<1>5. LotsNeverReused'
  BY <1>1, <1>2 DEF LotsInv, LotsNeverReused
<1> QED
  BY <1>4, <1>5 DEF LotsInv

LEMMA LotsStep ==
  ASSUME Typed, LotsInv, [Next]_vars PROVE LotsInv'
<1>1. CASE UNCHANGED <<records, retired, ledger>>
  BY <1>1 DEF LotsInv, NumbersRemembered, LotsNeverReused, Numbers, Committed
<1>2. ASSUME NEW a \in Attempts, NEW top, Committing(a, top) PROVE LotsInv'
  BY <1>2, LotsCommit DEF Typed
<1>3. ASSUME NEW i \in DOMAIN records, HardDelete(i) PROVE LotsInv'
  BY <1>3, LotsDelete
<1>4. CASE UNCHANGED <<db, ledger>>
  BY <1>1, <1>4 DEF db
<1>5. CASE \/ \E purpose \in Purposes : IssueApproval(purpose)
           \/ \E p \in DOMAIN approvals : ExpireApproval(p)
           \/ \E k \in DOMAIN saveRequests : AgeRequest(k)
  BY <1>1, <1>5 DEF IssueApproval, ExpireApproval, AgeRequest
<1> QED
  BY <1>2, <1>3, <1>4, <1>5, DatabaseSteps

LEMMA LotsInvariant == Spec => []LotsInv
<1>1. Init => LotsInv
  BY DEF Init, LotsInv, NumbersRemembered, LotsNeverReused, Committed
<1>2. Typed /\ LotsInv /\ [Next]_vars => LotsInv'
  BY LotsStep
<1> QED
  BY <1>1, <1>2, TypedInvariant, PTL DEF Spec

(* A product LOT names one record for ever, over any number of saves,      *)
(* resends and deletions: no two saves, no two records and no deleted      *)
(* record share one.                                                       *)
THEOREM LotsAreNeverReused == Spec => []LotsNeverReused
<1>1. LotsInv => LotsNeverReused
  BY DEF LotsInv
<1> QED
  BY <1>1, LotsInvariant, PTL

(***************************************************************************)
(* Keys.  A key that saved is either still in blend_save_requests, where   *)
(* it stops a second save, or nobody uses it any more; a row is dropped    *)
(* only when it is past its retention, and such a row's key is idle.       *)
(***************************************************************************)
Idle(k) == /\ k # None
           /\ \A t \in Tabs : tab[t].key # k
           /\ \A a \in Attempts : pc[a] \notin {"unused", "done"} => req[a].key # k

SavesOwnKey    == \A a \in Committed : pc[a] = "done" /\ ledger[a].key = req[a].key
KeyKeptOrIdle  == \A a \in Committed : \A k :
                    ledger[a].key = k => k \in DOMAIN saveRequests \/ Idle(k)
OldKeysIdle    == \A k \in DOMAIN saveRequests : saveRequests[k].old = TRUE => Idle(k)
KeysWereDrawn  == \A k \in DOMAIN saveRequests :
                    \E a \in Attempts : pc[a] # "unused" /\ req[a].key = k

KeysInv == /\ SavesOwnKey /\ KeyKeptOrIdle /\ OldKeysIdle /\ KeysWereDrawn
           /\ OneSavePerKey

(* Only Save brings a key into use; every other step leaves idle keys idle.*)
Quiet == /\ req' = req
         /\ \A k : Idle(k) => Idle(k)'
         /\ \A a \in Attempts : pc[a] = "done" => pc'[a] = "done"
         /\ \A a \in Attempts : pc[a] # "unused" => pc'[a] # "unused"

LEMMA TabQuiet ==
  ASSUME Shape, NEW t \in Tabs, Deliver(t) \/ Disconnect(t) \/ Reload(t) PROVE Quiet
<1>1. UNCHANGED <<pc, req>>
  BY DEF Deliver, Disconnect, Reload
<1>2. ASSUME NEW s \in Tabs PROVE tab'[s].key \in {tab[s].key, None}
  <2>1. CASE s # t
    BY <2>1 DEF Deliver, Disconnect, Reload, Shape
  <2>2. CASE s = t
    <3>1. tab[t] \in [blend : Nat, key : RequestIds \cup {None}, waits : Attempts \cup {None}]
      BY DEF Shape
    <3>2. \E row : tab' = [tab EXCEPT ![t] = row] /\ row.key \in {tab[t].key, None}
      <4>1. NextBlend(t).key = None
        BY DEF NextBlend
      <4>2. [tab[t] EXCEPT !.waits = None].key = tab[t].key
        BY <3>1
      <4>3. [tab[t] EXCEPT !.key = None, !.waits = None].key = None
        BY <3>1
      <4>4. CASE Deliver(t)
        BY <4>1, <4>2, <4>4 DEF Deliver
      <4>5. CASE Disconnect(t)
        BY <4>2, <4>5 DEF Disconnect
      <4>6. CASE Reload(t)
        BY <4>1, <4>3, <4>6 DEF Reload
      <4> QED
        BY <4>4, <4>5, <4>6
    <3> QED
      BY <2>2, <3>2 DEF Shape
  <2> QED
    BY <2>1, <2>2
<1> QED
  BY <1>1, <1>2 DEF Quiet, Idle

LEMMA RequestQuiet ==
  ASSUME Shape, NEW a \in Attempts, Handle(a) \/ Refuse(a) PROVE Quiet
<1>1. UNCHANGED <<tab, req>>
  <2>1. CASE Lookup(a) \/ Check(a) \/ Resolve(a) \/ Refuse(a)
    BY <2>1 DEF Refuse, Lookup, Check, Resolve
  <2>2. CASE Transact(a)
    BY <2>2 DEF Transact
  <2> QED
    BY <2>1, <2>2 DEF Handle
<1>2. pc[a] \notin {"unused", "done"}
  BY DEF Handle, Refuse, Lookup, Check, Transact, Resolve
<1>3. \E label \in {"received", "checking", "locking", "resolving", "done"} :
         pc' = [pc EXCEPT ![a] = label]
  <2>1. CASE Lookup(a)
    BY <2>1 DEF Lookup, Answer, Goto
  <2>2. CASE Check(a)
    BY <2>2 DEF Check, Answer, Goto
  <2>3. CASE Transact(a)
    BY <2>3 DEF Transact, Answer, Goto
  <2>4. CASE Resolve(a) \/ Refuse(a)
    BY <2>4 DEF Resolve, Refuse, Answer
  <2> QED
    BY <2>1, <2>2, <2>3, <2>4 DEF Handle
<1>4. \A b \in Attempts : b # a => pc'[b] = pc[b]
  BY <1>3 DEF Shape
<1>5. pc'[a] # "unused"
  BY <1>3 DEF Shape
<1> QED
  BY <1>1, <1>2, <1>4, <1>5 DEF Quiet, Idle

LEMMA QuietSteps ==
  ASSUME Shape, [Next]_vars
  PROVE  Quiet \/ \E t \in Tabs, a \in Attempts, f \in Forms : Save(t, a, f)
<1>1. CASE UNCHANGED <<tab, pc, req>>
  BY <1>1 DEF Quiet, Idle
<1>2. CASE UNCHANGED vars
  BY <1>1, <1>2 DEF vars
<1>3. CASE \/ \E purpose \in Purposes : IssueApproval(purpose)
           \/ \E p \in DOMAIN approvals : ExpireApproval(p)
           \/ \E i \in DOMAIN records : HardDelete(i)
           \/ \E k \in DOMAIN saveRequests : AgeRequest(k)
  BY <1>1, <1>3 DEF IssueApproval, ExpireApproval, HardDelete, AgeRequest
<1> QED
  BY <1>2, <1>3, TabQuiet, RequestQuiet DEF Next

LEMMA KeysSave ==
  ASSUME Typed, KeysInv, NEW t \in Tabs, NEW a \in Attempts, NEW f \in Forms, Save(t, a, f)
  PROVE  KeysInv'
<1>1. PICK k \in RequestIds :
        /\ IF tab[t].key = None
           THEN \A b \in Attempts : pc[b] # "unused" => req[b].key # k
           ELSE k = tab[t].key
        /\ tab' = [tab EXCEPT ![t].key = k, ![t].waits = a]
        /\ req' = [req EXCEPT ![a] = [key |-> k, endpoint |-> Screen[t],
                                      form |-> f, blend |-> <<t, tab[t].blend>>]]
  BY DEF Save
<1>2. /\ pc[a] = "unused" /\ pc' = [pc EXCEPT ![a] = "received"]
      /\ UNCHANGED <<saveRequests, ledger>>
  BY DEF Save, db
<1>3. /\ req'[a].key = k /\ pc'[a] = "received"
      /\ \A b \in Attempts : b # a => req'[b] = req[b] /\ pc'[b] = pc[b]
  BY <1>1, <1>2 DEF Typed, Shape
<1>4. \A s \in Tabs : tab'[s].key \in {tab[s].key, k}
  BY <1>1 DEF Typed, Shape
<1>5. Committed' = Committed /\ a \notin Committed
  BY <1>2 DEF KeysInv, SavesOwnKey, Committed
<1>6. ASSUME NEW j, Idle(j), \E b \in Attempts : pc[b] # "unused" /\ req[b].key = j
      PROVE  Idle(j)'
  <2>1. j # k
    BY <1>1, <1>6 DEF Idle
  <2> QED
    BY <1>3, <1>4, <1>6, <2>1 DEF Idle
<1>7. SavesOwnKey'
  BY <1>2, <1>3, <1>5 DEF KeysInv, SavesOwnKey, Committed
<1>8. KeysWereDrawn'
  <2> SUFFICES ASSUME NEW j \in DOMAIN saveRequests
               PROVE  \E b \in Attempts : pc'[b] # "unused" /\ req'[b].key = j
    BY <1>2 DEF KeysWereDrawn
  <2>1. PICK b \in Attempts : pc[b] # "unused" /\ req[b].key = j
    BY DEF KeysInv, KeysWereDrawn
  <2> QED
    BY <1>2, <1>3, <2>1
<1>9. OldKeysIdle'
  BY <1>2, <1>6 DEF KeysInv, OldKeysIdle, KeysWereDrawn
<1>10. KeyKeptOrIdle'
  <2> SUFFICES ASSUME NEW b \in Committed, NEW j, ledger[b].key = j, Idle(j)
               PROVE  Idle(j)'
    BY <1>2, <1>5 DEF KeysInv, KeyKeptOrIdle
  <2>1. b \in Attempts /\ pc[b] = "done" /\ req[b].key = j
    BY DEF KeysInv, SavesOwnKey, Committed
  <2> QED
    BY <1>6, <2>1
<1>11. OneSavePerKey'
  BY <1>2, <1>5 DEF KeysInv, OneSavePerKey
<1> QED
  BY <1>7, <1>8, <1>9, <1>10, <1>11 DEF KeysInv

LEMMA KeysCommit ==
  ASSUME Typed, KeysInv, Quiet, NEW a \in Attempts, NEW top, Committing(a, top)
  PROVE  KeysInv'
<1>1. PICK row : saveRequests' = Remember(req[a].key, row) /\ row.old = FALSE
  BY NewRowFields DEF Committing
<1>2. PICK entry : ledger' = [ledger EXCEPT ![a] = entry] /\ entry.key = req[a].key
  BY NewEntryFields DEF Committing
<1>3. /\ pc[a] = "locking" /\ req[a].key \notin DOMAIN saveRequests
      /\ pc' = [pc EXCEPT ![a] = "done"] /\ req' = req
  BY DEF Committing
<1>4. /\ ledger'[a].key = req[a].key /\ pc'[a] = "done"
      /\ \A b \in Committed' : b # a => b \in Committed /\ ledger'[b] = ledger[b]
  BY <1>2, <1>3 DEF Typed, Shape, Committed
<1>5. ~Idle(req[a].key)
  BY <1>3 DEF Idle
<1>6. DOMAIN saveRequests' = {j \in DOMAIN saveRequests : ~saveRequests[j].old}
                             \cup {req[a].key}
  BY <1>1 DEF Remember
<1>7. \A k \in DOMAIN saveRequests' :
         saveRequests'[k] = IF k = req[a].key THEN row ELSE saveRequests[k]
  BY <1>1 DEF Remember
<1>8. ASSUME NEW k \in DOMAIN saveRequests, k \notin DOMAIN saveRequests'
      PROVE  Idle(k)
  <2>1. saveRequests[k].old = TRUE
    BY <1>6, <1>8 DEF Typed, RequestsTyped
  <2> QED
    BY <2>1 DEF KeysInv, OldKeysIdle
<1>9. SavesOwnKey'
  BY <1>3, <1>4 DEF KeysInv, SavesOwnKey, Quiet, Committed
<1>10. KeyKeptOrIdle'
  <2> SUFFICES ASSUME NEW b \in Committed', NEW k, ledger'[b].key = k,
                      k \notin DOMAIN saveRequests'
               PROVE  Idle(k)'
    BY DEF KeyKeptOrIdle
  <2>1. b # a
    BY <1>4, <1>6
  <2>2. k \in DOMAIN saveRequests \/ Idle(k)
    BY <1>4, <2>1 DEF KeysInv, KeyKeptOrIdle
  <2> QED
    BY <1>8, <2>2 DEF Quiet
<1>11. OldKeysIdle'
  <2> SUFFICES ASSUME NEW k \in DOMAIN saveRequests', saveRequests'[k].old = TRUE
               PROVE  Idle(k)'
    BY DEF OldKeysIdle
  <2>1. k # req[a].key /\ k \in DOMAIN saveRequests /\ saveRequests[k].old = TRUE
    BY <1>1, <1>6, <1>7
  <2> QED
    BY <2>1 DEF KeysInv, OldKeysIdle, Quiet
<1>12. KeysWereDrawn'
  <2> SUFFICES ASSUME NEW k \in DOMAIN saveRequests'
               PROVE  \E b \in Attempts : pc'[b] # "unused" /\ req'[b].key = k
    BY DEF KeysWereDrawn
  <2>1. CASE k = req[a].key
    BY <1>3, <1>4, <2>1
  <2>2. CASE k \in DOMAIN saveRequests
    BY <1>3, <2>2 DEF KeysInv, KeysWereDrawn, Quiet
  <2> QED
    BY <1>6, <2>1, <2>2
<1>13. OneSavePerKey'
  <2>1. \A b \in Committed : ledger[b].key # req[a].key
    BY <1>3, <1>5 DEF KeysInv, KeyKeptOrIdle
  <2> SUFFICES ASSUME NEW b \in Committed', NEW c \in Committed',
                      ledger'[b].key = ledger'[c].key
               PROVE  b = c
    BY DEF OneSavePerKey
  <2>2. CASE b # a /\ c # a
    BY <1>4, <2>2 DEF KeysInv, OneSavePerKey
  <2>3. CASE b = a \/ c = a
    BY <1>4, <2>1, <2>3
  <2> QED
    BY <2>2, <2>3
<1> QED
  BY <1>9, <1>10, <1>11, <1>12, <1>13 DEF KeysInv

LEMMA KeysAge ==
  ASSUME Typed, KeysInv, Quiet, NEW k \in DOMAIN saveRequests, AgeRequest(k)
  PROVE  KeysInv'
<1>1. /\ saveRequests' = [saveRequests EXCEPT ![k].old = TRUE]
      /\ UNCHANGED <<tab, pc, req, ledger>> /\ Idle(k)
  BY NoneAssumption DEF AgeRequest, Idle, Typed, RequestsTyped
<1>2. /\ DOMAIN saveRequests' = DOMAIN saveRequests /\ Committed' = Committed
      /\ \A j \in DOMAIN saveRequests : j # k => saveRequests'[j] = saveRequests[j]
  BY <1>1 DEF Committed
<1>3. OldKeysIdle'
  BY <1>1, <1>2 DEF KeysInv, OldKeysIdle, Quiet
<1>4. SavesOwnKey' /\ KeysWereDrawn' /\ OneSavePerKey'
  BY <1>1, <1>2 DEF KeysInv, SavesOwnKey, KeysWereDrawn, OneSavePerKey
<1>5. KeyKeptOrIdle'
  BY <1>1, <1>2 DEF KeysInv, KeyKeptOrIdle, Quiet
<1> QED
  BY <1>3, <1>4, <1>5 DEF KeysInv

LEMMA KeysQuiet ==
  ASSUME KeysInv, Quiet, UNCHANGED <<saveRequests, ledger>> PROVE KeysInv'
<1>1. Committed' = Committed /\ req' = req
  BY DEF Committed, Quiet
<1>2. SavesOwnKey' /\ OneSavePerKey'
  BY <1>1 DEF KeysInv, SavesOwnKey, OneSavePerKey, Quiet, Committed
<1>3. KeysWereDrawn'
  BY <1>1 DEF KeysInv, KeysWereDrawn, Quiet
<1>4. OldKeysIdle' /\ KeyKeptOrIdle'
  BY <1>1 DEF KeysInv, OldKeysIdle, KeyKeptOrIdle, Quiet
<1> QED
  BY <1>2, <1>3, <1>4 DEF KeysInv

LEMMA KeysStep ==
  ASSUME Typed, KeysInv, [Next]_vars PROVE KeysInv'
<1>1. ASSUME NEW t \in Tabs, NEW a \in Attempts, NEW f \in Forms, Save(t, a, f)
      PROVE  KeysInv'
  BY <1>1, KeysSave
<1>2. ASSUME Quiet PROVE KeysInv'
  <2>1. CASE UNCHANGED <<db, ledger>>
    BY <1>2, <2>1, KeysQuiet DEF db
  <2>2. ASSUME NEW a \in Attempts, NEW top, Committing(a, top) PROVE KeysInv'
    BY <1>2, <2>2, KeysCommit
  <2>3. ASSUME NEW k \in DOMAIN saveRequests, AgeRequest(k) PROVE KeysInv'
    BY <1>2, <2>3, KeysAge
  <2>4. CASE \/ \E purpose \in Purposes : IssueApproval(purpose)
             \/ \E p \in DOMAIN approvals : ExpireApproval(p)
             \/ \E i \in DOMAIN records : HardDelete(i)
    BY <1>2, <2>4, KeysQuiet DEF IssueApproval, ExpireApproval, HardDelete
  <2> QED
    BY <2>1, <2>2, <2>3, <2>4, DatabaseSteps
<1> QED
  BY <1>1, <1>2, QuietSteps DEF Typed

LEMMA KeysInvariant == Spec => []KeysInv
<1>1. Init => KeysInv
  BY DEF Init, KeysInv, SavesOwnKey, KeyKeptOrIdle, OldKeysIdle, KeysWereDrawn,
         OneSavePerKey, Committed
<1>2. Typed /\ KeysInv /\ [Next]_vars => KeysInv'
  BY KeysStep
<1> QED
  BY <1>1, <1>2, TypedInvariant, PTL DEF Spec

(* A key saves at most once, with any number of screens, requests in       *)
(* flight, resends, reloads and deletions, and although the table of keys  *)
(* is cleaned.                                                             *)
THEOREM KeySavesOnce == Spec => []OneSavePerKey
<1>1. KeysInv => OneSavePerKey
  BY DEF KeysInv
<1> QED
  BY <1>1, KeysInvariant, PTL

(***************************************************************************)
(* The answers and the approvals of a save: a worker is told of the own    *)
(* save and never of one with other figures, approvals are spent by saves  *)
(* and stay closed, and the handlers implement the ledger.                 *)
(***************************************************************************)

(* What the type invariant does not say of the histories and answers.      *)
Histories == DOMAIN resp = Attempts /\ DOMAIN before = Attempts

(***************************************************************************)
(* The steps by what they do to the requests.  Outside a request only the  *)
(* screens, the manager and the clock move; a request goes on to its next  *)
(* label, fails, is told of an earlier save, or commits one of its own.    *)
(***************************************************************************)
PriorOf(a) == Prior(req[a].key, req[a].endpoint)

Outside == UNCHANGED <<pc, req, resp, ledger, before>>

GoesOn(a, label) ==
    /\ pc' = [pc EXCEPT ![a] = label]
    /\ \/ /\ label = "checking" /\ pc[a] = "received"
          /\ \/ PriorOf(a) = {}
             \/ req[a].endpoint = "single" /\ ~(PriorOf(a) \subseteq DOMAIN records)
       \/ /\ label = "locking" /\ pc[a] = "checking"
          /\ Spends(req[a].form) # <<>> => SpendValid(req[a].form, 1)
       \/ label = "resolving" /\ pc[a] = "locking" /\ AlreadySaved(req[a].key)
    /\ UNCHANGED <<db, tab, req, resp, ledger, before>>

Fails(a) ==
    /\ pc[a] \notin {"unused", "done"} /\ pc' = [pc EXCEPT ![a] = "done"]
    /\ \E n \in {400, 409, 500} : resp' = [resp EXCEPT ![a] = Error(n)]
    /\ UNCHANGED <<db, tab, req, ledger, before>>

Retells(a) ==
    /\ pc[a] \in {"received", "resolving"} /\ pc' = [pc EXCEPT ![a] = "done"]
    /\ PriorOf(a) # {} /\ resp' = [resp EXCEPT ![a] = Ok(PriorOf(a))]
    /\ pc[a] = "received" => SameFigures(req[a])
    /\ pc[a] = "resolving" => \/ req[a].endpoint # "single"
                              \/ PriorOf(a) \subseteq DOMAIN records
    /\ UNCHANGED <<db, tab, req, ledger, before>>

LEMMA LookupCases ==
  ASSUME NEW a \in Attempts, Lookup(a)
  PROVE  GoesOn(a, "checking") \/ Fails(a) \/ Retells(a)
<1>1. pc[a] = "received" /\ UNCHANGED <<db, tab, req, ledger, before>>
  BY DEF Lookup
<1>2. CASE PriorOf(a) = {}
  <2>1. Goto(a, "checking")
    BY <1>2 DEF Lookup, PriorOf
  <2> QED
    BY <1>1, <1>2, <2>1 DEF GoesOn, Goto
<1>3. CASE PriorOf(a) # {} /\ ~(PriorOf(a) \subseteq DOMAIN records)
  <2>1. CASE req[a].endpoint = "single"
    <3>1. Goto(a, "checking")
      BY <1>3, <2>1 DEF Lookup, PriorOf
    <3> QED
      BY <1>1, <1>3, <2>1, <3>1 DEF GoesOn, Goto
  <2>2. CASE req[a].endpoint # "single"
    <3>1. Answer(a, Error(500))
      BY <1>3, <2>2 DEF Lookup, PriorOf
    <3> QED
      BY <1>1, <3>1 DEF Fails, Answer
  <2> QED
    BY <2>1, <2>2
<1>4. CASE PriorOf(a) # {} /\ PriorOf(a) \subseteq DOMAIN records
  <2>1. Answer(a, IF SameFigures(req[a]) THEN Ok(PriorOf(a)) ELSE Error(409))
    BY <1>4 DEF Lookup, PriorOf
  <2>2. CASE SameFigures(req[a])
    BY <1>1, <1>4, <2>1, <2>2 DEF Retells, Answer
  <2>3. CASE ~SameFigures(req[a])
    BY <1>1, <2>1, <2>3 DEF Fails, Answer
  <2> QED
    BY <2>2, <2>3
<1> QED
  BY <1>2, <1>3, <1>4

LEMMA RequestCases ==
  ASSUME NEW a \in Attempts, Handle(a) \/ Refuse(a)
  PROVE  \/ \E label : GoesOn(a, label)
         \/ Fails(a) \/ Retells(a)
         \/ \E top : Committing(a, top)
<1>1. CASE Lookup(a)
  BY <1>1, LookupCases
<1>2. CASE Check(a)
  <2>1. pc[a] = "checking" /\ UNCHANGED <<db, tab, req, ledger, before>>
    BY <1>2 DEF Check
  <2>2. CASE Answer(a, Error(400))
    BY <2>1, <2>2 DEF Fails, Answer
  <2>3. CASE /\ Goto(a, "locking")
             /\ Spends(req[a].form) # <<>> => SpendValid(req[a].form, 1)
    BY <2>1, <2>3 DEF GoesOn, Goto
  <2> QED
    BY <1>2, <2>2, <2>3 DEF Check
<1>3. CASE Transact(a)
  <2>1. pc[a] = "locking" /\ UNCHANGED <<tab, req, before>>
    BY <1>3 DEF Transact
  <2>2. CASE ~ApprovalsHold(req[a].form)
    <3>1. Answer(a, Error(400)) /\ Rollback(a)
      BY <1>3, <2>2 DEF Transact
    <3> QED
      BY <2>1, <3>1 DEF Fails, Answer, Rollback
  <2>3. CASE ApprovalsHold(req[a].form) /\ AlreadySaved(req[a].key)
    <3>1. Goto(a, "resolving") /\ Rollback(a)
      BY <1>3, <2>3 DEF Transact
    <3> QED
      BY <2>1, <2>3, <3>1 DEF GoesOn, Goto, Rollback
  <2>4. CASE ApprovalsHold(req[a].form) /\ ~AlreadySaved(req[a].key)
    BY <1>3, <2>4, TransactCommits
  <2> QED
    BY <2>2, <2>3, <2>4
<1>4. CASE Resolve(a)
  <2>1. pc[a] = "resolving" /\ UNCHANGED <<db, tab, req, ledger, before>>
    BY <1>4 DEF Resolve
  <2>2. CASE \/ PriorOf(a) = {}
             \/ req[a].endpoint = "single" /\ ~(PriorOf(a) \subseteq DOMAIN records)
    <3>1. Answer(a, Error(409))
      BY <1>4, <2>2 DEF Resolve, PriorOf
    <3> QED
      BY <2>1, <3>1 DEF Fails, Answer
  <2>3. CASE /\ PriorOf(a) # {}
             /\ req[a].endpoint # "single" \/ PriorOf(a) \subseteq DOMAIN records
    <3>1. Answer(a, Ok(PriorOf(a)))
      BY <1>4, <2>3 DEF Resolve, PriorOf
    <3> QED
      BY <2>1, <2>3, <3>1 DEF Retells, Answer
  <2> QED
    BY <2>2, <2>3
<1>5. CASE Refuse(a)
  BY <1>5 DEF Refuse, Fails, Answer
<1> QED
  BY <1>1, <1>2, <1>3, <1>4, <1>5 DEF Handle

LEMMA StepCases ==
  ASSUME [Next]_vars
  PROVE  \/ Outside
         \/ \E t \in Tabs, a \in Attempts, f \in Forms : Save(t, a, f)
         \/ \E a \in Attempts, label \in {"checking", "locking", "resolving"} : GoesOn(a, label)
         \/ \E a \in Attempts : Fails(a) \/ Retells(a)
         \/ \E a \in Attempts : \E top : Committing(a, top)
<1>1. CASE UNCHANGED vars
  BY <1>1 DEF vars, Outside
<1>2. ASSUME NEW t \in Tabs, Deliver(t) \/ Disconnect(t) \/ Reload(t) PROVE Outside
  BY <1>2 DEF Deliver, Disconnect, Reload, Outside
<1>3. ASSUME NEW a \in Attempts, NEW label, GoesOn(a, label)
      PROVE  label \in {"checking", "locking", "resolving"}
  BY <1>3 DEF GoesOn
<1>4. CASE \/ \E purpose \in Purposes : IssueApproval(purpose)
           \/ \E p \in DOMAIN approvals : ExpireApproval(p)
           \/ \E i \in DOMAIN records : HardDelete(i)
           \/ \E k \in DOMAIN saveRequests : AgeRequest(k)
  BY <1>4 DEF IssueApproval, ExpireApproval, HardDelete, AgeRequest, Outside
<1> QED
  BY <1>1, <1>2, <1>3, <1>4, RequestCases DEF Next

(* What a request carries is fixed when it is sent, its answer and its     *)
(* entry in the ledger when it is done.                                    *)
Sent(a) == pc[a] # "unused"

LEMMA RequestKept ==
  ASSUME Typed, Histories, [Next]_vars, NEW a \in Attempts, Sent(a)
  PROVE  Sent(a)' /\ req'[a] = req[a] /\ before'[a] = before[a]
<1>1. CASE Outside
  BY <1>1 DEF Outside, Sent
<1>2. ASSUME NEW t \in Tabs, NEW b \in Attempts, NEW f \in Forms, Save(t, b, f)
      PROVE  Sent(a)' /\ req'[a] = req[a] /\ before'[a] = before[a]
  <2>1. pc[b] = "unused" /\ pc' = [pc EXCEPT ![b] = "received"]
    BY <1>2 DEF Save
  <2>2. \E row : req' = [req EXCEPT ![b] = row]
    BY <1>2 DEF Save
  <2>3. \E row : before' = [before EXCEPT ![b] = row]
    BY <1>2 DEF Save
  <2> QED
    BY <2>1, <2>2, <2>3 DEF Sent, Typed, Shape, Histories
<1>3. ASSUME NEW b \in Attempts, NEW label \in {"checking", "locking", "resolving"}, GoesOn(b, label)
      PROVE  Sent(a)' /\ req'[a] = req[a] /\ before'[a] = before[a]
  BY <1>3 DEF GoesOn, Sent, Typed, Shape, Histories
<1>4. ASSUME NEW b \in Attempts, Fails(b) \/ Retells(b)
      PROVE  Sent(a)' /\ req'[a] = req[a] /\ before'[a] = before[a]
  BY <1>4 DEF Fails, Retells, Sent, Typed, Shape, Histories
<1>5. ASSUME NEW b \in Attempts, NEW top, Committing(b, top)
      PROVE  Sent(a)' /\ req'[a] = req[a] /\ before'[a] = before[a]
  BY <1>5 DEF Committing, Sent, Typed, Shape, Histories
<1> QED
  BY <1>1, <1>2, <1>3, <1>4, <1>5, StepCases

LEMMA DoneKept ==
  ASSUME Typed, Histories, [Next]_vars, NEW a \in Attempts, pc[a] = "done"
  PROVE  pc'[a] = "done" /\ resp'[a] = resp[a] /\ ledger'[a] = ledger[a]
<1>1. CASE Outside
  BY <1>1 DEF Outside
<1>2. ASSUME NEW t \in Tabs, NEW b \in Attempts, NEW f \in Forms, Save(t, b, f)
      PROVE  pc'[a] = "done" /\ resp'[a] = resp[a] /\ ledger'[a] = ledger[a]
  BY <1>2 DEF Save, Typed, Shape, Histories
<1>3. ASSUME NEW b \in Attempts, NEW label \in {"checking", "locking", "resolving"}, GoesOn(b, label)
      PROVE  pc'[a] = "done" /\ resp'[a] = resp[a] /\ ledger'[a] = ledger[a]
  BY <1>3 DEF GoesOn, Typed, Shape, Histories
<1>4. ASSUME NEW b \in Attempts, Fails(b) \/ Retells(b)
      PROVE  pc'[a] = "done" /\ resp'[a] = resp[a] /\ ledger'[a] = ledger[a]
  BY <1>4 DEF Fails, Retells, Typed, Shape, Histories
<1>5. ASSUME NEW b \in Attempts, NEW top, Committing(b, top)
      PROVE  pc'[a] = "done" /\ resp'[a] = resp[a] /\ ledger'[a] = ledger[a]
  BY <1>5 DEF Committing, Typed, Shape, Histories
<1> QED
  BY <1>1, <1>2, <1>3, <1>4, <1>5, StepCases

(* A committed save stays as it is in the ledger, with its request.        *)
LEMMA SavesStay ==
  ASSUME Typed, Histories, KeysInv, [Next]_vars, NEW a \in Committed
  PROVE  /\ a \in Committed' /\ ledger'[a] = ledger[a] /\ pc[a] = "done"
         /\ req'[a] = req[a] /\ before'[a] = before[a] /\ resp'[a] = resp[a]
<1>1. a \in Attempts /\ pc[a] = "done" /\ Sent(a)
  BY DEF Committed, KeysInv, SavesOwnKey, Sent
<1> QED
  BY <1>1, RequestKept, DoneKept DEF Committed

(* The ledger grows by one save in a step that commits, and in no other.   *)
LEMMA OnlyCommitsSave ==
  ASSUME Typed, [Next]_vars
  PROVE  \/ Committed' = Committed /\ ledger' = ledger
         \/ \E a \in Attempts : \E top : Committing(a, top)
BY StepCases DEF Outside, Save, GoesOn, Fails, Retells, Committed

LEMMA HistoriesInvariant == Spec => []Histories
<1>1. Init => Histories
  BY DEF Init, Histories
<1>2. ASSUME Histories, [Next]_vars PROVE Histories'
  <2>1. CASE Outside
    BY <1>2, <2>1 DEF Outside, Histories
  <2>2. ASSUME NEW t \in Tabs, NEW b \in Attempts, NEW f \in Forms, Save(t, b, f)
        PROVE  Histories'
    BY <1>2, <2>2 DEF Save, Histories
  <2>3. ASSUME NEW b \in Attempts, NEW label \in {"checking", "locking", "resolving"}, GoesOn(b, label)
        PROVE  Histories'
    BY <1>2, <2>3 DEF GoesOn, Histories
  <2>4. ASSUME NEW b \in Attempts, Fails(b) \/ Retells(b) PROVE Histories'
    BY <1>2, <2>4 DEF Fails, Retells, Histories
  <2>5. ASSUME NEW b \in Attempts, NEW top, Committing(b, top) PROVE Histories'
    BY <1>2, <2>5 DEF Committing, Histories
  <2> QED
    BY <1>2, <2>1, <2>2, <2>3, <2>4, <2>5, StepCases
<1> QED
  BY <1>1, <1>2, PTL DEF Spec

(***************************************************************************)
(* Keys and blends.  A key belongs to one blend of one screen: every       *)
(* request that carries it, the row it left in blend_save_requests and the *)
(* screen that still holds it agree on the blend.                          *)
(***************************************************************************)
KeyIsOfOneBlend ==
    \A a, b \in Attempts : Sent(a) /\ Sent(b) /\ req[a].key = req[b].key
                           => req[a].blend = req[b].blend
ScreenKeyIsSent ==
    \A t \in Tabs : tab[t].key # None =>
        \E a \in Attempts : /\ Sent(a) /\ req[a].key = tab[t].key
                            /\ req[a].blend = <<t, tab[t].blend>>
EndpointOfScreen ==
    \A a \in Attempts : Sent(a) => req[a].endpoint = Screen[req[a].blend[1]]
BlendInv == KeyIsOfOneBlend /\ ScreenKeyIsSent /\ EndpointOfScreen

LEMMA TabsKeepKeys ==
  ASSUME Shape, NEW t \in Tabs, Deliver(t) \/ Disconnect(t) \/ Reload(t), NEW s \in Tabs
  PROVE  \/ tab'[s].key = None
         \/ tab'[s].key = tab[s].key /\ tab'[s].blend = tab[s].blend
<1>1. CASE s # t
  BY <1>1 DEF Deliver, Disconnect, Reload, Shape
<1>2. CASE s = t
  <2> DEFINE Screened == [blend : Nat, key : RequestIds \cup {None}, waits : Attempts \cup {None}]
  <2>1. tab[t] \in Screened
    BY DEF Shape
  <2>2. PICK row : /\ tab' = [tab EXCEPT ![t] = row]
                   /\ row \in {NextBlend(t), [tab[t] EXCEPT !.waits = None],
                              [tab[t] EXCEPT !.key = None, !.waits = None]}
    BY DEF Deliver, Disconnect, Reload
  <2>3. NextBlend(t).key = None
    BY DEF NextBlend
  <2>4. [tab[t] EXCEPT !.key = None, !.waits = None].key = None
    BY <2>1
  <2>5. /\ [tab[t] EXCEPT !.waits = None].key = tab[t].key
        /\ [tab[t] EXCEPT !.waits = None].blend = tab[t].blend
    BY <2>1
  <2>6. tab'[s] = row
    BY <1>2, <2>2 DEF Shape
  <2> QED
    BY <1>2, <2>2, <2>3, <2>4, <2>5, <2>6
<1> QED
  BY <1>1, <1>2

(* Every step but Save sends nothing and brings no key to a screen.        *)
LEMMA OnlySaveSends ==
  ASSUME Typed, [Next]_vars
  PROVE  \/ \E t \in Tabs, a \in Attempts, f \in Forms : Save(t, a, f)
         \/ /\ \A a \in Attempts : Sent(a)' => Sent(a)
            /\ \A s \in Tabs : \/ tab'[s].key = None
                               \/ tab'[s].key = tab[s].key /\ tab'[s].blend = tab[s].blend
<1> DEFINE NothingSent == \A a \in Attempts : Sent(a)' => Sent(a)
           NoKeyBrought == \A s \in Tabs : \/ tab'[s].key = None
                                           \/ tab'[s].key = tab[s].key /\ tab'[s].blend = tab[s].blend
<1>1. CASE UNCHANGED vars
  BY <1>1 DEF vars, Sent
<1>2. ASSUME NEW t \in Tabs, Deliver(t) \/ Disconnect(t) \/ Reload(t)
      PROVE  NothingSent /\ NoKeyBrought
  <2>1. UNCHANGED pc
    BY <1>2 DEF Deliver, Disconnect, Reload
  <2> QED
    BY <1>2, <2>1, TabsKeepKeys DEF Sent, Typed
<1>3. ASSUME NEW a \in Attempts, Handle(a) \/ Refuse(a) PROVE NothingSent /\ NoKeyBrought
  <2>1. pc[a] # "unused" /\ UNCHANGED tab
    BY <1>3 DEF Handle, Refuse, Lookup, Check, Transact, Resolve
  <2>2. \A b \in Attempts : b # a => pc'[b] = pc[b]
    BY <1>3, RequestCases DEF GoesOn, Fails, Retells, Committing, Typed, Shape
  <2> QED
    BY <2>1, <2>2 DEF Sent
<1>4. CASE \/ \E purpose \in Purposes : IssueApproval(purpose)
           \/ \E p \in DOMAIN approvals : ExpireApproval(p)
           \/ \E i \in DOMAIN records : HardDelete(i)
           \/ \E k \in DOMAIN saveRequests : AgeRequest(k)
  BY <1>4 DEF IssueApproval, ExpireApproval, HardDelete, AgeRequest, Sent
<1> QED
  BY <1>1, <1>2, <1>3, <1>4 DEF Next

LEMMA BlendSaves ==
  ASSUME Typed, BlendInv, NEW t \in Tabs, NEW a \in Attempts, NEW f \in Forms, Save(t, a, f)
  PROVE  BlendInv'
<1>1. PICK k \in RequestIds :
        /\ IF tab[t].key = None
           THEN \A b \in Attempts : pc[b] # "unused" => req[b].key # k
           ELSE k = tab[t].key
        /\ tab' = [tab EXCEPT ![t].key = k, ![t].waits = a]
        /\ req' = [req EXCEPT ![a] = [key |-> k, endpoint |-> Screen[t],
                                      form |-> f, blend |-> <<t, tab[t].blend>>]]
  BY DEF Save
<1>2. pc[a] = "unused" /\ pc' = [pc EXCEPT ![a] = "received"] /\ k # None
  BY NoneAssumption DEF Save
<1>3. /\ req'[a].key = k /\ req'[a].endpoint = Screen[t]
      /\ req'[a].blend = <<t, tab[t].blend>> /\ Sent(a)'
  BY <1>1, <1>2 DEF Typed, Shape, Sent
<1>4. \A b \in Attempts : b # a => req'[b] = req[b] /\ (Sent(b)' <=> Sent(b))
  BY <1>1, <1>2 DEF Typed, Shape, Sent
<1>5. tab'[t].key = k /\ tab'[t].blend = tab[t].blend
  BY <1>1 DEF Typed, Shape
<1>6. \A s \in Tabs : s # t => tab'[s] = tab[s]
  BY <1>1 DEF Typed, Shape
<1>7. \A b \in Attempts : Sent(b) /\ req[b].key = k => req[b].blend = <<t, tab[t].blend>>
  <2> SUFFICES ASSUME NEW b \in Attempts, Sent(b), req[b].key = k
               PROVE  req[b].blend = <<t, tab[t].blend>>
    OBVIOUS
  <2>1. tab[t].key = k /\ tab[t].key # None
    BY <1>1, <1>2 DEF Sent
  <2>2. PICK c \in Attempts : /\ Sent(c) /\ req[c].key = tab[t].key
                              /\ req[c].blend = <<t, tab[t].blend>>
    BY <2>1 DEF BlendInv, ScreenKeyIsSent
  <2> QED
    BY <2>1, <2>2 DEF BlendInv, KeyIsOfOneBlend
<1>8. KeyIsOfOneBlend'
  <2> SUFFICES ASSUME NEW b \in Attempts, NEW c \in Attempts, Sent(b)', Sent(c)',
                      req'[b].key = req'[c].key
               PROVE  req'[b].blend = req'[c].blend
    BY DEF KeyIsOfOneBlend
  <2>1. CASE b # a /\ c # a
    BY <1>4, <2>1 DEF BlendInv, KeyIsOfOneBlend
  <2>2. CASE b = a \/ c = a
    BY <1>3, <1>4, <1>7, <2>2
  <2> QED
    BY <2>1, <2>2
<1>9. ScreenKeyIsSent'
  <2> SUFFICES ASSUME NEW s \in Tabs, tab'[s].key # None
               PROVE  \E b \in Attempts : /\ Sent(b)' /\ req'[b].key = tab'[s].key
                                         /\ req'[b].blend = <<s, tab'[s].blend>>
    BY DEF ScreenKeyIsSent
  <2>1. CASE s = t
    BY <1>3, <1>5, <2>1
  <2>2. CASE s # t
    <3>1. PICK b \in Attempts : /\ Sent(b) /\ req[b].key = tab[s].key
                                /\ req[b].blend = <<s, tab[s].blend>>
      BY <1>6, <2>2 DEF BlendInv, ScreenKeyIsSent
    <3>2. b # a
      BY <1>2, <3>1 DEF Sent
    <3> QED
      BY <1>4, <1>6, <2>2, <3>1, <3>2
  <2> QED
    BY <2>1, <2>2
<1>10. EndpointOfScreen'
  <2> SUFFICES ASSUME NEW b \in Attempts, Sent(b)'
               PROVE  req'[b].endpoint = Screen[req'[b].blend[1]]
    BY DEF EndpointOfScreen
  <2>1. CASE b = a
    BY <1>3, <2>1
  <2>2. CASE b # a
    BY <1>4, <2>2 DEF BlendInv, EndpointOfScreen
  <2> QED
    BY <2>1, <2>2
<1> QED
  BY <1>8, <1>9, <1>10 DEF BlendInv

LEMMA BlendInvariant == Spec => []BlendInv
<1>1. Init => BlendInv
  BY DEF Init, BlendInv, KeyIsOfOneBlend, ScreenKeyIsSent, EndpointOfScreen, Sent
<1>2. ASSUME Typed, Histories, BlendInv, [Next]_vars PROVE BlendInv'
  <2>1. ASSUME NEW t \in Tabs, NEW a \in Attempts, NEW f \in Forms, Save(t, a, f)
        PROVE  BlendInv'
    BY <1>2, <2>1, BlendSaves
  <2>2. CASE /\ \A a \in Attempts : Sent(a)' => Sent(a)
             /\ \A s \in Tabs : \/ tab'[s].key = None
                                \/ tab'[s].key = tab[s].key /\ tab'[s].blend = tab[s].blend
    <3>1. \A a \in Attempts : Sent(a) => Sent(a)' /\ req'[a] = req[a]
      BY <1>2, RequestKept
    <3>2. KeyIsOfOneBlend' /\ EndpointOfScreen'
      BY <1>2, <2>2, <3>1 DEF BlendInv, KeyIsOfOneBlend, EndpointOfScreen
    <3>3. ScreenKeyIsSent'
      BY <1>2, <2>2, <3>1 DEF BlendInv, ScreenKeyIsSent
    <3> QED
      BY <3>2, <3>3 DEF BlendInv
  <2> QED
    BY <1>2, <2>1, <2>2, OnlySaveSends
<1> QED
  BY <1>1, <1>2, TypedInvariant, HistoriesInvariant, PTL DEF Spec

(***************************************************************************)
(* Approvals.  What was closed when a request arrived stays closed, and    *)
(* the approval that is read before the transaction was open after that.   *)
(***************************************************************************)
Closed(p) == p \in DOMAIN approvals /\ (approvals[p].used \/ approvals[p].expired)

ClosedIsClosed == \A a \in Attempts : Sent(a) => \A p \in before[a].closed : Closed(p)
FirstWasOpen ==
    \A a \in Attempts : pc[a] = "locking" /\ Spends(req[a].form) # <<>> =>
        LET p == Spends(req[a].form)[1]
        IN  /\ p \in DOMAIN approvals /\ p \notin before[a].closed
            /\ approvals[p].purpose = PurposeIn(req[a].form, p)
SpentExist == \A a \in Committed : ledger[a].spent \subseteq DOMAIN approvals
ApprovalsInv == /\ ClosedIsClosed /\ FirstWasOpen /\ SpentExist
                /\ ClosedApprovalsStayClosed /\ ApprovalsUsedBySaves

LEMMA ApprovalsGrow ==
  ASSUME Typed, [Next]_vars, NEW p \in DOMAIN approvals
  PROVE  /\ p \in DOMAIN approvals' /\ approvals'[p].purpose = approvals[p].purpose
         /\ approvals[p].used => approvals'[p].used
         /\ approvals[p].expired => approvals'[p].expired
<1>1. approvals[p] \in [purpose : Purposes, used : BOOLEAN, expired : BOOLEAN]
  BY DEF Typed, ApprovalsTyped
<1>2. CASE UNCHANGED approvals
  BY <1>2
<1>3. ASSUME NEW a \in Attempts, NEW top, Committing(a, top)
      PROVE  /\ p \in DOMAIN approvals' /\ approvals'[p].purpose = approvals[p].purpose
             /\ approvals[p].used => approvals'[p].used
             /\ approvals[p].expired => approvals'[p].expired
  BY <1>1, <1>3 DEF Committing, Consume
<1>4. ASSUME NEW purpose \in Purposes, IssueApproval(purpose)
      PROVE  p \in DOMAIN approvals' /\ approvals'[p] = approvals[p]
  BY <1>4 DEF IssueApproval
<1>5. ASSUME NEW q \in DOMAIN approvals, ExpireApproval(q)
      PROVE  /\ p \in DOMAIN approvals' /\ approvals'[p].purpose = approvals[p].purpose
             /\ approvals[p].used => approvals'[p].used
             /\ approvals[p].expired => approvals'[p].expired
  BY <1>1, <1>5 DEF ExpireApproval
<1>6. CASE \/ \E i \in DOMAIN records : HardDelete(i)
           \/ \E k \in DOMAIN saveRequests : AgeRequest(k)
  BY <1>2, <1>6 DEF HardDelete, AgeRequest
<1> QED
  BY <1>2, <1>3, <1>4, <1>5, <1>6, DatabaseSteps DEF db

(* What a commit spends was there, open when the request arrived and       *)
(* issued for it: the first approval by Check, the others under the lock.  *)
LEMMA CommitSpendsOpen ==
  ASSUME ApprovalsInv, NEW a \in Attempts, NEW top, Committing(a, top),
         NEW p \in Spent(req[a].form)
  PROVE  /\ p \in DOMAIN approvals /\ p \notin before[a].closed
         /\ approvals[p].purpose = PurposeIn(req[a].form, p)
<1> DEFINE f == req[a].form
<1>1. PICK n \in DOMAIN Spends(f) : p = Spends(f)[n]
  BY DEF Spent, ToSet
<1>2. pc[a] = "locking" /\ ApprovalsHold(f)
  BY DEF Committing
<1>3. CASE n = 1
  <2>1. Spends(f) # <<>>
    BY <1>1
  <2> QED
    BY <1>1, <1>2, <1>3, <2>1 DEF ApprovalsInv, FirstWasOpen
<1>4. CASE n # 1
  <2>1. Valid(p, PurposeIn(f, p))
    BY <1>1, <1>2, <1>4 DEF ApprovalsHold, SpendValid
  <2>2. p \in DOMAIN approvals /\ approvals[p].purpose = PurposeIn(f, p) /\ ~Closed(p)
    BY <2>1 DEF Valid, Closed
  <2>3. p \notin before[a].closed
    BY <1>2, <2>2 DEF ApprovalsInv, ClosedIsClosed, Sent
  <2> QED
    BY <2>2, <2>3
<1> QED
  BY <1>3, <1>4

(* A commit adds its own save to the ledger.                               *)
LEMMA CommitEnters ==
  ASSUME Typed, KeysInv, ApprovalsInv, NEW a \in Attempts, NEW top, Committing(a, top)
  PROVE  /\ a \notin Committed /\ Committed' = Committed \cup {a}
         /\ ledger'[a] = NewEntry(a, top)
         /\ \A b \in Attempts : b # a => ledger'[b] = ledger[b]
<1>1. pc[a] = "locking" /\ ledger' = [ledger EXCEPT ![a] = NewEntry(a, top)]
  BY DEF Committing
<1>2. a \notin Committed
  BY <1>1 DEF KeysInv, SavesOwnKey
<1>3. NewEntry(a, top) \in Saves
  <2>1. req[a] \in Requests
    BY <1>1 DEF Typed, Shape
  <2>2. Length(a) \in Nat /\ nextId \in Nat /\ top \in Nat
    BY <1>1, LengthIsPositive, NewRecords DEF Typed, RecordsTyped
  <2>3. NewIds(a) \in SUBSET Nat /\ (top + 1)..(top + Length(a)) \in SUBSET Nat
    BY <2>2 DEF NewIds
  <2>4. Spent(req[a].form) \in SUBSET Nat
    BY CommitSpendsOpen DEF Typed, ApprovalsTyped
  <2>5. req[a].key \in RequestIds /\ req[a].blend \in Tabs \X Nat /\ req[a].form \in Forms
    BY <2>1 DEF Requests
  <2> QED
    BY <2>3, <2>4, <2>5 DEF NewEntry, Saves
<1>4. NewEntry(a, top) # None
  BY <1>3, NoneAssumption
<1> QED
  BY <1>1, <1>2, <1>4 DEF Committed, Typed, Shape

LEMMA ApprovalsStep ==
  ASSUME Typed, Histories, KeysInv, ApprovalsInv, [Next]_vars PROVE ApprovalsInv'
<1>1. ClosedIsClosed'
  <2> SUFFICES ASSUME NEW a \in Attempts, Sent(a)', NEW p \in before'[a].closed
               PROVE  Closed(p)'
    BY DEF ClosedIsClosed
  <2>1. CASE Sent(a)
    <3>1. Closed(p)
      BY <2>1, RequestKept DEF ApprovalsInv, ClosedIsClosed
    <3> QED
      BY <3>1, ApprovalsGrow DEF Closed
  <2>2. CASE ~Sent(a)
    <3>1. PICK t \in Tabs, f \in Forms : Save(t, a, f)
      <4>1. PICK t \in Tabs, b \in Attempts, f \in Forms : Save(t, b, f)
        BY <2>2, OnlySaveSends
      <4>2. b = a
        BY <2>2, <4>1 DEF Save, Sent, Typed, Shape
      <4> QED
        BY <4>1, <4>2
    <3>2. /\ before'[a].closed = {q \in DOMAIN approvals : approvals[q].used \/ approvals[q].expired}
          /\ approvals' = approvals
      BY <3>1 DEF Save, Histories, db
    <3> QED
      BY <3>2 DEF Closed
  <2> QED
    BY <2>1, <2>2
<1>2. FirstWasOpen'
  <2> SUFFICES ASSUME NEW a \in Attempts, pc'[a] = "locking", Spends(req'[a].form) # <<>>,
                      NEW p, p = Spends(req'[a].form)[1]
               PROVE  /\ p \in DOMAIN approvals' /\ p \notin before'[a].closed
                      /\ approvals'[p].purpose = PurposeIn(req'[a].form, p)
    BY DEF FirstWasOpen
  <2>1. Sent(a)
    BY StepCases DEF Outside, Save, GoesOn, Fails, Retells, Committing, Sent, Typed, Shape
  <2>2. req'[a] = req[a] /\ before'[a] = before[a]
    BY <2>1, RequestKept
  <2>3. /\ p \in DOMAIN approvals /\ p \notin before[a].closed
        /\ approvals[p].purpose = PurposeIn(req[a].form, p)
    <3>1. CASE pc[a] = "locking"
      BY <2>2, <3>1 DEF ApprovalsInv, FirstWasOpen
    <3>2. CASE pc[a] # "locking"
      <4>1. SpendValid(req[a].form, 1)
        BY <2>2, <3>2, StepCases
           DEF Outside, Save, GoesOn, Fails, Retells, Committing, Typed, Shape
      <4>2. p \in DOMAIN approvals /\ ~Closed(p) /\ approvals[p].purpose = PurposeIn(req[a].form, p)
        BY <2>2, <4>1 DEF SpendValid, Valid, Closed
      <4> QED
        BY <2>1, <4>2 DEF ApprovalsInv, ClosedIsClosed
    <3> QED
      BY <3>1, <3>2
  <2> QED
    BY <2>2, <2>3, ApprovalsGrow
<1>3. ASSUME NEW a \in Attempts, NEW top, Committing(a, top)
      PROVE  SpentExist' /\ ClosedApprovalsStayClosed' /\ ApprovalsUsedBySaves'
  <2>1. /\ Committed' = Committed \cup {a} /\ ledger'[a].spent = Spent(req[a].form)
        /\ UNCHANGED <<req, before>>
        /\ \A b \in Committed : ledger'[b] = ledger[b]
    <3>1. /\ Committed' = Committed \cup {a} /\ ledger'[a] = NewEntry(a, top)
          /\ \A b \in Committed : ledger'[b] = ledger[b]
      BY <1>3, CommitEnters DEF Committed
    <3>2. UNCHANGED <<req, before>>
      BY <1>3 DEF Committing
    <3> QED
      BY <3>1, <3>2, NewEntryFields
  <2>2. SpentExist'
    BY <1>3, <2>1, CommitSpendsOpen, ApprovalsGrow DEF ApprovalsInv, SpentExist
  <2>3. ClosedApprovalsStayClosed'
    <3> SUFFICES ASSUME NEW b \in Committed'
                 PROVE  /\ ledger'[b].spent \cap before'[b].closed = {}
                        /\ \A p \in ledger'[b].spent :
                              approvals'[p].purpose = PurposeIn(req'[b].form, p)
      BY DEF ClosedApprovalsStayClosed
    <3>1. CASE b = a
      BY <1>3, <2>1, <3>1, CommitSpendsOpen, ApprovalsGrow
    <3>2. CASE b \in Committed
      BY <2>1, <3>2, ApprovalsGrow DEF ApprovalsInv, SpentExist, ClosedApprovalsStayClosed
    <3> QED
      BY <2>1, <3>1, <3>2
  <2>4. ApprovalsUsedBySaves'
    <3> SUFFICES ASSUME NEW p \in DOMAIN approvals', approvals'[p].used,
                        approvals'[p].purpose # "manual"
                 PROVE  \E b \in Committed' : p \in ledger'[b].spent
      BY DEF ApprovalsUsedBySaves
    <3>1. /\ p \in DOMAIN approvals
          /\ approvals'[p] = IF p \in Spent(req[a].form)
                             THEN [approvals[p] EXCEPT !.used = TRUE] ELSE approvals[p]
      BY <1>3 DEF Committing, Consume
    <3>2. CASE p \in Spent(req[a].form)
      BY <2>1, <3>2
    <3>3. CASE p \notin Spent(req[a].form)
      BY <2>1, <3>1, <3>3 DEF ApprovalsInv, ApprovalsUsedBySaves
    <3> QED
      BY <3>2, <3>3
  <2> QED
    BY <2>2, <2>3, <2>4
<1>4. ASSUME Committed' = Committed, ledger' = ledger
      PROVE  SpentExist' /\ ClosedApprovalsStayClosed' /\ ApprovalsUsedBySaves'
  <2>1. \A b \in Committed : req'[b] = req[b] /\ before'[b] = before[b]
    BY SavesStay
  <2>2. SpentExist' /\ ClosedApprovalsStayClosed'
    BY <1>4, <2>1, ApprovalsGrow DEF ApprovalsInv, SpentExist, ClosedApprovalsStayClosed
  <2>3. ApprovalsUsedBySaves'
    <3> SUFFICES ASSUME NEW p \in DOMAIN approvals', approvals'[p].used,
                        approvals'[p].purpose # "manual"
                 PROVE  \E b \in Committed : p \in ledger[b].spent
      BY <1>4 DEF ApprovalsUsedBySaves
    <3> DEFINE WasUsed == /\ p \in DOMAIN approvals /\ approvals[p].used
                          /\ approvals[p].purpose # "manual"
    <3>1. UNCHANGED approvals => WasUsed
      OBVIOUS
    <3>2. ASSUME NEW purpose \in Purposes, IssueApproval(purpose)
          PROVE  WasUsed
      <4> DEFINE issued == [purpose |-> purpose, used |-> purpose = "manual", expired |-> FALSE]
      <4>1. PICK n : approvals' = [q \in DOMAIN approvals \cup {n} |->
                                     IF q = n THEN issued ELSE approvals[q]]
                     /\ n \notin DOMAIN approvals
        BY <3>2 DEF IssueApproval
      <4>2. issued.purpose = purpose /\ issued.used = (purpose = "manual")
        OBVIOUS
      <4>3. ~(issued.used /\ issued.purpose # "manual")
        BY <4>2
      <4> HIDE DEF issued
      <4>4. p = n => approvals'[p] = issued
        BY <4>1
      <4>5. p # n
        BY <4>3, <4>4
      <4> QED
        BY <4>1, <4>5
    <3>3. ASSUME NEW q \in DOMAIN approvals, ExpireApproval(q)
          PROVE  WasUsed
      <4>1. p \in DOMAIN approvals /\ approvals' = [approvals EXCEPT ![q].expired = TRUE]
        BY <3>3 DEF ExpireApproval
      <4>2. approvals[p] \in [purpose : Purposes, used : BOOLEAN, expired : BOOLEAN]
        BY <4>1 DEF Typed, ApprovalsTyped
      <4> QED
        BY <4>1, <4>2
    <3>4. ASSUME \/ UNCHANGED <<db, ledger>>
                 \/ \E i \in DOMAIN records : HardDelete(i)
                 \/ \E k \in DOMAIN saveRequests : AgeRequest(k)
          PROVE  WasUsed
      BY <3>1, <3>4 DEF HardDelete, AgeRequest, db
    <3>5. ASSUME NEW a \in Attempts, NEW top, Committing(a, top) PROVE FALSE
      BY <1>4, <3>5, CommitEnters
    <3> HIDE DEF WasUsed
    <3>6. WasUsed
      BY <3>2, <3>3, <3>4, <3>5, DatabaseSteps
    <3> QED
      BY <3>6 DEF WasUsed, ApprovalsInv, ApprovalsUsedBySaves
  <2> QED
    BY <2>2, <2>3
<1> QED
  BY <1>1, <1>2, <1>3, <1>4, OnlyCommitsSave DEF ApprovalsInv

LEMMA ApprovalsInvariant == Spec => []ApprovalsInv
<1>1. Init => ApprovalsInv
  BY DEF Init, ApprovalsInv, ClosedIsClosed, FirstWasOpen, SpentExist,
         ClosedApprovalsStayClosed, ApprovalsUsedBySaves, Committed, Sent
<1>2. Typed /\ Histories /\ KeysInv /\ ApprovalsInv /\ [Next]_vars => ApprovalsInv'
  BY ApprovalsStep
<1> QED
  BY <1>1, <1>2, TypedInvariant, HistoriesInvariant, KeysInvariant, PTL DEF Spec

(* An approval that was used or out of date when a request arrived never   *)
(* lets it save, and each approval a save spends was issued for that       *)
(* purpose, over any interleaving of checks and transactions.              *)
THEOREM NoClosedApprovalSpent == Spec => []ClosedApprovalsStayClosed
<1>1. ApprovalsInv => ClosedApprovalsStayClosed
  BY DEF ApprovalsInv
<1> QED
  BY <1>1, ApprovalsInvariant, PTL

(* An approval that is closed by use was spent by a committed save: no     *)
(* request that failed leaves one used behind.                             *)
THEOREM UsedMeansSpent == Spec => []ApprovalsUsedBySaves
<1>1. ApprovalsInv => ApprovalsUsedBySaves
  BY DEF ApprovalsInv
<1> QED
  BY <1>1, ApprovalsInvariant, PTL

(***************************************************************************)
(* Rows, saves and answers.  Every row of blend_save_requests stands for a *)
(* committed save with the same ids and figures; every success repeats     *)
(* one.                                                                    *)
(***************************************************************************)
EntryIsOfRequest ==
    \A a \in Committed : /\ ledger[a].blend = req[a].blend
                         /\ ledger[a].body = req[a].form.body
                         /\ ledger[a].ids # {} /\ ledger[a].ids \subseteq 1..nextId
RowIsOfSave ==
    \A k \in DOMAIN saveRequests :
        \E a \in Committed : /\ ledger[a].key = k
                             /\ ledger[a].ids = saveRequests[k].ids
                             /\ ledger[a].body = saveRequests[k].hash
                             /\ req[a].endpoint = saveRequests[k].endpoint
SuccessIsOfSave ==
    \A a \in Attempts : Success(a) =>
        \E b \in Committed : ledger[b].key = req[a].key /\ ledger[b].ids = resp[a].ids
CommittedIsTold == \A a \in Committed : Success(a) /\ resp[a].ids = ledger[a].ids
RowsInv == EntryIsOfRequest /\ RowIsOfSave /\ SuccessIsOfSave /\ CommittedIsTold

(* The rows of blend_save_requests go or stay as they are, up to the flag  *)
(* that they are old, except for the row of a commit.                      *)
SameRow(k) == /\ saveRequests'[k].ids = saveRequests[k].ids
              /\ saveRequests'[k].hash = saveRequests[k].hash
              /\ saveRequests'[k].endpoint = saveRequests[k].endpoint

LEMMA RowsStay ==
  ASSUME Typed, [Next]_vars, NEW k \in DOMAIN saveRequests'
  PROVE  \/ k \in DOMAIN saveRequests /\ SameRow(k)
         \/ \E a \in Attempts : \E top :
              Committing(a, top) /\ k = req[a].key /\ saveRequests'[k] = NewRow(a)
<1>1. CASE UNCHANGED saveRequests
  BY <1>1 DEF SameRow
<1>2. ASSUME NEW a \in Attempts, NEW top, Committing(a, top)
      PROVE  \/ k \in DOMAIN saveRequests /\ SameRow(k)
             \/ k = req[a].key /\ saveRequests'[k] = NewRow(a)
  <2>1. saveRequests' = Remember(req[a].key, NewRow(a))
    BY <1>2 DEF Committing
  <2>2. /\ k = req[a].key \/ k \in DOMAIN saveRequests
        /\ saveRequests'[k] = IF k = req[a].key THEN NewRow(a) ELSE saveRequests[k]
    BY <2>1 DEF Remember
  <2> QED
    BY <2>2 DEF SameRow
<1>3. ASSUME NEW j \in DOMAIN saveRequests, AgeRequest(j)
      PROVE  k \in DOMAIN saveRequests /\ SameRow(k)
  <2>1. saveRequests' = [saveRequests EXCEPT ![j].old = TRUE]
    BY <1>3 DEF AgeRequest
  <2> QED
    BY <2>1 DEF SameRow
<1>4. CASE \/ \E purpose \in Purposes : IssueApproval(purpose)
           \/ \E p \in DOMAIN approvals : ExpireApproval(p)
           \/ \E i \in DOMAIN records : HardDelete(i)
  BY <1>1, <1>4 DEF IssueApproval, ExpireApproval, HardDelete
<1> QED
  BY <1>1, <1>2, <1>3, <1>4, DatabaseSteps DEF db

LEMMA NextIdGrows ==
  ASSUME Typed, [Next]_vars PROVE nextId \in Nat /\ nextId' \in Nat /\ nextId <= nextId'
<1>1. nextId \in Nat
  BY DEF Typed, RecordsTyped
<1>2. ASSUME NEW a \in Attempts, NEW top, Committing(a, top)
      PROVE  nextId' \in Nat /\ nextId <= nextId'
  <2>1. Length(a) \in Nat /\ nextId' = nextId + Length(a)
    BY <1>2, LengthIsPositive DEF Committing, Typed
  <2> QED
    BY <1>1, <2>1
<1>3. CASE \/ \E purpose \in Purposes : IssueApproval(purpose)
           \/ \E p \in DOMAIN approvals : ExpireApproval(p)
           \/ \E i \in DOMAIN records : HardDelete(i)
           \/ \E k \in DOMAIN saveRequests : AgeRequest(k)
  <2>1. nextId' = nextId
    BY <1>3, Zenon DEF IssueApproval, ExpireApproval, HardDelete, AgeRequest
  <2> QED
    BY <1>1, <2>1
<1>4. CASE UNCHANGED <<db, ledger>>
  BY <1>1, <1>4 DEF db
<1> QED
  BY <1>1, <1>2, <1>3, <1>4, DatabaseSteps

(* A request that is told of an earlier save is told of that of its key.   *)
LEMMA RetoldIsSaved ==
  ASSUME RowsInv, NEW a \in Attempts, PriorOf(a) # {}
  PROVE  /\ req[a].key \in DOMAIN saveRequests
         /\ PriorOf(a) = saveRequests[req[a].key].ids
         /\ \E b \in Committed : /\ ledger[b].key = req[a].key
                                /\ ledger[b].ids = PriorOf(a)
                                /\ ledger[b].body = saveRequests[req[a].key].hash
<1>1. /\ req[a].key \in DOMAIN saveRequests
      /\ PriorOf(a) = saveRequests[req[a].key].ids
  BY DEF PriorOf, Prior
<1> QED
  BY <1>1 DEF RowsInv, RowIsOfSave

LEMMA RowsStep ==
  ASSUME Typed, Histories, KeysInv, ApprovalsInv, RowsInv, [Next]_vars PROVE RowsInv'
<1>1. \A a \in Committed : /\ a \in Committed' /\ ledger'[a] = ledger[a]
                          /\ req'[a] = req[a] /\ resp'[a] = resp[a] /\ pc[a] = "done"
  BY SavesStay
<1>2. ASSUME NEW a \in Committed', a \notin Committed
      PROVE  \E top : /\ Committing(a, top) /\ ledger'[a] = NewEntry(a, top)
                     /\ a \in Attempts
  <2>1. PICK b \in Attempts : \E top : Committing(b, top)
    BY <1>2, OnlyCommitsSave
  <2>2. PICK top : Committing(b, top)
    BY <2>1
  <2>3. a = b
    BY <1>2, <2>2, CommitEnters
  <2> QED
    BY <2>2, <2>3, CommitEnters
<1>3. ASSUME NEW a \in Attempts, NEW top, Committing(a, top)
      PROVE  /\ req'[a] = req[a] /\ NewIds(a) # {} /\ NewIds(a) \subseteq 1..nextId'
             /\ pc'[a] = "done" /\ resp'[a].code = 200 /\ resp'[a].ids = NewIds(a)
             /\ a \in Committed' /\ ledger'[a] = NewEntry(a, top)
  <2>1. Length(a) \in Nat \ {0} /\ nextId \in Nat /\ nextId' = nextId + Length(a)
    BY <1>3, LengthIsPositive DEF Committing, Typed, RecordsTyped
  <2>2. NewIds(a) \subseteq 1..nextId' /\ nextId + 1 \in NewIds(a)
    BY <2>1 DEF NewIds
  <2>3. resp'[a] = Ok(NewIds(a)) /\ pc'[a] = "done" /\ req'[a] = req[a]
    BY <1>3 DEF Committing, Typed, Shape, Histories
  <2> QED
    BY <1>3, <2>2, <2>3, CommitEnters DEF Ok
<1>4. EntryIsOfRequest'
  <2> SUFFICES ASSUME NEW a \in Committed'
               PROVE  /\ ledger'[a].blend = req'[a].blend
                      /\ ledger'[a].body = req'[a].form.body
                      /\ ledger'[a].ids # {} /\ ledger'[a].ids \subseteq 1..nextId'
    BY DEF EntryIsOfRequest
  <2>1. CASE a \in Committed
    <3>1. ledger[a].ids \subseteq 1..nextId
      BY <2>1 DEF RowsInv, EntryIsOfRequest
    <3>2. 1..nextId \subseteq 1..nextId'
      BY NextIdGrows
    <3> QED
      BY <1>1, <2>1, <3>1, <3>2 DEF RowsInv, EntryIsOfRequest
  <2>2. CASE a \notin Committed
    <3>1. PICK top : /\ Committing(a, top) /\ ledger'[a] = NewEntry(a, top)
                     /\ a \in Attempts
      BY <1>2, <2>2
    <3>2. req'[a] = req[a] /\ NewIds(a) # {} /\ NewIds(a) \subseteq 1..nextId'
      BY <1>3, <3>1
    <3> QED
      BY <3>1, <3>2, NewEntryFields
  <2> QED
    BY <2>1, <2>2
<1>5. RowIsOfSave'
  <2> SUFFICES ASSUME NEW k \in DOMAIN saveRequests'
               PROVE  \E a \in Committed' : /\ ledger'[a].key = k
                                           /\ ledger'[a].ids = saveRequests'[k].ids
                                           /\ ledger'[a].body = saveRequests'[k].hash
                                           /\ req'[a].endpoint = saveRequests'[k].endpoint
    BY DEF RowIsOfSave
  <2>1. CASE k \in DOMAIN saveRequests /\ SameRow(k)
    BY <1>1, <2>1 DEF SameRow, RowsInv, RowIsOfSave
  <2>2. ASSUME NEW a \in Attempts, NEW top, Committing(a, top), k = req[a].key,
               saveRequests'[k] = NewRow(a)
        PROVE  /\ a \in Committed' /\ ledger'[a].key = k
               /\ ledger'[a].ids = saveRequests'[k].ids
               /\ ledger'[a].body = saveRequests'[k].hash
               /\ req'[a].endpoint = saveRequests'[k].endpoint
    <3>1. a \in Committed' /\ ledger'[a] = NewEntry(a, top) /\ req'[a] = req[a]
      BY <1>3, <2>2
    <3>2. /\ ledger'[a].key = k /\ ledger'[a].ids = NewIds(a)
          /\ ledger'[a].body = req[a].form.body
      BY <2>2, <3>1, NewEntryFields
    <3>3. /\ saveRequests'[k].ids = NewIds(a)
          /\ saveRequests'[k].hash = req[a].form.body
          /\ saveRequests'[k].endpoint = req[a].endpoint
      BY <2>2, NewRowFields
    <3> QED
      BY <3>1, <3>2, <3>3
  <2> QED
    BY <2>1, <2>2, RowsStay
<1>6. SuccessIsOfSave'
  <2> SUFFICES ASSUME NEW a \in Attempts, pc'[a] = "done", resp'[a].code = 200
               PROVE  \E b \in Committed' : ledger'[b].key = req'[a].key /\ ledger'[b].ids = resp'[a].ids
    BY DEF SuccessIsOfSave, Success
  <2>1. CASE pc[a] = "done"
    <3>1. resp'[a] = resp[a] /\ req'[a] = req[a]
      BY <2>1, DoneKept, RequestKept DEF Sent
    <3> QED
      BY <1>1, <2>1, <3>1 DEF RowsInv, SuccessIsOfSave, Success
  <2>2. CASE pc[a] # "done"
    <3>1. Fails(a) \/ Retells(a) \/ \E top : Committing(a, top)
      BY <2>2, StepCases DEF Outside, Save, GoesOn, Fails, Retells, Committing, Typed, Shape
    <3>2. CASE Fails(a)
      BY <3>2 DEF Fails, Error, Histories
    <3>3. CASE Retells(a)
      <4>1. resp'[a] = Ok(PriorOf(a)) /\ PriorOf(a) # {} /\ req' = req
        BY <3>3 DEF Retells, Histories
      <4> QED
        BY <1>1, <4>1, RetoldIsSaved DEF Ok
    <3>4. ASSUME NEW top, Committing(a, top)
          PROVE  \E b \in Committed' : ledger'[b].key = req'[a].key /\ ledger'[b].ids = resp'[a].ids
      BY <1>3, <3>4, NewEntryFields
    <3> QED
      BY <3>1, <3>2, <3>3, <3>4
  <2> QED
    BY <2>1, <2>2
<1>7. CommittedIsTold'
  <2> SUFFICES ASSUME NEW a \in Committed'
               PROVE  pc'[a] = "done" /\ resp'[a].code = 200 /\ resp'[a].ids = ledger'[a].ids
    BY DEF CommittedIsTold, Success
  <2>1. CASE a \in Committed
    <3>1. pc'[a] = "done"
      BY <1>1, <2>1, DoneKept DEF Committed
    <3> QED
      BY <1>1, <2>1, <3>1 DEF RowsInv, CommittedIsTold, Success
  <2>2. CASE a \notin Committed
    BY <1>2, <1>3, <2>2, NewEntryFields
  <2> QED
    BY <2>1, <2>2
<1> QED
  BY <1>4, <1>5, <1>6, <1>7 DEF RowsInv

LEMMA RowsInvariant == Spec => []RowsInv
<1>1. Init => RowsInv
  BY DEF Init, RowsInv, EntryIsOfRequest, RowIsOfSave, SuccessIsOfSave, CommittedIsTold,
         Committed, Success
<1>2. Typed /\ Histories /\ KeysInv /\ ApprovalsInv /\ RowsInv /\ [Next]_vars => RowsInv'
  BY RowsStep
<1> QED
  BY <1>1, <1>2, TypedInvariant, HistoriesInvariant, KeysInvariant, ApprovalsInvariant,
     PTL DEF Spec

(* A worker who is told that a blend is saved is told of the save of that  *)
(* blend and no other, whichever request made it and however the answers   *)
(* of others were lost.                                                    *)
THEOREM SuccessIsTrue == Spec => []SuccessIsOwnSave
<1>1. Typed /\ KeysInv /\ BlendInv /\ RowsInv => SuccessIsOwnSave
  <2> SUFFICES ASSUME Typed, KeysInv, BlendInv, RowsInv, NEW a \in Attempts, Success(a)
               PROVE  \E b \in Committed : /\ ledger[b].key = req[a].key
                                         /\ ledger[b].blend = req[a].blend
                                         /\ ledger[b].ids = resp[a].ids
    BY DEF SuccessIsOwnSave
  <2>1. PICK b \in Committed : ledger[b].key = req[a].key /\ ledger[b].ids = resp[a].ids
    BY DEF RowsInv, SuccessIsOfSave
  <2>2. /\ b \in Attempts /\ Sent(b) /\ req[b].key = ledger[b].key
        /\ ledger[b].blend = req[b].blend
    BY DEF KeysInv, SavesOwnKey, RowsInv, EntryIsOfRequest, Committed, Sent
  <2>3. Sent(a)
    BY DEF Success, Sent
  <2>4. req[b].blend = req[a].blend
    BY <2>1, <2>2, <2>3 DEF BlendInv, KeyIsOfOneBlend
  <2> QED
    BY <2>1, <2>2, <2>4
<1> QED
  BY <1>1, TypedInvariant, KeysInvariant, BlendInvariant, RowsInvariant, PTL

(***************************************************************************)
(* Resends that come after the save.  One that was not answered from the   *)
(* row at once found its record deleted, which no later step undoes, and   *)
(* can only end in an error.                                               *)
(***************************************************************************)
SavedBefore(a) == req[a].key \in before[a].saved
Kept(k) == saveRequests[k].ids \subseteq DOMAIN records

SavedKeysSaved == \A a \in Attempts : Sent(a) =>
    \A k \in before[a].saved : \E b \in Committed : ledger[b].key = k
ResendsStopped ==
    \A a \in Attempts :
        pc[a] \in {"checking", "locking", "resolving"} /\ SavedBefore(a)
        => /\ req[a].key \in DOMAIN saveRequests
           /\ req[a].endpoint = "single" /\ ~Kept(req[a].key)
ResendsInv == SavedKeysSaved /\ ResendsStopped /\ LaterChangeRefused

(* The row of a key in use outlives every step, and so does the gap that a *)
(* deleted record left: ids are given once.                                *)
LEMMA RowOfKeyInUse ==
  ASSUME Typed, KeysInv, [Next]_vars, NEW k \in DOMAIN saveRequests, ~Idle(k)
  PROVE  k \in DOMAIN saveRequests' /\ SameRow(k)
<1>1. CASE UNCHANGED saveRequests
  BY <1>1 DEF SameRow
<1>2. ASSUME NEW a \in Attempts, NEW top, Committing(a, top)
      PROVE  k \in DOMAIN saveRequests' /\ SameRow(k)
  <2>1. saveRequests' = Remember(req[a].key, NewRow(a)) /\ k # req[a].key
    BY <1>2 DEF Committing
  <2>2. ~saveRequests[k].old
    BY DEF KeysInv, OldKeysIdle, Typed, RequestsTyped
  <2>3. k \in DOMAIN saveRequests' /\ saveRequests'[k] = saveRequests[k]
    BY <2>1, <2>2 DEF Remember
  <2> QED
    BY <2>3 DEF SameRow
<1>3. ASSUME NEW j \in DOMAIN saveRequests, AgeRequest(j)
      PROVE  k \in DOMAIN saveRequests' /\ SameRow(k)
  <2>1. saveRequests' = [saveRequests EXCEPT ![j].old = TRUE]
    BY <1>3 DEF AgeRequest
  <2> QED
    BY <2>1 DEF SameRow
<1>4. CASE \/ \E purpose \in Purposes : IssueApproval(purpose)
           \/ \E p \in DOMAIN approvals : ExpireApproval(p)
           \/ \E i \in DOMAIN records : HardDelete(i)
  BY <1>1, <1>4 DEF IssueApproval, ExpireApproval, HardDelete
<1> QED
  BY <1>1, <1>2, <1>3, <1>4, DatabaseSteps DEF db

LEMMA NoRecordComesBack ==
  ASSUME Typed, [Next]_vars, NEW i \in DOMAIN records', i \in 1..nextId
  PROVE  i \in DOMAIN records
<1>1. CASE UNCHANGED records
  BY <1>1
<1>2. ASSUME NEW a \in Attempts, NEW top, Committing(a, top) PROVE i \in DOMAIN records
  <2>1. /\ DOMAIN records' = DOMAIN records \cup NewIds(a)
        /\ nextId \in Nat
    BY <1>2, NewRecords DEF Typed, NewIds, RecordsTyped
  <2>2. i \notin NewIds(a)
    BY <2>1 DEF NewIds
  <2> QED
    BY <2>1, <2>2
<1>3. CASE \E j \in DOMAIN records : HardDelete(j)
  BY <1>3 DEF HardDelete
<1>4. CASE \/ \E purpose \in Purposes : IssueApproval(purpose)
           \/ \E p \in DOMAIN approvals : ExpireApproval(p)
           \/ \E k \in DOMAIN saveRequests : AgeRequest(k)
  BY <1>1, <1>4 DEF IssueApproval, ExpireApproval, AgeRequest
<1> QED
  BY <1>1, <1>2, <1>3, <1>4, DatabaseSteps DEF db

(* A resend finds the row of the save it repeats, left by the own endpoint.*)
LEMMA ResendFindsRow ==
  ASSUME KeysInv, BlendInv, RowsInv, SavedKeysSaved, NEW a \in Attempts,
         pc[a] \notin {"unused", "done"}, SavedBefore(a)
  PROVE  /\ ~Idle(req[a].key) /\ req[a].key \in DOMAIN saveRequests
         /\ PriorOf(a) = saveRequests[req[a].key].ids /\ PriorOf(a) # {}
<1>1. ~Idle(req[a].key)
  BY DEF Idle
<1>2. PICK b \in Committed : ledger[b].key = req[a].key
  BY DEF SavedKeysSaved, SavedBefore, Sent
<1>3. req[a].key \in DOMAIN saveRequests
  BY <1>1, <1>2 DEF KeysInv, KeyKeptOrIdle
<1>4. PICK c \in Committed : /\ ledger[c].key = req[a].key
                             /\ ledger[c].ids = saveRequests[req[a].key].ids
                             /\ req[c].endpoint = saveRequests[req[a].key].endpoint
  BY <1>3 DEF RowsInv, RowIsOfSave
<1>5. c \in Attempts /\ Sent(c) /\ Sent(a) /\ req[c].key = req[a].key
  BY <1>4 DEF KeysInv, SavesOwnKey, Committed, Sent
<1>6. req[c].endpoint = req[a].endpoint
  BY <1>5 DEF BlendInv, KeyIsOfOneBlend, EndpointOfScreen
<1>7. ledger[c].ids # {}
  BY DEF RowsInv, EntryIsOfRequest
<1> QED
  BY <1>1, <1>3, <1>4, <1>6, <1>7 DEF PriorOf, Prior

LEMMA ResendsStep ==
  ASSUME Typed, Histories, KeysInv, KeysInv', BlendInv, RowsInv, ResendsInv, [Next]_vars
  PROVE  ResendsInv'
<1>1. \A b \in Committed : b \in Committed' /\ ledger'[b] = ledger[b]
  BY SavesStay
<1>2. \A a \in Attempts : Sent(a) => req'[a] = req[a] /\ before'[a] = before[a]
  BY RequestKept
<1>3. SavedKeysSaved'
  <2> SUFFICES ASSUME NEW a \in Attempts, Sent(a)', NEW k \in before'[a].saved
               PROVE  \E b \in Committed' : ledger'[b].key = k
    BY DEF SavedKeysSaved
  <2>1. CASE Sent(a)
    BY <1>1, <1>2, <2>1 DEF ResendsInv, SavedKeysSaved
  <2>2. CASE ~Sent(a)
    <3>1. PICK t \in Tabs, b \in Attempts, f \in Forms : Save(t, b, f)
      BY <2>2, OnlySaveSends
    <3>2. b = a
      BY <2>2, <3>1 DEF Save, Sent, Typed, Shape
    <3>3. /\ before' = [before EXCEPT ![a] =
                [closed |-> {p \in DOMAIN approvals :
                               approvals[p].used \/ approvals[p].expired},
                 saved  |-> {ledger[c].key : c \in Committed}]]
          /\ UNCHANGED ledger
      BY <3>1, <3>2 DEF Save
    <3>4. before'[a].saved = {ledger[c].key : c \in Committed}
      BY <3>3 DEF Histories
    <3> QED
      BY <1>1, <3>4
  <2> QED
    BY <2>1, <2>2
<1>4. ResendsStopped'
  <2> SUFFICES ASSUME NEW a \in Attempts, pc'[a] \in {"checking", "locking", "resolving"},
                      SavedBefore(a)'
               PROVE  /\ req'[a].key \in DOMAIN saveRequests'
                      /\ req'[a].endpoint = "single"
                      /\ ~(saveRequests'[req'[a].key].ids \subseteq DOMAIN records')
    BY DEF ResendsStopped, Kept
  <2>1. \/ pc[a] \in {"checking", "locking", "resolving"}
        \/ GoesOn(a, "checking") /\ pc[a] = "received"
    BY StepCases DEF Outside, Save, GoesOn, Fails, Retells, Committing, Typed, Shape
  <2>2. /\ req'[a] = req[a] /\ SavedBefore(a) /\ pc[a] \notin {"unused", "done"}
    BY <1>2, <2>1 DEF Sent, SavedBefore
  <2>3. /\ ~Idle(req[a].key) /\ req[a].key \in DOMAIN saveRequests
        /\ PriorOf(a) = saveRequests[req[a].key].ids /\ PriorOf(a) # {}
    BY <2>2, ResendFindsRow DEF ResendsInv
  <2>4. req[a].endpoint = "single" /\ ~Kept(req[a].key)
    BY <2>1, <2>2, <2>3 DEF ResendsInv, ResendsStopped, GoesOn, Kept
  <2>5. req[a].key \in DOMAIN saveRequests' /\ SameRow(req[a].key)
    BY <2>3, RowOfKeyInUse
  <2>6. ~(saveRequests[req[a].key].ids \subseteq DOMAIN records')
    <3>1. saveRequests[req[a].key].ids \subseteq 1..nextId
      BY <2>3 DEF Typed, RequestsTyped
    <3> QED
      BY <2>4, <3>1, NoRecordComesBack DEF Kept
  <2> QED
    BY <2>2, <2>4, <2>5, <2>6 DEF SameRow
<1>5. LaterChangeRefused'
  <2> SUFFICES ASSUME NEW a \in Attempts, NEW b \in Committed', pc'[a] = "done",
                      resp'[a].code = 200, ledger'[b].key = req'[a].key,
                      ledger'[b].key \in before'[a].saved
               PROVE  ledger'[b].body = req'[a].form.body
    BY DEF LaterChangeRefused, Success
  <2>1. Sent(a)
    BY StepCases DEF Outside, Save, GoesOn, Fails, Retells, Committing, Typed, Shape, Sent
  <2>2. req'[a] = req[a] /\ before'[a] = before[a]
    BY <1>2, <2>1
  <2>3. b \in Committed /\ ledger'[b] = ledger[b]
    <3>1. PICK c \in Committed : ledger[c].key = ledger'[b].key
      BY <2>1, <2>2 DEF ResendsInv, SavedKeysSaved
    <3>2. c = b
      BY <1>1, <3>1 DEF KeysInv, OneSavePerKey
    <3> QED
      BY <1>1, <3>1, <3>2
  <2>4. CASE pc[a] = "done"
    <3>1. resp'[a] = resp[a]
      BY <2>4, DoneKept
    <3> QED
      BY <2>2, <2>3, <2>4, <3>1 DEF ResendsInv, LaterChangeRefused, Success
  <2>5. CASE pc[a] # "done"
    <3>1. Fails(a) \/ Retells(a) \/ \E top : Committing(a, top)
      BY <2>1, <2>5, StepCases DEF Outside, Save, GoesOn, Fails, Retells, Committing,
                                   Typed, Shape, Sent
    <3>2. CASE Fails(a)
      BY <3>2 DEF Fails, Error, Histories
    <3>3. ASSUME NEW top, Committing(a, top) PROVE FALSE
      BY <2>2, <2>3, <3>3 DEF Committing, ResendsInv, ResendsStopped, SavedBefore
    <3>4. CASE Retells(a)
      <4>1. PriorOf(a) # {}
        BY <3>4 DEF Retells
      <4>2. PICK c \in Committed : /\ ledger[c].key = req[a].key
                                   /\ ledger[c].body = saveRequests[req[a].key].hash
        BY <4>1, RetoldIsSaved
      <4>3. c = b
        BY <2>2, <2>3, <4>2 DEF KeysInv, OneSavePerKey
      <4>4. SavedBefore(a)
        BY <2>2, <2>3 DEF SavedBefore
      <4>5. pc[a] # "resolving"
        BY <3>4, <4>1, <4>4, RetoldIsSaved DEF Retells, ResendsInv, ResendsStopped, Kept
      <4>6. saveRequests[req[a].key].hash = req[a].form.body
        BY <3>4, <4>5 DEF Retells, SameFigures
      <4> QED
        BY <2>2, <2>3, <4>2, <4>3, <4>6
    <3> QED
      BY <3>1, <3>2, <3>3, <3>4
  <2> QED
    BY <2>4, <2>5
<1> QED
  BY <1>3, <1>4, <1>5 DEF ResendsInv

LEMMA ResendsInvariant == Spec => []ResendsInv
<1>1. ASSUME Init PROVE ResendsInv
  <2>1. \A a \in Attempts : pc[a] = "unused"
    BY <1>1 DEF Init
  <2>2. SavedKeysSaved /\ ResendsStopped
    BY <2>1 DEF SavedKeysSaved, ResendsStopped, Sent
  <2>3. Committed = {}
    BY <1>1 DEF Init, Committed
  <2> QED
    BY <2>2, <2>3 DEF ResendsInv, LaterChangeRefused
<1>2. Typed /\ Histories /\ KeysInv /\ KeysInv' /\ BlendInv /\ RowsInv /\ ResendsInv
      /\ [Next]_vars => ResendsInv'
  BY ResendsStep
<1> QED
  BY <1>1, <1>2, TypedInvariant, HistoriesInvariant, KeysInvariant, BlendInvariant,
     RowsInvariant, PTL DEF Spec

(* Once a save is committed, no resend of it with other figures is ever    *)
(* answered as saved, also when its record was deleted in between or the   *)
(* request waited for the lock the whole time.                             *)
THEOREM ChangedResendIsRefused == Spec => []LaterChangeRefused
<1>1. ResendsInv => LaterChangeRefused
  BY DEF ResendsInv
<1> QED
  BY <1>1, ResendsInvariant, PTL

(***************************************************************************)
(* The handlers implement the ledger (SaveLedger).  A commit enters its    *)
(* key, a resend that is told of a save reads the ledger, and every other  *)
(* step leaves ledger and answers as they are.                             *)
(***************************************************************************)
EntriesAreSaves ==
    /\ \A b \in Committed : /\ ledger[b].key \in DOMAIN Entries
                            /\ Entries[ledger[b].key].ids = ledger[b].ids
                            /\ Entries[ledger[b].key].series = ledger[b].series
                            /\ Entries[ledger[b].key].numbers = ledger[b].numbers
    /\ \A k \in DOMAIN Entries : \E b \in Committed : ledger[b].key = k

LEMMA EntriesOfSaves == OneSavePerKey => EntriesAreSaves
<1> SUFFICES ASSUME OneSavePerKey PROVE EntriesAreSaves
  OBVIOUS
<1>1. ASSUME NEW b \in Committed
      PROVE  /\ ledger[b].key \in DOMAIN Entries
             /\ Entries[ledger[b].key].ids = ledger[b].ids
             /\ Entries[ledger[b].key].series = ledger[b].series
             /\ Entries[ledger[b].key].numbers = ledger[b].numbers
  <2>1. (CHOOSE a \in Committed : ledger[a].key = ledger[b].key) = b
    BY DEF OneSavePerKey
  <2>2. /\ ledger[b].key \in DOMAIN Entries
        /\ Entries[ledger[b].key] = [ids |-> ledger[b].ids, series |-> ledger[b].series,
                                     numbers |-> ledger[b].numbers]
    BY <2>1 DEF Entries, EntryOf
  <2> QED
    BY <2>2
<1>2. \A k \in DOMAIN Entries : \E b \in Committed : ledger[b].key = k
  BY DEF Entries, EntryOf
<1> QED
  BY <1>1, <1>2 DEF EntriesAreSaves

LEMMA EntriesStay == ASSUME UNCHANGED ledger PROVE Entries' = Entries
  BY DEF Entries, EntryOf, Committed

(* The answers change where a request is told of a save, and nowhere else. *)
LEMMA AnswersStay ==
  ASSUME \A a \in Attempts : /\ Success(a)' <=> Success(a)
                             /\ Success(a) => resp'[a] = resp[a]
  PROVE  Answers' = Answers
<1>1. \A a \in Attempts : (IF Success(a)' THEN resp'[a].ids ELSE {})
                          = (IF Success(a) THEN resp[a].ids ELSE {})
  OBVIOUS
<1> QED
  BY <1>1 DEF Answers

LEMMA AnswersGrow ==
  ASSUME Typed, Histories, NEW a \in Attempts, NEW ids, pc[a] # "done",
         pc' = [pc EXCEPT ![a] = "done"], resp' = [resp EXCEPT ![a] = Ok(ids)]
  PROVE  Answers[a] = {} /\ Answers' = [Answers EXCEPT ![a] = ids]
<1>1. Answers[a] = {}
  BY DEF Answers, Success
<1>2. Success(a)' /\ resp'[a].ids = ids
  BY DEF Success, Ok, Typed, Shape, Histories
<1>3. \A b \in Attempts : b # a => (Success(b)' <=> Success(b)) /\ resp'[b] = resp[b]
  BY DEF Success, Typed, Shape, Histories
<1>4. \A b \in Attempts : (IF Success(b)' THEN resp'[b].ids ELSE {})
                          = IF b = a THEN ids ELSE IF Success(b) THEN resp[b].ids ELSE {}
  BY <1>2, <1>3
<1> QED
  BY <1>1, <1>4 DEF Answers

LEMMA RetellingTells ==
  ASSUME Typed, Histories, KeysInv, RowsInv, NEW a \in Attempts, Retells(a)
  PROVE  Ledger!Tell(a, req[a].key)
<1>1. PICK b \in Committed : ledger[b].key = req[a].key /\ ledger[b].ids = PriorOf(a)
  BY RetoldIsSaved DEF Retells
<1>2. req[a].key \in DOMAIN Entries /\ Entries[req[a].key].ids = PriorOf(a)
  BY <1>1, EntriesOfSaves DEF KeysInv, EntriesAreSaves
<1>3. Answers[a] = {} /\ Answers' = [Answers EXCEPT ![a] = PriorOf(a)]
  BY AnswersGrow DEF Retells
<1>4. Entries' = Entries
  BY EntriesStay DEF Retells
<1> QED
  BY <1>2, <1>3, <1>4 DEF Ledger!Tell

LEMMA CommitEntersLedger ==
  ASSUME Typed, Histories, KeysInv, KeysInv', ApprovalsInv, LotsInv, RowsInv, [Next]_vars,
         NEW a \in Attempts, NEW top, Committing(a, top)
  PROVE  /\ req[a].key \in DOMAIN Entries'
         /\ Ledger!Enter(a, req[a].key, Entries'[req[a].key])
<1> DEFINE k == req[a].key
           series == req[a].form.series
<1>0. EntriesAreSaves /\ EntriesAreSaves'
  <2>1. OneSavePerKey /\ OneSavePerKey'
    BY DEF KeysInv
  <2> QED
    BY <2>1, EntriesOfSaves, PTL
<1>1. /\ a \in Committed' /\ ledger'[a] = NewEntry(a, top)
      /\ \A b \in Committed' : b # a => b \in Committed /\ ledger'[b] = ledger[b]
  BY CommitEnters DEF Committed
<1>2. \A b \in Committed : b \in Committed' /\ ledger'[b] = ledger[b]
  BY SavesStay
<1>3. /\ ledger'[a].key = k /\ ledger'[a].ids = NewIds(a) /\ ledger'[a].series = series
      /\ ledger'[a].numbers = (top + 1)..(top + Length(a))
  BY <1>1, NewEntryFields
<1>4. /\ k \in DOMAIN Entries' /\ Entries'[k].ids = NewIds(a)
      /\ Entries'[k].series = series
      /\ Entries'[k].numbers = (top + 1)..(top + Length(a))
  BY <1>0, <1>1, <1>3 DEF EntriesAreSaves
<1>5. k \notin DOMAIN Entries
  <2> SUFFICES ASSUME NEW b \in Committed, ledger[b].key = k PROVE FALSE
    BY <1>0 DEF EntriesAreSaves
  <2>1. k \in DOMAIN saveRequests \/ Idle(k)
    BY DEF KeysInv, KeyKeptOrIdle
  <2> QED
    BY <2>1 DEF Idle, Committing
<1>6. Answers[a] = {} /\ Answers' = [Answers EXCEPT ![a] = NewIds(a)]
  BY AnswersGrow DEF Committing
<1>7. top \in Nat /\ Length(a) \in Nat /\ nextId \in Nat
  BY NewRecords, LengthIsPositive DEF Typed, RecordsTyped, Committing
<1>8. \A m \in Ledger!Taken(series), n \in (top + 1)..(top + Length(a)) : m < n
  <2> SUFFICES ASSUME NEW m \in Ledger!Taken(series),
                      NEW n \in (top + 1)..(top + Length(a))
               PROVE  m < n
    OBVIOUS
  <2>1. PICK j \in DOMAIN Entries : Entries[j].series = series /\ m \in Entries[j].numbers
    BY DEF Ledger!Taken
  <2>2. PICK b \in Committed : ledger[b].key = j
    BY <1>0, <2>1 DEF EntriesAreSaves
  <2>3. ledger[b].series = series /\ m \in ledger[b].numbers
    BY <1>0, <2>1, <2>2 DEF EntriesAreSaves
  <2>4. m \in Numbers(series)
    BY <2>3 DEF LotsInv, NumbersRemembered
  <2>5. m \in Nat /\ m <= top
    BY <2>4, NumbersAreNat DEF Typed, Committing, IsTop
  <2> QED
    BY <1>7, <2>5
<1>9. \A m \in Ledger!TakenIds, n \in NewIds(a) : m < n
  <2> SUFFICES ASSUME NEW m \in Ledger!TakenIds, NEW n \in NewIds(a) PROVE m < n
    OBVIOUS
  <2>1. PICK j \in DOMAIN Entries : m \in Entries[j].ids
    BY DEF Ledger!TakenIds
  <2>2. PICK b \in Committed : ledger[b].key = j
    BY <1>0, <2>1 DEF EntriesAreSaves
  <2>3. m \in ledger[b].ids
    BY <1>0, <2>1, <2>2 DEF EntriesAreSaves
  <2>4. m \in 1..nextId
    BY <2>3 DEF RowsInv, EntryIsOfRequest
  <2> QED
    BY <1>7, <2>4 DEF NewIds
<1>10. DOMAIN Entries' = DOMAIN Entries \cup {k}
  <2>1. ASSUME NEW j \in DOMAIN Entries' PROVE j \in DOMAIN Entries \cup {k}
    <3>1. PICK b \in Committed' : ledger'[b].key = j
      BY <1>0, <2>1 DEF EntriesAreSaves
    <3> QED
      BY <1>0, <1>1, <1>3, <3>1 DEF EntriesAreSaves
  <2>2. ASSUME NEW j \in DOMAIN Entries PROVE j \in DOMAIN Entries'
    <3>1. PICK b \in Committed : ledger[b].key = j
      BY <1>0, <2>2 DEF EntriesAreSaves
    <3> QED
      BY <1>0, <1>2, <3>1 DEF EntriesAreSaves
  <2> QED
    BY <1>4, <2>1, <2>2
<1>11. ASSUME NEW j \in DOMAIN Entries PROVE Entries'[j] = Entries[j]
  <2>1. PICK b \in Committed : ledger[b].key = j
    BY <1>0 DEF EntriesAreSaves
  <2>2. (CHOOSE c \in Committed : ledger[c].key = j) = b
    BY <2>1 DEF KeysInv, OneSavePerKey
  <2>3. (CHOOSE c \in Committed' : ledger'[c].key = j) = b
    BY <1>2, <2>1 DEF KeysInv, OneSavePerKey
  <2>4. ledger'[b] = ledger[b] /\ j \in DOMAIN Entries'
    BY <1>2, <1>10
  <2> QED
    BY <2>2, <2>3, <2>4 DEF Entries, EntryOf
<1>12. Entries' = [j \in DOMAIN Entries \cup {k} |-> IF j = k THEN Entries'[k] ELSE Entries[j]]
  <2>1. Entries' = [j \in DOMAIN Entries' |-> Entries'[j]]
    BY DEF Entries, EntryOf
  <2> QED
    BY <1>5, <1>10, <1>11, <2>1
<1> QED
  BY <1>4, <1>5, <1>6, <1>8, <1>9, <1>12 DEF Ledger!Enter

LEMMA StepImplementsLedger ==
  ASSUME Typed, Histories, KeysInv, KeysInv', ApprovalsInv, LotsInv, RowsInv, [Next]_vars
  PROVE  [Ledger!Next]_<<Entries, Answers>>
<1>1. CASE Outside
  BY <1>1, EntriesStay, AnswersStay DEF Outside, Success
<1>2. ASSUME NEW t \in Tabs, NEW a \in Attempts, NEW f \in Forms, Save(t, a, f)
      PROVE  UNCHANGED <<Entries, Answers>>
  <2>1. /\ pc[a] = "unused" /\ pc' = [pc EXCEPT ![a] = "received"]
        /\ UNCHANGED <<resp, ledger>>
    BY <1>2 DEF Save
  <2> QED
    BY <2>1, EntriesStay, AnswersStay DEF Success, Typed, Shape
<1>3. ASSUME NEW a \in Attempts, NEW label \in {"checking", "locking", "resolving"},
             GoesOn(a, label)
      PROVE  UNCHANGED <<Entries, Answers>>
  <2>1. /\ pc[a] # "done" /\ pc' = [pc EXCEPT ![a] = label]
        /\ UNCHANGED <<resp, ledger>>
    BY <1>3 DEF GoesOn
  <2> QED
    BY <2>1, EntriesStay, AnswersStay DEF Success, Typed, Shape
<1>4. ASSUME NEW a \in Attempts, Fails(a) PROVE UNCHANGED <<Entries, Answers>>
  <2>1. PICK n \in {400, 409, 500} : resp' = [resp EXCEPT ![a] = Error(n)]
    BY <1>4 DEF Fails
  <2>2. pc[a] # "done" /\ pc' = [pc EXCEPT ![a] = "done"] /\ UNCHANGED ledger
    BY <1>4 DEF Fails
  <2>3. ~Success(a) /\ ~Success(a)'
    BY <2>1, <2>2 DEF Success, Error, Histories
  <2>4. \A b \in Attempts : b # a => (Success(b)' <=> Success(b)) /\ resp'[b] = resp[b]
    BY <2>1, <2>2 DEF Success, Typed, Shape, Histories
  <2> QED
    BY <2>2, <2>3, <2>4, EntriesStay, AnswersStay
<1>5. ASSUME NEW a \in Attempts, Retells(a) PROVE Ledger!Next
  <2>1. req[a].key \in RequestIds
    BY <1>5 DEF Retells, Typed, Shape, Requests
  <2> QED
    BY <1>5, <2>1, RetellingTells DEF Ledger!Next
<1>6. ASSUME NEW a \in Attempts, NEW top, Committing(a, top) PROVE Ledger!Next
  <2>1. req[a].key \in RequestIds
    BY <1>6 DEF Committing, Typed, Shape, Requests
  <2> QED
    BY <1>6, <2>1, CommitEntersLedger DEF Ledger!Next
<1> QED
  BY <1>1, <1>2, <1>3, <1>4, <1>5, <1>6, StepCases

(* The screens, the handlers, the manager and the clock together implement *)
(* the ledger: a key is entered once, ids and LOT numbers of an entry lie  *)
(* above all earlier ones, and no request is told anything but an entry.   *)
THEOREM HandlersImplementLedger == Spec => ImplementsLedger
<1>1. Init => Ledger!Init
  <2> SUFFICES ASSUME Init PROVE Ledger!Init
    OBVIOUS
  <2>1. Committed = {} /\ \A a \in Attempts : ~Success(a)
    BY DEF Init, Committed, Success
  <2>2. Entries = << >>
    BY <2>1 DEF Entries, EntryOf
  <2>3. Answers = [a \in Attempts |-> {}]
    BY <2>1 DEF Answers
  <2> QED
    BY <2>2, <2>3 DEF Ledger!Init
<1>2. Typed /\ Histories /\ KeysInv /\ KeysInv' /\ ApprovalsInv /\ LotsInv /\ RowsInv
      /\ [Next]_vars => [Ledger!Next]_<<Entries, Answers>>
  BY StepImplementsLedger
<1> QED
  BY <1>1, <1>2, TypedInvariant, HistoriesInvariant, KeysInvariant,
     ApprovalsInvariant, LotsInvariant, RowsInvariant, PTL DEF Spec, ImplementsLedger, Ledger!Spec

=============================================================================
