----------------------------- MODULE BlendSave -----------------------------
(***************************************************************************)
(* Saving a blend record: the two POST handlers of blend_routes.py         *)
(* (/blend/records and /blend/records/continuous), the idempotency key     *)
(* that lets a browser resend a save whose answer was lost, the one-time   *)
(* approvals a manager issues, and the product LOT numbers a save takes.   *)
(*                                                                         *)
(* Every HTTP request runs in a thread of its own over its own SQLite      *)
(* connection.  Its SELECTs before the first write are autocommitted and   *)
(* see whatever is committed at that moment; from its first write to its   *)
(* commit no other writer runs.  A handler is therefore a few unlocked     *)
(* reading steps followed by ONE atomic writing step.                      *)
(***************************************************************************)
EXTENDS Naturals, Sequences, SequencesExt

CONSTANTS
    Tabs,          \* open blend screens
    Screen,        \* Screen[t]: the endpoint the screen of t posts to
    Attempts,      \* HTTP requests
    RequestIds,    \* keys newRequestId() may draw
    Forms,         \* what a worker may submit: [body, series, events, noweigh]
    MaxApprovals,  \* bound: approvals ever issued
    Absent,        \* an event that gives a reason for the manager's absence
    None

Endpoints == {"single", "continuous"}
Purposes  == {"rescale", "manual", "test_noweigh"}

ASSUME ScreenAssumption == Screen \in [Tabs -> Endpoints]
ASSUME FormsAssumption ==
    \A f \in Forms : /\ f.events \in Seq(Seq((Nat \ {0}) \cup {Absent}))
                     /\ f.events # <<>>
                     /\ f.noweigh \in (Nat \ {0}) \cup {None}
(* What the history says of a save.                                        *)
Saves == [key : RequestIds, blend : Tabs \X Nat, body : {f.body : f \in Forms},
          ids : SUBSET Nat, spent : SUBSET Nat,
          series : {f.series : f \in Forms}, numbers : SUBSET Nat]

(* None and Absent are no value they are told apart from.                  *)
ASSUME NoneAssumption == /\ None \notin RequestIds \cup Attempts
                         /\ None \notin Nat /\ Absent \notin Nat
                         /\ None \notin Saves

VARIABLES
    records,       \* blend_records: id -> [lot, body, unacked]
    nextId,        \* its AUTOINCREMENT counter
    retired,       \* retired_product_lots
    saveRequests,  \* blend_save_requests: key -> [endpoint, ids, hash, old]
    approvals,     \* blend_rescale_approvals: id -> [purpose, used, expired]
    tab,           \* per screen: its blend, its key, the request it waits for
    pc, req, resp, \* per request: where it is, what it carries, its answer
    ledger,        \* history: what each request committed
    before         \* history: what was committed when the request arrived

db   == <<records, nextId, retired, saveRequests, approvals>>
vars == <<db, tab, pc, req, resp, ledger, before>>

(***************************************************************************)
(* Values.                                                                 *)
(***************************************************************************)
Ok(ids)    == [code |-> 200, ids |-> ids]
Error(n)   == [code |-> n, ids |-> {}]

Lot(series, n) == [series |-> series, n |-> n]
Committed      == {a \in Attempts : ledger[a] # None}

(* The approvals a save spends, in the order the handler reaches them: the *)
(* no-weighing approval first, then the rescale events lot by lot.  The    *)
(* first is read before the transaction is open, the others inside it.     *)
IsApproval(e)    == e # Absent
Spends(f)        == SelectSeq(<<f.noweigh>>, LAMBDA e : e # None)
                    \o SelectSeq(FlattenSeq(f.events), IsApproval)
Spent(f)         == ToSet(Spends(f))
TooManyEvents(f) == \E j \in 1..Len(f.events) : Len(f.events[j]) > 2

PurposeIn(f, p) == IF p = f.noweigh THEN "test_noweigh" ELSE "rescale"
ValidAtAnyAge(p, purpose) == /\ p \in DOMAIN approvals         \* faulty variant
                             /\ ~approvals[p].used
                             /\ approvals[p].purpose = purpose
Valid(p, purpose) == /\ p \in DOMAIN approvals
                     /\ ~approvals[p].used
                     /\ approvals[p].purpose = purpose
                     /\ ~approvals[p].expired

SpendValid(f, n) == Valid(Spends(f)[n], PurposeIn(f, Spends(f)[n]))

(* lookup_save_request: the ids saved under this key by this endpoint,     *)
(* none (which both callers take for "not saved") if there are none.       *)
Prior(key, endpoint) ==
    IF key \in DOMAIN saveRequests /\ saveRequests[key].endpoint = endpoint
    THEN saveRequests[key].ids ELSE {}

(* _reject_changed_resend: the fingerprint stored with the key.            *)
AnyFigures(r)  == TRUE                                  \* faulty variant
SameFigures(r) == saveRequests[r.key].hash = r.form.body

(* The row already there when remember_save_request inserts.               *)
NeverSaved(key)   == FALSE                              \* faulty variant
AlreadySaved(key) == key \in DOMAIN saveRequests

(* generate_product_lot: the largest sequence number of the series, among  *)
(* the records that exist and the LOTs that were deleted for good.         *)
LiveNumbers(series) == {records[i].lot.n : i \in {j \in DOMAIN records :
                                     records[j].lot.series = series}}   \* faulty variant
Numbers(series) == {records[i].lot.n : i \in {j \in DOMAIN records :
                                              records[j].lot.series = series}}
                   \cup {l.n : l \in {m \in retired : m.series = series}}
IsTop(series, top) == \A n \in Numbers(series) : n <= top

(***************************************************************************)
(* The browser (blend.js, blend_continuous.js).                            *)
(***************************************************************************)
(* saveBlend: the key is drawn once and kept until a save succeeds; the    *)
(* worker may have edited the form since the previous try.                 *)
Save(t, a, f) ==
    /\ tab[t].waits = None
    /\ pc[a] = "unused"
    /\ Spent(f) \subseteq DOMAIN approvals
    /\ Screen[t] = "single" => Len(f.events) = 1
    /\ Screen[t] = "continuous" => f.noweigh = None
    /\ \E k \in RequestIds :
        /\ IF tab[t].key = None
           THEN \A b \in Attempts : pc[b] # "unused" => req[b].key # k
           ELSE k = tab[t].key
        /\ tab' = [tab EXCEPT ![t].key = k, ![t].waits = a]
        /\ req' = [req EXCEPT ![a] = [key |-> k, endpoint |-> Screen[t],
                                      form |-> f, blend |-> <<t, tab[t].blend>>]]
    /\ pc' = [pc EXCEPT ![a] = "received"]
    /\ before' = [before EXCEPT ![a] =
                    [closed |-> {p \in DOMAIN approvals :
                                   approvals[p].used \/ approvals[p].expired},
                     saved  |-> {ledger[b].key : b \in Committed}]]
    /\ UNCHANGED <<db, resp, ledger>>

(* The answer arrives: on success the screen drops the key and starts the  *)
(* next blend, on any error it keeps the key for the next try.             *)
SameKeyNextBlend(t) ==                                  \* faulty variant
    [blend |-> tab[t].blend + 1, key |-> tab[t].key, waits |-> None]
NextBlend(t) == [blend |-> tab[t].blend + 1, key |-> None, waits |-> None]

Deliver(t) ==
    /\ tab[t].waits # None
    /\ pc[tab[t].waits] = "done"
    /\ tab' = [tab EXCEPT ![t] = IF resp[tab[t].waits].code = 200 THEN NextBlend(t)
                                 ELSE [@ EXCEPT !.waits = None]]
    /\ UNCHANGED <<db, pc, req, resp, ledger, before>>

(* The connection breaks while the request is on its way or being handled: *)
(* the screen shows a failed save, the server goes on.                     *)
Disconnect(t) ==
    /\ tab[t].waits # None
    /\ tab' = [tab EXCEPT ![t].waits = None]
    /\ UNCHANGED <<db, pc, req, resp, ledger, before>>

(* Reloading the page, or picking a recipe, drops the key; the draft that  *)
(* is restored from localStorage, if any, is still the same blend.         *)
Reload(t) ==
    /\ tab[t].key # None
    /\ \E draft \in {[tab[t] EXCEPT !.key = None, !.waits = None], NextBlend(t)} :
          tab' = [tab EXCEPT ![t] = draft]
    /\ UNCHANGED <<db, pc, req, resp, ledger, before>>

(***************************************************************************)
(* The handlers blend_create and blend_create_continuous.                  *)
(***************************************************************************)
Answer(a, r) == /\ pc' = [pc EXCEPT ![a] = "done"]
                /\ resp' = [resp EXCEPT ![a] = r]

Goto(a, label) == /\ pc' = [pc EXCEPT ![a] = label]
                  /\ UNCHANGED resp

(* The resend check, ahead of every validation.  A single save whose       *)
(* record is gone falls through; a continuous one builds the label of the  *)
(* 409 message first, which fails on the missing LOT of a deleted record.  *)
Lookup(a) ==
    /\ pc[a] = "received"
    /\ LET r      == req[a]
           ids    == Prior(r.key, r.endpoint)
           gone   == ~(ids \subseteq DOMAIN records)
       IN  IF ids = {} THEN Goto(a, "checking")
           ELSE IF gone
           THEN IF r.endpoint = "single" THEN Goto(a, "checking")
                ELSE Answer(a, Error(500))
           ELSE Answer(a, IF SameFigures(r) THEN Ok(ids) ELSE Error(409))
    /\ UNCHANGED <<db, tab, req, ledger, before>>

(* The checks on the form, up to the SELECT of the first approval.         *)
Check(a) ==
    /\ pc[a] = "checking"
    /\ LET f == req[a].form
       IN  IF \/ TooManyEvents(f)
              \/ Spends(f) # <<>> /\ ~SpendValid(f, 1)
           THEN Answer(a, Error(400))
           ELSE Goto(a, "locking")
    /\ UNCHANGED <<db, tab, req, ledger, before>>

(* Any other refusal (an empty form, a missing LOT, a revised recipe, no   *)
(* session ...), also after an approval was consumed: all is rolled back.  *)
(* A server restart or a lock timeout ends the request the same way.       *)
Refuse(a) ==
    /\ pc[a] \in {"received", "checking", "locking", "resolving"}
    /\ Answer(a, Error(400))
    /\ UNCHANGED <<db, tab, req, ledger, before>>

(* The transaction.  The UPDATE that consumes the first approval does not  *)
(* look at `used` again; the approvals after it are read under the lock.   *)
ApprovalsHold(f) ==
    /\ IsInjective(Spends(f))
    /\ \A n \in DOMAIN Spends(f) \ {1} : SpendValid(f, n)

SaveRecordsFromTop(f, base, top) ==                     \* faulty variant
    [i \in DOMAIN records \cup ((base + 1)..(base + Len(f.events))) |->
        IF i \in DOMAIN records THEN records[i]
        ELSE [lot     |-> Lot(f.series, top + (i - base) - 1),
              body    |-> f.body,
              unacked |-> Absent \in ToSet(f.events[i - base])]]
SaveRecords(f, base, top) ==
    [i \in DOMAIN records \cup ((base + 1)..(base + Len(f.events))) |->
        IF i \in DOMAIN records THEN records[i]
        ELSE [lot     |-> Lot(f.series, top + (i - base)),
              body    |-> f.body,
              unacked |-> Absent \in ToSet(f.events[i - base])]]

Consume(f) ==
    [p \in DOMAIN approvals |->
        IF p \in Spent(f) THEN [approvals[p] EXCEPT !.used = TRUE]
        ELSE approvals[p]]

(* remember_save_request: insert the row, then drop the rows past the      *)
(* retention; an existing row raises IntegrityError.                       *)
Remember(key, row) ==
    [k \in {j \in DOMAIN saveRequests : ~saveRequests[j].old} \cup {key} |->
        IF k = key THEN row ELSE saveRequests[k]]

RollbackButSpend(a) ==                                  \* faulty variant
    /\ approvals' = Consume(req[a].form)
    /\ UNCHANGED <<records, nextId, retired, saveRequests, ledger>>
Rollback(a) == UNCHANGED <<db, ledger>>

Transact(a) ==
    /\ pc[a] = "locking"
    /\ LET r   == req[a]
           f   == r.form
           ids == (nextId + 1)..(nextId + Len(f.events))
       IN  IF ~ApprovalsHold(f)
           THEN Answer(a, Error(400)) /\ Rollback(a)
           ELSE IF AlreadySaved(r.key)
           THEN Goto(a, "resolving") /\ Rollback(a)
           ELSE \E top \in {0} \cup Numbers(f.series) :
                    /\ IsTop(f.series, top)
                    /\ records' = SaveRecords(f, nextId, top)
                    /\ nextId' = nextId + Len(f.events)
                    /\ approvals' = Consume(f)
                    /\ saveRequests' =
                          Remember(r.key, [endpoint |-> r.endpoint, ids |-> ids,
                                           hash |-> f.body, old |-> FALSE])
                    /\ ledger' = [ledger EXCEPT ![a] =
                          [key |-> r.key, blend |-> r.blend, body |-> f.body,
                           ids |-> ids, spent |-> Spent(f),
                           series |-> f.series,
                           numbers |-> (top + 1)..(top + Len(f.events))]]
                    /\ Answer(a, Ok(ids))
                    /\ UNCHANGED retired
    /\ UNCHANGED <<tab, req, before>>

(* _resolve_duplicate_save: the request that lost the race answers with    *)
(* the record of the winner.                                               *)
ResolveIfKept(a) ==                                     \* faulty variant
    /\ pc[a] = "resolving"
    /\ Prior(req[a].key, req[a].endpoint) \subseteq DOMAIN records
    /\ Answer(a, Ok(Prior(req[a].key, req[a].endpoint)))
    /\ UNCHANGED <<db, tab, req, ledger, before>>
Resolve(a) ==
    /\ pc[a] = "resolving"
    /\ LET r   == req[a]
           ids == Prior(r.key, r.endpoint)
       IN  Answer(a, IF \/ ids = {}
                        \/ r.endpoint = "single" /\ ~(ids \subseteq DOMAIN records)
                     THEN Error(409) ELSE Ok(ids))
    /\ UNCHANGED <<db, tab, req, ledger, before>>

(***************************************************************************)
(* The manager and the clock.                                              *)
(***************************************************************************)
(* create_rescale_approval; a manual-entry approval is closed at issue.    *)
IssueApproval(purpose) ==
    /\ \E p \in (1..MaxApprovals) \ DOMAIN approvals :
        /\ \A q \in 1..(p - 1) : q \in DOMAIN approvals
        /\ approvals' = [q \in DOMAIN approvals \cup {p} |->
                IF q = p THEN [purpose |-> purpose, used |-> purpose = "manual",
                               expired |-> FALSE]
                ELSE approvals[q]]
    /\ UNCHANGED <<records, nextId, retired, saveRequests,
                   tab, pc, req, resp, ledger, before>>

ExpireApproval(p) ==                              \* 30 minutes pass
    /\ p \in DOMAIN approvals /\ ~approvals[p].expired
    /\ approvals' = [approvals EXCEPT ![p].expired = TRUE]
    /\ UNCHANGED <<records, nextId, retired, saveRequests,
                   tab, pc, req, resp, ledger, before>>

(* delete_blend_record: the LOT is retired in the same transaction.        *)
HardDelete(i) ==
    /\ i \in DOMAIN records
    /\ records' = [j \in DOMAIN records \ {i} |-> records[j]]
    /\ retired' = retired \cup {records[i].lot}
    /\ UNCHANGED <<nextId, saveRequests, approvals,
                   tab, pc, req, resp, ledger, before>>

(* Seven days pass over a saved key.  Bound of the model: by then no       *)
(* screen still holds the key and no request that carries it is handled.   *)
AgeRequest(k) ==
    /\ k \in DOMAIN saveRequests /\ ~saveRequests[k].old
    /\ \A t \in Tabs : tab[t].key # k
    /\ \A a \in Attempts : pc[a] \notin {"unused", "done"} => req[a].key # k
    /\ saveRequests' = [saveRequests EXCEPT ![k].old = TRUE]
    /\ UNCHANGED <<records, nextId, retired, approvals,
                   tab, pc, req, resp, ledger, before>>

Init ==
    /\ records = << >> /\ nextId = 0 /\ retired = {}
    /\ saveRequests = << >> /\ approvals = << >>
    /\ tab = [t \in Tabs |-> [blend |-> 1, key |-> None, waits |-> None]]
    /\ pc = [a \in Attempts |-> "unused"]
    /\ req = [a \in Attempts |-> None]
    /\ resp = [a \in Attempts |-> None]
    /\ ledger = [a \in Attempts |-> None]
    /\ before = [a \in Attempts |-> None]

Handle(a) == Lookup(a) \/ Check(a) \/ Transact(a) \/ Resolve(a)

Next ==
    \/ \E t \in Tabs : \/ \E a \in Attempts, f \in Forms : Save(t, a, f)
                       \/ Deliver(t) \/ Disconnect(t) \/ Reload(t)
    \/ \E a \in Attempts : Handle(a) \/ Refuse(a)
    \/ \E purpose \in Purposes : IssueApproval(purpose)
    \/ \E p \in DOMAIN approvals : ExpireApproval(p)
    \/ \E i \in DOMAIN records : HardDelete(i)
    \/ \E k \in DOMAIN saveRequests : AgeRequest(k)

(* The thread pool runs every request it accepted, and the browser handles *)
(* every answer it gets; workers, managers and the network owe nothing.    *)
Fairness == /\ \A a \in Attempts : WF_vars(Handle(a))
            /\ \A t \in Tabs : WF_vars(Deliver(t))
Spec     == Init /\ [][Next]_vars
FairSpec == Spec /\ Fairness

(***************************************************************************)
(* Properties.                                                             *)
(***************************************************************************)
TypeOK ==
    /\ DOMAIN records \subseteq 1..nextId /\ nextId \in Nat
    /\ \A i \in DOMAIN records :
          /\ records[i].lot = Lot(records[i].lot.series, records[i].lot.n)
          /\ records[i].lot.n \in Nat \ {0}
          /\ records[i].unacked \in BOOLEAN
    /\ \A l \in retired : l = Lot(l.series, l.n) /\ l.n \in Nat \ {0}
    /\ DOMAIN saveRequests \subseteq RequestIds
    /\ \A k \in DOMAIN saveRequests :
          /\ saveRequests[k].endpoint \in Endpoints
          /\ saveRequests[k].ids \in SUBSET (1..nextId)
          /\ saveRequests[k].old \in BOOLEAN
    /\ DOMAIN approvals \subseteq 1..MaxApprovals
    /\ \A p \in DOMAIN approvals :
          approvals[p] \in [purpose : Purposes, used : BOOLEAN, expired : BOOLEAN]
    /\ tab \in [Tabs -> [blend : Nat, key : RequestIds \cup {None},
                         waits : Attempts \cup {None}]]
    /\ pc \in [Attempts -> {"unused", "received", "checking", "locking",
                            "resolving", "done"}]
    /\ DOMAIN req = Attempts
    /\ \A a \in Attempts : pc[a] # "unused" =>
          req[a] \in [key : RequestIds, endpoint : Endpoints, form : Forms,
                      blend : Tabs \X Nat]

Success(a) == pc[a] = "done" /\ resp[a].code = 200

(* A key saves at most once, however often and however concurrently its    *)
(* request is sent: the save and its key share one transaction and one of  *)
(* two rivals is rolled back (blend_service.py, remember_save_request).    *)
OneSavePerKey ==
    \A a, b \in Committed : ledger[a].key = ledger[b].key => a = b

(* A success shown to a worker is the save of that worker's own blend: the *)
(* key of one blend never brings back the record of another (blend.js      *)
(* drops the key after a success and when the recipe changes).             *)
SuccessIsOwnSave ==
    \A a \in Attempts : Success(a) =>
        \E b \in Committed : /\ ledger[b].key = req[a].key
                             /\ ledger[b].blend = req[a].blend
                             /\ ledger[b].ids = resp[a].ids

(* A product LOT names one record for ever: no two saves, no two records   *)
(* and no deleted record ever share one (generate_product_lot).            *)
LotsNeverReused ==
    /\ \A a, b \in Committed :
          a # b /\ ledger[a].series = ledger[b].series
             => ledger[a].numbers \cap ledger[b].numbers = {}
    /\ \A i, j \in DOMAIN records : records[i].lot = records[j].lot => i = j
    /\ \A i \in DOMAIN records : records[i].lot \notin retired

(* Once a save is committed, a resend with other figures is never answered *)
(* as saved (_reject_changed_resend).                                      *)
LaterChangeRefused ==
    \A a \in Attempts, b \in Committed :
        /\ Success(a)
        /\ ledger[b].key = req[a].key /\ ledger[b].key \in before[a].saved
        => ledger[b].body = req[a].form.body

(* The same for every resend, also one that overlaps the first save: "the  *)
(* corrected figures would be left nowhere" (blend_routes.py 335-336).     *)
SuccessKeepsFigures ==
    \A a \in Attempts, b \in Committed :
        Success(a) /\ ledger[b].key = req[a].key
        => ledger[b].body = req[a].form.body

(* An approval that was used or out of date when a request arrived never   *)
(* lets that request save, and what a save spends was issued for it.       *)
ClosedApprovalsStayClosed ==
    \A a \in Committed :
        /\ ledger[a].spent \cap before[a].closed = {}
        /\ \A p \in ledger[a].spent :
              approvals[p].purpose = PurposeIn(req[a].form, p)

(* Two saves never spend the same approval (the comment in                 *)
(* validate_rescale_events, the docstring of consume_noweigh_approval).    *)
ApprovalSpentOnce ==
    \A a, b \in Committed :
        a # b => ledger[a].spent \cap ledger[b].spent = {}

(* A save that fails after it consumed its approvals gives them back: an   *)
(* approval closed by use was spent by a save (one transaction, one        *)
(* commit at the very end of blend_create).                                *)
ApprovalsUsedBySaves ==
    \A p \in DOMAIN approvals :
        approvals[p].used /\ approvals[p].purpose # "manual"
        => \E a \in Committed : p \in ledger[a].spent

(* One physical blend is saved once, whatever happens between the screen   *)
(* and the server (the aim stated in blend_service.py 3552-3558).          *)
(* Does not hold: see "further disagreements" in the README.               *)
BlendSavedOnce ==
    \A a, b \in Committed : ledger[a].blend = ledger[b].blend => a = b

(* Resending a continuous save that was committed brings back its lots     *)
(* (blend_create_continuous, "그때 만든 N로트를 그대로 돌려준다").            *)
(* Does not hold: see "further disagreements" in the README.               *)
ResendNeverFails ==
    \A a \in Attempts : pc[a] = "done" => resp[a].code # 500

(* Every request the server accepted is answered, also the one that lost   *)
(* the race for its key.                                                   *)
EveryRequestAnswered == \A a \in Attempts : pc[a] = "received" ~> pc[a] = "done"

(* What all this promises.                                                 *)
EntryOf(k) == LET save == ledger[CHOOSE a \in Committed : ledger[a].key = k]
              IN  [ids |-> save.ids, series |-> save.series, numbers |-> save.numbers]
Entries == [k \in {ledger[a].key : a \in Committed} |-> EntryOf(k)]
Answers == [a \in Attempts |-> IF Success(a) THEN resp[a].ids ELSE {}]
Ledger  == INSTANCE SaveLedger WITH saved <- Entries, told <- Answers

(* The handlers, the screens and the manager together implement the        *)
(* ledger: keys entered once, LOTs always above every earlier one, answers *)
(* that repeat the ledger.                                                 *)
ImplementsLedger == Ledger!Spec
=============================================================================
