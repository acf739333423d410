---------------------------- MODULE WorkerRoster ----------------------------
(***************************************************************************)
(* The roster of workers: names without passwords, some of whom are made   *)
(* managers.  A blend record and the session of a blend screen hold the    *)
(* worker's NAME, not an id; worker_routes.py renames, deactivates and     *)
(* deletes the rows behind those names.                                    *)
(*                                                                         *)
(* As everywhere in this server a handler reads without a lock (Read...)   *)
(* and writes in one transaction (Write...).  A refused request changes    *)
(* nothing and is no step of the model.                                    *)
(***************************************************************************)
EXTENDS Naturals, FiniteSets, Sequences

CONSTANTS
    WorkerNames,          \* valid worker names
    BlendScreens,        \* blend screens, each with a cookie
    RosterRequests,       \* manager requests that may be in flight at one time
    AdminAccount,   \* is there a usable account of the old users table
    MaxWorkers,     \* bound: rows ever inserted into workers
    MaxRecords,     \* bound: blend records saved
    NoName          \* not a name
ASSUME RosterAssumption == /\ NoName \notin WorkerNames /\ AdminAccount \in BOOLEAN
                           /\ MaxWorkers \in Nat /\ MaxRecords \in Nat

VARIABLES
    worker,     \* workers: id -> [name, active, manager]
    nextId,     \* its AUTOINCREMENT counter
    records,    \* blend_records, in order: [name, by, fresh]; the last two are
                \* history: who saved, and was that the worker's name then
    screen,     \* per screen: the worker in its cookie, [name, by]
    request,    \* per request: what the handler read and will write
    overlap     \* history: did two requests that take away rights, or two
                \* that change names, stand between read and write together

rosterVars == <<worker, nextId, records, screen, request, overlap>>

Admin    == 0
Managers == {i \in DOMAIN worker : worker[i].active /\ worker[i].manager}
Actors   == Managers \cup (IF AdminAccount THEN {Admin} ELSE {})
Listed   == {worker[i].name : i \in DOMAIN worker}
HasBlendRecords(name) == \E r \in 1..Len(records) : records[r].name = name

InFlight == {m \in RosterRequests : request[m] # NoName}
TakesRights(q) == q.op \in {"revoke", "reactivate", "delete"} \/ (q.op = "update" /\ q.active = FALSE)
ChangesName(q) == q.op = "delete" \/ (q.op = "update" /\ q.new # q.old)

Read(m, q) ==
    /\ m \notin InFlight
    /\ request' = [request EXCEPT ![m] = q]
    /\ overlap' = [rights |-> overlap.rights \/ (TakesRights(q) /\ \E k \in InFlight : TakesRights(request[k])),
                   names  |-> overlap.names \/ (ChangesName(q) /\ \E k \in InFlight : ChangesName(request[k]))]
    /\ UNCHANGED <<worker, nextId, records, screen>>
Writes(m, name) ==
    /\ m \in InFlight /\ request[m].op = name
    /\ request' = [request EXCEPT ![m] = NoName]
    /\ UNCHANGED <<nextId, screen, overlap>>

(* An UPDATE of a row that is gone changes nothing.                        *)
Updated(i, row) == [j \in DOMAIN worker |-> IF j = i THEN row ELSE worker[j]]
Row(i) == IF i \in DOMAIN worker THEN worker[i]
          ELSE [name |-> NoName, active |-> FALSE, manager |-> FALSE]

(***************************************************************************)
(* The blend screen: register a new name, log in by name, save.            *)
(***************************************************************************)
Register(n) ==
    /\ n \notin Listed /\ nextId < MaxWorkers
    /\ worker' = [i \in DOMAIN worker \cup {nextId + 1} |->
                    IF i \in DOMAIN worker THEN worker[i]
                    ELSE [name |-> n, active |-> TRUE, manager |-> FALSE]]
    /\ nextId' = nextId + 1
    /\ UNCHANGED <<records, screen, request, overlap>>

PickWorker(s, i) ==
    /\ worker[i].active
    /\ screen' = [screen EXCEPT ![s] = [name |-> worker[i].name, by |-> i]]
    /\ UNCHANGED <<worker, nextId, records, request, overlap>>

LeaveScreen(s) ==
    /\ screen[s] # NoName
    /\ screen' = [screen EXCEPT ![s] = NoName]
    /\ UNCHANGED <<worker, nextId, records, request, overlap>>

(* A save takes the name from the cookie and does not look at the roster.  *)
SaveRecord(s) ==
    /\ screen[s] # NoName /\ Len(records) < MaxRecords
    /\ records' = Append(records,
          [name |-> screen[s].name, by |-> screen[s].by,
           fresh |-> Row(screen[s].by).name = screen[s].name])
    /\ UNCHANGED <<worker, nextId, screen, request, overlap>>

(***************************************************************************)
(* PATCH /workers/{id}: a new name, a new state, or both.                  *)
(***************************************************************************)
NoCheck(i)     == FALSE                                 \* faulty variant
LastManager(i) == Row(i).manager /\ Cardinality(Managers) <= 1

(* A request that renames opens its transaction with the new name, and so  *)
(* looks at the other managers under the lock; else it looks before.       *)
ReadUpdate(m) ==
    \E i \in DOMAIN worker, by \in Actors, n \in WorkerNames, active \in {TRUE, FALSE, NoName} :
        LET renames == n # worker[i].name
        IN  /\ active # NoName \/ renames
            /\ active = FALSE => by # i /\ (renames \/ ~LastManager(i))
            /\ Read(m, [op |-> "update", id |-> i, old |-> worker[i].name,
                        new |-> n, active |-> active])

(* rename: the row, then every record under the name that was read.        *)
RecordsLeft(old, new)    == records                     \* faulty variant
RecordsRenamed(old, new) ==
    [r \in 1..Len(records) |->
        IF records[r].name = old THEN [records[r] EXCEPT !.name = new] ELSE records[r]]

NeverTaken(i, n) == FALSE                               \* faulty variant
NameTaken(i, n)  ==                                     \* UNIQUE (name): 409
    i \in DOMAIN worker /\ \E j \in DOMAIN worker \ {i} : worker[j].name = n

WriteUpdate(m) ==
    /\ Writes(m, "update")
    /\ LET q       == request[m]
           i       == q.id
           renames == q.new # q.old
           refused == renames /\ (NameTaken(i, q.new) \/ (q.active = FALSE /\ LastManager(i)))
       IN  IF refused THEN UNCHANGED <<worker, records>>
           ELSE /\ worker' = Updated(i, [Row(i) EXCEPT
                                !.name   = IF renames THEN q.new ELSE @,
                                !.active = IF q.active = NoName THEN @ ELSE q.active])
                /\ records' = IF renames THEN RecordsRenamed(q.old, q.new) ELSE records

(***************************************************************************)
(* Grant and revoke a manager, delete a name, and the registration of an   *)
(* inactive name by a manager, which brings it back without its rights.    *)
(***************************************************************************)
ReadGrant(m) ==
    \E i \in DOMAIN worker : Actors # {} /\ Read(m, [op |-> "grant", id |-> i])
WriteGrant(m) ==
    /\ Writes(m, "grant")
    /\ worker' = Updated(request[m].id, [Row(request[m].id) EXCEPT !.manager = TRUE])
    /\ UNCHANGED records

ReadRevoke(m) ==
    \E i \in DOMAIN worker, by \in Actors :
        by # i /\ ~LastManager(i) /\ Read(m, [op |-> "revoke", id |-> i])
WriteRevoke(m) ==
    /\ Writes(m, "revoke")
    /\ worker' = Updated(request[m].id, [Row(request[m].id) EXCEPT !.manager = FALSE])
    /\ UNCHANGED records

ReadReactivate(m) ==
    \E i \in DOMAIN worker : /\ Actors # {} /\ ~worker[i].active
                             /\ Read(m, [op |-> "reactivate", id |-> i])
WriteReactivate(m) ==
    /\ Writes(m, "reactivate")
    /\ worker' = Updated(request[m].id,
                         [Row(request[m].id) EXCEPT !.active = TRUE, !.manager = FALSE])
    /\ UNCHANGED records

ReadDelete(m) ==
    \E i \in DOMAIN worker : /\ Actors # {}
                             /\ ~worker[i].manager /\ ~HasBlendRecords(worker[i].name)
                             /\ Read(m, [op |-> "delete", id |-> i])
WriteDelete(m) ==
    /\ Writes(m, "delete")
    /\ worker' = [i \in DOMAIN worker \ {request[m].id} |-> worker[i]]
    /\ UNCHANGED records

(* The first manager was granted by the bootstrap account.                 *)
RosterInit ==
    /\ \E n \in WorkerNames :
          worker = [i \in {1} |-> [name |-> n, active |-> TRUE, manager |-> TRUE]]
    /\ nextId = 1 /\ records = << >>
    /\ screen = [s \in BlendScreens |-> NoName]
    /\ request = [m \in RosterRequests |-> NoName]
    /\ overlap = [rights |-> FALSE, names |-> FALSE]

RosterNext ==
    \/ \E n \in WorkerNames : Register(n)
    \/ \E s \in BlendScreens : \/ \E i \in DOMAIN worker : PickWorker(s, i)
                          \/ LeaveScreen(s) \/ SaveRecord(s)
    \/ \E m \in RosterRequests :
         \/ ReadUpdate(m) \/ ReadGrant(m) \/ ReadRevoke(m) \/ ReadReactivate(m) \/ ReadDelete(m)
         \/ WriteUpdate(m) \/ WriteGrant(m) \/ WriteRevoke(m) \/ WriteReactivate(m)
         \/ WriteDelete(m)

RosterSpec == RosterInit /\ [][RosterNext]_rosterVars

(***************************************************************************)
(* Properties.                                                             *)
(***************************************************************************)
(* A name is one worker's, whatever is registered, renamed and deleted at  *)
(* the same time (workers, UNIQUE (name)).                                 *)
OneNameEach == \A i, j \in DOMAIN worker : worker[i].name = worker[j].name => i = j

(* There is always a manager who can log in: over any sequence of renames, *)
(* deactivations, revocations, deletions and registrations ("마지막 책임자   *)
(* 보호", update_worker, revoke_manager).                                   *)
ManagerRemains == Managers # {}

(* What a worker saved under the own name stays under the worker's name    *)
(* ("과거 배합 기록의 작업자명도 함께 동기화", worker_service.rename).          *)
RenameCarriesRecords ==
    \A r \in 1..Len(records) :
        records[r].fresh /\ records[r].by \in DOMAIN worker
        => records[r].name = worker[records[r].by].name

(* A name is one worker's; a manager remains as long as no two requests    *)
(* that take away rights overlapped; and the records of a worker are under *)
(* the worker's present name as long as no two that change names did       *)
(* (worker_routes.py, worker_service.py).                                  *)
RosterIsKept ==
    /\ OneNameEach
    /\ ~ overlap.rights => ManagerRemains
    /\ ~ overlap.names  => RenameCarriesRecords

(* A name with blend records is not deleted ("책임자·배합 기록 있는 이름은   *)
(* 막고", delete_worker).                                                   *)
(* Does not hold: see "further disagreements" in the README.               *)
DeleteSparesRecords ==
    [][\A i \in DOMAIN worker : i \notin DOMAIN worker' => ~HasBlendRecords(worker[i].name)]_rosterVars

(* No record is left under a name that the roster does not know ("옛 기록이 *)
(* 옛 이름으로 남아 화면 연결이 끊기고", worker_service.rename).               *)
(* Does not hold: see "further disagreements" in the README.               *)
RecordNamesListed == \A r \in 1..Len(records) : records[r].name \in Listed
=============================================================================
