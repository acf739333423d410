# Verification of IRMS / BRM

This directory holds a formal model of the recipe and blending system in this
repository: TLA+ modules of its parts, TLC configurations that model-check them on small
instances, and TLAPS proofs. Everything is translated from the code under `src/`; a line
range for every definition is in `PROJECT.json` ("map").

## 1. The system

A FastAPI server over one SQLite database (WAL) and a vanilla-JS front end. Workers weigh
blends at terminals, managers maintain recipes, approve exceptions and correct records.
A supervisor (`serve.py`) starts the server, backs the database up, purges canceled
records and installs updates; a scale agent and a tray client run on the terminals; a
portal of the company and the workbook of the attendance terminal are read once a day.

**The transaction rule behind every model.** Each request runs in a thread of its own
over a connection of its own (`db/connection.py`). With Python's `sqlite3` a SELECT
before the first write is autocommitted: it sees what is committed at that moment and
holds nothing. The first INSERT, UPDATE or DELETE (or an explicit `BEGIN IMMEDIATE`)
takes the write lock, and from there to `commit()` no other writer runs. An exception
before the commit rolls all of it back. A handler is therefore one or more unlocked
reading steps and one atomic writing step, and nearly everything that is hard here
happens between the two: what was read, checked or counted may be stale when it is used.

### 1.1 Inventory

| component | state | operations | interacts with | hard behaviour | what makes it correct |
|---|---|---|---|---|---|
| Blend saving (`blend_routes.py`, `blend_service.py`, `blend.js`) | `blend_records` and details, `blend_save_requests`, `retired_product_lots`; the key in the page | save, save continuously, resend, bulk creation | approvals, LOTs, recipes, audit log | lost answers, resends, rivals for a key, LOT numbering under concurrency and deletion | a key saves once; a success is the worker's own save; no LOT is ever reused |
| Manager approvals | `blend_rescale_approvals` | issue, expire after 30 min, consume | consumed inside a save | read before the transaction, consumed in it | a closed approval never lets a later save through; a failed save gives it back |
| Record lifecycle, audit log | record rows with status, signatures, unacknowledged flags; `audit_logs` | correct, review, approve, cancel, restore, acknowledge, delete, delete with the recipe, purge | recipes, purge in another process | stale images, late writers, the purge's old list | the log explains every status; deleted stays deleted; only canceled records are purged |
| Recipe versions | `recipes.revision_of`, `status`, `is_current`, `stage1_recipe_id` | register, revise, cancel, restore, set current, delete, link | reactors, blend screen | two rules for "current", branching chains, concurrent managers | both rules agree; a revision becomes current; deletion keeps lineage |
| Reactor assignments | append-only `recipe_reactor_assignments` | assign, clear, move with the root | recipe deletion | rows keyed by a root that can be deleted | others keep their assignment |
| Recipe settings | columns of `recipes` and `recipe_items` | anchor, tolerance, category, reactor, official, loss | target amounts, import | inheritance at revision, a setting changed during an import | a decision holds until it is changed |
| Target amounts | none of its own | derive, check, correct | recipes, screen | two implementations, rounding, loss, anchor | what the screen asks for is accepted, now and at a correction |
| Two stages, LOT acknowledgements, material LOTs | `blend_lot_acks`, ERP and manual LOTs | carry over, acknowledge, list | saves, corrections, deletions | the first stage changes during a save of the second | what nobody made is listed; amounts are real |
| Viscosity | readings, skips, test readings | register, correct, exclude, skip, link at start | records, tray client | a skip checked and written in two steps, LOTs in several spellings | reminders agree with the panel; no silent change |
| Item codes and names | materials, aliases, item master, product codes, recorded lines | create, rename, alias, map, clear | usage reports | spellings, codes shared or left behind | a name leads to one code and one owner |
| Import of a sheet | none | parse, match, register | materials, versions | several tables, merged cells, unknown names | no value is dropped in silence |
| Usage reports | none | sum, group, compare | records, codes | several queries of one figure | reports of one period agree |
| Worker roster, blend session | `workers`; cookie with the name | register, log in, rename, (de)activate, grant, revoke, delete | records hold names | the last manager, records that follow a rename | a manager remains; records keep their worker |
| Manager login and sessions | session token per account, cookies | log in, out, idle timeout, heartbeat | every manager route | answers that arrive late bring old cookies back | an ended session is never served |
| Attendance login and lockout | passwords, failure counter, lock time, sessions | log in, fail, lock, change, reset | portal | old failures, sessions with a temporary password | a lock has recent reasons; an own password stays |
| Attendance sheet and approvals | approval rows, skip memo, collector lock | collect, judge, compare | portal, workbook, tray client | documents that cannot be read, half days, New Year | nothing readable is left out; nobody is blamed wrongly |
| Notice of leave | date of the last notice; relay | send once a day | supervisor, relay on another machine | each of three programs fails alone | one notice a day; done means sent |
| Supervisor `serve.py` | child process, backup files, markers, working tree | start, back up, prune, purge, update, restart | database, repository, purge | every command can fail; the server dies | the status is true; nothing purged is lost; what is pushed arrives |
| Scale agent | serial ports, event bus, yield flag | connect, read, query, yield, reconnect | blend screen, older program | reader, watcher and menu threads without a common lock; event numbers start again | no port is lost; a print fills one row |
| Tray client | slots per day, switches | poll, alert, retry, mute | attendance, viscosity | retries until the slot is over | each slot is served, and told once |
| DHR documents and cache | PDF files and markers, settings of signatures, the lock of Excel | ask, look up, draw, put, purge | corrections and deletion of records | writers of two versions, a stop between two files, Excel that does not answer | a document is that of the record as it was read |
| Start of the server on an old database (`migrations.py`) | all tables, `schema_migrations` | convert units and codes, link readings, move tests, make LOTs unique | everything afterwards | cut short, repeated, refused; steps of every start beside steps of the first | no amount, value or setting is lost; a second start changes nothing |
| Drafts in the browser | `localStorage`, 3 slots, 24 h | save, restore, drop | blend saving | outlive the key | a reload in `BlendSave` |
| AI assistant | conversations in memory, the bubbles of a tab | ask, stream, stop, reset, forget | settings, the tools that query records | models that fail or hang half way, pages that leave, a restart | an answer is of one model, the history whole; the window is freed |
| Batch discards, settings, sheets backup, pages, limits | mostly none | add, render, query | all | none of concurrency | not modelled |

### 1.2 Hazards

`PROJECT.json` lists forty, each at the line where it bites, with the properties that
cover it, or a note when the code does not prevent it. The largest group is "checked
before the transaction, used in it"; the next are late or repeated messages, and numbers
and texts that two places read in two ways.

## 2. Modules and how they correspond to the code

| module | models | state ↔ code |
|---|---|---|
| `BlendSave` | both POST handlers of a save, with the screen that calls them, approvals, LOT numbers | `records`, `retired`, `saveRequests`, `approvals` are tables; `tab` is the screen's blend, key and pending request; `pc`, `req`, `resp` the requests being handled; `ledger`, `before` are history |
| `SaveLedger` | the abstract specification of a save: a ledger of keys and answers that repeat it | refined by `BlendSave` (`Entries`, `Answers`) |
| `BlendSaveProofs` | theorems and proofs about `BlendSave`: types, LOTs and keys; approvals, answers and the refinement of `SaveLedger` | |
| `RecordLifecycle` | every write to a record after its save, and the purge | `rec`, `recipe`, `audit` are tables; `seen` is what a request read before its transaction; `purge` is the variables of `purge_expired_canceled` |
| `RecipeChains` | pure operators: `resolve_chain_tip`, the SQL list rule, reactor resolution, the cycle test | a table is a function from ids to `[parent, canceled, pinned, stage1]` |
| `RecipeVersions` | the handlers that change versions and assignments | `request` holds what the handler read and will write; `overlap` is history: which requests stood between read and write together |
| `RecipeSettings` | the settings of a recipe, their handlers, and how an import hands them on | `version` is the columns, `import` the import in flight, `wanted` and `missed` are history |
| `Weighing` | target amounts: derivation in the server, on the screen, at a correction, and the tolerance | a recipe is its items with weights and losses, an amount is in units of 0.01 g |
| `LotChain` | saves and corrections of the second stage against the first | `made`, `total` the first stage, `second` the records, `acks` the table in the order of its rows, `save` what a handler read; `Scanned` are the oldest `ScanLimit` rows, which the list looks at |
| `LotRules` | when a material's LOT changed; whether a LOT is known | rows are sequences |
| `Viscosity` | readings, skips, tests and the two lists of what is to be measured | `readings`, `skips`, `testValues` are tables; `skipping` are the requests between check and insert |
| `ViscosityRules` | judgement, trend alerts, LOT lookup, source of a product, changes between periods | values are integers, limits are compared in squares |
| `MaterialCodes` | names, aliases and codes of materials and products, and the recorded lines | `materials`, `aliases`, `products`, `master`, `rows` are tables; a line has a name, a link and a stored code, and `Resolved` is `_resolve_erp_code` with all its stages |
| `RecipeImport` | which cell of a pasted sheet becomes what | a sheet is lines of cells |
| `UsageTotals` | the queries of the usage report and the analysis | a record is its columns and rows |
| `Documents` | downloads of the batch document of one record, its cache, deletion, settings and stops | `pdf` and `marker` are the two files, `excel` the lock, `download` what each request has read and made, `history` which downloads overlapped |
| `Migrations` | the start's transaction, step by step, on a database of an older program | `disk` is the database, `work` the transaction, `at` its next step |
| `WorkerRoster` | the roster, cookies and records by name | `worker` and `records` are tables, `screen` the cookies, `request` what a handler read; `overlap` is history: did two requests that take away rights, or two that change names, run together |
| `Sessions` | who a screen is signed in as | `managers` the tokens of the accounts, `cookies` those of the screens, `answers` those under way |
| `AttendanceLogin` | passwords, failures, lock, sessions of the attendance page | `account`, `sessions`, and time in steps of five minutes |
| `AttendanceRules` | how a row of the sheet is judged, and the columns found | texts are sets of the words the code looks for |
| `ApprovalRules` | what a leave document says, and the comparison of a month | dates are numbers, a year has `YearDays` |
| `PortalRuns` | runs of the collector | `stored`, `memo`, `lock`, `last` are what the database keeps; `last` has the numbers of the result as sets: what was rejected, what was not read |
| `LeaveNotice` | the daily notice over supervisor, tool and relay | `noticed` in memory, `doneDate` in the database, `relay` on the other machine |
| `Supervisor` | one cycle of `_watch_once` after another, with the server, the repository and the calendar beside it | `sv` is where the cycle is, `head`, `packages`, `remote` versions, `backups` the files |
| `ScalePorts` | threads that connect, lose, yield and detect ports | `serial`, `taken`, `yielding` are the fields of the sessions, `open` what the operating system knows |
| `ScaleEvents` | a line of a scale on its way to a row of the screen | `bus` is the EventBus, `screen` the cursor and the flags of `pollScaleEvents`; `rows`, `since` and `crossed` (two polls were in flight together) are history |
| `FrameParse` | one line of a scale as a weight | a line is the marks the parsers look for |
| `TraySlots` | the two pollers of the tray | `processed`, `signature`, `mutedDay` are its fields, `told` is history |
| `Assistant` | a question from the window to its answer | `request` is the stream with its worker thread, `frames` what is under way, `sessions` the module variable of `session.py`, `shown` the bubbles; `dropped` is history |
| `RecordLifecycleProofs`, `DocumentsProofs` | theorems and proofs about the module of that name | |
| `RecipeVersionsProofs` | theorems and proofs about `RecipeChains`, `RecipeVersions` and `RecipeSettings` | |
| `CompanionsProofs` | theorems and proofs about `Supervisor`, `LeaveNotice`, `PortalRuns` and `Assistant` | |
| `ScalePortsProofs` | theorems and proofs about `ScalePorts`, `ScaleEvents` and `TraySlots` | |
| `SignInProofs` | theorems and proofs about `Sessions`, `AttendanceLogin` and `WorkerRoster` | |
| `MaterialProofs` | theorems and proofs about `LotChain`, `MaterialCodes` and `Viscosity` | |
| `MC_*` | instances for TLC | |

**BlendSave.** `Save` is the screen posting (`saveBlend`: draw a key once, keep it until
a success). `Lookup`, `Check`, `Transact`, `Resolve` are the handler in the order of its
code: the resend check ahead of all validation; the checks up to the SELECT of the first
approval; the transaction (approvals after the first are read under the lock, then LOT
numbers, records, consumption, the key's row, commit); and the answer of the request
that lost the race for its key. `Refuse` stands for every other refusal (validation,
recipe revised, carry-over, session), for a lock timeout and for a restart: nothing is
kept. `Disconnect` loses the answer, or the request's sender; the server goes on.
`Reload` drops the key and either brings the draft back (same blend) or starts anew.
`HardDelete` retires the LOT; `AgeRequest` is the seven-day retention of keys.

**RecordLifecycle.** `Begin` is the unlocked read with its early answers (404, 400, an
acknowledged flag), each `Write…` the transaction with its audit row. Deleting a recipe
has two reads (`BeginDeleteRecipe` makes the copies, `ListLinked` the list that is
deleted). The purge selects ids (`PurgeSelect`), reads the first (`PurgeRead`), and
deletes in one transaction (`PurgeWrite`), with its skip and its abort.

**RecipeVersions, WorkerRoster, LotChain, the import of RecipeSettings, the skip of
Viscosity.** A read and a write step as above; a refused request is no step. The other
handlers of these modules check and write in one step.

**Supervisor.** Each step of a cycle is a command that works or fails: `Fetch`,
`UpdateBackup`, `Pull`, `Pip`, `Restart`, `Healthy` and their `…Fails`. The server's
process starts, comes up, does not, or dies between any two of them. A fetch that git ends
with an error is a third case (`FetchRefused`): `has_update()` does not look at the return
code, compares the working tree with `tracked`, the `origin/main` of an earlier fetch or pull,
and leaves the status file as it is.

**PortalRuns.** What a run read goes one of three ways: `upsert_batch` stores it, or rejects it
(`Rejected`: it is neither stored nor remembered, and is opened again by the next run), or it
could not be read and is remembered in `skip_memo` (`NewMemo`), of which the lowest numbers are
kept when there are more than `MaxMemo`. The list ends after `MaxListed` documents.

**LotChain.** `unresolved_lot_acks` is `Scanned` and `Unresolved`: the rows of completed
records, oldest first, up to the limit, and of these the ones whose LOT is not completed. The
place of a row in time is `nr`, which `Extended` counts anew whenever rows go.

**MaterialCodes.** Lines are saved with the link and the code of the material of the recipe
(`SaveRow`); a correction of a record without a recipe keeps neither and looks the code up by
name (`TypeRow`); `CodesInit` has lines of the previous system, with a code and without a link.
`Trusted` is stages 1 to 3 of `_resolve_erp_code` (codes that managers gave), `Guesses` stages 4
to 8 (what reads as a code in an alias, in the line or in its name).

**Documents.** A record is known by its version: each change stamps `updated_at`. The
head and the rows of a record come from two queries (`Ask`, `ReadRows`); `Look` and `Take`
are the comparison of the marker and the read of the PDF in `get()`, `PutOpens`,
`PutWrites` and `PutMarks` the three file operations of `put()`, any of which may fail
(`PutFails`). `Crash` leaves the files as they are. The look that the settings give a
document is left out; that they are part of the marker is not.

**Migrations.** The first UPDATE of `apply_schema_migrations` opens a transaction that
`init_db` commits; `RunStep` is one function of it, `Stop` an error or a stop anywhere. Of
steps of the same form one is modelled.

**ScalePorts.** `connect()` is a chain of steps, one per port that is tried: open, wait
for the answer, keep or close. Three threads may be in it at once for one scale; no lock
orders them, and the model has none.

**Assistant.** A question is its number, a text the set of the attempts whose words are in
it. `Ask` to `Reset` are the page, `Begin` to `Finish` the generator of the stream with the
worker thread behind it: `Fail` goes on along the chain of models (`Rest`), and what was
streamed before stays on the screen until `done`. `Timeout` and `CancelStream` may come at any
point; the thread they leave behind changes nothing that is modelled.

**Calculations.** Modules without variables (`RecipeChains`, `Weighing`, `FrameParse`,
`ViscosityRules`, `LotRules`, `RecipeImport`, `AttendanceRules`, `ApprovalRules`,
`UsageTotals`) are evaluated by `MC_Calculations` over every input of small sets.

**Several parts in one run.** `MC_ServerParts` and `MC_Companions` hold parts that share
no state: a behaviour explores one of them, the variable `part` says which.
`MC_Supervisor`, `MC_Versions` and `MC_Workplace` do the same with a variable `world`, the
first with several instances of one module, the second with versions, documents, the
settings of versions and starts, the third with the scale agent and the tray. A part that
is proved about is extended, not instantiated (so are all parts of `ServerParts`, `Companions`
and `Workplace`, and `Supervisor`, `Documents`, `RecipeVersions` and `RecipeSettings`), and
gets its constants from the cfg: the run checks the very definitions the theorems are about, and TLC evaluates their
assumptions.

Operators marked *faulty variant* are small plausible bugs next to the operator they
would replace. No specification uses them: they show that a property notices the bug
(`PROJECT.json`, "mutants"; a property made of several parts has one for each part).

### 2.1 What is abstracted

- Contents of records are a model value (`body`); the fingerprint of a save is its body.
  In the code it leaves out rescale events and the work date as well.
- A LOT is a series and a number; the series stands for product and date, or `T-` tests.
- The resend lookup, the fetch of its record and the comparison are one step in
  `Lookup`; the reads of a handler in `RecipeVersions`, `WorkerRoster` and
  `RecordLifecycle` are one snapshot where no property depends on their being apart.
- `AgeRequest` assumes that after seven days no screen holds the key and no request
  with it is being handled.
- `delete_blend_record` and the purge look a row up once more just before writing; a row
  gone by then is a 404 or a skip, one that goes even later is audited all the same:
  a nondeterministic choice.
- Draft and pending recipe statuses, moving records to another version, the depth
  limits of the walks (50 and 100) and worker categories are left out. Managers may
  not act on themselves (`by # i`).
- Amounts are integers of 0.01 g, viscosities integers; the limits the code rounds to
  0.001 are compared exactly.
- Time is counted in steps: five minutes in `Sessions` and `AttendanceLogin`, twenty in
  `TraySlots`, ten in `PortalRuns`, days in `Supervisor` and `LeaveNotice`, quarters of an
  hour in `AttendanceRules`.
- Texts (cells, notes, titles, lines of a scale) are the words or marks that the code
  looks for in them. Splitting a text into them is left out.
- `AttendanceLogin` and `MaterialCodes` handle one request at a time.
- `Supervisor`: the two `git rev-parse` of `has_update` are taken to work.
- `LotChain`: rows older than `since` are counted and not listed; both are "listed" here.
- `PortalRuns`: which documents stand on the pages that are not read is left open; the numbers
  of a batch are distinct.
- `MaterialCodes`: a name that begins like a code is taken to be that code (`Spells`); a
  correction that changes the name of a line is a line that goes (`DropRow`) and one that
  comes; a screen has the materials as they are when it saves.

## 3. Runs

A cfg gives the constants; symmetry is over interchangeable requests, keys, names and
bodies, and never used with a liveness property. `CHECK_DEADLOCK FALSE` everywhere: the
instances have a bounded number of requests, steps or days, and then the model stops.

| run | instance | shows | distinct states |
|---|---|---|---|
| `SaveKeys` | 1 single screen, 3 requests, 2 keys, 2 versions of the figures | `TypeOK`, `OneSavePerKey`, `SuccessIsOwnSave`, `LaterChangeRefused`, refinement of `SaveLedger` | 109,000 |
| `SaveApprovals` | 2 single screens, 2 requests, 2 approvals of all purposes | `ClosedApprovalsStayClosed`, `ApprovalsUsedBySaves` | 1,386,000 |
| `SaveContinuous` | 1 continuous screen, 2 requests of 2 lots, 2 series, fairness | `LotsNeverReused`, `EveryRequestAnswered` | 328,000 |
| `LifeRecords` | 2 records (one saved late), 2 requests of any kind, the purge, fairness | `AuditExplainsStatus`, `UnackedUntilAck`, `NothingComesBack`, `ExpiredIsPurged` | 56,000 |
| `Versions` | world one: 1 request at a time, all operations, 3 versions, 1 assignment; world two: 2 requests that register up to 2 recipes with one text, cancel, pin or delete; world links: 2 that register, link first stages or delete; world settings: 2 materials, a category that is not allowed, 2 revisions; world documents: 2 downloads, plain ones of an archive and signed ones, 1 change of the record, 2 values of the settings, a deletion, any number of stops; worlds starts and rows: 2 materials, 3 records of one day, 2 of them tests, 2 readings, old databases of all units, LOTs or readings | `NoStage1Cycle`, `ListAndResolveAgree`, `CurrentIsChosen`, `DeletionKeepsChain`, `SettingsAreHandedOn`, `DocumentsAreTrue`, `StartsAreSafe` | 1,155,000 |
| `Calculations` | every table of versions over 4 ids, links also to missing rows; recipes of up to 3 items; every line of a scale of the modelled marks; up to 15 viscosities of a product; LOTs, stock rows, sheets of 3 and 4 lines, days, leave documents of two years of six days, two records of usage | `InputsAreRead`, `JudgedFairly`, `FiguresAgree` | 273,000 |
| `ServerParts` | eight parts (LOTs twice: two saves of one record, and one save at a time with two records and a list that looks at one row; the roster twice: one request at a time, and two at a time without saves), described at the head of `MC_ServerParts` | `ReadingsAreKept`, `LotsAreTraced`, `SessionsEnd`, `LoginIsFair`, `CodesAreUnique`, `RosterIsKept` | 862,000 |
| `Workplace` | worlds: 2 scales of different makes, 2 ports, the older program; 3 lines of a scale, one poll in flight, a restart of the agent; a day of the tray and the start of the next; fairness | `NoPortIsLost`, `PrintsCountOnce`, `SlotsTellOnce`, `WorksAgain` | 236,000 |
| `Companions` | four parts: 3 documents, one that can be read, one of another department, one that the table rejects, two of them opened in a run; the same with less room: one document opened in a run, a memo of one, a list of two, a body that may fail once and that the table rejects; a working day, a day of the weekend, a working day; one chat window that asks twice, of two models, a restart; fairness | `NothingRemains`, `NoticedOnce`, `ChatIsTrue`, `DoneInTheEnd` | 160,000 |
| `Supervisor` | worlds: four days with one record; two versions, the second with packages of its own; a second version that does not boot; fairness | `OkMeansRunning`, `DailyPurgeIsRecoverable`, `BackAndUpdated` | 242,000 |
| `SaveDoubleSpend` | as `SaveApprovals` | violates `ApprovalSpentOnce` | |
| `SupervisorRetry` | as `Supervisor` | violates `InstalledAtLast` | |

A property with several parts is the conjunction of named properties of its module; each
part has a mutant that breaks it.

**Why the bounds are enough.** A race for a key needs two requests and a later resend a
third; two keys let one age and be dropped while the other saves. A test-and-use race on
an approval needs two requests; an approval read inside the transaction needs a second
approval. Reusing a LOT needs a save, a deletion and a save. A record's races need two
writers and the purge, which is an actor of its own. A stale document needs two versions of
the record or of the settings, and a second download to find it; a LOT that is given to
two records twice needs three. A chain branches with three
versions; a cycle that the immediate test would miss has length three; a setting that is
lost at a revision of a revision needs three versions. In `ServerParts` a
late answer needs a second one under way and a third token; a lock needs as many failures
as `MaxFailed` and a window that ends between two of them; a code that is shared needs two
materials and a product, two spellings of one name, and another name that reads as the code; a LOT beyond the scan needs one row
more than `ScanLimit`. In `Workplace` an event number that is used
again needs a restart and more lines than the bus keeps, a slot of yesterday a second
day. In `Companions` a document that waits for another run needs one more than
`MaxBodies`; a memo that is cut and a list that ends early need one document more
than `MaxMemo` and `MaxListed`; a second notice needs two days, a mixed answer two models, a history
that is cut or thrown out one question more than it has room for. In `Supervisor` a backup that is
pruned too early needs more days than are kept. The shapes of `Calculations` are the
smallest where every branch of the code is taken: a run of seven for a shift, eight samples for a deviation, two tables on
one sheet, a leave over New Year. The bounds are the constants marked *bound* in the
modules, and the sizes of the sets.

**Fairness.** `SaveContinuous` and `LifeRecords`: the thread pool runs every request it
accepted (weak fairness of `Handle` and `WriteStep`), the browser handles each answer it
receives (`Deliver`), and `serve.py` runs the purge daily and at every start (`Purge`).
`Workplace`: each thread of the agent goes on with the step it is in, and a reader without
a port tries again every few seconds (weak fairness); the threads of the tray wake and
their polls end. `Companions`: the event loop of the server runs and its timer of sixty
seconds fires (weak fairness of `Handle`), frames that were sent arrive (`Shown`), but no
model has to answer; with less room (`few`) nothing is promised in the end; the daily tool is started each day and a run goes on; a poll, a start
and a store that are possible again and again do succeed some time (strong fairness), for
the network is not always down when they are tried. `Supervisor`: the cycle goes on, a
process that was started is up or dead some time later, and each command that is tried
again and again works some time (strong fairness). Workers, managers, the network, the
cables and the clock owe nothing.

The codes, the settings and the attendance login keep one request of a manager in flight:
their properties are what the handlers establish by themselves. In `RecipeVersions` and
`WorkerRoster` requests overlap, and `overlap` remembers which did: what holds then (a
revision that commits is the current version, a name is one worker's) is stated without,
the rest under the condition that no requests, or none of the kind that matters to it, ever
overlapped. What is lost when they do is said in section 5.

## 4. Proofs

Eight modules hold theorems: properties that some run checks on a small instance, types, and
parts of them, proved by `tlapm` for every value of the constants. The assumptions on the
constants are named in the module that declares them and say that a placeholder (`None`,
`Gone`, "-") is no value of the kind it stands beside, that bounds and limits are numbers,
and what a form or a scale is:
`ScreenAssumption`, `FormsAssumption`, `NoneAssumption` (`BlendSave`), `InitialAssumption`
and `NoneAssumption` (`RecordLifecycle`), `DaysAssumption`, `PortsAssumption`,
`SessionsAssumption`, `DocumentsAssumption`, `LoginAssumption`, `CodesAssumption` (also: what a name reads as is a code, and the two forms are sets of codes),
`VersionsAssumption`, `SettingsAssumption` (what is not set or was cleared is no value of its
setting), `RosterAssumption`, `ViscosityAssumption`, `DocsAssumption` (documents are
numbers, finitely many), `EventsAssumption`, `SlotsAssumption` (alert hours are hours of a day),
`ChatAssumption` (each provider has a model, and a conversation room for a turn),
`ScanAssumption` (`LotChain`); `LeaveNotice` needs none. The bounds of a model
(`MaxVersion`, `MaxTokens`) are constants like the others.

All proofs have one form: an inductive invariant, a lemma that the initial states satisfy
it, one that each step keeps it (a step of the proof for each action), and the property as a
consequence. None of the properties is inductive alone.

| theorem | states | module |
|---|---|---|
| `TypesHold`, `LotsAreNeverReused`, `KeySavesOnce` | `[]TypeOK`, `[]LotsNeverReused`, `[]OneSavePerKey` | `BlendSaveProofs` |
| `NoClosedApprovalSpent`, `UsedMeansSpent`, `SuccessIsTrue`, `ChangedResendIsRefused` | `[]ClosedApprovalsStayClosed`, `[]ApprovalsUsedBySaves`, `[]SuccessIsOwnSave`, `[]LaterChangeRefused` | `BlendSaveProofs` |
| `HandlersImplementLedger` | `ImplementsLedger`: `Spec` implements `SaveLedger` | `BlendSaveProofs` |
| `TypesHold`, `AuditIsTrue`, `RaisedTotalsWait` | `[]TypeOK`, `[]AuditExplainsStatus`, `[]UnackedUntilAck` | `RecordLifecycleProofs` |
| `DeletedStaysDeleted` | the action property `NothingComesBack` | `RecordLifecycleProofs` |
| `WhatIsOkRuns`, `PurgeFollowsBackup` | `[]OkMeansRunning`, `[]DailyPurgeIsRecoverable` | `CompanionsProofs` |
| `NothingIsLeft`, `NoticeIsSentOnce` | `[]NothingRemains`, and `NoticedOnce`: `[]OneNoticePerDay` and the action property `DoneMeansSent` | `CompanionsProofs` |
| `ChatStaysTrue` | `[]ChatIsTrue` | `CompanionsProofs` |
| `NoHandleIsLost`, `PortsStayUsable` | `[]EveryHandleIsKnown`, `[]NoPortIsLost` | `ScalePortsProofs` |
| `PrintsCount`, `SlotsTell` | `PrintsCountOnce`: `[]PrintAppliedOnce` and an action property; `[]SlotsTellOnce` | `ScalePortsProofs` |
| `SessionsEndInTime`, `LockoutIsFair` | `[]SessionsEnd`, `[]LoginIsFair` | `SignInProofs` |
| `RosterStaysKept` | `[]RosterIsKept` | `SignInProofs` |
| `LotsStayTraced` | `[]LotsAreTraced` | `MaterialProofs` |
| `CodesStayUnique`, `ReadingsStayKept` | the action properties `CodesAreUnique`, `ReadingsAreKept` | `MaterialProofs` |
| `DocumentsStayTrue` | `[]DocumentsAreTrue` | `DocumentsProofs` |
| `StagesStayAcyclic`, `ListsShowCurrent` | `[]NoStage1Cycle`, `[]ListAndResolveAgree` | `RecipeVersionsProofs` |
| `CurrentStaysChosen`, `ChainsOutliveVersions` | the action properties `CurrentIsChosen`, `DeletionKeepsChain` | `RecipeVersionsProofs` |
| `SettingsStayHandedOn` | `[]SettingsAreHandedOn` | `RecipeVersionsProofs` |

### 4.1 Saving

- **Types.** `Shape` (the functions of the model stay functions on their index sets, the
  history included) is proved first and used for every other step.
- **LOTs.** `LotsNeverReused` says nothing of numbers that were given and are no longer in
  the database. `LotsInv` adds `NumbersRemembered`: whatever a committed save took is still
  a live record or a retired LOT. So the largest remembered number is above every
  earlier one, the numbers a commit takes are new (`NewNumbersAreNew`), a deletion moves
  a number from one side to the other (`LotsDelete`), and every other step leaves both
  (`QuietSteps`). If the deletion did not retire the LOT, this is where the proof fails.
- **Keys.** A saved key may be dropped from the table after seven days, so absence of a row
  does not mean that the key was never used. `KeysInv` says: a save is under its own
  request's key (`SavesOwnKey`); its row is kept or no screen and no running request has the
  key any more (`KeyKeptOrIdle`, `OldKeysIdle`); and every row belongs to a key some request
  carried (`KeysWereDrawn`), so that a fresh key has none. A commit then finds the row of any
  earlier save. This rests on the bound stated at `AgeRequest` (nobody holds a key for seven
  days).
- **Approvals.** `ApprovalsInv`: what was closed when a request arrived is closed still
  (`ClosedIsClosed`); the first approval, which is read before the transaction, was open when
  the request arrived and is of the right purpose (`FirstWasOpen`); what was spent exists.
  That a *second* save may spend the first approval again is the disagreement of
  `SaveDoubleSpend`: the proof has no such premise, and needs none.
- **Answers.** `BlendInv`: a key is of one blend of one screen, and of one kind of save.
  `RowsInv`: a committed save is of its request's blend and figures, a row of
  `blend_save_requests` is of a committed save, and so is every answer "saved", whether of
  the commit, of the resend check or of a request that lost the race. Together they give
  `SuccessIsOwnSave`.
- **Changed resends.** `ResendsInv`: a request sent after a save of its key with other
  figures finds the row, or the gap of the deleted record, at each point where it could still
  succeed (`ResendsStopped`).
- **Refinement.** The mapping is `Entries` (the committed saves) and `Answers` (what the
  requests were told). A commit maps to `SaveLedger!Enter`, an answer from the row to
  `SaveLedger!Tell`, every other step of screens, handlers, manager and clock to a stutter.
  The three invariants above supply what the abstract guards ask for: a new key, LOTs and ids
  above all earlier ones, an entry behind every answer.

### 4.2 Records, supervisor and its tools, scale agent, tray, assistant

- **The log.** What a step may do to one record is one of five things: nothing, a save, ten
  days passing, a deletion, or a change of a handler with its audit row (`EachRecord`; all the
  steps are sorted into these once). `AuditIsTrue` needs `AuditInv`: what the purge has
  selected was canceled at some time, by its log (`SelectedWereCanceled`); without it nothing
  is known of the list that is deleted later. `CopiedAreListed` is what makes the deletion
  with a recipe complete.
- **The status file.** `OkMeansRunning` speaks of the supervisor at rest: what the file calls ok
  is what runs. `StatusInv` carries `UpToDate` through every place of the cycle from which it
  comes to rest with the status it had (a fetch that was refused is one), and says what an
  update has done by then. It does not say that the last look at the repository reached it:
  that is `FailedChecksAreReported`, which the code violates
  (section 5).
- **Backup and purge.** `PurgeInv`: between backup and purge the day changes once at most,
  and a backup of the day of the slot holds what was canceled before that day (`BackedUp`);
  what the purge removed is in a backup made on that day or the day before (`Kept`), which
  pruning leaves for `KeepDays`. `NotAhead` orders the days.
- **Ports.** `KnownInv`: a port that is open belongs to a session that knows it or to a
  `connect()` under way. `TakenInv` adds what a `connect()` still tries (`Tries`) and that a
  port is connected only to a scale that may have it. `PortsStayUsable` has the hypothesis
  `OnePortEach`, a device answers one scale on one port, which holds in the instance of
  `Workplace` (an `ASSUME` of `MC_Workplace`); without it `TakenIsConnected` fails, see
  section 5. `NoHandleIsLost` has no hypothesis.
- **Prints.** A line must not be counted twice although the numbers of the events begin anew at
  a restart while the page keeps its cursor. `EventsInv`: a line stands in one event at most, and
  what is past the cursor (`PastCursor`), in the answer under way (`InAnswer`), or in the bus
  with a number above that answer's (`PastAnswer`) was put into no row yet; the last is what a
  restart could break and does not, for the bus is empty then and its lines are new. A page that
  is synchronised sees only lines that are younger than `since`. All of it holds as long as no
  two polls were in flight together (`crossed`); what happens when they are is in section 5.
- **Slots.** `TrayInv`: the slot that was answered last is a slot of today that is over, or of an
  earlier day (`Behind`, `MidnightComes`), no slot that raised a popup is later, and of the slots that
  were old at the start each was answered or has a later one before the start (`OldIsKnown`), which
  hides it for good. That a day has a current slot needs that a bounded set of numbers
  has a greatest (`GreatestNat`).
- **Notice of leave.** `NoticeInv`: a notice at the relay has the key of its day, and a tool that
  is about to mark the day has brought the relay a notice of that day, or one with its key was
  there, or nobody was on leave.
- **Collection.** When a run is over and says that nothing remains, every document it listed is
  stored, counted as rejected, or counted as not read, and the last is remembered unless more was
  unread than the memo holds. `CollectInv`: what a run read of the tables when it began is what
  they hold, as long as no other run overlapped it (`RunsApart`). Then a document the run did not
  open is stored or remembered as listed; and when nothing remains, all that were to be opened were
  (`AllOpened`, by counting). For runs that overlap the property claims nothing, as the code's lock
  does not exclude them.

- **Answers of the assistant.** `ChatInv` follows a question from the page to the memory.
  `WindowInv`: the question a page waits for is the last of its conversation, and no two pages
  share one, so that a cleared conversation is never written to again. `FrameInv`: what was
  streamed since the last change of models is of one attempt, a `done` carries the text of one
  attempt, and nothing follows it; without it nothing is known of the text that `done` puts on
  the screen. `MemoryInv`: what is remembered are whole turns, at most `MaxTurns`, of questions of
  this conversation whose stream is over, with the answer that the page shows or will show;
  the model answers in the order asked, except for answers nobody waits for any more (`After`,
  `Never`): a page that stopped may ask again while the thread it left behind still works.
  `CopyInv`: so are the copies of the history a running request holds. `KeptInv`: an answer whose
  `done` is sent is remembered, or the conversation is full of turns that came after it
  (`IsKept`); this is what cutting the history must preserve. `Ordered` is why the turn that is
  cut off is the oldest.

### 4.3 Sessions, lockout, roster, LOTs, codes, readings, documents

- **Sessions.** An ended session must stay ended although answers under way can bring old
  cookies back. `SessionsInv`: the token of an account was handed out, was not ended, and is
  no other account's; no cookie, on a screen or in an answer, names a token that was never
  handed out or says it was used later than it was (`Backed`); and where requests do not
  overlap the worker of a screen, once the answer is there, is the last who signed in
  (`Follows`).
- **Lockout.** The code keeps a counter, the property speaks of the failures themselves.
  `LoginInv` ties them: `failed` is the number of latest failures that are close to each other
  (`Counted`; there is one such number at most, `CloseIs`), where a failure outside the window
  makes that number one (`CloseGrows`), and a lock that holds has its failures remembered
  (`HasCause`). A new password leaves `last_failed_at` as it is while the count is cleared;
  `Counted` is why that does no harm: with no failure to count, the next one counts as one
  whether it starts anew or is added to zero.
- **Roster.** `RosterInv` says what of a request's reads is still true when it writes.
  `RightsKept`: as long as no two requests that take away rights overlapped, there is one
  such request at most, and the other manager it saw is a manager still, for every other
  request adds managers only. A request that renames *and* deactivates has no such witness: it
  looks under the lock (`IsRenaming`). `NamesKept`: likewise one request at most changes a
  name, and the name it read is still that of the row, without which the records it renames
  would not be those of the row; that a name is one worker's is what keeps the records of all
  others apart from them. `OneNameEach` needs no condition: the column is unique.
- **LOTs of two stages.** `LotInv`: every LOT that was made, with every total it had, is
  remembered; a row of `blend_lot_acks` is about the LOT its record names; and what holds of
  records (`RecordSound`) holds of the saves that have read and not yet written (`SaveSound`),
  whatever is made, canceled or corrected in between. That rows are numbered anew when some go
  leaves record and LOT of the others (`ExtendedRows`). A LOT that nobody made is then in the list
  as long as the list looks at its row; that it looks at the oldest rows only is the
  disagreement `NoTypoDisappears` of section 5.
- **Codes.** `NamesInv`: a key leads to one material unless a rename took it from another
  (`KeysUnique`, `codeHistory.taken`); no two materials ever have one name; a line that is
  linked has the name of its material (`LinksNamed`). `HeldInv`: a code has one owner, and
  what a product has was given to it (`GivenRemembered`), without which nothing is known of
  the entry that a clearing leaves. That work on names moves no line is about two states, and about
  the codes that managers gave (`Trusted`): as long as no key was taken, link, name and alias of
  a line all lead to the owner of its key (`TrustedIsOwners`, `OwnersDecide`), and a rename, an
  absorption or an alias keeps that owner (`KeepsLeads`), although it may change which of the
  three finds it. A code that was only read from the line (stages 4 to 8) gives way as soon as an
  alias or an absorption leads its name to a material with a code; the property leaves that out,
  for it is what `docs/dashboards-insight-public-flows.md` 193-195 wants.
- **Readings.** A reading is of the record of its LOT or of none (`MayBeOf`); and a LOT of a
  test blend has one only once its record was purged, when the restart that links readings to
  records finds none. The second half is what `TestsStayApart` does not say of itself: a LOT
  that was entered without a record waits to be linked.
- **Documents.** `DocInv`: nothing is read that was not there (`Reading`). As long as no
  downloads of different versions ran together: those that run have read the same
  (`Together`); the marker is of what is being read, or the record has moved on from what the
  marker says, so that no download, now or later, reads that again (`Marking`, `Behind`); so is
  the PDF (`Stored`); and what was taken or written is what the download wants (`Showing`).
  `Behind` is what makes a stop between the two files harmless. `Gone` is about deletion. What
  happens when downloads do cross is in section 5.

### 4.4 Versions of a recipe

The properties are about walks along `revision_of` and `stage1_recipe_id`, which the modules
define as recursive functions. A theorem needs to know that such a function exists and what
it yields for every table; both are proved in `RecipeVersionsProofs` by induction over the
numbers, which the library has only with an operator as parameter and which is derived here
from the order of the numbers being well-founded (`LeastNat`, `AllNats`).

- **Walks.** A line of ancestors is the least set that holds the start and is closed under
  the link (`WalkIs`). Parents have smaller ids, so that each line ends, at one root
  (`RootIs`), and a walk stays as it is in a table that grows (`WalkGrows`), and loses just
  the version that is spliced out (`WalkSplice`, `WalkCut`).
- **`VersionsInv`** has three parts. `VersionsTyped`: a parent and a first stage are older
  rows or rows that are gone, and so is what a request has read. `LinksOk`: as long as no two
  requests that link first stages overlapped, there is one such request at most and the link
  it will make closes no cycle, *whatever* other requests commit in between (`KeepsLinks`:
  a registration adds versions nobody links to yet, a deletion only cuts walks short). `AloneOk`: as
  long as no requests overlapped, what the one request has read is still so (`AsRead`), and
  the reactor assignments are keyed by roots (`AllKeyed`), without which nothing is known of
  the rows that a deletion moves to the new root.
- **Current version.** The chain of a new revision is that of its parent and the revision;
  after its pins are cleared the newest member wins (`RevisionIsCurrent`), for any table, so
  that this part of the property needs no condition.
- **Two rules.** `ListAndResolveAgree` holds of every table whose parents are older rows
  (`TableAgrees`): both rules number the same members and leaves (`MembersAre`, `LeavesAre`),
  and a chain with an active version has a leaf, its newest. `Calculations` compares the rules
  on tables with links in any direction too, as `tools/link_recipe_chain.py` may make them.
- **Deletion.** A version in the middle leaves the roots of all others (`SplicedRoots`); when
  a root goes, the versions below its first child find that child as their root and with it
  the assignments (`KeepsReactors`). Versions below another child do not: that is what the
  property leaves out, and the disagreement `AssignedVersionExists` of section 5.
- **Settings.** `SettingsInv` adds to the property what it does not say: versions are numbered
  rows with all their columns, an import in flight revises one that is there, or none, and has
  read a sound row. A new version then has what its managers want, except for what was changed
  since the import read (`missed`, which compares the two); the loss is read at the insertion
  and is never missed. That a chain is official as a whole rests on the walks above: two
  versions are of one chain if and only if their roots are one (`FullChains`), a new version
  has its parent's root (`FullGrows`), so that setting `dhr` on a chain takes both of two
  related versions or neither.

### 4.5 Only model-checked

- **Liveness** (`EveryRequestAnswered`, `ExpiredIsPurged`, `WorksAgain`, `DoneInTheEnd`,
  `BackAndUpdated`): out of the prover's reach.
- **`InputsAreRead`, `JudgedFairly`, `FiguresAgree`**: evaluations of pure operators, many of them recursive.
- **`StartsAreSafe`**: two steps of a start walk the rows of a table and change them one by one
  (`MoveTests`, `Relot`), and whether another start would change anything is the walk over all
  steps; what a walk leaves is induction over the rows.

## 5. Disagreements between the code and what it says of itself

Two are kept as runs (see "findings" in `PROJECT.json`):

1. `SaveDoubleSpend`: an approval is spent twice by two overlapping saves; the UPDATE
   that consumes it does not test `used` again (`blend_service.py` 3826-3847).
2. `SupervisorRetry`: when the installation of packages fails after a pull, no later
   cycle tries it again, for `has_update()` compares the working tree, which is already
   new (`serve.py` 499-560).

**Further disagreements**, each found by TLC while the model was written. The properties
stay in their modules and can be checked by naming them in a cfg:

| property | how it fails |
|---|---|
| `BlendSave!SuccessKeepsFigures` | the request that loses the race for its key is told "saved" with the winner's record, also when its figures differ (`blend_routes.py` 345-370) |
| `BlendSave!BlendSavedOnce` | a committed answer is lost, the page reloaded: the draft returns without its key (`blend.js` 4180) |
| `BlendSave!ResendNeverFails` | a continuous save is resent after one of its records was deleted for good: the label joins a missing LOT, HTTP 500 (`blend_routes.py` 2139-2142) |
| `RecordLifecycle!PurgeSparesRestored` | the purge deletes a record that was restored after its SELECT (`record_delete_service.py` 237) |
| `RecordLifecycle!CanceledIsFrozen` | `blend_update` has no test of the status (against `record_delete_service.py` 221) |
| `RecordLifecycle!BeforeImageIsCurrent` | two corrections overlap (`blend_routes.py` 1890) |
| `RecordLifecycle!DeletedLeavesCopy` | a record saved while its recipe is deleted goes without a copy (`recipe_manager_routes.py` 116-120) |
| `RecordLifecycle!AckAuditedOnce` | two acknowledgements overlap (`blend_rescale_ack_routes.py` 113) |
| `RecipeVersions!AssignedVersionExists` | after the root of a branched chain of four is deleted, a version that is assigned to a reactor can be deleted (`recipe_manager_routes.py` 86, 144-156); no race is needed |
| `RecipeVersions!RevisesCurrentNow` without its condition on `overlap.any` | two revisions of one version branch the chain (`recipe_import_routes.py` 152-156) |
| `RecipeVersions!SetCurrentTakesEffectNow` without its condition on `overlap.any` | the pin was decided before another change (`recipe_manager_routes.py` 389) |
| `RecipeVersions!DeleteKeepsLineageNow` without its condition on `overlap.any` | a version and its parent are deleted at once (`record_delete_service.py` 126) |
| `RecipeVersions!NoStage1Cycle` without its condition on `overlap.links` | two links close a cycle together (`recipe_manager_routes.py` 786) |
| `RecipeVersions!TipIsListed` | a revision under a deleted parent has no root (`recipe_helpers.py` 251) |
| `WorkerRoster!RosterIsKept` without its condition on `overlap.rights` | two managers deactivate or revoke each other (`worker_routes.py` 121) |
| `WorkerRoster!RosterIsKept` without its condition on `overlap.names` | two renames of one worker overlap (`worker_service.py` 209) |
| `WorkerRoster!DeleteSparesRecords` | a save between check and DELETE (`worker_routes.py` 239) |
| `WorkerRoster!RecordNamesListed` | a screen logged in under the old name saves after the rename (`blend_routes.py` 249) |
| `LotChain!NoTypoDisappears` with `ScanLimit = 1` | the list of unresolved LOTs reads the oldest 2000 rows, resolved ones included (`blend_service.py` 2088); a newer LOT that nobody made is neither listed nor counted, against the docstring (2073-2076) |
| `MaterialCodes!LinesFollowTheMove` | a code moves to another material, and a line that was saved under the first one is reported with it still, by the code stored in the line (`blend_service.py` 666); moves apply to past records, says `docs/dashboards-insight-public-flows.md` 193 |
| `LotChain!CarriedIsCompleted` | the lot that is carried over is canceled between check and commit (`blend_service.py` 1858) |
| `Viscosity!MeasuredNotSkipped` | a reading is saved between the checks of a skip and its insert (`viscosity_routes.py` 332-375; the comment at `blend_routes.py` 1301-1303) |
| `ScalePorts!YieldedIsReleased` | the watcher yields while a connect is under way, which then opens the port (the docstring of `connect`, `agent.py` 631); with two scales of one protocol that both look for a port, `TakenIsConnected` fails too |
| `ScaleEvents!PrintsCountOnce` without its condition on `crossed`, with `MaxPolls = 2` | a slow answer of an earlier poll fills a second row (`blend.js` 786) |
| `ScaleEvents!NotWhileBlocked` | a dialog opens while an answer is under way (`blend.js` 748-799) |
| `Supervisor!FailedChecksAreReported` | a fetch that git ends with an error (an expired credential, no network) leaves `ok: true` in the status file, for its return code is not looked at (`serve.py` 155); the comment at 165-167 says that every failure is written |
| `Supervisor!PurgedIsRecoverable` | the purge at server start does not wait for a backup (`src/main.py` 163) |
| `Documents!NothingStaleIsHandedOut` | of two downloads of different versions the older writes its PDF after the newer, and its marker before: the old document is handed out from then on (`dhr_cache.py` 61-70) |
| `Documents!DocumentIsWhole` | the server stops while a PDF is written, and the settings go back to what the marker says (`dhr_cache.py` 69) |
| `Documents!DocumentOfOneVersion` | a correction commits between the query for the head and that for the rows (`blend_service.py` 3107-3165) |
| `Documents!CanceledSaysSo` | Excel does not answer, and the form that is drawn without it has no mark of cancellation; it is cached (`dhr_pdf.py` 424-484; `blend_routes.py` 1049-1051 say that the mark is there for single documents) |
| `Migrations!OneStartIsEnoughNow` without `NewLotsAreUnread` | a new LOT is one that a reading without a record names: the next start links that reading to the record (`migrations.py` 1171-1190 look at the LOTs of records only) |
| `PortalRuns!StoredInTheEnd` with as many documents in `BodyRefused` as `MaxBodies` | what `validate_item` rejects (`attendance_approvals.py` 340) is opened again by every run and keeps out what waits behind it, which the docstring of `collect()` means to prevent (`collector.py` 82-86) |
| `PortalRuns!ReadInTheEnd` with `Flaky` documents | a body that failed once for another reason is remembered as not to be read (`collector.py` 168) |

Outside the instances of the runs, found while the code was read for the model:

- **Weighing.** A base material that has a loss of its own, or that stands in two rows,
  gives targets the docstring does not (`blend_service.py` 2363-2364 against 2445-2468); a
  correction that names another base changes the total (`blend_routes.py` 1836-1856); a
  loss of 0 at the item does not switch the material's off, as the docstring of
  `set_recipe_loss_comp` says (`blend_service.py` 430-436).
- **FrameParse.** A CAS line with comma and the unit KG or lb is taken for grams
  (`agent.py` 123-124; `tests/test_scale_agent.py` 116-117).
- **ViscosityRules.** A LOT of the date alone is not found when the product's name has
  digits; the verdict on a new reading is made over the sample of its reactor, the list in
  the same answer over the whole year (`viscosity_routes.py` 480 and 516), which the
  docstring of `classify_value` means to exclude.
- **Supervisor.** A version that does not boot, or whose packages fail, is started again
  and again and no push is looked at meanwhile; `ok: false` stays after a failure that
  has passed; the installation of packages at start has no time limit.
- **PortalRuns.** The lock is tested and set in two steps, and a run that was declared
  stale releases the lock of its successor; `_already_ran_today` compares a UTC date with
  a local one; documents beyond `MAX_PAGES` pages are in no number of the result.
- **TraySlots.** When an hour is removed from the list, the slot before it is current
  again and raises a second popup; a popup comes after "not today" when the poll was
  under way.
- **Assistant.** `get_history` gives out, and keeps alive, a conversation that has been idle
  for more than the 30 minutes of its docstring (`session.py` 9 and 28-34), unless another
  conversation was stored in between; a page that is left between `done` and the end of the
  stream marks the complete answer as stopped and stores the streamed text, which may be of
  two models (`assistant.js` 898-902); an answer that was stopped on the screen may still
  be added to the history.
- **LotChain.** A record of the first stage that is canceled after its use is listed
  nowhere; a material with no completed record is not recognised as one we make.
- **LotRules.** A code that a manager typed in another case is another code.
- **Sessions.** A late answer may undo a login of a worker (`blend_session.py` 52); the
  session of a manager who is deactivated works again when he is reactivated; a logout
  checks and writes in two steps.
- **MaterialCodes.** `rename_material` does not compare the new name with other names by
  `normalize_token` (the comment in `create_material` says it must), and may leave one code
  with two names; `set_recipe_product_code` leaves a manual entry of the master behind; the
  screen sends neither id nor code of a material at a correction (`status.js` 807-836), so that
  the lines of a record without a recipe lose both.
- **AttendanceLogin.** The window is not rolling (`attendance_auth.py` 8-12): a failure is
  compared with the one before it only, so that five of them, each fourteen minutes after
  the other, lock the account; requests that overlap lose counts.
- **AttendanceRules.** A half day that does not say which half is alarmed during the day;
  the codes 5 and 6 of `Category` are never reached; the parser judges rows by the clock of
  the parse.
- **ApprovalRules.** Of three and more dates with the year on the last only, the first
  get the wrong year over New Year (`_fill_years`, `parser.py` 464-470); a list of dates
  without the number of days is filled up; a name that no number matches falls back to
  anyone of that name (`attendance_approvals.py` 608-611).
- **UsageTotals.** The weight without a code is summed after the list was cut; a bucket
  with canceled records only has no line in the trend; a group's code is that of the
  highest key, a row's its own.
- **RecipeImport.** A line without an item loses its remark and steps without a word; so
  do lines before the first header; a second remark or product column becomes a
  material; a code of the master that another material holds ends in HTTP 500.
- **RecipeSettings.** A setting that is changed between the read and the insert of an
  import is lost; the import's `tolerance_g` has no range check (`models.py` 29) and cannot
  clear the tolerance; a version name is not inherited.

## 6. Not modelled

- **Images of signatures, layout of documents and workbooks, templates, the backup to
  sheets**: image processing, wording and external services; no state to relate.
- **Settings, rate limits, pages, exports, the pages of the dashboard**: rows of one
  value and read-only queries. Of these the usage report is modelled, because several
  queries must agree.
- **The tools of the assistant, the texts of its guide, the limits it remembers of the
  models**: queries, wording, and figures that are only shown.
- **Batch discards**: an append-only table nothing reads for a decision.
- **Bulk creation**: one record per entry through the same function as a save and in one
  transaction; it has no key, so that nothing is promised about a second click.
- **What is drawn where on a document**, and the effects of a scan.
- **Migrations that add columns, tables, indexes and seeds**: statements that do nothing
  when they are repeated.
- **Start and stop of the Windows service, the windows of the tray.**

What could be added next: bulk creation as a further kind of request of `BlendSave`; a
composition of `BlendSave` with `RecipeVersions`; a proof of `StartsAreSafe`, for which the walks
over rows need the induction that `RecipeVersionsProofs` derives for numbers.
