----------------------------- MODULE PortalRuns -----------------------------
(***************************************************************************)
(* Collecting the leave documents from the portal of the company           *)
(* (attendance_approvals.py, portal_approvals/collector.py): the button of *)
(* a manager and the daily tool of serve.py run it, each in a process of   *)
(* its own.  A run reads the list, opens the bodies of the documents that  *)
(* are new or changed, a few per run, and stores what it could read.       *)
(*                                                                         *)
(* A document is a number; its fingerprint (row_signature) is a version.   *)
(***************************************************************************)
EXTENDS Integers, FiniteSets, SequencesExt

CONSTANTS
    Docs,           \* documents, numbered: the newest has the greatest number
    Forbidden,      \* those of another department
    Unreadable,     \* those that lack a field in the title and in the body
    FromTitle,      \* those whose title alone has the required fields
    Flaky,          \* those whose body request may fail without being forbidden
    BodyRefused,    \* those that have every field, but values the table refuses:
                    \* an end before the start, a name that is too long
    TitleRefused,   \* those whose title alone gives such values
    MaxBodies,      \* MAX_BODIES
    MaxMemo,        \* MAX_SKIP_MEMO
    MaxListed,      \* documents on the MAX_PAGES pages that are read
    MaxVersion      \* bound: versions of a document
ASSUME DocsAssumption == /\ Docs \subseteq Nat /\ IsFiniteSet(Docs)
                         /\ MaxBodies \in Nat /\ MaxMemo \in Nat /\ MaxListed \in Nat

VARIABLES
    portal,     \* per document: its version, 0 before it is completed
    stored,     \* attendance_approvals: per document [version, whole]
    memo,       \* skip_memo: per document the version that was unreadable, or 0
    lock,       \* the run lock: "free", "fresh", "stale" (ten minutes old)
    last,       \* the last result: its status, remaining, the documents counted
                \* as rejected and as unread; (history) what it listed, and
                \* whether no other run overlapped it
    today,      \* the last result is of today
    runs        \* per runner: where it is and what it has read

portalVars == <<portal, stored, memo, lock, last, today, runs>>

Runners == {"button", "daily"}
Nothing == [version |-> 0, whole |-> FALSE]
NoRun   == [at |-> "idle", known |-> << >>, memo |-> << >>, listed |-> << >>, alone |-> TRUE]
None    == [d \in Docs |-> 0]
NoResult(status) == [status |-> status, remaining |-> 0, rejected |-> {}, unread |-> {},
                     listed |-> None, alone |-> TRUE]

CollectInit ==
    /\ portal = None /\ stored = [d \in Docs |-> Nothing] /\ memo = None
    /\ lock = "free" /\ today = FALSE
    /\ last = NoResult("none")
    /\ runs = [w \in Runners |-> NoRun]

Running(w)      == runs[w].at \in {"list", "read"}
Becomes(w, run) == runs' = [runs EXCEPT ![w] = run]
Reaches(w, p)      == runs' = [runs EXCEPT ![w].at = p]

(* The daily tool skips a day whose run left nothing behind.               *)
AlreadyRanToday == today /\ last.status = "ok" /\ last.remaining = 0

(* _acquire_run_lock() reads the lock in one statement ...                 *)
StartRun(w) ==
    /\ runs[w].at = "idle" /\ lock # "fresh"
    /\ w = "daily" => ~ AlreadyRanToday
    /\ Reaches(w, "locking")
    /\ UNCHANGED <<portal, stored, memo, lock, last, today>>

(* ... and writes it in another.  The tables are read next.                *)
Locked(w) ==
    /\ runs[w].at = "locking" /\ lock' = "fresh"
    /\ runs' = [v \in Runners |->
                 IF v = w
                 THEN [NoRun EXCEPT !.at = "list", !.known = stored, !.memo = memo,
                                    !.alone = \A u \in Runners \ {w} : ~ Running(u)]
                 ELSE [runs[v] EXCEPT !.alone = ~ Running(v)]]
    /\ UNCHANGED <<portal, stored, memo, last, today>>

(* The pages of the list, as far as they are read; which documents are on  *)
(* later ones is the portal's affair.                                      *)
OnPages(docs) ==
    LET completed == {d \in Docs : portal[d] # 0}
    IN  IF Cardinality(completed) <= MaxListed THEN docs = completed
        ELSE docs \subseteq completed /\ Cardinality(docs) = MaxListed

ListDocs(w) ==
    /\ runs[w].at = "list"
    /\ \E docs \in SUBSET Docs :
         /\ OnPages(docs)
         /\ runs' = [runs EXCEPT ![w].at = "read",
                       ![w].listed = [d \in Docs |-> IF d \in docs THEN portal[d] ELSE 0]]
    /\ UNCHANGED <<portal, stored, memo, lock, last, today>>

(* The login or a page fails: the run is over.                             *)
RunFails(w) ==
    /\ runs[w].at \in {"list", "read"}
    /\ last' = NoResult("error")
    /\ today' = TRUE
    /\ lock' = "free"
    /\ Becomes(w, NoRun)
    /\ UNCHANGED <<portal, stored, memo>>

(***************************************************************************)
(* collect(): newest first; what is stored or remembered with the listed   *)
(* fingerprint is not opened.                                              *)
(***************************************************************************)
Listed(run)     == {d \in Docs : run.listed[d] # 0}
Remembered(run) == {d \in Listed(run) : /\ run.known[d].version # run.listed[d]
                                        /\ run.memo[d] = run.listed[d]}

(* faulty variant: what could not be read is opened again in every run     *)
ToOpenAgain(run) == {d \in Listed(run) : run.known[d].version # run.listed[d]}

ToOpen(run)     == {d \in Listed(run) : run.known[d].version # run.listed[d]} \ Remembered(run)

Opened(run)     == {d \in ToOpen(run) : Cardinality({e \in ToOpen(run) : e > d}) < MaxBodies}
OrNone(n)         == IF n > 0 THEN n ELSE 0

RemainingLess(run) == OrNone(Cardinality(ToOpen(run)) - MaxBodies - 1)  \* faulty variant
Remaining(run)     == OrNone(Cardinality(ToOpen(run)) - MaxBodies)

(* A body that fails for another reason than the permission leaves the     *)
(* document to its title.                                                  *)
Items(run, failed) ==
    (Opened(run) \ (Forbidden \cup Unreadable)) \ (failed \ FromTitle)

(* validate_item(): the table refuses some of the items.                   *)
Rejected(run, failed) ==
    {d \in Items(run, failed) : d \in IF d \in failed THEN TitleRefused ELSE BodyRefused}
Storable(run, failed) == Items(run, failed) \ Rejected(run, failed)

(* What could not be read is remembered, the lowest numbers when there are *)
(* too many.  What was rejected is not.                                    *)
Unread(run, failed) == Remembered(run) \cup (Opened(run) \ Items(run, failed))
MemoOf(run, unread, limit) ==
    [d \in Docs |-> IF d \in unread /\ Cardinality({e \in unread : e < d}) < limit
                    THEN run.listed[d] ELSE 0]
NewMemoLess(run, failed) == MemoOf(run, Unread(run, failed), MaxMemo - 1)  \* faulty variant
NewMemo(run, failed)     == MemoOf(run, Unread(run, failed), MaxMemo)

(* upsert_batch() and the result, in one transaction                       *)
StoreRead(w) ==
    /\ runs[w].at = "read"
    /\ \E failed \in SUBSET (Flaky \cap Opened(runs[w])) :
         /\ stored' = [d \in Docs |->
                        IF d \in Storable(runs[w], failed)
                        THEN [version |-> runs[w].listed[d], whole |-> d \notin failed]
                        ELSE stored[d]]
         /\ memo' = NewMemo(runs[w], failed)
         /\ last' = [status |-> "ok", remaining |-> Remaining(runs[w]),
                     rejected |-> Rejected(runs[w], failed), unread |-> Unread(runs[w], failed),
                     listed |-> runs[w].listed, alone |-> runs[w].alone]
    /\ today' = TRUE
    /\ lock' = "free"
    /\ Becomes(w, NoRun)
    /\ UNCHANGED portal

(* The process ends in the middle (serve.py gives it ten minutes).         *)
Killed(w) ==
    /\ runs[w].at \notin {"idle", "locking"}
    /\ Becomes(w, NoRun)
    /\ UNCHANGED <<portal, stored, memo, lock, last, today>>

(* Ten minutes pass.  A run may last longer.                               *)
TenMinutes ==
    /\ lock = "fresh" /\ lock' = "stale"
    /\ UNCHANGED <<portal, stored, memo, last, today, runs>>

NewDay ==
    /\ today /\ today' = FALSE
    /\ UNCHANGED <<portal, stored, memo, lock, last, runs>>

(* A document is completed, or completed again.                            *)
Complete(d) ==
    /\ portal[d] < MaxVersion
    /\ portal' = [portal EXCEPT ![d] = @ + 1]
    /\ UNCHANGED <<stored, memo, lock, last, today, runs>>

Steps(w) == StartRun(w) \/ Locked(w) \/ ListDocs(w) \/ StoreRead(w)
CollectNext ==
    \/ TenMinutes \/ NewDay
    \/ \E d \in Docs : Complete(d)
    \/ \E w \in Runners : Steps(w) \/ RunFails(w) \/ Killed(w)

(* Days go by, the daily tool runs on each, and works some time.           *)
CollectFairness ==
    /\ WF_portalVars(NewDay) /\ WF_portalVars(TenMinutes)
    /\ SF_portalVars(StartRun("daily")) /\ WF_portalVars(Locked("daily"))
    /\ SF_portalVars(ListDocs("daily")) /\ SF_portalVars(StoreRead("daily"))
CollectSpec == CollectInit /\ [][CollectNext]_portalVars /\ CollectFairness

(***************************************************************************)
(* Properties                                                              *)
(***************************************************************************)
(* "Collected today, nothing remains" accounts for every document the run  *)
(* saw in the list: it is stored, in that version or a later one, or the   *)
(* result counts it as rejected, or as unread; and what is unread is       *)
(* remembered, unless there is more of it than the memo holds.  The daily  *)
(* tool relies on it when it skips a day.  (Of runs that overlap, which    *)
(* the lock does not exclude, the slower overwrites the other.)            *)
NothingRemains ==
    last.status = "ok" /\ last.remaining = 0 /\ last.alone =>
        \A d \in Docs :
            \/ stored[d].version >= last.listed[d]
            \/ d \in last.rejected
            \/ /\ d \in last.unread
               /\ memo[d] = last.listed[d] \/ Cardinality(last.unread) > MaxMemo

(* Whatever is in the way (documents that cannot be read, runs that die,   *)
(* overlap or overwrite each other), a document that can be read and       *)
(* stored is stored in its last version in the end.  (As long as fewer are *)
(* rejected than a run opens, and the memo and the list have room.)        *)
Readable == Docs \ (Forbidden \cup Unreadable \cup BodyRefused)
AllCompleted == portal = [e \in Docs |-> MaxVersion]
StoredInTheEnd ==
    \A d \in Readable : <>[]AllCompleted => <>[](stored[d].version = MaxVersion)

(* The comment of collect(): what was not stored would be read with the    *)
(* same result again.  Then nothing that can be read is given up.          *)
ReadInTheEnd ==
    \A d \in Readable :
        <>[]AllCompleted => <>[](stored[d].version = MaxVersion /\ stored[d].whole)
=============================================================================
