----------------------------- MODULE Documents ------------------------------
(***************************************************************************)
(* The batch documents (DHR) of one record: the downloads of               *)
(* blend_routes.py, the cache of unsigned PDFs in two files                *)
(* (dhr_cache.py) and the renderer, which runs Excel behind a lock and     *)
(* draws the form by itself when Excel does not answer (dhr_pdf.py).       *)
(* Downloads run in threads; between any two of their steps the record may *)
(* be corrected, canceled, restored or deleted and the settings changed.   *)
(*                                                                         *)
(* A record is known by its version: every change stamps it anew.  What a  *)
(* download reads has the version of its head and that of its rows, which  *)
(* come from two queries.  A document has what it was made of, whether it  *)
(* is signed, whether it says canceled, and whether it is whole; the look  *)
(* that the settings (signature_config.py) give it is left out.            *)
(***************************************************************************)
EXTENDS Integers

CONSTANTS
    Downloads,      \* requests for a document
    Kinds,          \* of "single", "signed", "batch" and "zip"
    Configs,       \* values of the signature and scan settings
    None,
    MaxVersion      \* bound on the changes of the record

(* None is no number, record, reading or document.                         *)
Versions == [version : Nat, canceled : BOOLEAN]
Reads    == [head : Nat, rows : Nat \cup {None}, canceled : BOOLEAN]
Made     == [read : Reads, whole : BOOLEAN, signed : BOOLEAN, stamped : BOOLEAN]
Markers  == [read : Reads, settings : Configs]
ASSUME DocumentsAssumption ==
    /\ None \notin Versions \cup Reads \cup Made \cup Markers
    /\ None \notin Nat /\ MaxVersion \in Nat

VARIABLES
    record,     \* version and status of the record; None once it is deleted
    settings,   \* signature_config.json
    pdf,        \* blend_<id>.pdf
    marker,     \* blend_<id>.marker
    excel,      \* who holds _excel_lock
    download,   \* each request: its step, what it wants, has read and has made
    deletion,   \* a deletion between the purge of the files and its commit
    history     \* crossed: downloads of different versions were under way together;
                \* late: downloads were under way around the deletion

docVars == <<record, settings, pdf, marker, excel, download, deletion, history>>

Idle  == [at |-> "idle", kind |-> "single", read |-> None, doc |-> None]
Open(d) == download[d].at # "idle"

\* Faulty variant: signed documents are cached as well.
CachedSigned(kind) == kind \in {"single", "signed", "zip"}

Cached(kind) == kind \in {"single", "zip"}

\* The marker is a hash of the record as read and of the settings (_marker).
Marker(read) == [read |-> read, settings |-> settings]

DocumentsInit ==
    /\ record = [version |-> 1, canceled |-> FALSE]
    /\ settings \in Configs
    /\ pdf = None /\ marker = None /\ excel = None
    /\ download = [d \in Downloads |-> Idle]
    /\ deletion = "none"
    /\ history = [crossed |-> FALSE, late |-> FALSE]

----------------------------------------------------------------------------
(* A download                                                              *)

To(d, at) == download' = [download EXCEPT ![d].at = at]

HeadRead == [head |-> record.version, rows |-> None, canceled |-> record.canceled]

\* Another download is under way that has read something else.
Crosses(d, read) ==
    \E q \in Downloads \ {d} :
        /\ Open(q)
        /\ \/ download[q].read.head # read.head
           \/ /\ download[d].at = "rows" /\ download[q].at # "rows"
              /\ download[q].read # read

(* The head of the record; without one it is a 404.  Batches and archives  *)
(* leave canceled records out.                                             *)
Ask(d, kind) ==
    /\ ~ Open(d) /\ record # None
    /\ kind \in {"batch", "zip"} => ~ record.canceled
    /\ download' = [download EXCEPT ![d] = [Idle EXCEPT !.at = "rows", !.kind = kind, !.read = HeadRead]]
    /\ history' = [history EXCEPT !.crossed = @ \/ Crosses(d, HeadRead),
                                  !.late = @ \/ deletion = "purged"]
    /\ UNCHANGED <<record, settings, pdf, marker, excel, deletion>>

(* Its rows, by a query of their own: of a record deleted meanwhile there  *)
(* are none.  Only an unsigned document of a single record may be cached.  *)
ReadRows(d) ==
    /\ download[d].at = "rows"
    /\ LET read == [download[d].read EXCEPT !.rows = IF record = None THEN None ELSE record.version]
       IN  /\ download' = [download EXCEPT ![d].read = read,
                                ![d].at = IF Cached(download[d].kind) THEN "look" ELSE "draw"]
           /\ history' = [history EXCEPT !.crossed = @ \/ Crosses(d, read)]
    /\ UNCHANGED <<record, settings, pdf, marker, excel, deletion>>

\* Faulty variant: any marker will do.
HitAnyway(read) == pdf # None /\ marker # None

Hit(read) == pdf # None /\ marker = Marker(read)

\* get(): is there a document of this very content?
Look(d) ==
    /\ download[d].at = "look"
    /\ To(d, IF Hit(download[d].read) THEN "take" ELSE "draw")
    /\ UNCHANGED <<record, settings, pdf, marker, excel, deletion, history>>

\* get(): read it; a file that is gone by now is an OSError, which is a miss.
Take(d) ==
    /\ download[d].at = "take"
    /\ IF pdf = None THEN To(d, "draw")
       ELSE download' = [download EXCEPT ![d].at = "done", ![d].doc = pdf]
    /\ UNCHANGED <<record, settings, pdf, marker, excel, deletion, history>>

\* build_scanned_dhr_pdf: Excel is waited for.
Draw(d) ==
    /\ download[d].at = "draw" /\ excel = None
    /\ excel' = d
    /\ download' = [download EXCEPT ![d].at = "excel",
         ![d].doc = [read |-> download[d].read, whole |-> TRUE,
                     signed |-> download[d].kind = "signed", stamped |-> FALSE]]
    /\ UNCHANGED <<record, settings, pdf, marker, deletion, history>>

(* Excel answers within its time, or the form is drawn without it: then a  *)
(* canceled record does not say so.  Unsigned documents go into the cache. *)
Drawn(d, byExcel) ==
    /\ download[d].at = "excel"
    /\ excel' = None
    /\ download' = [download EXCEPT
         ![d].doc.stamped = byExcel /\ download[d].read.canceled,
         ![d].at = IF Cached(download[d].kind) THEN "put" ELSE "done"]
    /\ UNCHANGED <<record, settings, pdf, marker, deletion, history>>

\* Faulty variant: the marker is written before the document.
MarkFirst(d) ==
    /\ download[d].at = "put"
    /\ marker' = Marker(download[d].read)
    /\ To(d, "write")
    /\ UNCHANGED <<record, settings, pdf, excel, deletion, history>>

\* put(): the file is opened, which empties it.
PutOpens(d) ==
    /\ download[d].at = "put"
    /\ pdf' = [download[d].doc EXCEPT !.whole = FALSE]
    /\ To(d, "write")
    /\ UNCHANGED <<record, settings, marker, excel, deletion, history>>

\* put(): an OSError at any of its steps leaves what is there.
PutFails(d) ==
    /\ download[d].at \in {"put", "write", "mark"} /\ To(d, "done")
    /\ UNCHANGED <<record, settings, pdf, marker, excel, deletion, history>>

PutWrites(d) ==
    /\ download[d].at = "write"
    /\ pdf' = download[d].doc
    /\ To(d, "mark")
    /\ UNCHANGED <<record, settings, marker, excel, deletion, history>>

\* put(): the marker is made of the settings as they are now.
PutMarks(d) ==
    /\ download[d].at = "mark"
    /\ marker' = Marker(download[d].read)
    /\ To(d, "done")
    /\ UNCHANGED <<record, settings, pdf, excel, deletion, history>>

Finish(d) ==
    /\ download[d].at = "done"
    /\ download' = [download EXCEPT ![d] = Idle]
    /\ UNCHANGED <<record, settings, pdf, marker, excel, deletion, history>>

----------------------------------------------------------------------------
(* What else happens                                                       *)

Change(canceled) ==
    /\ record # None /\ deletion = "none" /\ record.version < MaxVersion
    /\ record' = [version |-> record.version + 1, canceled |-> canceled]
    /\ UNCHANGED <<settings, pdf, marker, excel, download, deletion, history>>

Correct == record # None /\ Change(record.canceled)
Cancel  == record # None /\ ~ record.canceled /\ Change(TRUE)
Restore == record # None /\ record.canceled /\ Change(FALSE)

\* Faulty variant: the marker is forgotten.
PurgePdf ==
    /\ record # None /\ deletion = "none"
    /\ deletion' = "purged" /\ pdf' = None
    /\ history' = [history EXCEPT !.late = \E d \in Downloads : Open(d)]
    /\ UNCHANGED <<record, settings, marker, excel, download>>

\* delete_blend_record purges the files before its transaction commits.
Purge ==
    /\ record # None /\ deletion = "none"
    /\ deletion' = "purged" /\ pdf' = None /\ marker' = None
    /\ history' = [history EXCEPT !.late = \E d \in Downloads : Open(d)]
    /\ UNCHANGED <<record, settings, excel, download>>

Commit ==
    /\ deletion = "purged" /\ deletion' = "none"
    /\ record' = None
    /\ UNCHANGED <<settings, pdf, marker, excel, download, history>>

RollBack ==
    /\ deletion = "purged" /\ deletion' = "none"
    /\ UNCHANGED <<record, settings, pdf, marker, excel, download, history>>

\* signature_config.save
Configure(value) ==
    /\ value # settings /\ settings' = value
    /\ UNCHANGED <<record, pdf, marker, excel, download, deletion, history>>

\* The server stops: the files stay as they are.
Crash ==
    /\ excel' = None
    /\ download' = [d \in Downloads |-> Idle]
    /\ deletion' = "none"
    /\ UNCHANGED <<record, settings, pdf, marker, history>>

DocumentsNext ==
    \/ \E d \in Downloads, kind \in Kinds : Ask(d, kind)
    \/ \E d \in Downloads :
         \/ ReadRows(d) \/ Look(d) \/ Take(d) \/ Draw(d)
         \/ \E byExcel \in BOOLEAN : Drawn(d, byExcel)
         \/ PutOpens(d) \/ PutFails(d) \/ PutWrites(d) \/ PutMarks(d) \/ Finish(d)
    \/ Correct \/ Cancel \/ Restore \/ Purge \/ Commit \/ RollBack
    \/ \E value \in Configs : Configure(value)
    \/ Crash

DocumentsSpec == DocumentsInit /\ [][DocumentsNext]_docVars

----------------------------------------------------------------------------
(* As long as no downloads of different versions ran together, a document  *)
(* that is handed out was made of the record exactly as this download read *)
(* it, whatever was corrected, reconfigured or cut short by a stop before. *)
DocumentIsOfItsRecord ==
    \A d \in Downloads :
        download[d].at = "done" /\ ~ history.crossed => download[d].doc.read = download[d].read

(* The files of a deleted record are gone, unless a download was under way *)
(* around the deletion.                                                    *)
DeletedLeavesNoFiles == record = None /\ ~ history.late => pdf = None /\ marker = None

(* A document has signatures exactly if they were asked for, whichever way *)
(* it came.                                                                *)
SignedAsAsked ==
    \A d \in Downloads :
        download[d].at = "done" => download[d].doc.signed = (download[d].kind = "signed")

(* A document shows the record as it was read, whatever was changed or cut *)
(* short before, with signatures exactly if they were asked for, as long   *)
(* as no two downloads of different versions run together; and the files   *)
(* go with the record (dhr_cache.py, blend_routes.py).                     *)
DocumentsAreTrue == DocumentIsOfItsRecord /\ SignedAsAsked /\ DeletedLeavesNoFiles

----------------------------------------------------------------------------
(* What the code does not keep (README, further disagreements)             *)

NothingStaleIsHandedOut ==
    \A d \in Downloads : download[d].at = "done" => download[d].doc.read = download[d].read
DocumentIsWhole  == \A d \in Downloads : download[d].at = "done" => download[d].doc.whole
DocumentOfOneVersion ==
    \A d \in Downloads : download[d].at = "done" => download[d].read.head = download[d].read.rows
CanceledSaysSo ==
    \A d \in Downloads : download[d].at = "done" => download[d].doc.stamped = download[d].read.canceled
=============================================================================
