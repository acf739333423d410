-------------------------- MODULE DocumentsProofs ---------------------------
(***************************************************************************)
(* Proofs about Documents, for any number of downloads and of changes of   *)
(* the record: a document that is handed out was made of the record as its *)
(* download read it, as long as no downloads of different versions ran     *)
(* together; it is signed exactly if that was asked for; and the files of  *)
(* a deleted record are gone.                                              *)
(***************************************************************************)
EXTENDS Documents, TLAPS

(***************************************************************************)
(* The inductive invariant.  State is given as parameters, so that a step  *)
(* is stated by the values before and after it: r is the record, dl the    *)
(* downloads, mk the marker, p the PDF.                                    *)
(***************************************************************************)
Steps  == {"idle", "rows", "look", "take", "draw", "excel", "put", "write", "mark", "done"}
States == [at : Steps, kind : Kinds \cup {"single"}, read : Reads \cup {None},
           doc : Made \cup {None}]
IsOpen(x) == x.at # "idle"
Past(x)   == x.at \notin {"idle", "rows"}
HasDoc(x) == x.at \in {"excel", "put", "write", "mark", "done"}

Ordered(read) == read.rows # None => read.head <= read.rows

(* A download by itself.                                                   *)
Sensible(x) ==
    /\ IsOpen(x) => x.read # None
    /\ Past(x) => Ordered(x.read)
    /\ x.at \in {"look", "take", "put", "write", "mark"} => Cached(x.kind)
    /\ HasDoc(x) => x.doc # None /\ x.doc.signed = (x.kind = "signed")
    /\ HasDoc(x) /\ x.at # "done" => x.doc.read = x.read

Typed ==
    /\ record \in Versions \cup {None} /\ settings \in Configs
    /\ pdf \in Made \cup {None} /\ marker \in Markers \cup {None}
    /\ download \in [Downloads -> States]
    /\ deletion \in {"none", "purged"}
    /\ history \in [crossed : BOOLEAN, late : BOOLEAN]
    /\ \A d \in Downloads : Sensible(download[d])
    /\ pdf # None => ~ pdf.signed
    /\ marker # None => Ordered(marker.read)

(* Nothing was read that was not there: a version, and its rows later.     *)
HeadSound(read, r) ==
    r # None => /\ read.head <= r.version
                /\ read.head = r.version => read.canceled = r.canceled
RowsSound(read, r) == r # None => read.rows # None /\ read.rows <= r.version
Agree(x, y) == x.head = y.head => x.canceled = y.canceled

Reading(r, dl, mk) ==
    /\ \A d \in Downloads : IsOpen(dl[d]) =>
         /\ HeadSound(dl[d].read, r)
         /\ Past(dl[d]) => RowsSound(dl[d].read, r)
         /\ mk # None => Agree(dl[d].read, mk.read)
         /\ \A q \in Downloads : IsOpen(dl[q]) => Agree(dl[d].read, dl[q].read)
    /\ mk # None => HeadSound(mk.read, r) /\ RowsSound(mk.read, r)

(* What holds while no downloads of different versions have met.           *)
Together(dl) ==
    \A d, q \in Downloads : IsOpen(dl[d]) /\ IsOpen(dl[q]) =>
        /\ dl[d].read.head = dl[q].read.head
        /\ Past(dl[d]) /\ Past(dl[q]) => dl[d].read = dl[q].read

(* The record has moved on from what was read: no download that is under   *)
(* way, and none to come, reads that again.                                *)
After(n, r) == r = None \/ r.version > n
Behind(read, r, dl) ==
    /\ After(read.head, r)
    /\ \A d \in Downloads :
         /\ dl[d].at = "rows" /\ dl[d].read.head = read.head =>
               read.rows # None /\ After(read.rows, r)
         /\ Past(dl[d]) => dl[d].read # read

(* The marker is of what is being read now, or of something past; and so   *)
(* is the marker of the PDF, if the PDF is of something else.              *)
Marking(r, dl, mk) ==
    mk # None => \A d \in Downloads : IsOpen(dl[d]) =>
        /\ mk.read.head <= dl[d].read.head
        /\ Past(dl[d]) => dl[d].read = mk.read \/ Behind(mk.read, r, dl)
Stored(r, dl, mk, p) ==
    p # None /\ mk # None => p.read = mk.read \/ Behind(mk.read, r, dl)

(* The PDF that is taken, or was written, is what the download wants.      *)
Showing(dl, p) ==
    \A d \in Downloads :
        /\ dl[d].at \in {"take", "write", "mark"} /\ p # None => p.read = dl[d].read
        /\ dl[d].at = "done" => dl[d].doc.read = dl[d].read

Gone == ~ history.late /\ (record = None \/ deletion = "purged") =>
            pdf = None /\ marker = None /\ \A d \in Downloads : ~ IsOpen(download[d])

DocInv ==
    /\ Typed /\ Reading(record, download, marker) /\ Gone
    /\ ~ history.crossed => /\ Together(download)
                            /\ Marking(record, download, marker)
                            /\ Stored(record, download, marker, pdf)
                            /\ Showing(download, pdf)

(***************************************************************************)
(* Fields and changes of a download                                        *)
(***************************************************************************)
State(at, kind, read, doc) == [at |-> at, kind |-> kind, read |-> read, doc |-> doc]

(* The download d goes on to a state; the others stay.                     *)
Moves(d, x) == download' = [download EXCEPT ![d] = x]

LEMMA StateIsTyped ==
    ASSUME NEW a \in Steps, NEW k \in Kinds \cup {"single"},
           NEW r \in Reads \cup {None}, NEW o \in Made \cup {None}
    PROVE  /\ State(a, k, r, o) \in States
           /\ State(a, k, r, o).at = a /\ State(a, k, r, o).kind = k
           /\ State(a, k, r, o).read = r /\ State(a, k, r, o).doc = o
BY DEF State, States

LEMMA MovesOne ==
    ASSUME Typed, NEW d \in Downloads, NEW x \in States, Moves(d, x)
    PROVE  /\ download' \in [Downloads -> States]
           /\ download'[d] = x
           /\ \A q \in Downloads \ {d} : download'[q] = download[q]
BY DEF Typed, Moves

(* One step of a download to another, with what it has made.               *)
LEMMA ToMoves ==
    ASSUME Typed, NEW d \in Downloads, NEW a \in Steps, To(d, a)
    PROVE  Moves(d, State(a, download[d].kind, download[d].read, download[d].doc))
<1>1. download[d] \in States
  BY DEF Typed
<1>2. [download[d] EXCEPT !.at = a] = State(a, download[d].kind, download[d].read, download[d].doc)
  BY <1>1 DEF States, State
<1> QED
  BY <1>2 DEF To, Moves

LEMMA IdleIsTyped ==
    Idle \in States /\ Idle.at = "idle" /\ Sensible(Idle)
BY DEF Idle, States, Steps, Sensible, IsOpen, Past, HasDoc

(***************************************************************************)
(* Steps that read nothing                                                 *)
(***************************************************************************)
(* What is under way was under way, and has read what it had read.         *)
StillReads(dl, new) ==
    \A q \in Downloads : IsOpen(new[q]) =>
        /\ IsOpen(dl[q]) /\ new[q].read = dl[q].read
        /\ new[q].at = "rows" <=> dl[q].at = "rows"

(* The record stays, is changed, or goes.                                  *)
Later(r, new) == new # None => r # None /\ (new = r \/ r.version < new.version)

LEMMA ReadsAreNumbers ==
    ASSUME NEW x \in Reads
    PROVE  x.head \in Nat /\ (x.rows # None => x.rows \in Nat) /\ x.canceled \in BOOLEAN
BY DEF Reads

LEMMA VersionsAreNumbers ==
    ASSUME NEW r \in Versions PROVE r.version \in Nat /\ r.canceled \in BOOLEAN
BY DEF Versions

LEMMA OpenHasRead ==
    ASSUME Typed, NEW d \in Downloads, IsOpen(download[d])
    PROVE  download[d].read \in Reads
BY DEF Typed, States, Sensible

LEMMA LaterSound ==
    ASSUME NEW x \in Reads, NEW r \in Versions \cup {None}, NEW new \in Versions \cup {None},
           Later(r, new)
    PROVE  /\ HeadSound(x, r) => HeadSound(x, new)
           /\ RowsSound(x, r) => RowsSound(x, new)
           /\ \A n \in Nat : After(n, r) => After(n, new)
<1>1. CASE new = None
  BY <1>1 DEF HeadSound, RowsSound, After
<1>2. CASE new # None
  <2>1. new \in Versions /\ r \in Versions /\ (new = r \/ r.version < new.version) /\ r # None
    BY <1>2 DEF Later
  <2>2. CASE new = r
    BY <2>2
  <2>3. CASE r.version < new.version
    <3>1. r.version \in Nat /\ new.version \in Nat /\ x.head \in Nat
      BY <2>1, VersionsAreNumbers, ReadsAreNumbers
    <3>2. HeadSound(x, r) => HeadSound(x, new)
      BY <2>1, <2>3, <3>1 DEF HeadSound
    <3>3. RowsSound(x, r) => RowsSound(x, new)
      BY <2>1, <2>3, <3>1, ReadsAreNumbers DEF RowsSound
    <3>4. \A n \in Nat : After(n, r) => After(n, new)
      BY <2>1, <2>3, <3>1 DEF After
    <3> QED
      BY <3>2, <3>3, <3>4
  <2> QED
    BY <2>1, <2>2, <2>3
<1> QED
  BY <1>1, <1>2

LEMMA BehindStays ==
    ASSUME NEW x \in Reads, NEW r \in Versions \cup {None}, NEW new \in Versions \cup {None},
           Later(r, new), NEW dl, NEW dn, StillReads(dl, dn), Behind(x, r, dl)
    PROVE  Behind(x, new, dn)
<1>1. After(x.head, new)
  BY LaterSound, ReadsAreNumbers DEF Behind
<1>2. ASSUME NEW d \in Downloads
      PROVE  /\ dn[d].at = "rows" /\ dn[d].read.head = x.head => x.rows # None /\ After(x.rows, new)
             /\ Past(dn[d]) => dn[d].read # x
  <2>1. IsOpen(dn[d]) => /\ IsOpen(dl[d]) /\ dn[d].read = dl[d].read
                         /\ dn[d].at = "rows" <=> dl[d].at = "rows"
    BY DEF StillReads
  <2>2. dn[d].at = "rows" => IsOpen(dn[d])
    BY DEF IsOpen
  <2>3. dn[d].at = "rows" /\ dn[d].read.head = x.head => x.rows # None /\ After(x.rows, r)
    BY <2>1, <2>2 DEF Behind
  <2>4. x.rows # None /\ After(x.rows, r) => After(x.rows, new)
    BY LaterSound, ReadsAreNumbers
  <2>5. Past(dn[d]) => IsOpen(dn[d]) /\ Past(dl[d]) /\ dn[d].read = dl[d].read
    BY <2>1 DEF Past, IsOpen
  <2>6. Past(dn[d]) => dn[d].read # x
    BY <2>5 DEF Behind
  <2> QED
    BY <2>3, <2>4, <2>6
<1> QED
  BY <1>1, <1>2 DEF Behind

(* What was read so far is as true of the next state.                      *)
LEMMA ReadingStays ==
    ASSUME Typed, NEW new \in Versions \cup {None}, Later(record, new),
           NEW dn, StillReads(download, dn), NEW mk \in {marker, None},
           Reading(record, download, marker)
    PROVE  Reading(new, dn, mk)
<1>0. record \in Versions \cup {None} /\ marker \in Markers \cup {None}
  BY DEF Typed
<1>1. ASSUME NEW d \in Downloads, IsOpen(dn[d])
      PROVE  /\ HeadSound(dn[d].read, new)
             /\ Past(dn[d]) => RowsSound(dn[d].read, new)
             /\ mk # None => Agree(dn[d].read, mk.read)
             /\ \A q \in Downloads : IsOpen(dn[q]) => Agree(dn[d].read, dn[q].read)
  <2>1. /\ IsOpen(download[d]) /\ dn[d].read = download[d].read
        /\ Past(dn[d]) <=> Past(download[d])
    BY <1>1 DEF StillReads, Past, IsOpen
  <2>2. download[d].read \in Reads
    BY <2>1, OpenHasRead
  <2>3. \A q \in Downloads : IsOpen(dn[q]) => IsOpen(download[q]) /\ dn[q].read = download[q].read
    BY DEF StillReads
  <2>4. /\ HeadSound(download[d].read, record)
        /\ Past(download[d]) => RowsSound(download[d].read, record)
        /\ marker # None => Agree(download[d].read, marker.read)
        /\ \A q \in Downloads : IsOpen(download[q]) => Agree(download[d].read, download[q].read)
    BY <2>1 DEF Reading
  <2>5. HeadSound(dn[d].read, new) /\ (Past(dn[d]) => RowsSound(dn[d].read, new))
    BY <1>0, <2>1, <2>2, <2>4, LaterSound
  <2> QED
    BY <2>1, <2>3, <2>4, <2>5
<1>2. mk # None => HeadSound(mk.read, new) /\ RowsSound(mk.read, new)
  <2>1. SUFFICES ASSUME mk # None PROVE HeadSound(mk.read, new) /\ RowsSound(mk.read, new)
    OBVIOUS
  <2>2. mk = marker /\ mk \in Markers
    BY <1>0, <2>1
  <2>3. mk.read \in Reads
    BY <2>2 DEF Markers
  <2>4. HeadSound(mk.read, record) /\ RowsSound(mk.read, record)
    BY <2>1, <2>2 DEF Reading
  <2> QED
    BY <1>0, <2>3, <2>4, LaterSound
<1> QED
  BY <1>1, <1>2 DEF Reading

LEMMA TogetherStays ==
    ASSUME NEW dl, NEW dn, StillReads(dl, dn), Together(dl)
    PROVE  Together(dn)
<1> SUFFICES ASSUME NEW d \in Downloads, NEW q \in Downloads, IsOpen(dn[d]), IsOpen(dn[q])
             PROVE  /\ dn[d].read.head = dn[q].read.head
                    /\ Past(dn[d]) /\ Past(dn[q]) => dn[d].read = dn[q].read
  BY DEF Together
<1>1. /\ IsOpen(dl[d]) /\ dn[d].read = dl[d].read /\ (Past(dn[d]) => Past(dl[d]))
      /\ IsOpen(dl[q]) /\ dn[q].read = dl[q].read /\ (Past(dn[q]) => Past(dl[q]))
  BY DEF StillReads, Past, IsOpen
<1> QED
  BY <1>1 DEF Together

LEMMA MarkingStays ==
    ASSUME Typed, NEW new \in Versions \cup {None}, Later(record, new),
           NEW dn, StillReads(download, dn), NEW mk \in {marker, None},
           Marking(record, download, marker)
    PROVE  Marking(new, dn, mk)
<1> SUFFICES ASSUME mk # None, NEW d \in Downloads, IsOpen(dn[d])
             PROVE  /\ mk.read.head <= dn[d].read.head
                    /\ Past(dn[d]) => dn[d].read = mk.read \/ Behind(mk.read, new, dn)
  BY DEF Marking
<1>1. mk = marker /\ mk \in Markers /\ mk.read \in Reads /\ record \in Versions \cup {None}
  BY DEF Typed, Markers
<1>2. IsOpen(download[d]) /\ dn[d].read = download[d].read /\ (Past(dn[d]) => Past(download[d]))
  BY DEF StillReads, Past, IsOpen
<1>3. /\ mk.read.head <= download[d].read.head
      /\ Past(download[d]) => download[d].read = mk.read \/ Behind(mk.read, record, download)
  BY <1>1, <1>2 DEF Marking
<1>4. Behind(mk.read, record, download) => Behind(mk.read, new, dn)
  BY <1>1, BehindStays
<1> QED
  BY <1>2, <1>3, <1>4

LEMMA StoredStays ==
    ASSUME Typed, NEW new \in Versions \cup {None}, Later(record, new),
           NEW dn, StillReads(download, dn), NEW mk \in {marker, None}, NEW p,
           p # None => pdf # None /\ p.read = pdf.read,
           Stored(record, download, marker, pdf)
    PROVE  Stored(new, dn, mk, p)
<1> SUFFICES ASSUME p # None, mk # None
             PROVE  p.read = mk.read \/ Behind(mk.read, new, dn)
  BY DEF Stored
<1>1. mk = marker /\ mk \in Markers /\ mk.read \in Reads /\ record \in Versions \cup {None}
  BY DEF Typed, Markers
<1>2. p.read = mk.read \/ Behind(mk.read, record, download)
  BY <1>1 DEF Stored
<1>4. Behind(mk.read, record, download) => Behind(mk.read, new, dn)
  BY <1>1, BehindStays
<1> QED
  BY <1>2, <1>4

(***************************************************************************)
(* A download goes on with what it has read, or ends.  It may write the    *)
(* PDF, of its own reading and without signatures.                         *)
(***************************************************************************)
LEMMA GoesOn ==
    ASSUME DocInv, NEW d \in Downloads, NEW x \in States, Moves(d, x), Sensible(x),
           IsOpen(x) => Past(x) /\ Past(download[d]) /\ x.read = download[d].read,
           IsOpen(download[d]),
           UNCHANGED <<record, settings, marker, deletion, history>>,
           \/ pdf' = pdf
           \/ /\ pdf' \in Made /\ ~ pdf'.signed
              /\ Past(download[d]) /\ pdf'.read = download[d].read,
           ~ history.crossed =>
               /\ x.at \in {"take", "write", "mark"} /\ pdf' # None => pdf'.read = x.read
               /\ x.at = "done" => x.doc.read = x.read
    PROVE  DocInv'
<1>1. Typed /\ Reading(record, download, marker) /\ Gone
  BY DEF DocInv
<1>2. /\ download' \in [Downloads -> States] /\ download'[d] = x
      /\ \A q \in Downloads \ {d} : download'[q] = download[q]
  BY <1>1, MovesOne
<1>3. StillReads(download, download')
  <2>1. SUFFICES ASSUME NEW q \in Downloads, IsOpen(download'[q])
                 PROVE  /\ IsOpen(download[q]) /\ download'[q].read = download[q].read
                        /\ download'[q].at = "rows" <=> download[q].at = "rows"
    BY DEF StillReads
  <2>2. CASE q = d
    BY <2>1, <2>2, <1>2 DEF Past, IsOpen
  <2>3. CASE q # d
    BY <2>1, <2>3, <1>2
  <2> QED
    BY <2>2, <2>3
<1>4. Typed'
  <2>1. \A q \in Downloads : Sensible(download'[q])
    BY <1>1, <1>2 DEF Typed
  <2>2. pdf' \in Made \cup {None} /\ (pdf' # None => ~ pdf'.signed)
    BY <1>1 DEF Typed
  <2> QED
    BY <1>1, <1>2, <2>1, <2>2 DEF Typed
<1>5. Later(record, record') /\ record' \in Versions \cup {None} /\ marker' \in {marker, None}
  BY <1>1 DEF Later, Typed
<1>6. Reading(record', download', marker')
  BY <1>1, <1>3, <1>5, ReadingStays
<1>7. Gone'
  BY <1>1 DEF Gone
<1>8. ASSUME ~ history.crossed
      PROVE  /\ Together(download') /\ Marking(record', download', marker')
             /\ Stored(record', download', marker', pdf') /\ Showing(download', pdf')
  <2>1. /\ Together(download) /\ Marking(record, download, marker)
        /\ Stored(record, download, marker, pdf) /\ Showing(download, pdf)
    BY <1>8 DEF DocInv
  <2>2. Together(download') /\ Marking(record', download', marker')
    BY <1>1, <1>3, <1>5, <2>1, TogetherStays, MarkingStays
  <2>3. Stored(record', download', marker', pdf')
    <3>1. CASE pdf' = pdf
      BY <1>1, <1>3, <1>5, <2>1, <3>1, StoredStays
    <3>2. CASE Past(download[d]) /\ pdf'.read = download[d].read
      <4>1. SUFFICES ASSUME marker' # None
                     PROVE  pdf'.read = marker'.read \/ Behind(marker'.read, record', download')
        BY DEF Stored
      <4>2. marker.read \in Reads /\ marker' = marker /\ record \in Versions \cup {None}
        BY <1>1, <4>1 DEF Typed, Markers
      <4>3. download[d].read = marker.read \/ Behind(marker.read, record, download)
        BY <2>1, <3>2, <4>1, <4>2 DEF Marking
      <4>4. Behind(marker.read, record, download) => Behind(marker.read, record', download')
        BY <1>3, <1>5, <4>2, BehindStays
      <4> QED
        BY <3>2, <4>2, <4>3, <4>4
    <3> QED
      BY <3>1, <3>2
  <2>4. Showing(download', pdf')
    <3>1. SUFFICES ASSUME NEW q \in Downloads
            PROVE  /\ download'[q].at \in {"take", "write", "mark"} /\ pdf' # None
                          => pdf'.read = download'[q].read
                   /\ download'[q].at = "done" => download'[q].doc.read = download'[q].read
      BY DEF Showing
    <3>2. CASE q = d
      BY <1>2, <1>8, <3>2
    <3>3. CASE q # d /\ pdf' = pdf
      BY <1>2, <2>1, <3>3 DEF Showing
    <3>4. CASE q # d /\ Past(download[d]) /\ pdf'.read = download[d].read
      <4>1. download[q].at \in {"take", "write", "mark"} => download[q].read = download[d].read
        BY <2>1, <3>4 DEF Together, Past, IsOpen
      <4> QED
        BY <1>2, <2>1, <3>4, <4>1 DEF Showing
    <3> QED
      BY <3>2, <3>3, <3>4
  <2> QED
    BY <2>2, <2>3, <2>4
<1> QED
  BY <1>4, <1>6, <1>7, <1>8 DEF DocInv

LEMMA Fields ==
    ASSUME Typed, NEW d \in Downloads
    PROVE  /\ download[d].at \in Steps /\ download[d].kind \in Kinds \cup {"single"}
           /\ download[d].read \in Reads \cup {None} /\ download[d].doc \in Made \cup {None}
           /\ download[d] \in States /\ Sensible(download[d])
BY DEF Typed, States

(* A download that goes on to a step and changes nothing else.             *)
LEMMA OnlyGoesTo ==
    ASSUME DocInv, NEW d \in Downloads, NEW a \in Steps, To(d, a),
           IsOpen(download[d]), Past(download[d]), a # "idle", a # "rows",
           UNCHANGED <<record, settings, marker, deletion, history>>,
           \/ pdf' = pdf
           \/ pdf' \in Made /\ ~ pdf'.signed /\ pdf'.read = download[d].read,
           a \in {"look", "take", "put", "write", "mark"} => Cached(download[d].kind),
           a \in {"excel", "put", "write", "mark", "done"} =>
               download[d].at \in {"excel", "put", "write", "mark"},
           a \in {"take", "write", "mark"} /\ pdf' # None /\ ~ history.crossed
               => pdf'.read = download[d].read
    PROVE  DocInv'
<1> DEFINE x == State(a, download[d].kind, download[d].read, download[d].doc)
<1>1. Typed
  BY DEF DocInv
<1>2. Moves(d, x)
  BY <1>1, ToMoves
<1>3. /\ x \in States /\ x.at = a /\ x.kind = download[d].kind
      /\ x.read = download[d].read /\ x.doc = download[d].doc
  <2>1. /\ download[d].kind \in Kinds \cup {"single"}
        /\ download[d].read \in Reads \cup {None} /\ download[d].doc \in Made \cup {None}
    BY <1>1, Fields
  <2> QED
    BY <2>1, StateIsTyped
<1> HIDE DEF x
<1>4. Sensible(download[d])
  BY <1>1, Fields
<1>5. Sensible(x)
  BY <1>3, <1>4 DEF Sensible, IsOpen, Past, HasDoc
<1>6. x.at = "done" => x.doc.read = x.read
  BY <1>3, <1>4 DEF Sensible, HasDoc
<1> QED
  BY <1>2, <1>3, <1>5, <1>6, GoesOn DEF IsOpen, Past

LEMMA LookKeeps ==
    ASSUME DocInv, NEW d \in Downloads, Look(d)
    PROVE  DocInv'
<1>1. Typed /\ download[d].at = "look"
  BY DEF DocInv, Look
<1>2. Cached(download[d].kind) /\ Past(download[d]) /\ IsOpen(download[d])
  BY <1>1, Fields DEF Sensible, Past, IsOpen
<1>3. UNCHANGED <<record, settings, pdf, marker, deletion, history>>
  BY DEF Look
<1>4. CASE Hit(download[d].read)
  <2>1. To(d, "take") /\ "take" \in Steps
    BY <1>4 DEF Look, Steps
  <2>2. pdf # None /\ marker = Marker(download[d].read) /\ download[d].read \in Reads
    BY <1>1, <1>2, <1>4, OpenHasRead DEF Hit
  <2>3. marker # None /\ marker.read = download[d].read
    <3>1. Marker(download[d].read) \in Markers
      BY <1>1, <2>2 DEF Marker, Markers, Typed
    <3> QED
      BY <2>2, <3>1, DocumentsAssumption DEF Marker
  <2>4. ~ history.crossed => pdf.read = download[d].read
    <3>1. ~ Behind(marker.read, record, download)
      BY <1>2, <2>3 DEF Behind
    <3> QED
      BY <2>2, <2>3, <3>1 DEF DocInv, Stored
  <2> QED
    BY <1>2, <1>3, <2>1, <2>4, OnlyGoesTo
<1>5. CASE ~ Hit(download[d].read)
  <2>1. To(d, "draw") /\ "draw" \in Steps
    BY <1>5 DEF Look, Steps
  <2> QED
    BY <1>2, <1>3, <2>1, OnlyGoesTo
<1> QED
  BY <1>4, <1>5

LEMMA TakeKeeps ==
    ASSUME DocInv, NEW d \in Downloads, Take(d)
    PROVE  DocInv'
<1>1. Typed /\ download[d].at = "take"
  BY DEF DocInv, Take
<1>2. Cached(download[d].kind) /\ Past(download[d]) /\ IsOpen(download[d])
  BY <1>1, Fields DEF Sensible, Past, IsOpen
<1>3. UNCHANGED <<record, settings, pdf, marker, deletion, history>>
  BY DEF Take
<1>4. CASE pdf = None
  <2>1. To(d, "draw") /\ "draw" \in Steps
    BY <1>4 DEF Take, Steps
  <2> QED
    BY <1>2, <1>3, <2>1, OnlyGoesTo
<1>5. CASE pdf # None
  <2> DEFINE x == [download[d] EXCEPT !.at = "done", !.doc = pdf]
  <2>1. pdf \in Made /\ ~ pdf.signed
    BY <1>1, <1>5 DEF Typed
  <2>2. Moves(d, x)
    BY <1>1, <1>5 DEF Take, Typed, Moves
  <2>3. /\ x \in States /\ x.at = "done" /\ x.kind = download[d].kind
        /\ x.read = download[d].read /\ x.doc = pdf
    <3>1. download[d] \in States
      BY <1>1, Fields
    <3> QED
      BY <2>1, <3>1 DEF States, Steps
  <2> HIDE DEF x
  <2>4. Sensible(x)
    <3>1. Sensible(download[d])
      BY <1>1, Fields
    <3>2. pdf.signed = (download[d].kind = "signed")
      BY <1>2, <2>1 DEF Cached, Made
    <3> QED
      BY <1>2, <1>5, <2>3, <3>1, <3>2 DEF Sensible, IsOpen, Past, HasDoc
  <2>5. ~ history.crossed => x.doc.read = x.read
    BY <1>1, <1>5, <2>3 DEF DocInv, Showing
  <2> QED
    BY <1>2, <1>3, <2>2, <2>3, <2>4, <2>5, GoesOn DEF IsOpen, Past
<1> QED
  BY <1>4, <1>5

LEMMA DrawKeeps ==
    ASSUME DocInv, NEW d \in Downloads, Draw(d)
    PROVE  DocInv'
<1> DEFINE o == [read |-> download[d].read, whole |-> TRUE,
                 signed |-> download[d].kind = "signed", stamped |-> FALSE]
           x == [download[d] EXCEPT !.at = "excel", !.doc = o]
<1>1. Typed /\ download[d].at = "draw"
  BY DEF DocInv, Draw
<1>2. Past(download[d]) /\ IsOpen(download[d])
  BY <1>1 DEF Past, IsOpen
<1>3. UNCHANGED <<record, settings, pdf, marker, deletion, history>>
  BY DEF Draw
<1>4. o \in Made /\ o.read = download[d].read /\ o.signed = (download[d].kind = "signed")
  BY <1>1, <1>2, OpenHasRead DEF Made
<1>5. Moves(d, x)
  BY <1>1 DEF Draw, Typed, Moves
<1> HIDE DEF o
<1>6. /\ x \in States /\ x.at = "excel" /\ x.kind = download[d].kind
      /\ x.read = download[d].read /\ x.doc = o
  <2>1. download[d] \in States
    BY <1>1, Fields
  <2> QED
    BY <1>4, <2>1 DEF States, Steps
<1> HIDE DEF x
<1>7. Sensible(x)
  <2>1. Sensible(download[d])
    BY <1>1, Fields
  <2> QED
    BY <1>2, <1>4, <1>6, <2>1, DocumentsAssumption DEF Sensible, IsOpen, Past, HasDoc
<1> QED
  BY <1>2, <1>3, <1>5, <1>6, <1>7, GoesOn DEF Past, IsOpen

LEMMA DrawnKeeps ==
    ASSUME DocInv, NEW d \in Downloads, NEW byExcel \in BOOLEAN, Drawn(d, byExcel)
    PROVE  DocInv'
<1> DEFINE stamped == byExcel /\ download[d].read.canceled
           at == IF Cached(download[d].kind) THEN "put" ELSE "done"
           o == [download[d].doc EXCEPT !.stamped = stamped]
           x == [download[d] EXCEPT !.doc.stamped = stamped, !.at = at]
<1>1. Typed /\ download[d].at = "excel"
  BY DEF DocInv, Drawn
<1>2. Past(download[d]) /\ IsOpen(download[d])
  BY <1>1 DEF Past, IsOpen
<1>3. UNCHANGED <<record, settings, pdf, marker, deletion, history>>
  BY DEF Drawn
<1>4. Sensible(download[d]) /\ download[d] \in States /\ download[d].doc \in Made
  BY <1>1, Fields DEF Sensible, HasDoc
<1>5. /\ o \in Made /\ o.read = download[d].doc.read /\ o.signed = download[d].doc.signed
  <2>1. stamped \in BOOLEAN
    OBVIOUS
  <2> HIDE DEF stamped
  <2> QED
    BY <1>4, <2>1 DEF Made
<1>6. Moves(d, x)
  BY <1>1 DEF Drawn, Typed, Moves
<1>7. /\ x \in States /\ x.at = at /\ x.kind = download[d].kind
      /\ x.read = download[d].read /\ x.doc = o
  <2>1. at \in Steps
    BY DEF Steps
  <2> HIDE DEF stamped, at
  <2>2. /\ x.at = at /\ x.kind = download[d].kind /\ x.read = download[d].read /\ x.doc = o
    BY <1>4 DEF States
  <2>3. x = [[download[d] EXCEPT !.doc = o] EXCEPT !.at = at]
    BY <1>4 DEF States
  <2> HIDE DEF o
  <2>4. [[download[d] EXCEPT !.doc = o] EXCEPT !.at = at] \in States
    BY <1>4, <1>5, <2>1 DEF States
  <2> QED
    BY <2>2, <2>3, <2>4
<1>8. x.at \in {"put", "done"} /\ (x.at = "put" => Cached(x.kind))
  BY <1>7
<1> HIDE DEF stamped, at, o, x
<1>9. Sensible(x)
  BY <1>1, <1>2, <1>4, <1>5, <1>7, <1>8, DocumentsAssumption
     DEF Sensible, IsOpen, Past, HasDoc
<1>10. x.doc.read = x.read
  BY <1>1, <1>4, <1>5, <1>7 DEF Sensible, HasDoc
<1> QED
  BY <1>2, <1>3, <1>6, <1>7, <1>8, <1>9, <1>10, GoesOn DEF Past, IsOpen

LEMMA PutFailsKeeps ==
    ASSUME DocInv, NEW d \in Downloads, PutFails(d)
    PROVE  DocInv'
<1>1. /\ download[d].at \in {"put", "write", "mark"} /\ To(d, "done") /\ "done" \in Steps
      /\ UNCHANGED <<record, settings, pdf, marker, deletion, history>>
  BY DEF PutFails, Steps
<1> QED
  BY <1>1, OnlyGoesTo DEF Past, IsOpen

LEMMA PutOpensKeeps ==
    ASSUME DocInv, NEW d \in Downloads, PutOpens(d)
    PROVE  DocInv'
<1> DEFINE torn == [download[d].doc EXCEPT !.whole = FALSE]
<1>1. /\ download[d].at = "put" /\ To(d, "write") /\ "write" \in Steps /\ pdf' = torn
      /\ UNCHANGED <<record, settings, marker, deletion, history>> /\ Typed
  BY DEF PutOpens, Steps, DocInv
<1>2. Sensible(download[d]) /\ download[d].doc \in Made /\ Cached(download[d].kind)
  BY <1>1, Fields DEF Sensible, HasDoc
<1>3. torn \in Made /\ torn.read = download[d].doc.read /\ torn.signed = download[d].doc.signed
  BY <1>2 DEF Made
<1> HIDE DEF torn
<1>4. torn.read = download[d].read /\ ~ torn.signed
  BY <1>1, <1>2, <1>3 DEF Sensible, HasDoc, Cached
<1> QED
  BY <1>1, <1>2, <1>3, <1>4, OnlyGoesTo DEF Past, IsOpen

LEMMA PutWritesKeeps ==
    ASSUME DocInv, NEW d \in Downloads, PutWrites(d)
    PROVE  DocInv'
<1>1. /\ download[d].at = "write" /\ To(d, "mark") /\ "mark" \in Steps /\ pdf' = download[d].doc
      /\ UNCHANGED <<record, settings, marker, deletion, history>> /\ Typed
  BY DEF PutWrites, Steps, DocInv
<1>2. Sensible(download[d]) /\ download[d].doc \in Made /\ Cached(download[d].kind)
  BY <1>1, Fields DEF Sensible, HasDoc
<1>3. pdf'.read = download[d].read /\ ~ pdf'.signed
  BY <1>1, <1>2 DEF Sensible, HasDoc, Cached
<1> QED
  BY <1>1, <1>2, <1>3, OnlyGoesTo DEF Past, IsOpen

LEMMA FinishKeeps ==
    ASSUME DocInv, NEW d \in Downloads, Finish(d)
    PROVE  DocInv'
<1>1. /\ download[d].at = "done" /\ Moves(d, Idle)
      /\ UNCHANGED <<record, settings, pdf, marker, deletion, history>>
  BY DEF Finish, Moves
<1> QED
  BY <1>1, IdleIsTyped, GoesOn DEF Past, IsOpen

(***************************************************************************)
(* The marker is written: it is of what all that are under way have read.  *)
(***************************************************************************)
LEMMA PutMarksKeeps ==
    ASSUME DocInv, NEW d \in Downloads, PutMarks(d)
    PROVE  DocInv'
<1> DEFINE x == State("done", download[d].kind, download[d].read, download[d].doc)
<1>1. /\ download[d].at = "mark" /\ To(d, "done") /\ marker' = Marker(download[d].read)
      /\ UNCHANGED <<record, settings, pdf, deletion, history>>
      /\ Typed /\ Reading(record, download, marker) /\ Gone
  BY DEF PutMarks, DocInv
<1>2. Moves(d, x)
  BY <1>1, ToMoves DEF Steps
<1>3. /\ x \in States /\ x.at = "done" /\ x.kind = download[d].kind
      /\ x.read = download[d].read /\ x.doc = download[d].doc
  <2>1. /\ download[d].kind \in Kinds \cup {"single"} /\ "done" \in Steps
        /\ download[d].read \in Reads \cup {None} /\ download[d].doc \in Made \cup {None}
    BY <1>1, Fields DEF Steps
  <2> QED
    BY <2>1, StateIsTyped
<1> HIDE DEF x
<1>4. /\ download' \in [Downloads -> States] /\ download'[d] = x
      /\ \A q \in Downloads \ {d} : download'[q] = download[q]
  BY <1>1, <1>2, <1>3, MovesOne
<1>5. Sensible(download[d]) /\ IsOpen(download[d]) /\ Past(download[d]) /\ download[d].read \in Reads
  BY <1>1, Fields, OpenHasRead DEF IsOpen, Past
<1>6. Sensible(x) /\ x.doc.read = x.read
  BY <1>1, <1>3, <1>5 DEF Sensible, IsOpen, Past, HasDoc
<1>7. marker' \in Markers /\ marker'.read = download[d].read /\ Ordered(marker'.read)
  BY <1>1, <1>5 DEF Marker, Markers, Typed, Sensible
<1>8. Typed'
  <2>1. \A q \in Downloads : Sensible(download'[q])
    BY <1>1, <1>4, <1>6 DEF Typed
  <2> QED
    BY <1>1, <1>4, <1>7, <2>1 DEF Typed
<1>9. \A q \in Downloads : /\ download'[q].read = download[q].read
                           /\ IsOpen(download'[q]) <=> IsOpen(download[q])
                           /\ Past(download'[q]) <=> Past(download[q])
                           /\ download'[q].at = "rows" <=> download[q].at = "rows"
  <2>1. SUFFICES ASSUME NEW q \in Downloads
                 PROVE  /\ download'[q].read = download[q].read
                        /\ IsOpen(download'[q]) <=> IsOpen(download[q])
                        /\ Past(download'[q]) <=> Past(download[q])
                        /\ download'[q].at = "rows" <=> download[q].at = "rows"
    OBVIOUS
  <2>2. CASE q = d
    BY <1>1, <1>3, <1>4, <2>2 DEF IsOpen, Past
  <2>3. CASE q # d
    BY <1>4, <2>3
  <2> QED
    BY <2>2, <2>3
<1>10. Reading(record', download', marker')
  <2>1. \A q \in Downloads : IsOpen(download[q]) =>
            /\ HeadSound(download[q].read, record)
            /\ Past(download[q]) => RowsSound(download[q].read, record)
            /\ \A z \in Downloads : IsOpen(download[z]) => Agree(download[q].read, download[z].read)
    BY <1>1 DEF Reading
  <2>2. ASSUME NEW q \in Downloads, IsOpen(download'[q])
        PROVE  /\ HeadSound(download'[q].read, record)
               /\ Past(download'[q]) => RowsSound(download'[q].read, record)
               /\ marker' # None => Agree(download'[q].read, marker'.read)
               /\ \A z \in Downloads : IsOpen(download'[z]) =>
                    Agree(download'[q].read, download'[z].read)
    BY <1>5, <1>7, <1>9, <2>1, <2>2
  <2>3. HeadSound(marker'.read, record) /\ RowsSound(marker'.read, record)
    BY <1>5, <1>7, <2>1
  <2>4. record' = record
    BY <1>1
  <2> QED
    BY <2>2, <2>3, <2>4 DEF Reading
<1>11. Gone'
  BY <1>1, <1>5 DEF Gone
<1>12. ASSUME ~ history.crossed
       PROVE  /\ Together(download') /\ Marking(record', download', marker')
              /\ Stored(record', download', marker', pdf') /\ Showing(download', pdf')
  <2>1. Together(download) /\ Showing(download, pdf)
    BY <1>12 DEF DocInv
  <2>2. Together(download')
    BY <1>9, <2>1 DEF Together
  <2>3. Marking(record', download', marker')
    <3>1. ASSUME NEW q \in Downloads, IsOpen(download'[q])
          PROVE  /\ marker'.read.head <= download'[q].read.head
                 /\ Past(download'[q]) => download'[q].read = marker'.read
      <4>1. IsOpen(download[q]) /\ download[q].read.head = download[d].read.head
        BY <1>5, <1>9, <2>1, <3>1 DEF Together
      <4>2. Past(download[q]) => download[q].read = download[d].read
        BY <1>5, <4>1, <2>1 DEF Together
      <4>3. download[d].read.head \in Nat
        BY <1>5, ReadsAreNumbers
      <4> QED
        BY <1>7, <1>9, <4>1, <4>2, <4>3
    <3> QED
      BY <3>1 DEF Marking
  <2>4. Stored(record', download', marker', pdf')
    BY <1>1, <1>7, <2>1 DEF Stored, Showing
  <2>5. Showing(download', pdf')
    BY <1>1, <1>3, <1>4, <1>6, <2>1 DEF Showing
  <2> QED
    BY <2>2, <2>3, <2>4, <2>5
<1> QED
  BY <1>1, <1>8, <1>10, <1>11, <1>12 DEF DocInv

(***************************************************************************)
(* Steps of the others                                                     *)
(***************************************************************************)
LEMMA WorldKeeps ==
    ASSUME DocInv, record' \in Versions \cup {None}, Later(record, record'),
           settings' \in Configs, deletion' \in {"none", "purged"},
           history' \in [crossed : BOOLEAN, late : BOOLEAN],
           history'.crossed = history.crossed,
           marker' \in {marker, None}, pdf' \in {pdf, None},
           download' = download \/ download' = [d \in Downloads |-> Idle],
           Gone'
    PROVE  DocInv'
<1>1. Typed /\ Reading(record, download, marker)
  BY DEF DocInv
<1>2. \A q \in Downloads : download'[q] = download[q] \/ download'[q] = Idle
  OBVIOUS
<1>3. StillReads(download, download')
  BY <1>2, IdleIsTyped DEF StillReads, IsOpen
<1>4. Typed'
  <2>1. download' \in [Downloads -> States]
    BY <1>1, IdleIsTyped DEF Typed
  <2>2. \A q \in Downloads : Sensible(download'[q])
    BY <1>1, <1>2, IdleIsTyped DEF Typed
  <2>3. /\ pdf' \in Made \cup {None} /\ (pdf' # None => ~ pdf'.signed)
        /\ marker' \in Markers \cup {None} /\ (marker' # None => Ordered(marker'.read))
    BY <1>1 DEF Typed
  <2> QED
    BY <2>1, <2>2, <2>3 DEF Typed
<1>5. Reading(record', download', marker')
  BY <1>1, <1>3, ReadingStays
<1>6. ASSUME ~ history.crossed
      PROVE  /\ Together(download') /\ Marking(record', download', marker')
             /\ Stored(record', download', marker', pdf') /\ Showing(download', pdf')
  <2>1. /\ Together(download) /\ Marking(record, download, marker)
        /\ Stored(record, download, marker, pdf) /\ Showing(download, pdf)
    BY <1>6 DEF DocInv
  <2>2. Together(download') /\ Marking(record', download', marker')
    BY <1>1, <1>3, <2>1, TogetherStays, MarkingStays
  <2>3. Stored(record', download', marker', pdf')
    BY <1>1, <1>3, <2>1, StoredStays
  <2>4. Showing(download', pdf')
    BY <1>2, <2>1, IdleIsTyped DEF Showing
  <2> QED
    BY <2>2, <2>3, <2>4
<1> QED
  BY <1>4, <1>5, <1>6 DEF DocInv

LEMMA ChangeKeeps ==
    ASSUME DocInv, NEW canceled \in BOOLEAN, Change(canceled)
    PROVE  DocInv'
<1>1. Typed
  BY DEF DocInv
<1>2. /\ record # None /\ record' = [version |-> record.version + 1, canceled |-> canceled]
      /\ deletion = "none" /\ UNCHANGED <<settings, pdf, marker, download, deletion, history>>
  BY DEF Change
<1>3. record \in Versions /\ record.version \in Nat
  BY <1>1, <1>2, VersionsAreNumbers DEF Typed
<1>4. record' \in Versions /\ record.version < record'.version
  BY <1>2, <1>3 DEF Versions
<1>5. record' # None
  BY <1>4, DocumentsAssumption
<1>6. Later(record, record') /\ Gone'
  BY <1>2, <1>4, <1>5 DEF Later, Gone
<1> QED
  BY <1>1, <1>2, <1>4, <1>6, WorldKeeps DEF Typed

LEMMA PurgeKeeps ==
    ASSUME DocInv, Purge
    PROVE  DocInv'
<1>1. Typed
  BY DEF DocInv
<1>2. /\ deletion' = "purged" /\ pdf' = None /\ marker' = None
      /\ history' = [history EXCEPT !.late = \E d \in Downloads : Open(d)]
      /\ UNCHANGED <<record, settings, download>>
  BY DEF Purge
<1>3. /\ history' \in [crossed : BOOLEAN, late : BOOLEAN] /\ history'.crossed = history.crossed
      /\ history'.late <=> \E d \in Downloads : Open(d)
  <2> DEFINE late == \E d \in Downloads : Open(d)
  <2>1. late \in BOOLEAN
    OBVIOUS
  <2>2. history' = [history EXCEPT !.late = late]
    BY <1>2
  <2> HIDE DEF late
  <2>3. /\ history' \in [crossed : BOOLEAN, late : BOOLEAN] /\ history'.crossed = history.crossed
        /\ history'.late = late
    BY <1>1, <2>1, <2>2 DEF Typed
  <2> QED
    BY <2>3 DEF late
<1>4. Gone' /\ Later(record, record')
  BY <1>2, <1>3 DEF Gone, Later, Open, IsOpen
<1> QED
  BY <1>1, <1>2, <1>3, <1>4, WorldKeeps DEF Typed

LEMMA CommitKeeps ==
    ASSUME DocInv, Commit
    PROVE  DocInv'
<1>1. Typed /\ Gone
  BY DEF DocInv
<1>2. /\ deletion = "purged" /\ deletion' = "none" /\ record' = None
      /\ UNCHANGED <<settings, pdf, marker, download, history>>
  BY DEF Commit
<1>3. Gone' /\ Later(record, record')
  BY <1>1, <1>2 DEF Gone, Later
<1> QED
  BY <1>1, <1>2, <1>3, WorldKeeps DEF Typed

LEMMA OtherSteps ==
    ASSUME DocInv, RollBack \/ Crash \/ \E value \in Configs : Configure(value)
    PROVE  DocInv'
<1>1. Typed /\ Gone
  BY DEF DocInv
<1>2. /\ settings' \in Configs /\ deletion' \in {"none", deletion}
      /\ download' = download \/ download' = [d \in Downloads |-> Idle]
      /\ UNCHANGED <<record, pdf, marker, history>>
  BY <1>1 DEF Typed, RollBack, Crash, Configure
<1>3. \A d \in Downloads : ~ IsOpen(download[d]) => ~ IsOpen(download'[d])
  BY <1>2, IdleIsTyped DEF IsOpen
<1>4. Gone' /\ Later(record, record')
  BY <1>1, <1>2, <1>3 DEF Gone, Later
<1> QED
  BY <1>1, <1>2, <1>4, WorldKeeps DEF Typed

(***************************************************************************)
(* A download reads the head of the record                                 *)
(***************************************************************************)
LEMMA AskKeeps ==
    ASSUME DocInv, NEW d \in Downloads, NEW kind \in Kinds, Ask(d, kind)
    PROVE  DocInv'
<1> DEFINE h == HeadRead
           x == [Idle EXCEPT !.at = "rows", !.kind = kind, !.read = h]
           crosses == Crosses(d, h)
           late == deletion = "purged"
<1>1. /\ ~ IsOpen(download[d]) /\ record # None /\ Moves(d, x)
      /\ history' = [history EXCEPT !.crossed = @ \/ crosses, !.late = @ \/ late]
      /\ UNCHANGED <<record, settings, pdf, marker, deletion>>
      /\ Typed /\ Reading(record, download, marker) /\ Gone
  BY DEF Ask, Moves, Open, IsOpen, DocInv
<1>2. record \in Versions /\ record.version \in Nat /\ record.canceled \in BOOLEAN
  BY <1>1, VersionsAreNumbers DEF Typed
<1>3. h \in Reads /\ h.head = record.version /\ h.rows = None /\ h.canceled = record.canceled
  BY <1>2 DEF HeadRead, Reads
<1>4. crosses \in BOOLEAN /\ late \in BOOLEAN
  BY DEF Crosses
<1>5. ~ crosses => \A q \in Downloads \ {d} :
                     IsOpen(download[q]) => download[q].read.head = record.version
  BY <1>3 DEF Crosses, Open, IsOpen
<1> HIDE DEF h, crosses, late
<1>6. x \in States /\ x.at = "rows" /\ x.read = h
  BY <1>3, IdleIsTyped DEF States, Steps
<1>7. /\ history' \in [crossed : BOOLEAN, late : BOOLEAN]
      /\ history'.crossed <=> history.crossed \/ crosses
      /\ history'.late <=> history.late \/ late
  <2>1. history \in [crossed : BOOLEAN, late : BOOLEAN]
    BY <1>1 DEF Typed
  <2> QED
    BY <1>1, <1>4, <2>1
<1> HIDE DEF x
<1>8. /\ download' \in [Downloads -> States] /\ download'[d] = x
      /\ \A q \in Downloads \ {d} : download'[q] = download[q]
  BY <1>1, <1>6, MovesOne
<1>9. h # None
  BY <1>3, DocumentsAssumption
<1>10. Typed'
  <2>1. Sensible(x)
    BY <1>6, <1>9 DEF Sensible, IsOpen, Past, HasDoc
  <2>2. \A q \in Downloads : Sensible(download'[q])
    BY <1>1, <1>8, <2>1 DEF Typed
  <2> QED
    BY <1>1, <1>7, <1>8, <2>2 DEF Typed
<1>11. \A y \in Reads : HeadSound(y, record) => Agree(h, y) /\ Agree(y, h)
  BY <1>1, <1>3 DEF HeadSound, Agree
<1>12. /\ HeadSound(h, record)
       /\ marker # None => marker.read \in Reads /\ HeadSound(marker.read, record)
                           /\ RowsSound(marker.read, record)
  <2>1. HeadSound(h, record)
    BY <1>2, <1>3 DEF HeadSound
  <2> QED
    BY <1>1, <2>1 DEF Reading, Typed, Markers
<1>13. Reading(record', download', marker')
  <2>1. ASSUME NEW q \in Downloads, IsOpen(download'[q])
        PROVE  /\ HeadSound(download'[q].read, record)
               /\ Past(download'[q]) => RowsSound(download'[q].read, record)
               /\ marker # None => Agree(download'[q].read, marker.read)
               /\ \A z \in Downloads : IsOpen(download'[z]) =>
                    Agree(download'[q].read, download'[z].read)
    <3>1. \A z \in Downloads \ {d} : IsOpen(download[z]) =>
              download[z].read \in Reads /\ HeadSound(download[z].read, record)
      BY <1>1, OpenHasRead DEF Reading
    <3>2. CASE q = d
      <4>1. \A z \in Downloads : IsOpen(download'[z]) => Agree(h, download'[z].read)
        BY <1>6, <1>8, <1>11, <3>1 DEF Agree
      <4>2. ~ Past(download'[q]) /\ download'[q].read = h
        BY <1>6, <1>8, <3>2 DEF Past
      <4> QED
        BY <1>11, <1>12, <4>1, <4>2
    <3>3. CASE q # d
      <4>1. IsOpen(download[q]) /\ download'[q] = download[q]
        BY <1>8, <2>1, <3>3
      <4>2. \A z \in Downloads : IsOpen(download'[z]) => Agree(download[q].read, download'[z].read)
        BY <1>1, <1>6, <1>8, <1>11, <3>1, <3>3, <4>1 DEF Reading
      <4> QED
        BY <1>1, <4>1, <4>2 DEF Reading
    <3> QED
      BY <3>2, <3>3
  <2>2. record' = record /\ marker' = marker
    BY <1>1
  <2> QED
    BY <1>12, <2>1, <2>2 DEF Reading
<1>14. Gone'
  <2>1. ~ history'.late => deletion # "purged"
    BY <1>7 DEF late
  <2> QED
    BY <1>1, <2>1 DEF Gone
<1>15. ASSUME ~ history'.crossed
       PROVE  /\ Together(download') /\ Marking(record', download', marker')
              /\ Stored(record', download', marker', pdf') /\ Showing(download', pdf')
  <2>1. /\ Together(download) /\ Marking(record, download, marker)
        /\ Stored(record, download, marker, pdf) /\ Showing(download, pdf)
    BY <1>7, <1>15 DEF DocInv
  <2>2. \A q \in Downloads \ {d} : IsOpen(download[q]) => download[q].read.head = record.version
    BY <1>5, <1>7, <1>15
  <2>3. /\ download'[d].at = "rows" /\ ~ Past(download'[d])
        /\ download'[d].read.head = record.version
    BY <1>3, <1>6, <1>8 DEF Past
  <2>4. Together(download')
    BY <1>8, <2>1, <2>2, <2>3 DEF Together
  <2>5. ASSUME NEW y \in Reads, Behind(y, record, download)
        PROVE  Behind(y, record, download')
    <3>1. After(y.head, record) /\ y.head \in Nat
      BY <2>5, ReadsAreNumbers DEF Behind
    <3>2. download'[d].read.head # y.head
      BY <1>1, <1>2, <2>3, <3>1 DEF After
    <3> QED
      BY <1>8, <2>3, <2>5, <3>1, <3>2 DEF Behind
  <2>6. Marking(record', download', marker')
    <3>1. SUFFICES ASSUME marker # None, NEW q \in Downloads, IsOpen(download'[q])
            PROVE  /\ marker.read.head <= download'[q].read.head
                   /\ Past(download'[q]) => \/ download'[q].read = marker.read
                                            \/ Behind(marker.read, record, download')
      BY <1>1 DEF Marking
    <3>2. CASE q = d
      BY <1>1, <1>12, <2>3, <3>1, <3>2 DEF HeadSound
    <3>3. CASE q # d
      BY <1>8, <1>12, <2>1, <2>5, <3>1, <3>3 DEF Marking
    <3> QED
      BY <3>2, <3>3
  <2>7. Stored(record', download', marker', pdf')
    BY <1>1, <1>12, <2>1, <2>5 DEF Stored
  <2>8. Showing(download', pdf')
    BY <1>1, <1>8, <2>1, <2>3 DEF Showing
  <2> QED
    BY <2>4, <2>6, <2>7, <2>8
<1> QED
  BY <1>10, <1>13, <1>14, <1>15 DEF DocInv

(***************************************************************************)
(* A download reads the rows of the record, which may have moved on        *)
(***************************************************************************)
LEMMA ReadRowsKeeps ==
    ASSUME DocInv, NEW d \in Downloads, ReadRows(d)
    PROVE  DocInv'
<1> DEFINE old == download[d].read
           rows == IF record = None THEN None ELSE record.version
           new == [old EXCEPT !.rows = rows]
           at == IF Cached(download[d].kind) THEN "look" ELSE "draw"
           x == [download[d] EXCEPT !.read = new, !.at = at]
           crosses == Crosses(d, new)
<1>1. /\ download[d].at = "rows" /\ download' = [download EXCEPT ![d].read = new, ![d].at = at]
      /\ history' = [history EXCEPT !.crossed = @ \/ crosses]
      /\ UNCHANGED <<record, settings, pdf, marker, deletion>>
      /\ Typed /\ Reading(record, download, marker) /\ Gone
  BY DEF ReadRows, DocInv
<1>2. Moves(d, x)
  BY <1>1 DEF Moves, Typed
<1>3. /\ IsOpen(download[d]) /\ ~ Past(download[d]) /\ old \in Reads
      /\ old.head \in Nat /\ HeadSound(old, record)
  BY <1>1, OpenHasRead, ReadsAreNumbers DEF IsOpen, Past, Reading
<1>4. record # None => record \in Versions /\ record.version \in Nat
  BY <1>1, VersionsAreNumbers DEF Typed
<1>5. rows \in Nat \cup {None} /\ (record = None => rows = None)
      /\ (record # None => rows = record.version)
  BY <1>4
<1> HIDE DEF rows
<1>6. new \in Reads /\ new.head = old.head /\ new.canceled = old.canceled /\ new.rows = rows
  BY <1>3, <1>5 DEF Reads
<1>7. Ordered(new) /\ HeadSound(new, record) /\ RowsSound(new, record) /\ new # None
  BY <1>3, <1>4, <1>5, <1>6, DocumentsAssumption DEF Ordered, HeadSound, RowsSound
<1>8. crosses \in BOOLEAN
  BY DEF Crosses
<1>9. ~ crosses => \A q \in Downloads \ {d} : IsOpen(download[q]) =>
                     /\ download[q].read.head = new.head
                     /\ Past(download[q]) => download[q].read = new
  BY <1>1 DEF Crosses, Open, IsOpen, Past
<1> HIDE DEF crosses
<1>10. /\ x \in States /\ x.at = at /\ x.read = new /\ x.kind = download[d].kind
       /\ at \in {"look", "draw"} /\ (at = "look" => Cached(x.kind))
  <2>1. download[d] \in States
    BY <1>1, Fields
  <2>2. at \in {"look", "draw"} /\ (at = "look" => Cached(download[d].kind))
    OBVIOUS
  <2> HIDE DEF new, at
  <2> QED
    BY <1>6, <2>1, <2>2 DEF States, Steps
<1>11. /\ history' \in [crossed : BOOLEAN, late : BOOLEAN] /\ history'.late = history.late
       /\ history'.crossed <=> history.crossed \/ crosses
  <2>1. history \in [crossed : BOOLEAN, late : BOOLEAN]
    BY <1>1 DEF Typed
  <2> QED
    BY <1>1, <1>8, <2>1
<1>12. old = download[d].read
  OBVIOUS
<1> HIDE DEF new, at, x, old
<1>13. /\ download' \in [Downloads -> States] /\ download'[d] = x
       /\ \A q \in Downloads \ {d} : download'[q] = download[q]
  BY <1>1, <1>2, <1>10, MovesOne
<1>14. Past(x) /\ IsOpen(x) /\ Sensible(x)
  BY <1>7, <1>10 DEF Past, IsOpen, Sensible, HasDoc
<1>15. Typed'
  <2>1. \A q \in Downloads : Sensible(download'[q])
    BY <1>1, <1>13, <1>14 DEF Typed
  <2> QED
    BY <1>1, <1>11, <1>13, <2>1 DEF Typed
<1>16. \A q \in Downloads : /\ download'[q].read.head = download[q].read.head
                            /\ download'[q].read.canceled = download[q].read.canceled
                            /\ IsOpen(download'[q]) <=> IsOpen(download[q])
                            /\ q # d => (Past(download'[q]) <=> Past(download[q]))
  <2>1. SUFFICES ASSUME NEW q \in Downloads
                 PROVE  /\ download'[q].read.head = download[q].read.head
                        /\ download'[q].read.canceled = download[q].read.canceled
                        /\ IsOpen(download'[q]) <=> IsOpen(download[q])
                        /\ q # d => (Past(download'[q]) <=> Past(download[q]))
    OBVIOUS
  <2>2. CASE q = d
    BY <1>3, <1>6, <1>10, <1>12, <1>13, <1>14, <2>2
  <2>3. CASE q # d
    BY <1>13, <2>3
  <2> QED
    BY <2>2, <2>3
<1>17. Reading(record', download', marker')
  <2>1. ASSUME NEW q \in Downloads, IsOpen(download'[q])
        PROVE  /\ HeadSound(download'[q].read, record)
               /\ Past(download'[q]) => RowsSound(download'[q].read, record)
               /\ marker # None => Agree(download'[q].read, marker.read)
               /\ \A z \in Downloads : IsOpen(download'[z]) =>
                    Agree(download'[q].read, download'[z].read)
    <3>1. /\ HeadSound(download[q].read, record)
          /\ Past(download[q]) => RowsSound(download[q].read, record)
          /\ marker # None => Agree(download[q].read, marker.read)
          /\ \A z \in Downloads : IsOpen(download[z]) =>
               Agree(download[q].read, download[z].read)
      BY <1>1, <1>16, <2>1 DEF Reading
    <3>2. HeadSound(download'[q].read, record)
      BY <1>16, <3>1 DEF HeadSound
    <3>3. Past(download'[q]) => RowsSound(download'[q].read, record)
      <4>1. CASE q = d
        BY <1>7, <1>10, <1>13, <4>1
      <4>2. CASE q # d
        BY <1>13, <3>1, <4>2
      <4> QED
        BY <4>1, <4>2
    <3>4. marker # None => Agree(download'[q].read, marker.read)
      BY <1>16, <3>1 DEF Agree
    <3>5. \A z \in Downloads : IsOpen(download'[z]) => Agree(download'[q].read, download'[z].read)
      BY <1>16, <3>1 DEF Agree
    <3> QED
      BY <3>2, <3>3, <3>4, <3>5
  <2>2. record' = record /\ marker' = marker
    BY <1>1
  <2>3. marker # None => HeadSound(marker.read, record) /\ RowsSound(marker.read, record)
    BY <1>1 DEF Reading
  <2> QED
    BY <2>1, <2>2, <2>3 DEF Reading
<1>18. Gone'
  BY <1>1, <1>3, <1>11 DEF Gone
<1>19. ASSUME ~ history'.crossed
       PROVE  /\ Together(download') /\ Marking(record', download', marker')
              /\ Stored(record', download', marker', pdf') /\ Showing(download', pdf')
  <2>1. /\ Together(download) /\ Marking(record, download, marker)
        /\ Stored(record, download, marker, pdf) /\ Showing(download, pdf)
    BY <1>11, <1>19 DEF DocInv
  <2>2. \A q \in Downloads \ {d} : IsOpen(download[q]) =>
            /\ download[q].read.head = new.head
            /\ Past(download[q]) => download[q].read = new
    BY <1>9, <1>11, <1>19
  <2>3. download'[d].read = new /\ Past(download'[d]) /\ download'[d].at \in {"look", "draw"}
    BY <1>10, <1>13, <1>14
  <2>4. \A q \in Downloads : IsOpen(download'[q]) =>
            /\ download'[q].read.head = new.head
            /\ Past(download'[q]) => download'[q].read = new
    BY <1>13, <2>2, <2>3
  <2>5. Together(download')
    BY <2>4 DEF Together
  <2>6. ASSUME NEW y \in Reads, Behind(y, record, download)
        PROVE  Behind(y, record, download')
    <3>1. After(y.head, record)
      BY <2>6 DEF Behind
    <3>2. new # y
      <4>1. SUFFICES ASSUME new = y PROVE FALSE
        OBVIOUS
      <4>2. old.head = y.head /\ y.rows = rows
        BY <1>6, <4>1
      <4>3. y.rows # None /\ After(y.rows, record)
        BY <1>1, <1>12, <2>6, <4>2 DEF Behind
      <4> QED
        BY <1>4, <1>5, <4>2, <4>3 DEF After
    <3>3. ASSUME NEW q \in Downloads
          PROVE  /\ download'[q].at = "rows" /\ download'[q].read.head = y.head
                       => y.rows # None /\ After(y.rows, record)
                 /\ Past(download'[q]) => download'[q].read # y
      <4>1. CASE q = d
        BY <2>3, <3>2, <4>1
      <4>2. CASE q # d
        BY <1>13, <2>6, <4>2 DEF Behind
      <4> QED
        BY <4>1, <4>2
    <3> QED
      BY <3>1, <3>3 DEF Behind
  <2>7. ASSUME marker # None
        PROVE  new = marker.read \/ Behind(marker.read, record, download')
    <3> DEFINE m == marker.read
    <3>1. m \in Reads /\ Ordered(m) /\ HeadSound(m, record) /\ RowsSound(m, record)
      BY <1>1, <2>7 DEF Typed, Markers, Reading
    <3>2. m.head <= old.head /\ Agree(old, m)
      BY <1>1, <1>3, <1>12, <2>1, <2>7 DEF Marking, Reading
    <3>3. m.head \in Nat /\ (m.rows # None => m.rows \in Nat)
      BY <3>1, ReadsAreNumbers
    <3> HIDE DEF m
    <3>4. CASE \E q \in Downloads \ {d} : Past(download[q])
      <4>1. PICK q \in Downloads \ {d} : Past(download[q])
        BY <3>4
      <4>2. IsOpen(download[q]) /\ download[q].read = new
        BY <2>2, <4>1 DEF Past, IsOpen
      <4>3. new = m \/ Behind(m, record, download)
        BY <2>1, <2>7, <4>1, <4>2 DEF Marking, m
      <4> QED
        BY <2>6, <3>1, <4>3 DEF m
    <3>5. CASE \A q \in Downloads \ {d} : ~ Past(download[q])
      <4>1. \A q \in Downloads : /\ Past(download'[q]) => download'[q].read = new
                                 /\ download'[q].at = "rows" => download'[q].read.head = new.head
        BY <2>4 DEF Past, IsOpen
      <4>2. After(m.head, record) /\ new # m
              /\ (new.head = m.head => m.rows # None /\ After(m.rows, record))
            => Behind(m, record, download')
        BY <4>1 DEF Behind
      <4>3. CASE m.head < old.head
        <5>1. After(m.head, record) /\ new.head # m.head
          BY <1>3, <1>4, <1>6, <3>3, <4>3 DEF After, HeadSound
        <5> QED
          BY <4>2, <5>1 DEF m
      <4>4. CASE m.head = old.head
        <5>1. new.head = m.head /\ new.canceled = m.canceled
          BY <1>6, <3>2, <4>4 DEF Agree
        <5>2. m.rows = new.rows => new = m
          BY <1>6, <3>1, <5>1 DEF Reads
        <5>3. CASE record = None
          <6>1. new.rows = None /\ After(m.head, record) /\ After(m.rows, record)
            BY <1>5, <1>6, <5>3 DEF After
          <6> QED
            BY <4>2, <5>2, <6>1 DEF m
        <5>4. CASE record # None
          <6>1. m.rows # None /\ m.rows <= record.version /\ m.head <= m.rows
            BY <3>1, <5>4 DEF RowsSound, Ordered
          <6>2. new.rows = record.version
            BY <1>5, <1>6, <5>4
          <6>3. CASE m.rows = record.version
            BY <5>2, <6>2, <6>3 DEF m
          <6>4. CASE m.rows < record.version
            <7>1. After(m.head, record) /\ After(m.rows, record) /\ new # m
              BY <1>4, <3>3, <5>4, <6>1, <6>2, <6>4 DEF After
            <7> QED
              BY <4>2, <6>1, <7>1 DEF m
          <6> QED
            BY <1>4, <3>3, <5>4, <6>1, <6>3, <6>4
        <5> QED
          BY <5>3, <5>4
      <4> QED
        BY <1>3, <3>2, <3>3, <4>3, <4>4
    <3> QED
      BY <3>4, <3>5
  <2>8. Marking(record', download', marker')
    <3>1. SUFFICES ASSUME marker # None, NEW q \in Downloads, IsOpen(download'[q])
            PROVE  /\ marker.read.head <= download'[q].read.head
                   /\ Past(download'[q]) => \/ download'[q].read = marker.read
                                            \/ Behind(marker.read, record, download')
      BY <1>1 DEF Marking
    <3>2. marker.read.head <= download'[q].read.head
      BY <1>16, <2>1, <3>1 DEF Marking
    <3>3. Past(download'[q]) => download'[q].read = new
      BY <2>4, <3>1
    <3> QED
      BY <2>7, <3>1, <3>2, <3>3
  <2>9. Stored(record', download', marker', pdf')
    <3>1. marker # None => marker.read \in Reads
      BY <1>1 DEF Typed, Markers
    <3> QED
      BY <1>1, <2>1, <2>6, <3>1 DEF Stored
  <2>10. Showing(download', pdf')
    BY <1>1, <1>13, <2>1, <2>3 DEF Showing
  <2> QED
    BY <2>5, <2>8, <2>9, <2>10
<1> QED
  BY <1>15, <1>17, <1>18, <1>19 DEF DocInv

(***************************************************************************)
(* The theorem                                                             *)
(***************************************************************************)
LEMMA DocumentsBegin ==
    DocumentsInit => DocInv
<1> SUFFICES ASSUME DocumentsInit PROVE DocInv
  OBVIOUS
<1>1. /\ record = [version |-> 1, canceled |-> FALSE] /\ settings \in Configs
      /\ pdf = None /\ marker = None /\ deletion = "none"
      /\ download = [d \in Downloads |-> Idle]
      /\ history = [crossed |-> FALSE, late |-> FALSE]
  BY DEF DocumentsInit
<1>2. record \in Versions /\ record # None
  <2>1. record \in Versions
    BY <1>1 DEF Versions
  <2> QED
    BY <2>1, DocumentsAssumption
<1>3. \A d \in Downloads : download[d] = Idle /\ ~ IsOpen(download[d]) /\ ~ Past(download[d])
  BY <1>1, IdleIsTyped DEF IsOpen, Past
<1>4. Typed
  <2>1. download \in [Downloads -> States] /\ \A d \in Downloads : Sensible(download[d])
    BY <1>1, IdleIsTyped
  <2> QED
    BY <1>1, <1>2, <2>1 DEF Typed
<1>5. Reading(record, download, marker) /\ Together(download)
  BY <1>1, <1>3 DEF Reading, Together
<1>6. Marking(record, download, marker) /\ Stored(record, download, marker, pdf)
  BY <1>1 DEF Marking, Stored
<1>7. Showing(download, pdf) /\ Gone
  BY <1>1, <1>2, <1>3, IdleIsTyped DEF Showing, Gone
<1> QED
  BY <1>4, <1>5, <1>6, <1>7 DEF DocInv

LEMMA DocumentsStep ==
    DocInv /\ [DocumentsNext]_docVars => DocInv'
<1> SUFFICES ASSUME DocInv, [DocumentsNext]_docVars PROVE DocInv'
  OBVIOUS
<1>1. CASE \E d \in Downloads, kind \in Kinds : Ask(d, kind)
  BY <1>1, AskKeeps
<1>2. ASSUME NEW d \in Downloads,
             \/ ReadRows(d) \/ Look(d) \/ Take(d) \/ Draw(d)
             \/ \E byExcel \in BOOLEAN : Drawn(d, byExcel)
             \/ PutOpens(d) \/ PutFails(d) \/ PutWrites(d) \/ PutMarks(d) \/ Finish(d)
      PROVE  DocInv'
  BY <1>2, ReadRowsKeeps, LookKeeps, TakeKeeps, DrawKeeps, DrawnKeeps, PutOpensKeeps,
     PutFailsKeeps, PutWritesKeeps, PutMarksKeeps, FinishKeeps
<1>3. CASE Correct \/ Cancel \/ Restore
  <2>1. record # None => record.canceled \in BOOLEAN
    BY VersionsAreNumbers DEF DocInv, Typed
  <2>2. \E canceled \in BOOLEAN : Change(canceled)
    BY <1>3, <2>1 DEF Correct, Cancel, Restore
  <2> QED
    BY <2>2, ChangeKeeps
<1>4. CASE Purge \/ Commit
  BY <1>4, PurgeKeeps, CommitKeeps
<1>5. CASE RollBack \/ Crash \/ \E value \in Configs : Configure(value)
  BY <1>5, OtherSteps
<1>6. CASE UNCHANGED docVars
  <2>1. UNCHANGED <<record, settings, pdf, marker, download, deletion, history>>
    BY <1>6 DEF docVars
  <2>2. Typed /\ Gone'
    BY <2>1 DEF DocInv, Gone
  <2> QED
    BY <2>1, <2>2, WorldKeeps DEF Typed, Later
<1> QED
  BY <1>1, <1>2, <1>3, <1>4, <1>5, <1>6 DEF DocumentsNext

(* A document that is handed out shows the record as its download read it, *)
(* as long as no downloads of different versions ran together; it has      *)
(* signatures exactly if they were asked for; the files of a deleted       *)
(* record are gone.  For any downloads, kinds, settings and changes        *)
(* (dhr_cache.py, blend_routes.py).                                        *)
THEOREM DocumentsStayTrue == DocumentsSpec => []DocumentsAreTrue
<1>1. DocInv => DocumentsAreTrue
  <2> SUFFICES ASSUME DocInv PROVE DocumentsAreTrue
    OBVIOUS
  <2>1. DocumentIsOfItsRecord
    BY DEF DocInv, Showing, DocumentIsOfItsRecord
  <2>2. SignedAsAsked
    BY DEF DocInv, Typed, Sensible, HasDoc, SignedAsAsked
  <2>3. DeletedLeavesNoFiles
    BY DEF DocInv, Gone, DeletedLeavesNoFiles
  <2> QED
    BY <2>1, <2>2, <2>3 DEF DocumentsAreTrue
<1> QED
  BY <1>1, DocumentsBegin, DocumentsStep, PTL DEF DocumentsSpec
=============================================================================
