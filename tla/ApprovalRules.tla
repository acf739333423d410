--------------------------- MODULE ApprovalRules ---------------------------
(***************************************************************************)
(* What is read from a leave request of the portal and how the requests of *)
(* a month are compared with the attendance sheet:                         *)
(* src/src/services/portal_approvals/parser.py (period, title, item) and   *)
(* build_month_view of src/src/services/attendance_approvals.py.           *)
(*                                                                         *)
(* A date is a number of days; a year has YearDays of them. A time written *)
(* in the period is a stamp [year, day, hour]: the year is Unwritten when  *)
(* the text leaves it out, the day is the day of the year. Numbers of days *)
(* are in quarters ("0.5" is 2); Unstated when the text gives none.        *)
(***************************************************************************)
EXTENDS Integers, Sequences, FiniteSets

CONSTANT YearDays
Unwritten == 0
Unstated  == 0
NoDate    == 0
Nothing   == ""

First(S) == CHOOSE i \in S : \A j \in S : i <= j

----------------------------------------------------------------------------
(* The period                                                              *)

\* The written year nearest to a stamp; of two the later one.
NearestYear(stamps, i) ==
    LET written  == {j \in DOMAIN stamps : stamps[j].year # Unwritten}
        gap(j)   == IF j < i THEN i - j ELSE j - i
        near     == {j \in written : \A k \in written : gap(j) <= gap(k)}
    IN  stamps[CHOOSE j \in near : \A k \in near : k <= j].year

\* The dates of the stamps. A stamp before the one in front of it is moved to the
\* next year, or the one in front to the year before; a written year stays.
FillYears(stamps) ==
    LET filled == [i \in DOMAIN stamps |->
                     [year |-> IF stamps[i].year # Unwritten THEN stamps[i].year ELSE NearestYear(stamps, i),
                      day |-> stamps[i].day, written |-> stamps[i].year # Unwritten]]
        date(f) == f.year * YearDays + f.day
        pass[n \in 1..Len(stamps)] ==
          IF n = 1 THEN filled
          ELSE LET so == pass[n - 1]
               IN  IF date(so[n]) >= date(so[n - 1]) THEN so
                   ELSE IF ~ so[n].written     THEN [so EXCEPT ![n].year = @ + 1]
                   ELSE IF ~ so[n - 1].written THEN [so EXCEPT ![n - 1].year = @ - 1]
                   ELSE so
    IN  IF \A i \in DOMAIN stamps : stamps[i].year = Unwritten
          THEN [i \in DOMAIN stamps |-> NoDate]
          ELSE [i \in DOMAIN stamps |-> date(pass[Len(stamps)][i])]

\* Faulty variant: the range is always filled.
PeriodRangeFilled(dates, days) ==
    LET known == SelectSeq(dates, LAMBDA d : d # NoDate)
    IN  IF known = <<>> THEN [start |-> NoDate, end |-> NoDate, review |-> FALSE]
        ELSE [start |-> known[1], end |-> known[Len(known)], review |-> FALSE]

\* The first and the last day, and whether a person has to look at the document.
PeriodRange(dates, days) ==
    LET known == {i \in DOMAIN dates : dates[i] # NoDate /\ \A j \in 1..(i - 1) : dates[j] # dates[i]}
        first == dates[First(known)]
        last  == dates[CHOOSE i \in known : \A j \in known : j <= i]
        span  == 4 * (last - first + 1)
        Is(s, e, r) == [start |-> s, end |-> e, review |-> r]
    IN  CASE known = {}      -> Is(NoDate, NoDate, FALSE)
          [] known # {} /\ first = last -> Is(first, last, FALSE)
          [] known # {} /\ last < first -> Is(first, first, TRUE)
          [] known # {} /\ last > first ->
               IF days = Unstated THEN Is(first, last, FALSE)
               ELSE IF days <= 4 THEN Is(first, first, FALSE)       \* work into the night
               ELSE IF span - days >= 4 THEN Is(first, first, TRUE) \* days with gaps
               ELSE Is(first, last, FALSE)

Period(stamps, days) == PeriodRange(FillYears(stamps), days)

----------------------------------------------------------------------------
(* The title: a sequence of parts [form, dates, kind, name, dept]. form:   *)
(* the part holds the name of the form; dates: the first and last date in  *)
(* it (<<>> if none); kind: the kind word in it; name: it looks like a     *)
(* name (two to four syllables, as most kinds do); dept: like a department.*)

\* Faulty variant: the last part that looks like a name.
NamePartLast(parts, dateAt, kindAt) ==
    LET fit == {i \in DOMAIN parts : parts[i].name}
    IN  IF fit = {} THEN 0 ELSE CHOOSE i \in fit : \A j \in fit : j <= i

NamePart(parts, dateAt, kindAt) ==
    LET fit == {i \in DOMAIN parts \ {dateAt, kindAt} :
                  parts[i].name /\ ~ parts[i].form /\ ~ parts[i].dept}
    IN  IF fit = {} THEN 0 ELSE First(fit)

Title(parts) ==
    LET dated  == {i \in DOMAIN parts : parts[i].dates # <<>> /\ ~ parts[i].form}
        dateAt == IF dated = {} THEN 0 ELSE First(dated)
        kinded == {i \in DOMAIN parts \ {dateAt} : parts[i].kind # Nothing}
        kindAt == IF kinded = {} THEN 0 ELSE First(kinded)
        nameAt == NamePart(parts, dateAt, kindAt)
    IN  [start |-> IF dateAt = 0 THEN NoDate ELSE parts[dateAt].dates[1],
         end   |-> IF dateAt = 0 THEN NoDate ELSE parts[dateAt].dates[2],
         kind  |-> IF kindAt # 0 THEN parts[kindAt].kind
                   ELSE IF dateAt # 0 THEN parts[dateAt].kind ELSE Nothing,
         name  |-> IF nameAt = 0 THEN Nothing ELSE parts[nameAt].text]

----------------------------------------------------------------------------
(* The stored item: the body first, the title where the body says nothing, *)
(* except that a body of one day gives way to a range in the title when    *)
(* the body states two days or more.                                       *)

Halves == {"half", "quarter"}

\* The half of the day: written, or told by the first hour.
HalfOfDay(written, kind, stamps) ==
    IF written # Nothing THEN written
    ELSE IF kind \notin Halves \/ stamps = <<>> THEN Nothing
    ELSE IF stamps[1].hour >= 12 THEN "afternoon" ELSE "morning"

\* Faulty variant: the title's range is never used beside a body.
ItemOfBody(title, stamps, days) ==
    LET body == Period(stamps, days)
    IN  IF body.start # NoDate THEN body ELSE [start |-> title.start, end |-> title.end, review |-> FALSE]

Item(title, stamps, days) ==
    LET body  == Period(stamps, days)
        start == IF body.start # NoDate THEN body.start ELSE title.start
        end   == IF body.end # NoDate THEN body.end ELSE IF title.end # NoDate THEN title.end ELSE start
    IN  IF /\ ~ body.review /\ start # NoDate /\ start = end
           /\ title.start # NoDate /\ title.end > title.start /\ days >= 8
          THEN [start |-> title.start, end |-> title.end, review |-> FALSE]
          ELSE [start |-> start, end |-> end, review |-> body.review]

\* The days an approval is taken to cover.
Covered(item) == IF item.end < item.start THEN {item.start} ELSE item.start..item.end

----------------------------------------------------------------------------
(* The month. A roster is a set of people [id, name]; a request has an id  *)
(* (0 if none), a name, its days and whether it is to be looked at; a row  *)
(* of the sheet has the id, the day and what it says: "plain", "leave" (of *)
(* a kind a request is written for) or "marked" (anything else).           *)

\* Faulty variant: the first of several people of the name is taken.
MatchAny(request, roster) ==
    LET byId   == {p \in roster : p.id = request.id}
        byName == {p \in roster : p.name = request.name}
    IN  IF byId # {} THEN byId
        ELSE IF byName = {} THEN {} ELSE {CHOOSE p \in byName : \A q \in byName : p.id <= q.id}

\* The person a request belongs to ({} if nobody, or if several have the name).
Match(request, roster) ==
    LET byId   == {p \in roster : p.id = request.id}
        byName == {p \in roster : p.name = request.name}
    IN  IF byId # {} THEN byId ELSE IF Cardinality(byName) = 1 THEN byName ELSE {}

Owned(request, roster) == {<<p.id, d>> : p \in Match(request, roster), d \in request.days}

\* Several files may hold the same day: it is leave if one of them says so.
Says(rows, what)   == {<<r.id, r.day>> : r \in {s \in rows : s.says = what}}
\* Faulty variant: a day is what the last file says.
LeaveByLast(rows)  == Says(rows, "leave") \ Says(rows, "plain")
Leave(rows)        == Says(rows, "leave")
Written(rows)      == {<<r.id, r.day>> : r \in rows}

\* "Approved, but not in the sheet", per request, and "in the sheet, not approved".
MissingInErp(requests, roster, rows) ==
    UNION {(Owned(q, roster) \cap Written(rows)) \ (Leave(rows) \cup Says(rows, "marked"))
             : q \in {r \in requests : ~ r.review}}
MissingApproval(requests, roster, rows) ==
    Leave(rows) \ UNION {Owned(q, roster) : q \in requests}
=============================================================================
