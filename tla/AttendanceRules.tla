-------------------------- MODULE AttendanceRules --------------------------
(***************************************************************************)
(* How a row of the attendance sheet is judged                             *)
(* (src/src/services/attendance_excel/): anomaly.py decides which rows are *)
(* shown as irregular, summary.py counts the leave that was taken,         *)
(* parser.py finds the columns by the two header rows.                     *)
(*                                                                         *)
(* Times are quarters of an hour from midnight of the day of the row (all  *)
(* the constants of the code are multiples of 15 minutes; a check-out      *)
(* after midnight is written 24:00 and more). A text is the set of the     *)
(* words the code looks for: "quarter" (which contains "half", the code    *)
(* asks for it first), "half", "full" (a full day of annual leave),        *)
(* "absent" (a full day of another kind), "morning", "afternoon", "late",  *)
(* "early", "outing", "unstamped", "in", "out". row.code is the attendance *)
(* code, row.note the note with the kind of the day.                       *)
(***************************************************************************)
EXTENDS Integers, Sequences, FiniteSets

NoTime == -1
Day    == 96
Grace  == 1                                    \* ALERT_GRACE_MINUTES
Words(row) == row.note \cup row.code

Baselines == [day |-> [in |-> 36, out |-> 72], twoDay |-> [in |-> 28, out |-> 63],
              twoNight |-> [in |-> 76, out |-> 111]]
Shift2    == {"twoDay", "twoNight"}

----------------------------------------------------------------------------
(* Leave of a part of the day                                              *)

PartialLeave(row) == IF "quarter" \in Words(row) THEN "quarter"
                     ELSE IF "half" \in Words(row) THEN "half" ELSE "none"

FullDayLeave(row) == PartialLeave(row) = "none" /\ Words(row) \cap {"full", "absent"} # {}

\* Half a day moves the bounds of the day shift by five hours (lunch included),
\* of the two-shift workers by four.
Off(shift, leave) == IF leave = "quarter" THEN 8 ELSE IF shift \in Shift2 THEN 16 ELSE 20

\* Faulty variant: only a late arrival tells the morning.
InferHalfByArrival(row, base, off) ==
    CASE row.in # NoTime /\ row.in >= base.in + off -> "morning"
      [] row.out # NoTime /\ row.out <= base.out - off -> "afternoon"
      [] OTHER -> "unknown"

\* Which half was taken, when the text does not say it.
InferHalf(row, base, off) ==
    CASE row.out # NoTime /\ row.out >= base.out -> "morning"
      [] row.in # NoTime /\ row.in >= base.in + off -> "morning"
      [] row.out # NoTime /\ row.out < base.out -> "afternoon"
      [] OTHER -> "unknown"

HalfOf(row, base, off) == IF "morning" \in Words(row) THEN "morning"
                          ELSE IF "afternoon" \in Words(row) THEN "afternoon"
                          ELSE InferHalf(row, base, off)

\* The hours a worker owes on the day of the row.
Baseline(row) ==
    LET leave == PartialLeave(row)
        off   == Off(row.shift, leave)
        base  == IF row.shift = "day" /\ row.type = "weekday2"
                   THEN [Baselines.day EXCEPT !.out = @ - 2] ELSE Baselines[row.shift]
        half  == HalfOf(row, base, off)
    IN  CASE leave = "none" \/ half = "unknown" -> base
          [] half = "morning"   -> [base EXCEPT !.in = @ + off]
          [] half = "afternoon" -> [base EXCEPT !.out = IF row.shift \in Shift2
                                                          THEN base.in + 32 - off ELSE @ - off]

----------------------------------------------------------------------------
(* The issues of a row at a reference time, counted from its midnight      *)

\* Faulty variants: every bound of an earlier day has passed; only the time of
\* the day is compared.
HasPassedByDate(bound, now)  == now >= Day \/ now >= bound + Grace
HasPassedByClock(bound, now) == now % Day >= bound + Grace

HasPassed(bound, now) == now >= bound + Grace

CodeIssues(row) ==
    IF "unstamped" \notin row.code THEN {}
    ELSE LET found == (IF row.code \cap {"in", "outing"} # {} THEN {"no in"} ELSE {})
                      \cup (IF row.code \cap {"out", "early"} # {} THEN {"no out"} ELSE {})
         IN  IF found = {} THEN {"look at the code"} ELSE found

\* row.deducted: the kinds of time ("late", "early", "outing") taken off the pay.
DeductionIssues(row) ==
    IF row.deducted = {} THEN {}
    ELSE IF row.code \cap {"full", "half", "quarter"} # {} THEN {"deduction beside leave"}
    ELSE {"no code for " \o kind : kind \in row.deducted \ row.code}

StampIssues(row, now) ==
    LET base == Baseline(row)
    IN  {i \in {"no in", "late", "no out", "early"} :
           CASE i = "no in"  -> row.in = NoTime /\ "late" \notin row.deducted /\ HasPassed(base.in, now)
             [] i = "late"   -> row.in # NoTime /\ "late" \notin row.deducted /\ row.in > base.in
             [] i = "no out" -> row.out = NoTime /\ "early" \notin row.deducted /\ HasPassed(base.out, now)
             [] i = "early"  -> row.out # NoTime /\ "early" \notin row.deducted /\ row.out < base.out}

Issues(row, now) ==
    IF now < 0 \/ row.type = "rest" THEN {}
    ELSE CodeIssues(row) \cup DeductionIssues(row)
         \cup (IF FullDayLeave(row) \/ row.shift \notin DOMAIN Baselines THEN {} ELSE StampIssues(row, now))

\* The list of today leaves out the rows of a full day of leave; the list of the
\* month keeps them.
TodayIssues(row, now) == IF FullDayLeave(row) THEN {} ELSE Issues(row, now)

\* How the line of a row is headed (its code; the later codes are never reached,
\* because every unprocessed lateness already gets code 4).
Category(issues) ==
    CASE {"no in", "no out"} \subseteq issues -> 1
      [] "no in" \in issues  -> 2
      [] "no out" \in issues -> 3
      [] issues \cap {"deduction beside leave", "no code for late", "no code for early",
                      "no code for outing"} # {} -> 0
      [] issues \cap {"late", "early"} # {} -> 4
      [] OTHER -> 0

----------------------------------------------------------------------------
(* Annual leave of a year, in quarters of a day                            *)

AnnualLeave(row) == Words(row) \cap {"full", "half", "quarter"} # {}

\* Faulty variant: a word for a half of the day is taken for half a day of leave.
BucketByHalf(row) == IF "quarter" \in Words(row) THEN 1
                     ELSE IF Words(row) \cap {"half", "morning", "afternoon"} # {} THEN 2 ELSE 4

Bucket(row) == IF "quarter" \in Words(row) THEN 1 ELSE IF "half" \in Words(row) THEN 2 ELSE 4

----------------------------------------------------------------------------
(* The columns. A header is a sequence of columns [group, sub]: the label  *)
(* of the group row ("" where the cell is merged into the one before) and  *)
(* the name of the second row. A field is a name, or a name under a group. *)

Blank    == ""
Grouped  == {"early", "normal"}                  \* names that occur in both groups
Field(sub, group) == <<sub, group>>

FilledGroup(header, i) ==
    LET labelled == {j \in 1..i : header[j].group # Blank}
    IN  IF labelled = {} THEN Blank
        ELSE header[CHOOSE j \in labelled : \A k \in labelled : k <= j].group

\* Faulty variant: the groups are told by their order alone.
GroupByOrder(header, i, found) ==
    IF Field(header[i].sub, "weekday") \notin DOMAIN found THEN "weekday" ELSE "holiday"

GroupOf(header, i, found) ==
    CASE FilledGroup(header, i) = "weekday" -> "weekday"
      [] FilledGroup(header, i) = "holiday" -> "holiday"
      [] OTHER -> IF Field(header[i].sub, "weekday") \notin DOMAIN found THEN "weekday" ELSE "holiday"

Added(found, field, i) == IF field \in DOMAIN found THEN found
                          ELSE [f \in DOMAIN found \cup {field} |-> IF f = field THEN i ELSE found[f]]

\* The fields found in the first n columns, each with its column. The note has
\* no name of its own, only a label in the group row.
Detected(header) ==
    LET found[n \in 0..Len(header)] ==
          IF n = 0 THEN [f \in {} |-> 0]
          ELSE LET c == header[n]
                   so == found[n - 1]
               IN  CASE c.sub \in Grouped -> Added(so, Field(c.sub, GroupOf(header, n, so)), n)
                     [] c.sub # Blank     -> Added(so, Field(c.sub, Blank), n)
                     [] FilledGroup(header, n) = "note" -> Added(so, Field("note", Blank), n)
                     [] OTHER -> so
    IN  found[Len(header)]

\* The map that is read with: all of the old positions when a required field is
\* missing, the old position of each optional field that is not found.
ColumnMap(header, default, required) ==
    LET found == Detected(header)
    IN  IF required \subseteq DOMAIN found
          THEN [f \in DOMAIN default |-> IF f \in DOMAIN found THEN found[f] ELSE default[f]]
          ELSE default

\* What header_diagnostics shows a manager.
Reported(header, default, required) ==
    LET found == Detected(header)
    IN  IF required \subseteq DOMAIN found THEN DOMAIN default \ DOMAIN found ELSE DOMAIN default
=============================================================================
