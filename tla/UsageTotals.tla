---------------------------- MODULE UsageTotals ----------------------------
(***************************************************************************)
(* The figures made from the saved blends                                  *)
(* (src/src/services/blend_service.py): the material usage given to the    *)
(* stock dashboard, per period (material_usage_periods) and per row        *)
(* (material_usage_details), and the analysis of the managers (analysis,   *)
(* material_usage, product_usage, batch_details). They are separate        *)
(* queries with separate conditions, over the same records.                *)
(*                                                                         *)
(* records[i] = [status, bulk, test, date, product, worker, total, manual, *)
(* rows]; a row is [name, code, link, amount]. A date is a number; a       *)
(* bucket (a month or a week) is BucketDays days. Amounts are integers;    *)
(* rounding to 0.001 g is left out.                                        *)
(***************************************************************************)
EXTENDS Integers, Sequences, FiniteSets, FiniteSetsExt

CONSTANTS BucketDays,
          Coded(_, _)      \* the code of a name and a stored code ("" if none)

Open   == 0                \* a bound of the period that is not given
NoCode == ""

Total(f(_), S) == MapThenSumSet(f, S)
Bucket(d)      == (d - 1) \div BucketDays

----------------------------------------------------------------------------
(* Which records count                                                     *)

Within(r, from, to) == (from # Open => r.date >= from) /\ (to # Open => r.date <= to)

\* Faulty variant: the copies made in bulk are counted again.
DoneWithCopies(records, from, to, tests) ==
    {i \in DOMAIN records : /\ records[i].status = "completed" /\ (tests \/ ~ records[i].test)
                            /\ Within(records[i], from, to)}

Done(records, from, to, tests) ==
    {i \in DOMAIN records : /\ records[i].status = "completed" /\ ~ records[i].bulk
                            /\ (tests \/ ~ records[i].test)
                            /\ Within(records[i], from, to)}

Canceled(records, from, to) ==
    {i \in DOMAIN records : /\ records[i].status = "canceled" /\ ~ records[i].bulk /\ ~ records[i].test
                            /\ Within(records[i], from, to)}

RowsOf(records, S) == {<<i, k>> \in S \X (1..3) : k \in DOMAIN records[i].rows}
Row(records, p)    == records[p[1]].rows[p[2]]
Amount(records, P) == LET amount(p) == Row(records, p).amount IN Total(amount, P)

----------------------------------------------------------------------------
(* Usage for the stock dashboard; tests count, they use up material        *)

\* The code of a row: its material's, else one found by name and stored code.
RowCode(row) == IF row.link # NoCode THEN row.link ELSE Coded(row.name, row.code)

\* Faulty variant: the code of whatever row comes first.
GroupCodeOfOne(records, P) == RowCode(Row(records, CHOOSE p \in P : TRUE))

\* One code for a group of rows: of the linked materials the greatest code.
GroupCode(records, P) ==
    LET links == {Row(records, p).link : p \in P} \ {NoCode}
        some  == Row(records, CHOOSE p \in P : TRUE)
    IN  IF links # {} THEN CHOOSE c \in links : TRUE ELSE Coded(some.name, some.code)

\* Faulty variant: grouped by product even when the products are not asked for.
KeyByProduct(records, p, group, byProduct) ==
    LET r == records[p[1]] IN <<IF group = "month" THEN Bucket(r.date) ELSE IF group = "day" THEN r.date ELSE 0,
                                r.product, Row(records, p).code, Row(records, p).name>>

Key(records, p, group, byProduct) ==
    LET r == records[p[1]]
    IN  <<CASE group = "total" -> 0 [] group = "day" -> r.date [] group = "month" -> Bucket(r.date),
          IF byProduct THEN r.product ELSE "", Row(records, p).code, Row(records, p).name>>

Periods(records, from, to, group, byProduct) ==
    LET P       == RowsOf(records, Done(records, from, to, TRUE))
        key(p)  == Key(records, p, group, byProduct)
        with(k) == {p \in P : key(p) = k}
    IN  {[key |-> k, actual |-> Amount(records, with(k)), erp |-> GroupCode(records, with(k)),
          batches |-> Cardinality({p[1] : p \in with(k)})] : k \in {key(p) : p \in P}}

Unmapped(items) == LET amount(i) == i.actual IN Total(amount, {i \in items : i.erp = NoCode})

\* The rows themselves, newest first; which ones are cut off is left open here.
Details(records, from, to, limit, tests) ==
    LET P == RowsOf(records, Done(records, from, to, tests))
        Q == IF Cardinality(P) <= limit THEN P ELSE CHOOSE S \in kSubset(limit, P) : TRUE
    IN  [items |-> Q, truncated |-> Cardinality(Q) >= limit]

UsageDetails(records, from, to, limit) ==
    LET d == Details(records, from, to, limit, TRUE)
    IN  [d EXCEPT !.items = {[at |-> p, name |-> Row(records, p).name, actual |-> Row(records, p).amount,
                              erp |-> RowCode(Row(records, p))] : p \in @}]

----------------------------------------------------------------------------
(* The analysis; tests do not count                                        *)

MaterialUsage(records, from, to) ==
    LET P == RowsOf(records, Done(records, from, to, FALSE))
    IN  {[name |-> n, actual |-> Amount(records, {p \in P : Row(records, p).name = n}),
          used |-> Cardinality({p[1] : p \in {q \in P : Row(records, q).name = n}})]
           : n \in {Row(records, p).name : p \in P}}

Weight(records, S) == LET total(i) == records[i].total IN Total(total, S)

\* Product and worker tables: number of records and weight of each.
PerProduct(records, from, to) ==
    LET S == Done(records, from, to, FALSE)
    IN  {[product |-> x, batches |-> Cardinality({i \in S : records[i].product = x}),
          weight |-> Weight(records, {i \in S : records[i].product = x})] : x \in {records[i].product : i \in S}}

PerWorker(records, from, to) ==
    LET S == Done(records, from, to, FALSE)
    IN  {[worker |-> w, batches |-> Cardinality({i \in S : records[i].worker = w}),
          weight |-> Weight(records, {i \in S : records[i].worker = w})] : w \in {records[i].worker : i \in S}}

\* Scale figures begin at the day the scales came (Open: from the start).
ScaleBase(records, from, to, since) ==
    LET start == IF since > from THEN since ELSE from
        S     == Done(records, start, to, FALSE)
    IN  [records |-> Cardinality(S), manual |-> Cardinality({i \in S : records[i].manual})]

Core(records, from, to, since) ==
    LET S == Done(records, from, to, FALSE)
    IN  [records |-> Cardinality(S), weight |-> Weight(records, S),
         manual |-> Cardinality({i \in S : records[i].manual}),
         canceled |-> Cardinality(Canceled(records, from, to)),
         scale |-> ScaleBase(records, from, to, since)]

\* Faulty variant: the day on which the period starts is counted twice.
PreviousOverlapping(from, to) == [from |-> 2 * from - to, to |-> from]

\* The period of the same length before a closed period.
Previous(from, to) == [from |-> 2 * from - to - 1, to |-> from - 1]

\* One line per bucket with a completed record; a bucket that holds only
\* canceled records has no line.
Trend(records, from, to, today, since) ==
    LET S      == Done(records, from, to, FALSE)
        in(b)  == {i \in S : Bucket(records[i].date) = b}
        end    == IF to = Open THEN today ELSE to
        scaled(b) == {i \in in(b) : since = Open \/ records[i].date >= since}
    IN  {[bucket |-> b, records |-> Cardinality(in(b)), weight |-> Weight(records, in(b)),
          manual |-> Cardinality({i \in in(b) : records[i].manual}),
          canceled |-> Cardinality({i \in Canceled(records, from, to) : Bucket(records[i].date) = b}),
          scale |-> [records |-> Cardinality(scaled(b)),
                     manual |-> Cardinality({i \in scaled(b) : records[i].manual})],
          partial |-> (from # Open /\ b * BucketDays + 1 < from) \/ (b + 1) * BucketDays > end]
           : b \in {Bucket(records[i].date) : i \in S}}

----------------------------------------------------------------------------
(* Manual and canceled records per worker, for everybody who has either.   *)

Mistakes(records, from, to) ==
    LET S == Done(records, from, to, FALSE)
        C == Canceled(records, from, to)
        of(w, T) == {i \in T : records[i].worker = w}
    IN  {[worker |-> w, records |-> Cardinality(of(w, S)), canceled |-> Cardinality(of(w, C)),
          manual |-> Cardinality({i \in of(w, S) : records[i].manual})]
           : w \in {records[i].worker : i \in S \cup C}}
=============================================================================
