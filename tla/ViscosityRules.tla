--------------------------- MODULE ViscosityRules ---------------------------
(***************************************************************************)
(* How a viscosity is judged, what trends are reported, and how a reading  *)
(* is tied to the reading of the LOT it was made from                      *)
(* (viscosity_service.py).                                                 *)
(*                                                                         *)
(* Values are integers.  A limit that depends on the standard deviation is *)
(* compared in squares, so that nothing is rounded; the code rounds its    *)
(* limits to 0.001, far below the 0.1 of a reading.  A product is          *)
(* [target, lower, upper, warnLow, warnHigh, k]; None stands for no limit. *)
(***************************************************************************)
EXTENDS Integers, Sequences, FiniteSetsExt, SequencesExt

None        == -1
RunLength   == 5
ShiftLength == 7
MinSamples  == 8                          \* MIN_SIGMA_SAMPLES

Total(s)   == FoldLeft(+, 0, s)
LastOf(s, n) == SubSeq(s, Len(s) - n + 1, Len(s))

(***************************************************************************)
(* Limits                                                                  *)
(***************************************************************************)
SpecHigh(p, v) == p.upper # None /\ v >= p.upper
SpecLow(p, v)  == p.lower # None /\ v =< p.lower

(* The sample without what is out of specification, unless too few remain. *)
Baseline(p, values) ==
    LET kept == SelectSeq(values, LAMBDA v : ~ SpecHigh(p, v) /\ ~ SpecLow(p, v))
    IN  IF Len(kept) < Len(values) /\ Len(kept) < MinSamples THEN values ELSE kept

(* _control_limits: the centre is center / n, the variance var / (n(n-1)). *)
Control(p, values) ==
    LET base == Baseline(p, values)
        n    == Len(base)
        sum  == Total(base)
        var  == n * Total([i \in 1..n |-> base[i] * base[i]]) - sum * sum
    IN  [n |-> n, var |-> var,
         center |-> IF p.target # None THEN n * p.target ELSE sum,
         ready  |-> n >= MinSamples /\ var > 0]

Beyond(c, distance, k) == distance > 0 /\ distance * distance * (c.n - 1) > k * k * c.var * c.n
Above(c, v, k) == c.ready /\ Beyond(c, c.n * v - c.center, k)
Below(c, v, k) == c.ready /\ Beyond(c, c.center - c.n * v, k)

Normal == [status |-> "normal", side |-> "none"]

(* faulty variant: the fixed thresholds come first                         *)
ClassifyWarnFirst(p, c, v) ==
    IF p.warnHigh # None /\ v >= p.warnHigh THEN [status |-> "warn", side |-> "high"]
    ELSE IF p.warnLow # None /\ v =< p.warnLow THEN [status |-> "warn", side |-> "low"]
    ELSE IF SpecHigh(p, v) \/ Above(c, v, p.k) THEN [status |-> "anomaly", side |-> "high"]
    ELSE IF SpecLow(p, v) \/ Below(c, v, p.k) THEN [status |-> "anomaly", side |-> "low"]
    ELSE Normal

(* _classify: out of specification or of k sigma, then the fixed           *)
(* thresholds, then two sigma - which are left out if k is two or less.    *)
Classify(p, c, v) ==
    LET high == SpecHigh(p, v)  low == SpecLow(p, v)
        aboveK == Above(c, v, p.k)  belowK == Below(c, v, p.k)
        warns == p.k > 2
    IN  CASE high \/ low \/ aboveK \/ belowK ->
               [status |-> "anomaly",
                side |-> IF low THEN "low" ELSE IF high \/ aboveK THEN "high" ELSE "low"]
          [] p.warnHigh # None /\ v >= p.warnHigh -> [status |-> "warn", side |-> "high"]
          [] p.warnLow # None /\ v =< p.warnLow   -> [status |-> "warn", side |-> "low"]
          [] warns /\ Above(c, v, 2)              -> [status |-> "warn", side |-> "high"]
          [] warns /\ Below(c, v, 2)              -> [status |-> "warn", side |-> "low"]
          [] OTHER -> Normal

(* anomaly_low, anomaly_high: whether v lies beyond the drawn boundary,    *)
(* the inner one of specification and k sigma; of the two, the             *)
(* specification includes its own value.                                   *)
BeyondBand(p, c, v) ==
    \/ p.upper # None /\ (v > p.upper \/ Above(c, v, p.k))
    \/ p.upper = None /\ Above(c, v, p.k)
    \/ p.lower # None /\ (v < p.lower \/ Below(c, v, p.k))
    \/ p.lower = None /\ Below(c, v, p.k)

(***************************************************************************)
(* Trends                                                                  *)
(***************************************************************************)
TrailingSteps(values, Step(_, _)) ==
    LET n == Len(values)
        stops == {i \in 2..n : ~ Step(values[i - 1], values[i])}
    IN  n - Max(stops \cup {1}) + 1

Rising(values)  == TrailingSteps(values, LAMBDA a, b : a < b)
Falling(values) == TrailingSteps(values, LAMBDA a, b : a > b)

(* faulty variant: equal values do not end a run                           *)
RunAlertsLax(values) ==
    LET up == TrailingSteps(values, LAMBDA a, b : a =< b)
        down == TrailingSteps(values, LAMBDA a, b : a >= b)
    IN  IF Len(values) < RunLength THEN {}
        ELSE IF up >= RunLength THEN {"run_up"}
        ELSE IF down >= RunLength THEN {"run_down"} ELSE {}

RunAlerts(values) ==
    IF Len(values) < RunLength THEN {}
    ELSE IF Rising(values) >= RunLength THEN {"run_up"}
    ELSE IF Falling(values) >= RunLength THEN {"run_down"} ELSE {}

(* The values are counted from the last one, in one scan that ends at the  *)
(* centre or at the first value on the other side.                         *)
ShiftScan(values, center) ==
    FoldRight(LAMBDA v, s :
        CASE s.done                         -> s
          [] v > center /\ s.below = 0      -> [s EXCEPT !.above = @ + 1]
          [] v < center /\ s.above = 0      -> [s EXCEPT !.below = @ + 1]
          [] OTHER                          -> [s EXCEPT !.done = TRUE],
        values, [above |-> 0, below |-> 0, done |-> FALSE])

ShiftAlerts(values, center) ==
    LET s == ShiftScan(values, center)
    IN  IF Len(values) < ShiftLength THEN {}
        ELSE IF s.above >= ShiftLength THEN {"shift_high"}
        ELSE IF s.below >= ShiftLength THEN {"shift_low"} ELSE {}

(***************************************************************************)
(* Periods: [values, normal], in order; normal are those not anomalous.    *)
(***************************************************************************)
Mean(s) == (2000 * Total(s) + Len(s)) \div (2 * Len(s))       \* in 0.001

(* faulty variant: compared with the period before, whatever it holds      *)
DeltasAdjacent(periods) ==
    [i \in DOMAIN periods |->
       IF i = 1 \/ periods[i].normal = << >> \/ periods[i - 1].normal = << >> THEN 0
       ELSE Mean(periods[i].normal) - Mean(periods[i - 1].normal)]

(* summarize_periods: against the last period that had a normal value.     *)
Deltas(periods) ==
    [i \in DOMAIN periods |->
       LET before == {j \in 1..i - 1 : periods[j].normal # << >>}
       IN  IF periods[i].normal = << >> \/ before = {} THEN 0
           ELSE Mean(periods[i].normal) - Mean(periods[Max(before)].normal)]

(* _period_alerts                                                          *)
SpikeAt(periods, i) ==
    LET bad(j) == Len(periods[j].values) - Len(periods[j].normal)
    IN  i > 1 /\ bad(i) >= 2 /\ bad(i) > bad(i - 1)

(***************************************************************************)
(* LOTs: the digits of a LOT, of which the last eight count.  Six are the  *)
(* date, two more the batch of the day.                                    *)
(***************************************************************************)
NoDigits == << >>
LotDigits(lot) == IF Len(lot) >= 8 THEN LastOf(lot, 8) ELSE lot

DateKey(lot) ==
    LET d == LotDigits(lot)
    IN  IF Len(d) \in {6, 8} THEN SubSeq(d, 1, 6) ELSE NoDigits

(* _lots_match *)
LotsMatch(a, b) ==
    LET x == LotDigits(a)  y == LotDigits(b)
    IN  /\ x # NoDigits /\ y # NoDigits
        /\ x = y \/ (6 \in {Len(x), Len(y)} /\ DateKey(a) # NoDigits /\ DateKey(a) = DateKey(b))

(* faulty variant: a date finds every batch of the day                     *)
LookupByDay(rows, lot) ==
    LET same(r) == LotDigits(r.lot) = LotDigits(lot) /\ LotDigits(lot) # NoDigits
        day(r)  == DateKey(r.lot) = DateKey(lot) /\ DateKey(lot) # NoDigits
        from    == {i \in DOMAIN rows : same(rows[i])}
        near    == {i \in DOMAIN rows : day(rows[i])}
    IN  IF from # {} THEN rows[Max(from)].value
        ELSE IF near # {} THEN rows[Max(near)].value ELSE None

(* _source_viscosity_map and lookup_source_viscosity: rows in the order    *)
(* they were measured; the last one of a key stays in the map.  A LOT of   *)
(* eight digits finds a source known by its date only; a date finds the    *)
(* last source of the day.                                                 *)
Lookup(rows, lot) ==
    LET d        == LotDigits(lot)
        with(k)  == {i \in DOMAIN rows : k # NoDigits /\ LotDigits(rows[i].lot) = k}
        ofDay(k) == {i \in DOMAIN rows : k # NoDigits /\ DateKey(rows[i].lot) = k}
        found    == IF with(d) # {} THEN with(d)
                    ELSE IF Len(d) = 8 THEN with(DateKey(lot))
                    ELSE IF Len(d) = 6 THEN ofDay(d) ELSE {}
    IN  IF found = {} THEN None ELSE rows[Max(found)].value

Kept(rows) == SelectSeq(rows, LAMBDA r : ~ r.excluded)

(* _find_reading_by_lot, behind product_lot_alert: excluded readings too.  *)
FindReading(rows, lot) ==
    LET same == {i \in DOMAIN rows : LotDigits(rows[i].lot) = LotDigits(lot)}
        near == {i \in DOMAIN rows : LotsMatch(rows[i].lot, lot)}
    IN  IF LotDigits(lot) = NoDigits \/ near = {} THEN None
        ELSE rows[Max(IF same # {} THEN same ELSE near)].value

(* _source_linked_counts and _linked_count_for: lots is the material LOT   *)
(* of every reading of another product.                                    *)
LinkedCount(lots, lot) ==
    LET d       == LotDigits(lot)
        with(k) == {i \in DOMAIN lots : k # NoDigits /\ LotDigits(lots[i]) = k}
        day(k)  == {i \in DOMAIN lots : k # NoDigits /\ DateKey(lots[i]) = k}
    IN  IF d = NoDigits THEN 0
        ELSE IF Len(d) = 6 THEN Cardinality(day(d))
        ELSE Cardinality(with(d)) + Cardinality(with(DateKey(lot)))

(* analyze_product: why a reading has no source viscosity.                 *)
LinkReason(rows, lot) ==
    CASE lot = "blank"                     -> "no_lot"
      [] LotDigits(lot) = NoDigits         -> "lot_unreadable"
      [] Lookup(Kept(rows), lot) # None    -> "matched"
      [] Lookup(rows, lot) # None          -> "source_excluded"
      [] OTHER                             -> "source_missing"

(***************************************************************************)
(* Which product is the source of another.  products is a sequence of      *)
(* [code, name, active]; an item of a recipe or record is [name, code].    *)
(***************************************************************************)
NoName == "-"

(* _active_product_index: codes before names.                              *)
IndexOf(products, key) ==
    LET code == {i \in DOMAIN products : products[i].active /\ products[i].code = key}
        name == {i \in DOMAIN products : products[i].active /\ products[i].name = key}
    IN  IF key = NoName THEN 0
        ELSE IF code # {} THEN Max(code) ELSE IF name # {} THEN Min(name) ELSE 0

(* The product of the first key of a row that names one outside own.       *)
FirstHit(products, items, own) ==
    LET keys == FlattenSeq([i \in DOMAIN items |-> <<items[i].name, items[i].code>>])
        hits == {k \in DOMAIN keys : IndexOf(products, keys[k]) \notin {0} \cup own}
    IN  IF hits = {} THEN 0 ELSE IndexOf(products, keys[Min(hits)])

(* source_product_for: the first product, other than this one, among the   *)
(* materials of the recipe.                                                *)
DerivedSource(products, own, items) == FirstHit(products, items, {own})

(* faulty variant: the first material is the source                        *)
DetectedFirst(products, productName, items) == IndexOf(products, items[1].name)

(* detect_source_lot: the same for the rows of a record.                   *)
DetectedSource(products, productName, items) ==
    LET keyed(i) == [name |-> IF items[i].name = productName THEN NoName ELSE items[i].name,
                     code |-> IF items[i].code = productName THEN NoName ELSE items[i].code]
    IN  FirstHit(products, [i \in DOMAIN items |-> keyed(i)], {IndexOf(products, productName)})
=============================================================================
