------------------------------ MODULE Weighing ------------------------------
(***************************************************************************)
(* What a save is measured against: the target amounts the server derives  *)
(* from the recipe (blend_service.py), those the screen shows              *)
(* (blend_lib.js), and the tolerance between them.                         *)
(*                                                                         *)
(* Amounts are integers in units of 0.01 g, the resolution every amount is *)
(* rounded to.  An item of a recipe is [name, weight, comp, master]: the   *)
(* fixed amount added for loss, of the item and of the material.  A row of *)
(* a record is [name, actual, theory].                                     *)
(***************************************************************************)
EXTENDS Integers, Sequences, FiniteSetsExt, SequencesExt

CONSTANT NoName

Tolerance == 5                                    \* 0.05 g, WEIGHING_TOLERANCE_G
Missing   == -1                                   \* an amount that was not entered
Mismatch  == [rows |-> << >>, total |-> Missing]  \* RecipeMismatchError

Rounded(n, d) == (2 * n + d) \div (2 * d)
SumOf(s)      == FoldLeft(+, 0, s)
Weights(items) == [i \in DOMAIN items |-> items[i].weight]

(* The k of position i when rows of one name are counted in their order.   *)
Nth(names, i)  == Cardinality({j \in 1..i : names[j] = names[i]})
Positions(names, n) == {i \in DOMAIN names : names[i] = n}
Find(names, n, k)   == CHOOSE i \in Positions(names, n) : Nth(names, i) = k
Names(s) == [i \in DOMAIN s |-> s[i].name]

(***************************************************************************)
(* get_recipe_for_blend                                                    *)
(***************************************************************************)
Share(items, total) ==
    LET base == SumOf(Weights(items))
    IN  [i \in DOMAIN items |-> IF base <= 0 THEN 0 ELSE Rounded(items[i].weight * total, base)]

LossComp(item) == IF item.comp > 0 THEN item.comp ELSE item.master

(* The anchor counts only if its first item has a weight; then every item  *)
(* of that material is one.                                                *)
EffectiveAnchor(recipe) ==
    LET at == Positions(Names(recipe.items), recipe.anchor)
    IN  IF at # {} /\ recipe.items[Min(at)].weight > 0 THEN recipe.anchor ELSE NoName

(***************************************************************************)
(* derive_details_from_recipe: the client is asked for what only a person  *)
(* can know, everything else comes from the recipe.                        *)
(***************************************************************************)
SameMaterials(items, sent) ==
    \A n \in Range(Names(items)) \cup Range(Names(sent)) :
        Cardinality(Positions(Names(items), n)) = Cardinality(Positions(Names(sent), n))

(* The k-th row of a material is paired with the k-th item of it.          *)
Paired(items, sent, i) == sent[Find(Names(sent), items[i].name, Nth(Names(items), i))]

(* faulty variant: one row per name, as before 2026-07-24                  *)
PairedByName(items, sent, i) == sent[Find(Names(sent), items[i].name, 1)]

(* faulty variant: the loss is added to the total and shared out           *)
TheoryScaledComp(recipe, total, first, i) ==
    LET item == recipe.items[i]  a == EffectiveAnchor(recipe)
        from == recipe.items[Min(Positions(Names(recipe.items), a))].weight
    IN  IF a = NoName THEN Share(recipe.items, total + LossComp(item))[i]
        ELSE IF item.name = a THEN first ELSE Rounded(first * item.weight, from)

Theory(recipe, total, first, i) ==
    LET item == recipe.items[i]  a == EffectiveAnchor(recipe)
        from == recipe.items[Min(Positions(Names(recipe.items), a))].weight
    IN  LossComp(item) + IF a = NoName THEN Share(recipe.items, total)[i]
                         ELSE IF item.name = a THEN first ELSE Rounded(first * item.weight, from)

Derive(recipe, total, sent) ==
    LET a     == EffectiveAnchor(recipe)
        first == IF a = NoName THEN 0 ELSE sent[Find(Names(sent), a, 1)].actual
        rows  == [i \in DOMAIN recipe.items |->
                    [name   |-> recipe.items[i].name,
                     actual |-> Paired(recipe.items, sent, i).actual,
                     theory |-> Theory(recipe, total, first, i)]]
    IN  IF ~ SameMaterials(recipe.items, sent) \/ (a # NoName /\ first <= 0) THEN Mismatch
        ELSE [rows |-> rows,
              total |-> IF a = NoName THEN total ELSE SumOf([i \in DOMAIN rows |-> rows[i].theory])]

(* faulty variant: the amounts are derived again                           *)
KeepNothing(record, rows, newTotal) == rows

(* faulty variant: rows are matched by their name only                     *)
KeepFirstOfName(record, rows, newTotal) ==
    IF newTotal # record.total THEN rows
    ELSE [i \in DOMAIN rows |->
            LET at == Positions(Names(record.rows), rows[i].name)
            IN  IF at = {} THEN rows[i]
                ELSE [rows[i] EXCEPT !.theory = record.rows[Min(at)].theory]]

(***************************************************************************)
(* keep_recorded_theory: a correction that leaves the total alone keeps    *)
(* the amounts of the day the record was saved.                            *)
(***************************************************************************)
KeepTheory(record, rows, newTotal) ==
    IF newTotal # record.total THEN rows
    ELSE [i \in DOMAIN rows |->
            LET k == Nth(Names(rows), i)
                at == {j \in Positions(Names(record.rows), rows[i].name) :
                         Nth(Names(record.rows), j) = k}
            IN  IF at = {} THEN rows[i]
                ELSE [rows[i] EXCEPT !.theory = record.rows[Min(at)].theory]]

(* missing_actual_names and weighing_tolerance_violations, as positions.   *)
MissingActuals(rows)   == {i \in DOMAIN rows : rows[i].actual = Missing}
Offenders(rows, limit) == {i \in DOMAIN rows : /\ rows[i].actual # Missing
                                               /\ \/ rows[i].actual - rows[i].theory > limit
                                                  \/ rows[i].theory - rows[i].actual > limit}

(* recipe_tolerance_g                                                      *)
ToleranceOf(recipe) == IF recipe.tolerance > 0 THEN recipe.tolerance ELSE Tolerance

(* The checks of blend_create and of blend_update.                         *)
Accepted(recipe, d) == /\ d # Mismatch /\ MissingActuals(d.rows) = {}
                       /\ Offenders(d.rows, ToleranceOf(recipe)) = {}
Correct(recipe, record, sent) ==
    LET d == Derive(recipe, record.total, sent)
    IN  [d EXCEPT !.rows = KeepTheory(record, @, record.total)]

(***************************************************************************)
(* The targets on the screen: theoryFromWeights, computeAnchorTheory.  The *)
(* screen looks for the first item of the anchor material.                 *)
(***************************************************************************)
Screen(recipe, total, anchorActual) ==
    LET a  == EffectiveAnchor(recipe)
        at == Min(Positions(Names(recipe.items), a))
    IN  IF a = NoName
        THEN [i \in DOMAIN recipe.items |-> Share(recipe.items, total)[i] + LossComp(recipe.items[i])]
        ELSE [i \in DOMAIN recipe.items |->
                IF i = at THEN anchorActual
                ELSE Rounded(anchorActual * recipe.items[i].weight, recipe.items[at].weight)
                     + LossComp(recipe.items[i])]

(* derive_test_details: a test has target amounts and no recipe.           *)
DeriveTest(sent) ==
    IF sent = << >> \/ \E i \in DOMAIN sent : sent[i].theory <= 0 THEN Mismatch
    ELSE [rows |-> sent, total |-> SumOf([i \in DOMAIN sent |-> sent[i].theory])]

(***************************************************************************)
(* Flags on the total of a record (detect_total_bypass, is_oversize_total) *)
(* in grams: they mark, they refuse nothing.                               *)
(***************************************************************************)
Oversize(total, category) == total > 25000 /\ category # "water"

Bypass(total, bases, rescales, anchored) ==
    LET base   == Max(bases)
        excess == total - base
        Multiple(b) == LET n == Rounded(total, b)
                       IN  n >= 2 /\ 1000 * (total - b * n) <= 5 * b * n
                                  /\ 1000 * (b * n - total) <= 5 * b * n
    IN  /\ rescales = 0 /\ ~ anchored /\ bases # {} /\ total > base
        /\ excess > 50 /\ 20 * excess > base
        /\ \A b \in bases : ~ Multiple(b)
        /\ total % 10 # 0
=============================================================================
