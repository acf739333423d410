-------------------------- MODULE MC_Calculations --------------------------
(***************************************************************************)
(* The calculations of the system over every input of small sets, for TLC. *)
(* A behaviour has one step: it takes an input of its kind.  The tables of *)
(* recipe versions alone are built row by row.                             *)
(***************************************************************************)
EXTENDS Integers, Sequences, FiniteSets, TLC

VARIABLES kind, input, taken
vars == <<kind, input, taken>>
Taken(k) == kind = k /\ taken

W  == INSTANCE Weighing WITH NoName <- "-"
F  == INSTANCE FrameParse
V  == INSTANCE ViscosityRules
L  == INSTANCE LotRules
R  == INSTANCE RecipeChains
I  == INSTANCE RecipeImport WITH Blank <- "", Dash <- "-", NoCode <- "no code"
AR == INSTANCE AttendanceRules
AP == INSTANCE ApprovalRules WITH YearDays <- 6
NoCodeFor(name, code) == IF name = "a" THEN "" ELSE "k"
U  == INSTANCE UsageTotals WITH BucketDays <- 2, Coded <- NoCodeFor

(***************************************************************************)
(* Tables of versions: rows are added in any order and linked to any other *)
(* row, as tools/link_recipe_chain.py may link them, or to a deleted one.  *)
(***************************************************************************)
Ids == 1..4
AddVersion(i, parent) ==
    /\ kind = "chain" /\ UNCHANGED <<kind, taken>>
    /\ i \notin DOMAIN input
    /\ i \notin R!Line(input, parent)
    /\ \E canceled, pinned \in BOOLEAN :
         input' = [j \in DOMAIN input \cup {i} |->
                     IF j = i THEN [parent |-> parent, canceled |-> canceled,
                                    pinned |-> pinned, stage1 |-> R!NULL]
                     ELSE input[j]]

(* The two ways to find the current version agree in every table           *)
(* (recipe_helpers.py).                                                    *)
TipsAgree == Taken("chain") => R!RulesAgree(input)

Take(k, S) == /\ kind = k /\ ~taken
              /\ input' \in S
              /\ taken' = TRUE /\ UNCHANGED kind

(***************************************************************************)
(* Target amounts.  later: what became of the material's own loss between  *)
(* a save and its correction; byName: the screen sends rows in an order of *)
(* its own.                                                                *)
(***************************************************************************)
Recipes == {r \in [items : UNION {[1..n -> [name : {"a", "b"}, weight : {100, 250},
                                            comp : {0, 7}, master : {0}]] : n \in 1..3},
                   anchor : {"-", "a"}, tolerance : {0}] :
              Len(r.items) = 3 => r.items[1].comp = 0 /\ r.items[2].weight = 100}
Mastered(r, m) == [r EXCEPT !.items =
                     [i \in DOMAIN @ |-> [@[i] EXCEPT !.master = m[r.items[i].name]]]]
Master == [{"a", "b"} -> {0, 9}]
TakeRecipe ==
    \E r \in Recipes, m, later \in Master, t \in {500, 701}, byName \in BOOLEAN :
        Take("weighing", {[recipe |-> Mastered(r, m), later |-> Mastered(r, later),
                           total |-> t, byName |-> byName]})

At(names, n) == SelectSeq([i \in DOMAIN names |-> i], LAMBDA i : names[i] = n)
Order(i) == LET names == W!Names(i.recipe.items)
            IN  IF i.byName THEN At(names, "b") \o At(names, "a")
                ELSE [k \in DOMAIN names |-> k]
Sent(i) == LET shown == W!Screen(i.recipe, i.total, 130)
           IN  [k \in DOMAIN Order(i) |-> [name   |-> i.recipe.items[Order(i)[k]].name,
                                           actual |-> shown[Order(i)[k]], theory |-> 0]]
Saved(i) == W!Derive(i.recipe, i.total, Sent(i))
AnchorOnce(r) ==
    LET at == W!Positions(W!Names(r.items), W!EffectiveAnchor(r))
    IN  W!EffectiveAnchor(r) = "-" \/ \E p \in at : at = {p} /\ W!LossComp(r.items[p]) = 0

(* Whoever weighs what the screen asks for is not refused by the server,   *)
(* in whatever order the rows arrive: the two derive the same targets.     *)
(* (Not so for a base material that stands in two rows or has a loss.)     *)
TargetsAccepted ==
    Taken("weighing") /\ AnchorOnce(input.recipe) =>
        W!Accepted(input.recipe, Saved(input))

(* A record stays correctable: sent back unchanged it is accepted, with    *)
(* the amounts of the day it was saved, whatever became of the losses.     *)
CorrectionKept ==
    Taken("weighing") /\ W!Accepted(input.recipe, Saved(input)) =>
        LET saved == Saved(input)
            fixed == W!Correct(input.later, saved, saved.rows)
        IN  /\ W!Accepted(input.later, fixed)
            /\ \A i \in DOMAIN saved.rows : fixed.rows[i].theory = saved.rows[i].theory
            /\ W!EffectiveAnchor(input.recipe) = "-" => fixed.total = saved.total

(***************************************************************************)
(* Lines of a scale.                                                       *)
(***************************************************************************)
TakeLine == Take("frame", [line : F!TextLine, protocol : F!Protocols])

(* A weight that is taken over as stable is in grams: what the line says,  *)
(* converted.  (Not so for a CAS line whose unit is neither g, kg nor mg.) *)
StableIsGrams ==
    Taken("frame") =>
        LET f == F!ParseFrame(input.line, input.protocol)
            foreign == input.protocol = "cas" /\ input.line.comma
                       /\ input.line.unit \in {"KG", "lb"}
        IN  f.stable /\ ~f.overload /\ ~foreign => F!MeansGrams(input.line, f)

(***************************************************************************)
(* Viscosity: judgement, trends, links of LOTs, sources.                   *)
(***************************************************************************)
Samples == {[i \in 1..(a + b + c + 1) |->
               IF i <= a THEN 48 ELSE IF i <= a + b THEN 50
               ELSE IF i <= a + b + c THEN 51 ELSE x] :
              a, c \in {0, 2, 3}, b \in {4, 5, 6}, x \in {46, 50, 56}}
Products == [target : {V!None, 50}, lower : {V!None, 46}, upper : {V!None, 55},
             warnLow : {V!None, 45, 48}, warnHigh : {V!None, 52}, k : {2, 3}]
TakeSamples == \E s \in Samples : Take("judge", {[p |-> p, s |-> s] : p \in Products})
TakeTrend   == \E n \in {5, 7, 8} : Take("trend", {SubSeq(s, 1, n) : s \in [1..8 -> 1..3]})

Severity(p, c, v) == LET r == V!Classify(p, c, v)
                     IN  CASE r.status = "anomaly" -> 2 [] r.status = "warn" -> 1 [] OTHER -> 0

(* A value further out on the same side is never judged more mildly, and a *)
(* value beyond the drawn band is an anomaly.                              *)
FartherIsNoMilder ==
    Taken("judge") =>
        LET p == input.p
            c == V!Control(p, input.s)
            range == {44, 45, 46, 48, 49, 51, 52, 53, 55, 57}
            severity == [v \in range |-> Severity(p, c, v)]
            side     == [v \in range |-> V!Classify(p, c, v).side]
        IN  \A v \in range :
              /\ V!BeyondBand(p, c, v) => severity[v] = 2
              /\ \A w \in range :
                   \/ severity[w] >= severity[v]
                   \/ ~(side[v] = "high" /\ w > v) /\ ~(side[v] = "low" /\ w < v)

(* An alert is raised exactly on five values that rise (fall) one after    *)
(* another at the end, or on seven at the end on one side of the centre.   *)
TrendIsAtTheEnd ==
    Taken("trend") =>
        LET n == Len(input)
        IN  /\ "run_up"   \in V!RunAlerts(input) <=> \A i \in n-3..n : input[i-1] < input[i]
            /\ "run_down" \in V!RunAlerts(input) <=> \A i \in n-3..n : input[i-1] > input[i]
            /\ n >= 7 => /\ "shift_high" \in V!ShiftAlerts(input, 2) <=>
                               \A i \in n-6..n : input[i] > 2
                         /\ "shift_low" \in V!ShiftAlerts(input, 2) <=>
                               \A i \in n-6..n : input[i] < 2

SixDays(d) == <<d, d, d, d, d, d>>
LotNumbers == {<<>>, <<1>>, <<0>> \o SixDays(1) \o <<3, 3>>} \cup {SixDays(d) : d \in {1, 2}}
              \cup {SixDays(d) \o <<n, n>> : d \in {1, 2}, n \in {3, 4}}
TakeLots ==
    \E n \in 1..3, lot \in LotNumbers, excluded \in [1..3 -> BOOLEAN] :
        Take("lots", {[lot  |-> lot,
                       rows |-> [i \in 1..n |-> [lot |-> lots[i], value |-> i,
                                                 excluded |-> excluded[i]]]] :
                        lots \in [1..3 -> LotNumbers]})

(* A reading is found for a LOT exactly when one of the readings that      *)
(* count matches it; the index and the search give the same one, and the   *)
(* count of links is that of the matches.                                  *)
LotIsFound ==
    Taken("lots") =>
        LET kept == V!Kept(input.rows)
            lots == [i \in DOMAIN input.rows |-> input.rows[i].lot]
        IN  /\ V!Lookup(kept, input.lot) # V!None <=>
                  \E i \in DOMAIN kept : V!LotsMatch(kept[i].lot, input.lot)
            /\ V!Lookup(input.rows, input.lot) = V!FindReading(input.rows, input.lot)
            /\ V!LinkedCount(lots, input.lot) =
                  Cardinality({i \in DOMAIN lots : V!LotsMatch(lots[i], input.lot)})

TakeSource ==
    \E ps \in [1..2 -> [code : {"a", "b"}, name : {"a", "b", "c"}, active : BOOLEAN]], own \in 1..2 :
        /\ ps[1].code # ps[2].code /\ ps[own].active
        /\ Take("source", {[ps |-> ps, own |-> own, items |-> items] :
             items \in [1..2 -> [name : {"a", "b", "c"}, code : {"a", "b", V!NoName}]]})

(* The product whose reading is shown as the source is the same on the     *)
(* screen that derives it and on the one that detects it by the code.      *)
SourcesAgree ==
    Taken("source") =>
        V!DerivedSource(input.ps, input.own, input.items)
          = V!DetectedSource(input.ps, input.ps[input.own].code, input.items)

TakePeriods ==
    \E n \in 1..3, bad \in [1..3 -> BOOLEAN] :
        Take("periods", {[i \in 1..n |->
                            [values |-> s[i],
                             normal |-> IF bad[i] THEN SelectSeq(s[i], LAMBDA v : v < 9)
                                        ELSE s[i]]] :
                           s \in [1..3 -> {<<4>>, <<9>>, <<4, 9>>}]})

(* The shown changes of the mean add up to the change from the first to    *)
(* the last period that has values that count.                             *)
DeltasAddUp ==
    Taken("periods") =>
        LET N == {i \in DOMAIN input : input[i].normal # <<>>}
            first == CHOOSE i \in N : \A j \in N : i <= j
            last  == CHOOSE i \in N : \A j \in N : i >= j
        IN  N # {} => V!Total(V!Deltas(input))
                        = V!Mean(input[last].normal) - V!Mean(input[first].normal)

(***************************************************************************)
(* LOTs of materials: changes of a LOT, and the stock file.                *)
(***************************************************************************)
TakeHistory ==
    \E n \in 1..5, dates \in {<<1, 1, 2, 3, 4>>, <<1, 2, 2, 2, 3>>} :
        Take("history", {[i \in 1..n |-> [date |-> dates[i], lot |-> lots[i]]] :
                           lots \in [1..5 -> {"x", "y", L!Blank}]})

(* In every period exactly those rows are shown as a change of the LOT     *)
(* whose LOT differs from the last one written before, in or outside the   *)
(* period; the segments cover every row once.                              *)
ChangesAreReal ==
    Taken("history") =>
        LET before(i)  == {j \in 1..(i - 1) : input[j].lot # L!Blank}
            changed(i) == \E j \in before(i) : /\ \A k \in before(i) : k <= j
                                               /\ input[i].lot \notin {L!Blank, input[j].lot}
            segments   == L!History(input).segments
        IN  /\ \A from, to \in 1..4 :
                 L!ShownChanges(input, from, to)
                   = {i \in DOMAIN input : L!InRange(input[i].date, from, to) /\ changed(i)}
            /\ \A i \in DOMAIN input :
                 Cardinality({k \in DOMAIN segments :
                                i \in segments[k].first..segments[k].last}) = 1

FileRows == [code : {"AS1", "AC2"}, lot : {"x", "y"}, stock : {0, 5}]
ManualRows == SUBSET [code : {"AS1", "as1"}, lot : {"x", "z"}]
TakeStock == \E n \in 0..3 : Take("stock", {[file |-> [read |-> TRUE, rows |-> f], manual |-> m] :
                                              f \in [1..n -> FileRows], m \in ManualRows})

(* The list of LOTs and the check at the scan agree: a LOT listed as valid *)
(* passes the check, one listed as used up does not.  (Not so when a       *)
(* manager entered the code of the file in other letters.)                 *)
StatusAgreesWithCheck ==
    Taken("stock") =>
        \A entry \in L!Listed(input.file, input.manual) :
            \/ L!CheckLot(input.file, input.manual, entry.code, entry.lot).valid = entry.valid
            \/ \E m \in input.manual : m.lot = entry.lot /\ m.code # entry.code
                                       /\ L!Upper(m.code) = L!Upper(entry.code)

(***************************************************************************)
(* Sheets of recipes: "m" is registered, "n" in the master, "o" a product  *)
(* we make, "p" unknown, "q" ambiguous.                                    *)
(***************************************************************************)
Names == {"m", "n", "o", "p", "q", "remark"}
Nameless == [x \in Names \cup {"product", "position"} |-> {}]
Lists == {[known  |-> [x \in {"m"} |-> code],
           master |-> master,
           made   |-> [x \in {"o"} |-> "C3"]] :
            code \in {"C1", "C3"},
            master \in {[empty |-> TRUE],
                        [empty |-> FALSE,
                         material |-> [Nameless EXCEPT !["n"] = {"C2"}, !["q"] = {"C4", "C5"}],
                         product  |-> [Nameless EXCEPT !["q"] = {"C6"}]]}}
Headers == {h \in [1..4 -> {"product", "position", "remark", "step", "m", "n", ""}] :
              h[1] \in {"product", ""} /\ h[2] # "product" /\ h[3] # "product"}
Values  == {<<"x", "1", "2", "">>, <<"", "1", "", "2">>, <<"", "", "-", "1", "2">>,
            <<"x", "", "1", "2">>, <<"x", "1">>, <<"", "", "1", "2">>}
TakeSheet ==
    \/ \E h \in Headers : Take("sheet", {[lists |-> l, sheet |-> <<h, v, w>>] :
                                           l \in Lists, v \in Values,
                                           w \in {<<"x", "1", "2", "">>, <<"", "1", "", "2">>}})
    \/ \E h \in [1..2 -> Names] :
         Take("sheet", {[lists |-> l, sheet |-> <<<<"product", h[1], h[2]>>, <<"x", "1", "2">>,
                                                  g, v>>] :
                          l \in Lists, v \in Values,
                          g \in {<<"product", "n", "m">>, <<"", "m", "n">>,
                                 <<"y", "position", "n", "o">>}})

Heads(i, k) == i.sheet[k][1] = "product" \/ \E j \in DOMAIN i.sheet[k] : i.sheet[k][j] = "position"
Row(parsed, k) == CHOOSE r \in {parsed.rows[j] : j \in DOMAIN parsed.rows} : r.line = k
Parsed(parsed, k) == \E j \in DOMAIN parsed.rows : parsed.rows[j].line = k
HeadOf(i, k) == CHOOSE h \in 1..(k - 1) : Heads(i, h) /\ \A j \in (h + 1)..(k - 1) : ~Heads(i, j)

(* A sheet without an error loses no value: every cell of a recipe's line  *)
(* is in the recipe, under the name that the header above it gives to its  *)
(* column, and nothing else is.  (A line without any amount is no recipe,  *)
(* whatever else it says.)                                                 *)
IsRead(line, names, row) ==
    LET held  == {j \in DOMAIN line : line[j] \notin {"", "-"}}
        in(j) == \E n \in DOMAIN row.items :
                   row.items[n] = [material |-> names[j], value |-> line[j], index |-> j]
    IN  /\ \A j \in held :
             CASE j \notin DOMAIN names -> FALSE
               [] j \in DOMAIN names /\ names[j] = "step" ->
                    \E n \in DOMAIN row.steps : row.steps[n].note = line[j]
               [] j \in DOMAIN names /\ names[j] \in {"m", "n", "o", "p", "q"} -> in(j)
               [] OTHER -> in(j) \/ row.remark = line[j]
                           \/ \E f \in I!Field : row.fields[f] = line[j]
        /\ \A n \in DOMAIN row.items : row.items[n].index \in held
LinesAreRead(sheet, parsed) ==
    parsed.errors = {} =>
        \A k \in DOMAIN sheet : Parsed(parsed, k) =>
            IsRead(sheet[k], sheet[HeadOf(input, k)], Row(parsed, k))
NoValueIsLost ==
    Taken("sheet") => LinesAreRead(input.sheet, I!Parse(input.lists, input.sheet))

(* A sheet without an error uses only materials that were registered, that *)
(* the master has under one code, or that we make ourselves - as long as   *)
(* there is a master - and no code is given to two materials.              *)
MaterialsAreKnown(lists, parsed) ==
    LET new == DOMAIN parsed.known \ DOMAIN lists.known
    IN  parsed.errors = {} =>
          /\ ~lists.master.empty => new \subseteq {"n", "o"}
          /\ \A x, y \in DOMAIN parsed.known :
               x # y /\ parsed.known[x] # "no code" => parsed.known[x] # parsed.known[y]
OnlyKnownMaterials ==
    Taken("sheet") => MaterialsAreKnown(input.lists, I!Parse(input.lists, input.sheet))

(***************************************************************************)
(* Attendance.                                                             *)
(***************************************************************************)
Leaves == {{}, {"half"}, {"quarter"}, {"half", "morning"}, {"half", "afternoon"},
           {"quarter", "morning"}, {"full"}}
Days(shift) ==
    [type : {"weekday", "weekday2"}, shift : {shift}, note : {{}, {"morning"}}, code : Leaves,
     in  : {AR!NoTime} \cup {AR!Baselines[shift].in + d : d \in {0, 8, 9, 16, 20, 21}},
     out : {AR!NoTime} \cup {AR!Baselines[shift].out - d : d \in {0, 1, 8, 20, 22, 31}},
     deducted : {{}, {"late"}, {"early"}}]
Nows == {-1, 37, 60, 78, 112, 200}
TakeDay == \E shift \in {"day", "twoDay", "twoNight"} : Take("day", Days(shift))

Unknown(row) == AR!PartialLeave(row) # "none" /\ AR!Words(row) \cap {"morning", "afternoon"} = {}
Given(row, half) == [row EXCEPT !.note = @ \cup {half}]
Stamped(row, now) == [row EXCEPT !.in  = IF @ <= now THEN @ ELSE AR!NoTime,
                                 !.out = IF @ <= now THEN @ ELSE AR!NoTime]

(* A half day of leave that does not say which half is judged in favour of *)
(* the employee: it is clean exactly when one of the two halves would be.  *)
HalfIsJudged ==
    Taken("day") /\ Unknown(input) =>
        (AR!Issues(input, 200) = {})
          = (\E h \in {"morning", "afternoon"} : AR!Issues(Given(input, h), 200) = {})

(* A day that ends without an issue shows none while it lasts, before its  *)
(* stamps are there; and an issue once shown stays.                        *)
NoPassingIssue ==
    Taken("day") =>
        /\ ~Unknown(input) /\ AR!Issues(input, 200) = {} =>
             \A n \in Nows : n <= AR!Baseline(input).out => AR!Issues(Stamped(input, n), n) = {}
        /\ \A n, m \in {37, 78, 112, 200} :
             n <= m => AR!Issues(input, n) \subseteq AR!Issues(input, m)

TakeColumns ==
    \E n \in 1..4 : Take("columns", [1..n -> [group : {"", "weekday", "holiday", "note"},
                                              sub : {"", "date", "early"}]])
Standard == <<"date", "">> :> 1 @@ <<"early", "weekday">> :> 2 @@
            <<"early", "holiday">> :> 3 @@ <<"note", "">> :> 4
Required == {<<"date", "">>}

(* A column is read as a field only if its heading carries the field's     *)
(* name and not that of the other group, and no column serves two fields - *)
(* or the field is reported as not found.                                  *)
ColumnsCarryNames ==
    Taken("columns") =>
        LET found == DOMAIN Standard \ AR!Reported(input, Standard, Required)
            map   == AR!ColumnMap(input, Standard, Required)
        IN  /\ \A f \in found :
                 /\ map[f] \in DOMAIN input
                 /\ IF f[1] = "note"
                    THEN input[map[f]].sub = "" /\ AR!FilledGroup(input, map[f]) = "note"
                    ELSE /\ input[map[f]].sub = f[1]
                         /\ f[2] # "" => AR!FilledGroup(input, map[f])
                                            \notin {"weekday", "holiday"} \ {f[2]}
            /\ \A f, g \in found : f # g => map[f] # map[g]

(***************************************************************************)
(* Approvals of the portal: two years of six days.                         *)
(***************************************************************************)
Dates == 7..18
Stamp(d, wrote, hour) ==
    [year |-> IF wrote THEN (d - 1) \div 6 ELSE AP!Unwritten, day |-> ((d - 1) % 6) + 1,
     hour |-> hour]
Ranges == {r \in [start : Dates, end : Dates, wrote : [1..2 -> BOOLEAN] \ {<<FALSE, FALSE>>},
                  less : {0, 2, 3}] : r.start <= r.end /\ r.end <= r.start + 4}
DateLists == {l \in [asked : UNION {[1..n -> Dates] : n \in 2..3}, wrote : BOOLEAN] :
                \A i \in 2..Len(l.asked) : l.asked[i] > l.asked[i - 1]}
NoTitle == [start |-> AP!NoDate, end |-> AP!NoDate, kind |-> "", name |-> ""]
TakeRange == Take("range", Ranges)
TakeDates == Take("dates", DateLists)

(* The days a document is read to cover are the days that were asked for,  *)
(* across New Year too, and of a list never a day that was not asked for.  *)
PeriodIsRead ==
    /\ Taken("range") =>
         LET stamps == <<Stamp(input.start, input.wrote[1], 9), Stamp(input.end, input.wrote[2], 18)>>
             days   == 4 * (input.end - input.start + 1)
             item   == AP!Item(NoTitle, stamps, days - input.less)
             titled == AP!Item([NoTitle EXCEPT !.start = input.start, !.end = input.end],
                               <<Stamp(input.end, TRUE, 18)>>, days)
         IN  /\ days - input.less > 4 => AP!Covered(item) = input.start..input.end
             /\ AP!Covered(item) \subseteq input.start..input.end
             /\ AP!Covered(titled) = input.start..input.end
             /\ AP!HalfOfDay("", "half", stamps) = "morning"
    /\ Taken("dates") =>
         LET n    == Len(input.asked)
             item == AP!Item(NoTitle, [i \in 1..n |-> Stamp(input.asked[i], input.wrote \/ i = 1, 9)],
                             4 * n)
         IN  input.asked[n] - input.asked[1] < 6 =>
               AP!Covered(item) \subseteq {input.asked[i] : i \in 1..n}

Part  == [form |-> FALSE, dates |-> <<>>, kind |-> "", name |-> FALSE, dept |-> FALSE,
          text |-> "other"]
Parts == {[Part EXCEPT !.form = TRUE], [Part EXCEPT !.dept = TRUE],
          [Part EXCEPT !.dates = <<8, 9>>], [Part EXCEPT !.kind = "half", !.name = TRUE],
          [Part EXCEPT !.name = TRUE, !.text = "Kim"]}
TakeTitle == Take("title", {t \in [1..5 -> Parts] : \A i, j \in 1..5 : i # j => t[i] # t[j]})

(* The parts of a title are told apart in whatever order they stand.       *)
TitleIsRead ==
    Taken("title") =>
        AP!Title(input) = [start |-> 8, end |-> 9, kind |-> "half", name |-> "Kim"]

Rosters == {{p, q} : p, q \in [id : {1, 2}, name : {"x", "y"}]}
RecordRows == {{r, s} : r, s \in [id : {1, 2}, day : {1, 2}, says : {"plain", "leave", "marked"}]}
Requests == {{q, o} : q, o \in [id : {0, 1, 3}, name : {"x", "y"}, days : {{1}, {1, 2}},
                                review : {FALSE}]}
TakeMonth ==
    \E roster \in {r \in Rosters : \A p, q \in r : p.id = q.id => p = q} :
        Take("month", {[roster |-> roster, rows |-> rows, requests |-> requests] :
                         rows \in RecordRows, requests \in Requests})

(* Nobody is blamed for a document of somebody else: a request that names  *)
(* no one person (by its number, or by a name that only one person has)    *)
(* changes no one's list, and a day recorded as leave is never missing.    *)
MonthIsFair ==
    Taken("month") =>
        LET sure == {q \in input.requests :
                       \/ \E p \in input.roster : p.id = q.id
                       \/ Cardinality({p \in input.roster : p.name = q.name}) = 1}
            missing == AP!MissingInErp(input.requests, input.roster, input.rows)
        IN  /\ missing \cap AP!Leave(input.rows) = {}
            /\ missing = AP!MissingInErp(sure, input.roster, input.rows)
            /\ AP!MissingApproval(input.requests, input.roster, input.rows)
                 = AP!MissingApproval(sure, input.roster, input.rows)

(***************************************************************************)
(* Usage of materials: two records of up to two rows.                      *)
(***************************************************************************)
Used(n, l, x) == [name |-> n, code |-> "", link |-> l, amount |-> x]
Rows == {<<Used("a", "", 1)>>, <<Used("a", "c", 2), Used("b", "", 3)>>,
         <<Used("a", "", 1), Used("b", "d", 3)>>}
Records == {[status |-> s, bulk |-> b, test |-> t, date |-> d, product |-> p, worker |-> p,
             total |-> 5, manual |-> d = 3, rows |-> rows] :
              s \in {"completed", "canceled"}, b, t \in BOOLEAN, d \in {2, 3},
              p \in {"p", "q"}, rows \in Rows}
TakeUsage ==
    \E r \in {x \in Records : x.product = "p"} :
        Take("usage", {<<r, o>> : o \in {x \in Records : x.test => ~x.bulk}})

Agree(from, to) ==
    LET details == U!UsageDetails(input, from, to, 10).items
        core    == U!Core(input, from, to, 3)
        trend   == U!Trend(input, from, to, 4, 3)
        untested == [i \in 1..2 |-> IF input[i].test THEN [input[i] EXCEPT !.status = "canceled"]
                                    ELSE input[i]]
        actual(x)   == x.actual     weight(x)   == x.weight
        records(x)  == x.records    canceled(x) == x.canceled
        manual(x)   == x.manual     scaled(x)   == x.scale.records
        typed(x)    == x.scale.manual
    IN  /\ \A g \in {"total", "day", "month"}, b \in BOOLEAN :
             LET periods == U!Periods(input, from, to, g, b)
             IN  /\ U!Total(actual, periods) = U!Total(actual, details)
                 /\ \A i \in periods : i.erp = "" =>
                      \A d \in details : U!Key(input, d.at, g, b) = i.key => d.erp = ""
        /\ \A m \in U!MaterialUsage(input, from, to) :
             U!Total(actual, {i \in U!Periods(untested, from, to, "month", TRUE) :
                                i.key[4] = m.name}) = m.actual
        /\ U!Total(weight, U!PerProduct(input, from, to)) = core.weight
        /\ U!Total(weight, U!PerWorker(input, from, to)) = core.weight
        /\ U!Total(weight, trend) = core.weight
        /\ U!Total(records, trend) = core.records
        /\ U!Total(scaled, trend) = core.scale.records
        /\ U!Total(typed, trend) = core.scale.manual
        /\ U!Total(canceled, U!Mistakes(input, from, to)) = core.canceled
        /\ U!Total(manual, U!Mistakes(input, from, to)) = core.manual

(* The reports of one period agree: by day, by product, by material, by    *)
(* worker and in the list of rows the same amounts and numbers add up; a   *)
(* group is shown without an ERP code only if none of its rows has one.    *)
ReportsAgree ==
    Taken("usage") =>
        \A w \in {<<0, 0>>, <<3, 0>>, <<2, 4>>, <<3, 3>>} : Agree(w[1], w[2])

(* The period before is the one that ends where this one starts: together  *)
(* they are the longer period.                                             *)
PreviousAdjoins ==
    Taken("usage") =>
        \A w \in {<<2, 2>>, <<3, 4>>} :
            LET p == U!Previous(w[1], w[2])
            IN  U!Core(input, p.from, w[2], 0).weight
                  = U!Core(input, p.from, p.to, 0).weight + U!Core(input, w[1], w[2], 0).weight

(***************************************************************************)
(* What a run checks, by subject.                                          *)
(***************************************************************************)
(* A viscosity is judged by its distance and the last readings, and tied   *)
(* to the reading of the LOT it was made from (viscosity_service.py); a day*)
(* of the attendance sheet by what is certain (attendance_excel/).         *)
JudgedFairly ==
    /\ FartherIsNoMilder /\ TrendIsAtTheEnd /\ LotIsFound /\ SourcesAgree
    /\ HalfIsJudged /\ NoPassingIssue /\ ColumnsCarryNames

(* What comes from outside is read as it was meant: a line of a scale, a   *)
(* sheet of recipes that is accepted, a leave request, which holds for its *)
(* person alone (parsers.py, import_parser.py, portal_approvals/parser.py, *)
(* attendance_approvals.py).                                               *)
InputsAreRead ==
    /\ StableIsGrams
    /\ NoValueIsLost /\ OnlyKnownMaterials
    /\ PeriodIsRead /\ TitleIsRead /\ MonthIsFair

(* What two places make of the same rows agrees: the current version, the  *)
(* targets of the screen, of a save and of its correction, and the figures *)
(* of reports (recipe_helpers.py, blend_service.py, blend_lib.js,          *)
(* lot_history_service.py, erp_lot_service.py, viscosity_service.py).      *)
FiguresAgree ==
    /\ TipsAgree /\ TargetsAccepted /\ CorrectionKept
    /\ ReportsAgree /\ PreviousAdjoins /\ DeltasAddUp /\ ChangesAreReal /\ StatusAgreesWithCheck

(***************************************************************************)
Init ==
    \/ kind = "chain" /\ input = << >> /\ taken = TRUE
    \/ /\ kind \in {"weighing", "frame", "judge", "trend", "lots", "source", "periods",
                    "history", "stock", "sheet", "day", "columns", "range", "dates", "title",
                    "month", "usage"}
       /\ input = << >> /\ taken = FALSE

Next ==
    \/ \E i \in Ids, parent \in {R!NULL} \cup Ids : AddVersion(i, parent)
    \/ ~taken /\ \/ TakeRecipe \/ TakeLine \/ TakeSamples \/ TakeTrend \/ TakeLots
                 \/ TakeSource \/ TakePeriods \/ TakeHistory \/ TakeStock \/ TakeSheet
                 \/ TakeDay \/ TakeColumns \/ TakeRange \/ TakeDates \/ TakeTitle
                 \/ TakeMonth \/ TakeUsage

Spec == Init /\ [][Next]_vars
=============================================================================
