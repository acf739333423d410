---------------------------- MODULE RecipeImport ----------------------------
(***************************************************************************)
(* A sheet pasted into the recipe screen (services/import_parser.py): the  *)
(* header lines say which column holds what, every other line is a recipe. *)
(*                                                                         *)
(* A sheet is a sequence of lines, a line a sequence of cells.  A cell is  *)
(* Blank, Dash, one of the words of Field, RemarkWord or StepWord, a name  *)
(* of a material or any other text; names are their normalised token (two  *)
(* spellings of one name are one value).  Aliases of a material are names  *)
(* with that material in lists.known.                                      *)
(*                                                                         *)
(* lists is the database: the registered materials with the code they hold *)
(* (known), the names of the item master with their codes (master) unless  *)
(* it is empty, and the products of completed recipes with their code      *)
(* (made).  Warnings, candidates of similar names and the preview are left *)
(* out.                                                                    *)
(***************************************************************************)
EXTENDS Integers, Sequences, FiniteSets, SequencesExt

CONSTANTS Blank, Dash, NoCode

Field      == {"product", "position", "ink"}
RemarkWord == "remark"
StepWord   == "step"

NoHeader == [at |-> [f \in Field |-> 0], remark |-> 0, steps |-> {}, columns |-> <<>>]

Indices(S) == SetToSortSeq(S, <)
FirstAt(line, S) == IF S = {} THEN 0 ELSE CHOOSE i \in S : \A j \in S : i <= j

(***************************************************************************)
(* The fields of a header: those it names, else those of the header above; *)
(* the product may stand, unnamed, before the position or two before the   *)
(* ink.                                                                    *)
(***************************************************************************)
Here(line, f) == FirstAt(line, {i \in DOMAIN line : line[i] = f})
FieldsAt(line, above) ==
    LET named   == [f \in Field |-> Here(line, f)]
        product == IF named["product"] # 0 THEN named["product"]
                   ELSE IF above.at["product"] # 0 THEN above.at["product"]
                   ELSE IF named["position"] > 1 THEN named["position"] - 1
                   ELSE IF named["ink"] > 2 THEN named["ink"] - 2 ELSE 0
    IN  [f \in Field |-> IF f = "product" THEN product
                         ELSE IF named[f] # 0 THEN named[f] ELSE above.at[f]]

Used(at) == {at[f] : f \in Field} \ {0}
LastField(at) == CHOOSE i \in Used(at) : \A j \in Used(at) : j <= i
After(line, at) == {i \in DOMAIN line : i > LastField(at) /\ line[i] # Blank}

IsHeader(line, at) ==
    LET named == {f \in Field : Here(line, f) # 0}
    IN  /\ named # {}
        /\ at["product"] # 0
        /\ \A f, g \in Field : at[f] = at[g] /\ at[f] # 0 => f = g
        /\ After(line, at) # {}
        /\ "product" \in named \/ Cardinality(named) >= 2

(***************************************************************************)
(* What a header makes of the name of an unregistered material: the one    *)
(* code the master gives it, else a product we make, else an error - or no *)
(* judgement at all while the master is empty.  The material is inserted   *)
(* in every case: an error refuses the sheet and rolls the insert back.    *)
(***************************************************************************)
MasterCodes(lists, name) ==
    IF lists.master.empty THEN {}
    ELSE LET material == lists.master.material[name]
         IN  IF material # {} THEN material ELSE lists.master.product[name]

JudgeLoosely(lists, known, name) ==                     \* faulty variant
    IF MasterCodes(lists, name) # {}
    THEN [code |-> CHOOSE c \in MasterCodes(lists, name) : TRUE, error |-> FALSE]
    ELSE [code |-> NoCode, error |-> FALSE]
Judge(lists, known, name) ==
    LET codes == MasterCodes(lists, name)
        held  == {known[n] : n \in DOMAIN known} \ {NoCode}
    IN  IF Cardinality(codes) = 1
        THEN [code |-> CHOOSE c \in codes : TRUE, error |-> FALSE]
        ELSE IF name \in DOMAIN lists.made
        THEN [code |-> IF lists.made[name] \in held THEN NoCode ELSE lists.made[name],
              error |-> FALSE]
        ELSE [code |-> NoCode, error |-> ~lists.master.empty]

(* The insert of a code that another material holds fails (unique index):  *)
(* the request ends with an error of the server.                           *)
Registered(lists, known, name) ==
    LET j == Judge(lists, known, name)
    IN  IF name \in DOMAIN known
        THEN [known |-> known, errors |-> {}]
        ELSE [known |-> [n \in DOMAIN known \cup {name} |->
                           IF n = name THEN j.code ELSE known[n]],
              errors |-> (IF j.error THEN {"unknown"} ELSE {}) \cup
                         (IF j.code # NoCode /\ \E n \in DOMAIN known : known[n] = j.code
                          THEN {"code taken"} ELSE {})]

(***************************************************************************)
(* The columns of a header: one remark, the steps, and every other cell    *)
(* with a text is the name of a material - a second remark too.            *)
(***************************************************************************)
HeaderOf(line, at) ==
    LET remark == FirstAt(line, {i \in After(line, at) : line[i] = RemarkWord})
        steps  == {i \in After(line, at) : line[i] = StepWord}
    IN  [at |-> at, remark |-> remark, steps |-> steps,
         columns |-> Indices(After(line, at) \ ({remark} \cup steps))]

(* A header that names the product forgets the values carried down; text   *)
(* in a field it does not name is the first value carried.                 *)
Seeds(line, header, carried) ==
    [f \in Field |->
        LET i == header.at[f]
        IN  IF i \in DOMAIN line /\ line[i] # Blank /\ line[i] # f THEN line[i]
            ELSE IF Here(line, "product") # 0 THEN Blank ELSE carried[f]]

ReadHeader(lists, state, line, header) ==
    LET register(s, i) ==
            LET r == Registered(lists, s.known, line[i])
            IN  [s EXCEPT !.known = r.known, !.errors = @ \cup r.errors]
    IN  [FoldLeft(register, state, header.columns)
           EXCEPT !.header = header, !.names = line, !.seen = TRUE,
                  !.carried = Seeds(line, header, state.carried)]

(***************************************************************************)
(* A line of values.  Text in a column the header does not know would be   *)
(* lost without a word, and is an error.                                   *)
(***************************************************************************)
Text(line, i) == IF i \in DOMAIN line THEN line[i] ELSE Blank
Carry(line, header, carried) ==
    [f \in Field |-> IF Text(line, header.at[f]) # Blank THEN line[header.at[f]]
                     ELSE IF header.at[f] # 0 THEN carried[f] ELSE Blank]

Unplaced(line, header) ==
    {i \in DOMAIN line : line[i] # Blank} \
    (Used(header.at) \cup Range(header.columns) \cup header.steps \cup {header.remark})
UnplacedInWidth(line, header) ==                        \* faulty variant
    {i \in Unplaced(line, header) : i <= Max(Used(header.at) \cup Range(header.columns))}

Items(line, state) ==
    LET filled == SelectSeq(state.header.columns,
                            LAMBDA i : Text(line, i) \notin {Blank, Dash})
    IN  [k \in DOMAIN filled |-> [material |-> state.names[filled[k]],
                                  value    |-> line[filled[k]],
                                  index    |-> filled[k]]]
Steps(line, state, items) ==
    LET noted == Indices({i \in state.header.steps : Text(line, i) # Blank})
    IN  [k \in DOMAIN noted |->
           [note  |-> line[noted[k]],
            after |-> Cardinality({j \in DOMAIN items : items[j].index < noted[k]})]]

PlacedInWidth(line, header) ==                          \* faulty variant
    IF UnplacedInWidth(line, header) # {} THEN {"unplaced"} ELSE {}
Placed(line, header) == IF Unplaced(line, header) # {} THEN {"unplaced"} ELSE {}

(* A line without an item is no recipe: its remark and its steps go too.   *)
ReadValues(state, line, number) ==
    LET fields  == Carry(line, state.header, state.carried)
        items   == Items(line, state)
        carried == [f \in Field |-> IF state.header.at[f] # 0 THEN fields[f]
                                    ELSE state.carried[f]]
        row     == [line |-> number, fields |-> fields, items |-> items,
                    remark |-> Text(line, state.header.remark),
                    steps |-> Steps(line, state, items)]
    IN  [state EXCEPT
           !.carried = carried,
           !.errors  = @ \cup Placed(line, state.header) \cup
                       (IF fields["product"] = Blank THEN {"no product"} ELSE {}),
           !.rows    = IF items = <<>> THEN @ ELSE Append(@, row)]

ReadLine(lists, state, line, number) ==
    IF IsHeader(line, FieldsAt(line, state.header))
    THEN ReadHeader(lists, state, line, HeaderOf(line, FieldsAt(line, state.header)))
    ELSE IF ~state.seen THEN state
    ELSE ReadValues(state, line, number)

(* parse_import_text, of a sheet without lines that are blank as a whole.  *)
Outcome(end) ==
    [rows |-> end.rows, known |-> end.known,
     errors |-> end.errors \cup (IF ~end.seen THEN {"no header"} ELSE {})
                \cup (IF end.seen /\ end.errors = {} /\ end.rows = <<>>
                      THEN {"no rows"} ELSE {})]
Parse(lists, sheet) ==
    LET start == [header |-> NoHeader, names |-> <<>>, seen |-> FALSE,
                  known |-> lists.known, carried |-> [f \in Field |-> Blank],
                  errors |-> {}, rows |-> <<>>]
    IN  Outcome(FoldLeft(LAMBDA s, k : ReadLine(lists, s, sheet[k], k), start,
                         [k \in DOMAIN sheet |-> k]))
=============================================================================
