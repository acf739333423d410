----------------------------- MODULE FrameParse -----------------------------
(***************************************************************************)
(* parse_frame of scale_agent/agent.py: one line of a scale as a weight.   *)
(* The screens use the value as grams without looking at the unit.         *)
(*                                                                         *)
(* A line is what the parsers look for in its text:                        *)
(*   comma   is the first word followed by a comma ("ST,+1.0 g")           *)
(*   first   the first word or letter, "" when the line begins with digits *)
(*   second  a word between that and the number                            *)
(*   number  its number (1 for every number), 0 when there is none         *)
(*   unit    the word at its end, "" when there is none                    *)
(* A value is in milligrams, so that a number of 1 read as grams is 1000.  *)
(***************************************************************************)
EXTENDS Naturals

Protocols == {"and", "mt-sics", "cas"}
Units     == {"", "g", "kg", "mg", "KG", "lb"}
TextLine  == [comma : BOOLEAN, first : {"", "ST", "US", "OL", "QT", "S", "U", "N", "T"},
              second : {"", "S", "D", "+", "I", "GS", "OL"}, number : {0, 1}, unit : Units]

None      == [header |-> "", stable |-> FALSE, overload |-> FALSE, value |-> 0, unit |-> ""]
Overload  == [header |-> "OL", stable |-> FALSE, overload |-> TRUE, value |-> 0, unit |-> "g"]
Weight(h, v, u) == [header |-> h, stable |-> h \in {"ST", "QT", "WT"}, overload |-> h = "OL",
                    value |-> v, unit |-> u]

Lower(u) == IF u = "KG" THEN "kg" ELSE u
OrGram(u) == IF u = "" THEN "g" ELSE u
Factor(u) == CASE u = "kg" -> 1000000 [] u = "mg" -> 1 [] OTHER -> 1000
InGrams(h, n, u) == IF u \in {"g", "kg", "mg"} THEN Weight(h, n * Factor(u), "g") ELSE None

(* A&D: "ST,+0004775.7   g".                                               *)
ParseAnd(l) ==
    IF l.comma /\ l.first \in {"ST", "US", "OL", "QT", "WT"} /\ l.second = "" /\ l.number # 0
    THEN InGrams(l.first, l.number, OrGram(Lower(l.unit)))
    ELSE None

(* faulty variant: the unit of a stable answer is taken as it is           *)
ParseSicsRawUnit(l) ==
    CASE l.comma -> None
      [] ~ l.comma /\ l.first = "S" /\ l.second = "+" -> Overload
      [] ~ l.comma /\ l.first = "S" /\ l.second \in {"S", "D"} /\ l.number # 0 ->
           Weight(IF l.second = "S" THEN "ST" ELSE "US", l.number * 1000, OrGram(l.unit))
      [] ~ l.comma /\ l.first \in {"", "N"} /\ l.second = "" /\ l.number # 0
         /\ l.unit \in {"g", "kg", "mg"} -> InGrams("ST", l.number, l.unit)
      [] OTHER -> None

(* Mettler: "S S  105.00 g", or a printed line "1 N  105.00 g".            *)
ParseSics(l) ==
    CASE l.comma -> None
      [] ~ l.comma /\ l.first = "S" /\ l.second = "+" -> Overload
      [] ~ l.comma /\ l.first = "S" /\ l.second \in {"S", "D"} /\ l.number # 0 ->
           InGrams(IF l.second = "S" THEN "ST" ELSE "US", l.number, OrGram(Lower(l.unit)))
      [] ~ l.comma /\ l.first \in {"", "N"} /\ l.second = "" /\ l.number # 0
         /\ l.unit \in {"g", "kg", "mg"} -> InGrams("ST", l.number, l.unit)
      [] OTHER -> None

(* EB without a mark: the unit must be there, the weight counts as stable. *)
ParseHeadless(l) ==
    CASE l.second = "OL" /\ l.number = 0 -> Overload
      [] l.second = "" /\ l.number # 0   -> InGrams("ST", l.number, Lower(l.unit))
      [] OTHER -> None

(* EB: "S  123.45g".                                                       *)
ParseEb(l) ==
    CASE l.first = "" -> ParseHeadless(l)
      [] l.first \in {"S", "U"} /\ l.second = "OL" /\ l.number = 0 -> Overload
      [] l.first \in {"S", "U"} /\ l.second = "" /\ l.number # 0 ->
           InGrams(IF l.first = "S" THEN "ST" ELSE "US", l.number, OrGram(Lower(l.unit)))
      [] OTHER -> None

(* CAS: "ST,GS,+00123.45 g"; the unit is compared as it is written, and    *)
(* one that is no unit of weight is kept.                                  *)
ParseCas(l) ==
    CASE ~ l.comma -> ParseEb(l)
      [] l.comma /\ l.first = "OL" -> Overload
      [] l.comma /\ l.first \in {"ST", "US"} /\ l.second \in {"", "GS"} /\ l.number # 0 ->
           Weight(l.first, l.number * Factor(l.unit),
                  IF l.unit \in {"", "kg", "mg"} THEN "g" ELSE l.unit)
      [] OTHER -> None

ParseFrame(l, protocol) ==
    CASE protocol = "mt-sics" -> ParseSics(l)
      [] protocol = "cas"     -> ParseCas(l)
      [] OTHER                -> ParseAnd(l)

(* What the line says: grams, from a unit of weight or from none.          *)
MeansGrams(l, f) == /\ Lower(l.unit) \in {"", "g", "kg", "mg"}
                    /\ f.value = l.number * Factor(Lower(l.unit))
=============================================================================
