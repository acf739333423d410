---------------------------- MODULE RecipeChains ----------------------------
(***************************************************************************)
(* Which version of a recipe is the current one.  Versions are linked by   *)
(* revision_of into chains that may branch; recipe_helpers.py decides the  *)
(* current version twice: id by id in Python (resolve_chain_tip, for the   *)
(* detail page, for saving a blend and for reactors) and for all ids in    *)
(* one SQL statement (SUPERSEDED_RECIPE_IDS_SQL, for every list).          *)
(*                                                                         *)
(* R is the recipes table: id -> [parent, canceled, pinned, stage1]; ids   *)
(* are positive and NULL is 0.  parent may name a row that was deleted.    *)
(***************************************************************************)
EXTENDS Naturals, FiniteSets, FiniteSetsExt, Sequences

NULL == 0

Active(R) == {i \in DOMAIN R : ~R[i].canceled}

(* Everything the walk along a link meets from i on: i itself, then up to  *)
(* NULL, or up to an id whose row is gone.                                 *)
Walk(i, link) ==
    LET upTo[n \in Nat] ==
          IF n = 0 THEN {i}
          ELSE LET met == upTo[n - 1] IN met \cup {link[j] : j \in met \cap DOMAIN link}
    IN  upTo[Cardinality(DOMAIN link)]

Line(R, i)  == Walk(i, [j \in DOMAIN R |-> R[j].parent])
Below(R, i) == {j \in DOMAIN R : i \in Line(R, j)}

(* A walk that ends at a deleted row finds no root: i is its own.          *)
EndOfLine(R, i) == IF NULL \in Line(R, i) THEN NULL ELSE i          \* faulty variant
FindChainRoot(R, i) ==
    IF NULL \in Line(R, i)
    THEN CHOOSE j \in Line(R, i) \ {NULL} : R[j].parent = NULL
    ELSE i

Chain(R, i) == Below(R, FindChainRoot(R, i))

(* _revision_chain_ids starts from the topmost row that exists.            *)
RevisionChain(R, i) ==
    IF i \notin DOMAIN R THEN Below(R, i)
    ELSE Below(R, CHOOSE j \in Line(R, i) \cap DOMAIN R : R[j].parent \notin DOMAIN R)

Pinned(R, i) == {j \in Chain(R, i) \cap Active(R) : R[j].pinned}

(* The newest of the active versions with no active descendant.            *)
NewestTip(R, root) ==                                   \* faulty variant
    LET active == Below(R, root) \cap Active(R) IN IF active = {} THEN NULL ELSE Max(active)
DefaultTip(R, root) ==
    LET leaves == {j \in Below(R, root) : Below(R, j) \cap Active(R) = {j}}
    IN  IF leaves = {} THEN NULL ELSE Max(leaves)

ResolveTip(R, i) ==
    IF Pinned(R, i) # {} THEN Min(Pinned(R, i))
    ELSE IF Below(R, i) \cap Active(R) = {} THEN i
    ELSE DefaultTip(R, FindChainRoot(R, i))

(***************************************************************************)
(* The list rule.                                                          *)
(***************************************************************************)
OldSuperseded(R) == {i \in DOMAIN R : (Below(R, i) \cap Active(R)) \ {i} # {}}

Members(R, root) == {i \in DOMAIN R : NULL \in Line(R, i) /\ root \in Line(R, i)}

ListTip(R, root) ==
    LET usable == Members(R, root) \cap Active(R)
        pins   == {i \in usable : R[i].pinned}
        leaves == usable \ OldSuperseded(R)
    IN  IF pins # {} THEN Min(pins) ELSE IF leaves # {} THEN Max(leaves) ELSE NULL

ListTips(R) == {ListTip(R, root) : root \in {i \in DOMAIN R : R[i].parent = NULL}}

Superseded(R) ==
    LET tips == ListTips(R)
    IN  (OldSuperseded(R) \ tips) \cup {i \in Active(R) : NULL \in Line(R, i) /\ i \notin tips}

(* The two rules name the same version: of the active versions of a chain  *)
(* the lists show exactly one, and resolve_chain_tip gives it for each of  *)
(* them.  (Chains whose walk up ends at a deleted row are left to          *)
(* TipIsListed in RecipeVersions.)                                         *)
RulesAgree(R) ==
    LET superseded == Superseded(R)
    IN  \A root \in {i \in DOMAIN R : R[i].parent = NULL} :
            LET usable == Members(R, root) \cap Active(R)
                listed == usable \ superseded
            IN  \A i \in usable : listed = {ResolveTip(R, i)}

(***************************************************************************)
(* Reactors: the last assignment row of the chain and the reactor counts,  *)
(* if it names an active version; otherwise the current version.           *)
(***************************************************************************)
Assigned(A, root, reactor) ==
    LET rows == {n \in 1..Len(A) : A[n].root = root /\ A[n].reactor = reactor}
    IN  IF rows = {} THEN NULL ELSE A[Max(rows)].recipe

ResolveForReactor(R, A, i, reactor) ==
    LET assigned == Assigned(A, FindChainRoot(R, i), reactor)
    IN  IF assigned \in Active(R) THEN assigned ELSE ResolveTip(R, i)

(* _stage1_would_cycle: does the first-stage line of s come back to i.     *)
WouldCycleAtOnce(R, i, s) == i = s \/ R[s].stage1 = i    \* faulty variant
WouldCycle(R, i, s) == i \in Walk(s, [j \in DOMAIN R |-> R[j].stage1])
=============================================================================
