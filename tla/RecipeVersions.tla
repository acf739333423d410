--------------------------- MODULE RecipeVersions ---------------------------
(***************************************************************************)
(* The handlers that change the versions of a recipe: register and revise  *)
(* (POST /recipes/import), cancel and restore, set the current version,    *)
(* assign a version to a reactor, link a first-stage recipe, delete.       *)
(*                                                                         *)
(* As everywhere in this server a handler first reads without a lock       *)
(* (Read...: what it decided is kept in its request) and then writes in    *)
(* one transaction (Write...).  A refused request changes nothing and is   *)
(* no step of the model.                                                   *)
(***************************************************************************)
EXTENDS RecipeChains

CONSTANTS
    Managers,         \* requests that may be in flight at one time
    Reactors,
    MaxRecipes,       \* bound: recipes ever registered
    MaxRows,          \* bound: recipes one import registers
    MaxAssignments,   \* bound: rows of recipe_reactor_assignments
    NoRequest
ASSUME VersionsAssumption == {MaxRecipes, MaxRows, MaxAssignments} \subseteq Nat

VARIABLES
    recipe,        \* recipes: id -> [parent, canceled, pinned, stage1]
    nextId,        \* its AUTOINCREMENT counter
    assignments,   \* recipe_reactor_assignments, in id order
    request,       \* per manager: what the handler read and will write
    overlap        \* history: did two requests, or two that link first
                   \* stages, ever stand between read and write together

versionVars == <<recipe, nextId, assignments, request, overlap>>

Known == 1..nextId        \* ids some screen may still show
Roots == {i \in DOMAIN recipe : recipe[i].parent = NULL}

InFlight == {m \in Managers : request[m] # NoRequest}
Linking  == {m \in InFlight : request[m].name = "stage1"}

Read(m, op) ==
    /\ m \notin InFlight
    /\ request' = [request EXCEPT ![m] = op]
    /\ overlap' = [any   |-> overlap.any \/ InFlight # {},
                   links |-> overlap.links \/ (op.name = "stage1" /\ Linking # {})]
    /\ UNCHANGED <<recipe, nextId, assignments>>
Writes(m, name) ==
    /\ m \in InFlight /\ request[m].name = name
    /\ request' = [request EXCEPT ![m] = NoRequest]
    /\ UNCHANGED overlap

(* An UPDATE of rows that are gone changes nothing.                        *)
UnpinNone(R, ids) == R                                  \* faulty variant
Unpin(R, ids) == [i \in DOMAIN R |-> [R[i] EXCEPT !.pinned = @ /\ i \notin ids]]

(***************************************************************************)
(* Register (parent NULL) or revise: the parent must be the current        *)
(* version, an id without a row passes that test; the first stage is given *)
(* or inherited and must exist.  One text may hold several recipes.  (A    *)
(* text that names an unregistered material inserts it, and so locks the   *)
(* database, before these checks: Write right after Read.)                 *)
(***************************************************************************)
StageChoices == {NULL} \cup DOMAIN recipe

ReadImportUnchecked(m) ==                               \* faulty variant
    \E parent \in {NULL} \cup Known, rows \in 1..MaxRows, stage1 \in StageChoices :
        /\ nextId + rows <= MaxRecipes
        /\ Read(m, [name |-> "import", id |-> parent, rows |-> rows, stage1 |-> stage1])
ReadImport(m) ==
    \E parent \in {NULL} \cup Known, rows \in 1..MaxRows, stage1 \in StageChoices :
        /\ nextId + rows <= MaxRecipes
        /\ parent # NULL => ResolveTip(recipe, parent) = parent
        /\ Read(m, [name |-> "import", id |-> parent, rows |-> rows, stage1 |-> stage1])

WriteImport(m) ==
    /\ Writes(m, "import")
    /\ LET r     == request[m]
           table == [i \in DOMAIN recipe \cup (nextId + 1)..(nextId + r.rows) |->
                       IF i \in DOMAIN recipe THEN recipe[i]
                       ELSE [parent |-> r.id, canceled |-> FALSE,
                             pinned |-> FALSE, stage1 |-> r.stage1]]
       IN  /\ nextId + r.rows <= MaxRecipes
           /\ recipe' = IF r.id = NULL THEN table
                        ELSE Unpin(table, RevisionChain(table, r.id))
           /\ nextId' = nextId + r.rows
    /\ UNCHANGED assignments

(***************************************************************************)
(* Cancel, restore.                                                        *)
(***************************************************************************)
ReadStatus(m) ==
    \E i \in DOMAIN recipe :
        Read(m, [name |-> "status", id |-> i, canceled |-> ~recipe[i].canceled])

WriteStatus(m) ==
    /\ Writes(m, "status")
    /\ recipe' = [i \in DOMAIN recipe |->
                    IF i = request[m].id
                    THEN [recipe[i] EXCEPT !.canceled = request[m].canceled]
                    ELSE recipe[i]]
    /\ UNCHANGED <<nextId, assignments>>

(***************************************************************************)
(* Set the current version: a pin, unless it is current without one.       *)
(***************************************************************************)
ReadCurrent(m) ==
    \E i \in Active(recipe) :
        Read(m, [name |-> "current", id |-> i, chain |-> Chain(recipe, i),
                 pin |-> DefaultTip(recipe, FindChainRoot(recipe, i)) # i])

WriteCurrent(m) ==
    /\ Writes(m, "current")
    /\ LET r == request[m]
           cleared == Unpin(recipe, r.chain)
       IN  recipe' = [i \in DOMAIN recipe |->
                        IF i = r.id /\ r.pin
                        THEN [cleared[i] EXCEPT !.pinned = TRUE] ELSE cleared[i]]
    /\ UNCHANGED <<nextId, assignments>>

(***************************************************************************)
(* Assign a version of the same chain to a reactor, or none.               *)
(***************************************************************************)
ReadAssign(m) ==
    \E i \in DOMAIN recipe, reactor \in Reactors, target \in {NULL} \cup Active(recipe) :
        /\ Len(assignments) < MaxAssignments
        /\ target # NULL => FindChainRoot(recipe, target) = FindChainRoot(recipe, i)
        /\ Read(m, [name |-> "assign", id |-> i,
                    row |-> [root |-> FindChainRoot(recipe, i),
                             reactor |-> reactor, recipe |-> target]])

WriteAssign(m) ==
    /\ Writes(m, "assign")
    /\ assignments' = Append(assignments, request[m].row)
    /\ UNCHANGED <<recipe, nextId>>

(***************************************************************************)
(* Delete: refused while a reactor uses it.  The children move to the      *)
(* parent that was read before the transaction; if a root goes, its        *)
(* assignment rows move to the root of the first child.                    *)
(***************************************************************************)
ReadDelete(m) ==
    \E i \in DOMAIN recipe :
        LET root == FindChainRoot(recipe, i)
        IN  /\ \A reactor \in Reactors : Assigned(assignments, root, reactor) # i
            /\ Read(m, [name |-> "delete", id |-> i, root |-> root,
                        parent |-> recipe[i].parent])

Unlinked(gone, parent) ==                               \* faulty variant
    [i \in DOMAIN recipe \ {gone} |->
       [recipe[i] EXCEPT !.parent = IF @ = gone THEN NULL ELSE @,
                         !.stage1 = IF @ = gone THEN NULL ELSE @]]
Relinked(gone, parent) ==
    [i \in DOMAIN recipe \ {gone} |->
       [recipe[i] EXCEPT !.parent = IF @ = gone THEN parent ELSE @,
                         !.stage1 = IF @ = gone THEN NULL ELSE @]]

NotRekeyed(old, new) == assignments                     \* faulty variant
Rekeyed(old, new) ==
    [n \in DOMAIN assignments |->
       [assignments[n] EXCEPT !.root = IF @ = old THEN new ELSE @]]

WriteDelete(m) ==
    /\ Writes(m, "delete")
    /\ LET r        == request[m]
           children == {i \in DOMAIN recipe : recipe[i].parent = r.id}
       IN  /\ recipe' = Relinked(r.id, r.parent)
           /\ assignments' = IF r.root = r.id /\ children # {}
                             THEN Rekeyed(r.id, FindChainRoot(recipe', Min(children)))
                             ELSE assignments
    /\ UNCHANGED nextId

(***************************************************************************)
(* Link a first-stage recipe, or none.                                     *)
(***************************************************************************)
ReadStage1(m) ==
    \E i \in DOMAIN recipe, s \in {NULL} \cup DOMAIN recipe :
        /\ s # NULL => s # i /\ ~WouldCycle(recipe, i, s)
        /\ Read(m, [name |-> "stage1", id |-> i, stage1 |-> s])

WriteStage1(m) ==
    /\ Writes(m, "stage1")
    /\ recipe' = [i \in DOMAIN recipe |->
                    IF i = request[m].id
                    THEN [recipe[i] EXCEPT !.stage1 = request[m].stage1]
                    ELSE recipe[i]]
    /\ UNCHANGED <<nextId, assignments>>

VersionsInit ==
    /\ recipe = << >> /\ nextId = 0 /\ assignments = << >>
    /\ request = [m \in Managers |-> NoRequest]
    /\ overlap = [any |-> FALSE, links |-> FALSE]

VersionsNext == \E m \in Managers :
    \/ ReadImport(m) \/ ReadStatus(m) \/ ReadCurrent(m)
    \/ ReadAssign(m) \/ ReadDelete(m) \/ ReadStage1(m)
    \/ WriteImport(m) \/ WriteStatus(m) \/ WriteCurrent(m)
    \/ WriteAssign(m) \/ WriteDelete(m) \/ WriteStage1(m)

VersionsSpec == VersionsInit /\ [][VersionsNext]_versionVars

(***************************************************************************)
(* Properties.                                                             *)
(***************************************************************************)
(* A revision that is registered is the current version at that moment,    *)
(* whatever was pinned and whatever was registered meanwhile               *)
(* (import_recipes clears the pins of the whole chain).                    *)
RevisionBecomesCurrentNow == nextId' > nextId => ResolveTip(recipe', nextId') = nextId'

(* A revision is only registered on the current version: two managers who  *)
(* revise the same version do not branch the chain (import_recipes,        *)
(* "동시 수정 등록 레이스(체인 분기) 방지").                                   *)
RevisesCurrentNow ==
    nextId' > nextId => LET parent == recipe'[nextId'].parent
                        IN  parent \in DOMAIN recipe => ResolveTip(recipe, parent) = parent

(* "체인의 현재판을 이 판으로 바꾼다": after set_recipe_current the version  *)
(* that was asked for is the current one.                                  *)
SetCurrentTakesEffectNow ==
    \A m \in Managers : WriteCurrent(m) =>
          ResolveTip(recipe', request[m].id) = request[m].id

(* The current version is the one a manager chose last: the revision that  *)
(* was registered, whatever other managers did in between; and, as long as *)
(* no requests overlapped, the version that was set current; and revisions *)
(* do not branch the chain (import_recipes, set_recipe_current).           *)
CurrentIsChosen ==
    [][/\ RevisionBecomesCurrentNow
       /\ ~ overlap.any => RevisesCurrentNow /\ SetCurrentTakesEffectNow]_versionVars

(* Deleting a version in the middle leaves the others in one chain         *)
(* (delete_recipe, "이력이 끊기지 않도록").                                   *)
DeleteKeepsLineageNow ==
    \A m \in Managers : WriteDelete(m) /\ request[m].root # request[m].id =>
          \A i \in DOMAIN recipe' :
             FindChainRoot(recipe', i) = FindChainRoot(recipe, i)

(* A reactor never points at a version that was deleted (delete_recipe,    *)
(* "지정이 사라진 판을 가리키게 된다").                                       *)
AssignedVersionExists ==
    \A root \in Roots, reactor \in Reactors :
        Assigned(assignments, root, reactor) \in {NULL} \cup DOMAIN recipe

(* Deleting another version of a chain leaves every reactor assigned as it *)
(* was, also when the root goes: all the versions that stay in the chain   *)
(* of its first child keep their assignments (delete_recipe, "루트 판을    *)
(* 지우면 자식이 새 루트가 된다. 반응기 지정은 루트 id 로 묶여 있어 옮긴다").      *)
DeleteKeepsAssignmentsNow ==
    \A m \in Managers : WriteDelete(m) =>
          LET children == {i \in DOMAIN recipe : recipe[i].parent = request[m].id}
          IN  \A i \in DOMAIN recipe', reactor \in Reactors :
                /\ NULL \in Line(recipe, i)
                /\ \/ FindChainRoot(recipe', i) = FindChainRoot(recipe, i)
                   \/ children # {} /\ Min(children) \in Line(recipe, i)
                => Assigned(assignments', FindChainRoot(recipe', i), reactor)
                     = Assigned(assignments, FindChainRoot(recipe, i), reactor)

(* Deleting a version keeps the others in one chain, with their reactors,  *)
(* also when the root goes, as long as no requests overlapped              *)
(* (delete_recipe).                                                        *)
DeletionKeepsChain ==
    [][~ overlap.any => DeleteKeepsLineageNow /\ DeleteKeepsAssignmentsNow]_versionVars

(* No recipe is its own first stage over any number of links, as long as   *)
(* no two requests that link first stages overlapped (set_recipe_stage1,   *)
(* "순환 링크 차단").                                                        *)
NoStage1Cycle ==
    ~ overlap.links =>
       \A i \in DOMAIN recipe :
          i \notin Walk(recipe[i].stage1, [j \in DOMAIN recipe |-> recipe[j].stage1])

(* The current version is decided twice, by one SQL statement for the lists*)
(* and by walks for a blend and the detail page: in every table that the   *)
(* handlers make, also when they overlap, both name the same version       *)
(* (SUPERSEDED_RECIPE_IDS_SQL, resolve_chain_tip).                         *)
ListAndResolveAgree == RulesAgree(recipe)

(* The version a detail page or a blend resolves to is one the lists show  *)
(* (resolve_chain_tip, "목록의 tip 과 항상 일치한다").                        *)
(* Does not hold: see "further disagreements" in the README.               *)
TipIsListed ==
    \A i \in Active(recipe) : ResolveTip(recipe, i) \notin Superseded(recipe)
=============================================================================
