--------------------------- MODULE RecipeSettings ---------------------------
(***************************************************************************)
(* What a manager decides about a recipe besides its items - the base      *)
(* material (anchor), the tolerance, the category, whether it is made in a *)
(* reactor, whether it is for official records only (dhr), the loss added  *)
(* to a material - and how POST /recipes/import hands it on from the       *)
(* version it revises to the new one.                                      *)
(*                                                                         *)
(* Every setting has a handler of its own that checks and writes at once;  *)
(* the import reads the version it revises and inserts later.  The current *)
(* version is the one nothing revises, and one import is in flight at a    *)
(* time: RecipeVersions has cancellation, pins and races of versions.      *)
(* is_derived and the base totals are handed on as use_reactor and the     *)
(* tolerance are, the version name is not handed on at all, and            *)
(* MaterialCodes has the code of the product: they are left out.  A        *)
(* material stands for its first row in the recipe, the only one that      *)
(* either handler gives a loss.                                            *)
(***************************************************************************)
EXTENDS RecipeChains

CONSTANTS
    Materials, Tolerances, Losses,
    Categories,     \* the allowed ones
    Hints,          \* categories the item master suggests; some not allowed
    Unset, Clear,   \* nothing sent or set; an explicit "no base material"
    MaxVersions,    \* bound: rows ever inserted
    MaxEdits        \* bound: settings changed
ASSUME SettingsAssumption ==
    /\ Unset \notin Materials /\ Unset \notin Tolerances
    /\ Unset \notin Categories /\ Unset \notin BOOLEAN
    /\ Clear \notin Materials /\ Clear # Unset

VARIABLES
    about,          \* the setting this behaviour is about: they are independent
    version,        \* recipes and recipe_items: id -> its settings
    import,         \* the import in flight: what it was sent and has read
    edits,          \* settings changed so far, for the bound
    wanted,         \* history: id -> what managers decided about that version
    missed          \* history: id -> decisions taken while the import ran

settingsVars == <<about, version, import, edits, wanted, missed>>

Settings == {"anchor", "tolerance", "category", "reactor", "dhr", "loss"}
Ids      == DOMAIN version
IsCurrent(i) == \A j \in Ids : version[j].parent # i
NoLoss(items) == [m \in items |-> 0]

(***************************************************************************)
(* The handlers of one setting.                                            *)
(***************************************************************************)
Edit(ids, setting, value) ==
    /\ edits < MaxEdits /\ edits' = edits + 1
    /\ version' = [i \in Ids |-> IF i \in ids THEN [version[i] EXCEPT ![setting] = value]
                                 ELSE version[i]]
    /\ wanted' = [i \in Ids |-> IF i \in ids THEN [wanted[i] EXCEPT ![setting] = value]
                                ELSE wanted[i]]
    /\ missed' = [i \in Ids |-> IF i \in ids THEN missed[i] \ {setting} ELSE missed[i]]
    /\ about = setting
    /\ UNCHANGED <<about, import>>

SetAnchor == \E i \in Ids : \E m \in version[i].items \cup {Unset} : Edit({i}, "anchor", m)
SetTolerance == \E i \in Ids, t \in Tolerances \cup {Unset} : Edit({i}, "tolerance", t)
SetCategory  == \E i \in Ids, c \in Categories \cup {Unset} : Edit({i}, "category", c)
SetReactor   == \E i \in Ids, b \in BOOLEAN : Edit({i}, "reactor", b)

SetDhrOfOne == \E i \in Ids, b \in BOOLEAN : Edit({i}, "dhr", b)  \* faulty variant

(* The whole chain, so that no old version shows up on the blend screen.   *)
SetDhr == \E i \in Ids, b \in BOOLEAN : Edit(Chain(version, i), "dhr", b)

(* The list that is sent is the whole of it: what it leaves out is 0.      *)
LossOf(i, sent) == [m \in version[i].items |-> IF m \in DOMAIN sent THEN sent[m] ELSE 0]
SetLoss == \E i \in Ids : \E listed \in SUBSET version[i].items :
               \E sent \in [listed -> Losses \cup {0}] :
                   Edit({i}, "loss", LossOf(i, sent))

(***************************************************************************)
(* Import.  Unset is what the request does not say; "no" is said as FALSE  *)
(* or Clear, and is not the same.                                          *)
(***************************************************************************)
Fresh(items) == [parent |-> NULL, items |-> items, anchor |-> Unset, tolerance |-> Unset,
                 category |-> Unset, reactor |-> FALSE, dhr |-> FALSE, loss |-> NoLoss(items)]

Spoken(setting, said) == about = setting \/ said = Unset

BeginImport ==
    /\ import = Unset
    /\ \E parent \in {NULL} \cup {i \in Ids : IsCurrent(i)},
          items \in (SUBSET Materials) \ {{}},
          tolerance \in Tolerances \cup {Unset}, reactor \in BOOLEAN \cup {Unset},
          hint \in Hints \cup {Unset} :
          \E anchor \in items \cup {Unset, Clear} :
              /\ about \in {"anchor", "loss"} \/ items = Materials
              /\ Spoken("tolerance", tolerance) /\ Spoken("reactor", reactor)
              /\ Spoken("category", hint) /\ Spoken("anchor", anchor)
              /\ import' = [parent |-> parent, items |-> items, anchor |-> anchor,
                          tolerance |-> tolerance, reactor |-> reactor, hint |-> hint,
                          read |-> IF parent = NULL THEN Fresh(items) ELSE version[parent]]
    /\ UNCHANGED <<about, version, edits, wanted, missed>>

FlagIfSet(sent, inherited) ==                               \* faulty variant
    IF sent # Unset /\ sent THEN TRUE ELSE inherited
Flag(sent, inherited) == IF sent = Unset THEN inherited ELSE sent

(* A base material that is not in the new version is dropped, with a       *)
(* warning in the answer.                                                  *)
AnchorKept(sent, inherited, items) ==                       \* faulty variant
    IF sent = Unset THEN inherited ELSE IF sent = Clear THEN Unset ELSE sent
AnchorOf(sent, inherited, items) ==
    IF sent = Unset THEN (IF inherited \in items THEN inherited ELSE Unset)
    ELSE IF sent = Clear THEN Unset ELSE sent

CategoryOf(inherited, hint) ==
    LET c == IF inherited = Unset THEN hint ELSE inherited
    IN  IF c \in Categories THEN c ELSE Unset

LossDropped(inherited, items) == NoLoss(items)              \* faulty variant
LossHanded(inherited, items) ==
    [m \in items |-> IF m \in DOMAIN inherited THEN inherited[m] ELSE 0]

(* The loss alone is read when the rows are inserted.                      *)
Inserted(r) ==
    [parent |-> r.parent, items |-> r.items,
     anchor    |-> AnchorOf(r.anchor, r.read.anchor, r.items),
     tolerance |-> IF r.tolerance = Unset THEN r.read.tolerance ELSE r.tolerance,
     category  |-> CategoryOf(r.read.category, r.hint),
     reactor   |-> Flag(r.reactor, r.read.reactor),
     dhr       |-> r.read.dhr,
     loss      |-> IF r.parent = NULL THEN NoLoss(r.items)
                   ELSE LossHanded(version[r.parent].loss, r.items)]

(* What the managers want of the new version: what the request says, else  *)
(* what they wanted of the version it revises, as far as it applies.       *)
Wish(r) ==
    LET old == IF r.parent = NULL THEN Fresh(r.items) ELSE wanted[r.parent]
    IN  [Inserted(r) EXCEPT
           !.anchor = CASE r.anchor \in Materials -> r.anchor
                        [] r.anchor = Clear -> Unset
                        [] OTHER -> IF old.anchor \in r.items THEN old.anchor ELSE Unset,
           !.tolerance = IF r.tolerance \in Tolerances THEN r.tolerance ELSE old.tolerance,
           !.category  = IF old.category # Unset THEN old.category ELSE @,
           !.reactor   = IF r.reactor \in BOOLEAN THEN r.reactor ELSE old.reactor,
           !.dhr  = old.dhr,
           !.loss = [m \in r.items |-> IF m \in DOMAIN old.loss THEN old.loss[m] ELSE 0]]

MissedBy(r) ==
    IF r.parent = NULL THEN {}
    ELSE {s \in Settings \ {"loss"} :
            version[r.parent][s] # r.read[s] \/ s \in missed[r.parent]}

InsertImport ==
    /\ import # Unset
    /\ Cardinality(Ids) < MaxVersions
    /\ LET new == Cardinality(Ids) + 1
           add(f, v) == [i \in Ids \cup {new} |-> IF i = new THEN v ELSE f[i]]
       IN  /\ version' = add(version, Inserted(import))
           /\ wanted'  = add(wanted, Wish(import))
           /\ missed'  = add(missed, MissedBy(import))
    /\ import' = Unset
    /\ UNCHANGED <<about, edits>>

SettingsInit ==
    /\ about \in Settings
    /\ version = << >> /\ import = Unset /\ edits = 0
    /\ wanted = << >> /\ missed = << >>

SettingsNext ==
    \/ SetAnchor \/ SetTolerance \/ SetCategory \/ SetReactor \/ SetDhr \/ SetLoss
    \/ BeginImport \/ InsertImport

SettingsSpec == SettingsInit /\ [][SettingsNext]_settingsVars

(***************************************************************************)
(* Properties.                                                             *)
(***************************************************************************)
(* What managers decided about a recipe holds for its versions: through    *)
(* any number of revisions a setting has the value it was last given,      *)
(* unless it does not apply to the new items.  (A decision taken while a   *)
(* revision was being inserted is lost without a word: missed.)            *)
SettingsSurvive ==
    \A i \in Ids : \A s \in Settings \ missed[i] : version[i][s] = wanted[i][s]

(* The base material is one of the materials of the recipe.                *)
AnchorIsMember == \A i \in Ids : version[i].anchor \in version[i].items \cup {Unset}

(* All versions of a recipe are official or none is - except versions      *)
(* inserted while that was being changed.                                  *)
ChainIsOneKind ==
    \A i \in Ids : \A j \in Chain(version, i) :
        "dhr" \in missed[i] \cup missed[j] \/ version[i].dhr = version[j].dhr

(* What a manager decided about a recipe is in force for all its later     *)
(* versions until it is changed, the anchor is a material of the version,  *)
(* and a chain is official as a whole (recipe_import_routes.py,            *)
(* recipe_operator_routes.py).                                             *)
SettingsAreHandedOn == SettingsSurvive /\ AnchorIsMember /\ ChainIsOneKind
=============================================================================
