--------------------------- MODULE MaterialCodes ---------------------------
(***************************************************************************)
(* Names and item codes of materials and products (item_code_routes.py),   *)
(* and the code under which the usage of a recorded material is reported   *)
(* (blend_service.py, _resolve_erp_code).                                  *)
(*                                                                         *)
(* A name is <<key, spelling>>: normalize_token() yields the key, and two  *)
(* spellings of a key ("HEMA (Lotte)", "HEMA(Lotte)") also differ in lower *)
(* case.  One request runs at a time.  Which materials a recipe uses, and  *)
(* so which may be deleted, is left open, as is is_active.  Some names     *)
(* have the form of a code (Spells).                                       *)
(***************************************************************************)
EXTENDS Naturals, FiniteSets

CONSTANTS
    Materials,      \* ids a material may get
    Names,
    Codes,
    Products,       \* revision chains of recipes
    ProductName,    \* [Products -> Names]
    Erp,            \* [codes imported from the ERP -> their name]
    Spells,         \* [Names -> the code the name reads as, or NoCode]
    RMForm,         \* codes of the form _RM_CODE_RE
    ERPForm,        \* codes of the form _ERP_CODE_RE
    Lines           \* lines of saved records

NoCode == "no code"
NoLink == "no link"
Absent == [name |-> <<"-", 0>>, code |-> NoCode]
NoLine == [name |-> <<"-", 0>>, link |-> NoLink, stored |-> NoCode]

ASSUME CodesAssumption ==
    /\ NoCode \notin Codes /\ "none" \notin Codes
    /\ NoLink \notin Materials
    /\ Absent.name \notin Names /\ ProductName \in [Products -> Names]
    /\ Spells \in [Names -> Codes \cup {NoCode}]
    /\ RMForm \subseteq Codes /\ ERPForm \subseteq Codes

VARIABLES
    materials,      \* [Materials -> Absent or [name, code]]
    aliases,        \* <<material, name>>
    products,       \* recipes.product_code per chain
    master,         \* item_code_master: manual entries, [code -> name]; others are Erp
    rows,           \* blend_details: [Lines -> NoLine or [name, link, stored]]
    codeHistory     \* keys a rename took although another material had it;
                    \* materials that were renamed; codes a product ever had

codeVars == <<materials, aliases, products, master, rows, codeHistory>>

Key(name) == name[1]
Present   == {m \in Materials : materials[m] # Absent}
Name(m)   == materials[m].name
Code(m)   == materials[m].code

CodesInit ==
    /\ materials = [m \in Materials |-> Absent] /\ aliases = {}
    /\ products = [p \in Products |-> NoCode] /\ master = [c \in {} |-> Absent.name]
    /\ \E old \in SUBSET Lines, name \in Names,     \* lines of the previous system
          code \in [Lines -> Codes \cup {NoCode}] :
         rows = [r \in Lines |->
                   IF r \in old THEN [name |-> name, link |-> NoLink, stored |-> code[r]] ELSE NoLine]
    /\ codeHistory = [taken |-> {}, renamed |-> {}, given |-> {}]

(***************************************************************************)
(* The master list                                                         *)
(***************************************************************************)
(* _ensure_master_entry(): INSERT OR IGNORE                                *)
Ensured(list, c, name) ==
    IF c = NoCode \/ c \in DOMAIN list \/ c \in DOMAIN Erp THEN list
    ELSE [d \in DOMAIN list \cup {c} |-> IF d = c THEN name ELSE list[d]]

(* _refresh_manual_master_name()                                           *)
Refreshed(list, c, name) == [d \in DOMAIN list |-> IF d = c THEN name ELSE list[d]]

HeldIn(ms, c) ==
    (\E m \in Materials : ms[m] # Absent /\ ms[m].code = c) \/ (\E p \in Products : products[p] = c)

(* faulty variant: the entry is looked at before the code was taken away   *)
CleanedEarly(list, ms, c) == IF HeldIn(materials, c) THEN list
                             ELSE [d \in DOMAIN list \ {c} |-> list[d]]

(* _cleanup_orphan_master(): nothing holds the code any more.              *)
Cleaned(list, ms, c) ==
    IF HeldIn(ms, c) THEN list ELSE [d \in DOMAIN list \ {c} |-> list[d]]

(***************************************************************************)
(* Codes                                                                   *)
(***************************************************************************)
(* _product_code_holder(): a product of another name has the code.         *)
TakenByProduct(c, name) ==
    \E p \in Products : products[p] = c /\ Key(ProductName[p]) # Key(name)

(* _material_code_holder()                                                 *)
TakenByMaterial(c, name) == \E m \in Present : Code(m) = c /\ Key(Name(m)) # Key(name)

Others(m, c) == {o \in Present \ {m} : Code(o) = c}

(* The code is taken from the material that has it, and given to m.        *)
Moved(m, new, c) ==
    [o \in Materials |-> IF o = m THEN new
                         ELSE IF o \in Others(m, c) THEN [materials[o] EXCEPT !.code = NoCode]
                         ELSE materials[o]]

(* faulty variant: a move overrules a product, too                         *)
MayTake(m, name, c, force) ==
    (c # NoCode /\ ~ force) => ~ TakenByProduct(c, name) /\ Others(m, c) = {}

(* With a code: no product of another name has it, and no other material,  *)
(* unless it is to be moved.                                               *)
MayHave(m, name, c, force) ==
    c # NoCode => ~ TakenByProduct(c, name) /\ (Others(m, c) = {} \/ force)

MasterAfter(m, name, c) ==
    LET made == Ensured(master, c, name)
    IN  IF c # NoCode /\ Others(m, c) # {} THEN Refreshed(made, c, name) ELSE made

SetMaterialCode(m, c, force) ==
    /\ m \in Present /\ MayHave(m, Name(m), c, force)
    /\ materials' = Moved(m, [materials[m] EXCEPT !.code = c], IF c = NoCode THEN "none" ELSE c)
    /\ master' = LET list == MasterAfter(m, Name(m), c)
                 IN  IF Code(m) \notin {NoCode, c} THEN Cleaned(list, materials', Code(m)) ELSE list
    /\ UNCHANGED <<aliases, products, rows, codeHistory>>

(* The whole chain gets the code; one that a product of another name has   *)
(* is refused, and the code it had is not cleaned up.                      *)
SetProductCode(p, c) ==
    /\ c # NoCode => /\ ~ TakenByMaterial(c, ProductName[p])
                     /\ \A q \in Products \ {p} :
                          products[q] = c => ProductName[q] = ProductName[p]
    /\ products' = [products EXCEPT ![p] = c]
    /\ master' = Ensured(master, c, ProductName[p])
    /\ codeHistory' = [codeHistory EXCEPT !.given = @ \cup {c}]
    /\ UNCHANGED <<materials, aliases, rows>>

(***************************************************************************)
(* Names                                                                   *)
(***************************************************************************)
Called(key)  == {m \in Present : Key(Name(m)) = key}
Aliased(key) == {a[1] : a \in {b \in aliases : Key(b[2]) = key}}

CreateMaterial(m, name, c, force) ==
    /\ m \notin Present
    /\ Called(Key(name)) \cup Aliased(Key(name)) = {}
    /\ MayHave(m, name, c, force)
    /\ materials' = Moved(m, [Absent EXCEPT !.name = name, !.code = c], IF c = NoCode THEN "none" ELSE c)
    /\ master' = MasterAfter(m, name, c)
    /\ UNCHANGED <<aliases, products, rows, codeHistory>>

Loose(r, key) == rows[r] # NoLine /\ rows[r].link = NoLink /\ Key(rows[r].name) = key

(* faulty variants: only the lines with, or only those without a link      *)
RenamedLinked(m, name) ==
    [r \in Lines |-> IF rows[r].link = m THEN [rows[r] EXCEPT !.name = name] ELSE rows[r]]

RenamedLoose(m, name) ==
    [r \in Lines |-> IF Loose(r, Key(Name(m)))
                    THEN [rows[r] EXCEPT !.name = name, !.link = m] ELSE rows[r]]

(* The lines with a link get the new name, and those without one that have *)
(* the old name get both.                                                  *)
Renamed(m, name) ==
    [r \in Lines |-> IF rows[r].link = m \/ Loose(r, Key(Name(m)))
                    THEN [rows[r] EXCEPT !.name = name, !.link = m] ELSE rows[r]]

(* The names of other materials are compared as they are spelled, their    *)
(* aliases by key.                                                         *)
RenameMaterial(m, name) ==
    /\ m \in Present /\ name # Name(m)
    /\ \A o \in Present \ {m} : Name(o) # name
    /\ Aliased(Key(name)) \subseteq {m}
    /\ materials' = [materials EXCEPT ![m].name = name]
    /\ aliases' = {a \in aliases : ~ (a[1] = m /\ Key(a[2]) = Key(name))}
    /\ rows' = Renamed(m, name)
    /\ master' = Refreshed(master, Code(m), name)
    /\ codeHistory' = [codeHistory EXCEPT !.renamed = @ \cup {m},
                       !.taken = @ \cup IF Called(Key(name)) \ {m} = {} THEN {} ELSE {Key(name)}]
    /\ UNCHANGED products

(* No recipe uses it; its lines keep their names.                          *)
DeleteMaterial(m) ==
    /\ m \in Present
    /\ materials' = [materials EXCEPT ![m] = Absent]
    /\ aliases' = {a \in aliases : a[1] # m}
    /\ rows' = [r \in Lines |-> IF rows[r].link = m THEN [rows[r] EXCEPT !.link = NoLink] ELSE rows[r]]
    /\ master' = IF Code(m) = NoCode THEN master ELSE Cleaned(master, materials', Code(m))
    /\ codeHistory' = [codeHistory EXCEPT !.renamed = @ \ {m}]
    /\ UNCHANGED products

(* Lines of a spelling become lines of the material, those of no other.    *)
Absorbable(m, r, key) == Loose(r, key) \/ (rows[r].link = m /\ Key(rows[r].name) = key)

AbsorbName(m, name) ==
    /\ m \in Present
    /\ Called(Key(name)) \cup Aliased(Key(name)) \subseteq {m}
    /\ rows' = [r \in Lines |-> IF Absorbable(m, r, Key(name))
                               THEN [rows[r] EXCEPT !.name = Name(m), !.link = m] ELSE rows[r]]
    /\ aliases' = {a \in aliases : ~ (a[1] = m /\ Key(a[2]) = Key(name))}
    /\ UNCHANGED <<materials, products, master, codeHistory>>

(* faulty variant: names of materials are not looked at                    *)
AddAliasUnchecked(m, name) ==
    /\ m \in Present /\ Aliased(Key(name)) = {} /\ Key(Name(m)) # Key(name)
    /\ aliases' = aliases \cup {<<m, name>>}
    /\ UNCHANGED <<materials, products, master, rows, codeHistory>>

AddAlias(m, name) ==
    /\ m \in Present /\ Called(Key(name)) \cup Aliased(Key(name)) = {}
    /\ aliases' = aliases \cup {<<m, name>>}
    /\ UNCHANGED <<materials, products, master, rows, codeHistory>>

DeleteAlias(a) ==
    /\ aliases' = aliases \ {a}
    /\ UNCHANGED <<materials, products, master, rows, codeHistory>>

(***************************************************************************)
(* Lines                                                                   *)
(***************************************************************************)
(* A blend of a recipe is saved or corrected: its lines are matched by     *)
(* name, and get the id of the recipe's material and its code.             *)
SaveRow(r, m) ==
    /\ m \in Present /\ (rows[r] = NoLine \/ rows[r].name = Name(m))
    /\ rows' = [rows EXCEPT ![r] = [name |-> Name(m), link |-> m, stored |-> Code(m)]]
    /\ UNCHANGED <<materials, aliases, products, master, codeHistory>>

(* resolve_stored_material_code() for a line without an id: the code of    *)
(* the active material called so, or of one with that alias, else none.    *)
StoredCodes(name) ==
    LET aliased == {a[1] : a \in {b \in aliases : b[2] = name}}
        named   == {m \in Present : Name(m) = name}
    IN  {Code(m) : m \in named \cup aliased} \cup {c \in {NoCode} : aliased = {}}

(* A record without a recipe is corrected: the screen sends names, and     *)
(* neither the id nor the code that the line had.                          *)
TypeRow(r, name) ==
    /\ rows[r] = NoLine \/ rows[r].name = name
    /\ \E c \in StoredCodes(name) :
         rows' = [rows EXCEPT ![r] = [name |-> name, link |-> NoLink, stored |-> c]]
    /\ UNCHANGED <<materials, aliases, products, master, codeHistory>>

(* The record is deleted, or corrected without the line.                   *)
DropRow(r) ==
    /\ rows' = [rows EXCEPT ![r] = NoLine]
    /\ UNCHANGED <<materials, aliases, products, master, codeHistory>>

CodesNext ==
    \/ \E m \in Materials :
         \/ \E c \in Codes \cup {NoCode}, force \in BOOLEAN :
              SetMaterialCode(m, c, force) \/ \E n \in Names : CreateMaterial(m, n, c, force)
         \/ \E n \in Names : RenameMaterial(m, n) \/ AbsorbName(m, n) \/ AddAlias(m, n)
         \/ DeleteMaterial(m)
         \/ \E r \in Lines : SaveRow(r, m)
    \/ \E r \in Lines : DropRow(r) \/ \E n \in Names : TypeRow(r, n)
    \/ \E p \in Products, c \in Codes \cup {NoCode} : SetProductCode(p, c)
    \/ \E a \in aliases : DeleteAlias(a)
CodesSpec == CodesInit /\ [][CodesNext]_codeVars

(***************************************************************************)
(* The code of a line                                                      *)
(***************************************************************************)
(* _material_code_map(), _alias_code_map(): the codes a name leads to.     *)
ByName(name)  == {Code(m) : m \in Called(Key(name))} \ {NoCode}
ByAlias(name) == {Code(m) : m \in Aliased(Key(name))} \ {NoCode}

(* Lines of one name and one stored code are one group; any code one of    *)
(* them is linked to.                                                      *)
Linked(r) ==
    {Code(rows[s].link) : s \in {q \in Lines : /\ rows[q].link # NoLink
                                             /\ rows[q].name = rows[r].name
                                             /\ rows[q].stored = rows[r].stored}} \ {NoCode}

(* _resolve_erp_code(), stages 1 to 3: the codes that managers gave; the   *)
(* link, then the name, then an alias.                                     *)
Trusted(r) ==
    CASE Linked(r) # {} -> Linked(r)
      [] Linked(r) = {} /\ ByName(rows[r].name) # {} -> ByName(rows[r].name)
      [] OTHER -> ByAlias(rows[r].name)

(* _erp_code_map(): an alias of the material that is called so, if it      *)
(* reads as a code; those that begin with RM come first.                   *)
LegacyCodes(name) == {Spells[a[2]] : a \in {b \in aliases : Name(b[1]) = name}} \ {NoCode}

(* Stages 4 to 8: what reads as a code; the first that finds something.    *)
Guesses(r) ==
    LET name == rows[r].name  stored == rows[r].stored
    IN  << LegacyCodes(name) \cap RMForm, {stored} \cap RMForm, {Spells[name]} \cap RMForm,
           {stored} \cap ERPForm, LegacyCodes(name) \cap ERPForm >>

FirstOf(choices) ==
    LET found == {i \in DOMAIN choices : choices[i] # {}}
    IN  IF found = {} THEN {} ELSE choices[CHOOSE i \in found : \A j \in found : i <= j]

(* The codes under which a line may be reported, none for "".              *)
Resolved(r) == IF Trusted(r) # {} THEN Trusted(r) ELSE FirstOf(Guesses(r))

(***************************************************************************)
(* Properties                                                              *)
(***************************************************************************)
(* A key names one material, by its name or by an alias (item_code_routes  *)
(* 741-782, 1313-1336), except where a rename spelled the name of another  *)
(* material differently.                                                   *)
OneMaterialPerKey ==
    \A key \in {Key(n) : n \in Names} \ codeHistory.taken :
        Cardinality(Called(key) \cup Aliased(key)) <= 1

(* The usage of a name is reported under one code: the lines that share a  *)
(* name are never linked to two materials.                                 *)
OneCodePerName ==
    \A r, s \in Lines :
        (rows[r].link # NoLink /\ rows[s].link # NoLink /\ rows[r].name = rows[s].name)
            => rows[r].link = rows[s].link

(* A code is never that of a material and of a product of another name,    *)
(* unless the material was renamed since.                                  *)
OneOwnerOfCode ==
    \A m \in Present \ codeHistory.renamed, p \in Products :
        (Code(m) # NoCode /\ products[p] = Code(m)) => Key(Name(m)) = Key(ProductName[p])

(* A manual entry of the master list is held, unless a product had it.     *)
NoGhostCode == \A c \in DOMAIN master \ codeHistory.given : HeldIn(materials, c)

(* Work on names alone (rename, absorb, alias) and corrections never move  *)
(* a recorded line from one code that managers gave to another, and only   *)
(* the removal of an alias takes it.  A code that was guessed from what is *)
(* written gives way to a given one.                                       *)
NamesKeepCodesNow ==
    (/\ codeHistory'.taken = {} /\ products' = products
     /\ [m \in Materials |-> Code(m)] = [m \in Materials |-> materials'[m].code]
     /\ aliases \ aliases' = {} \/ <<rows, materials>>' # <<rows, materials>>)
    => \A r \in Lines : (rows[r] # NoLine /\ rows'[r] # NoLine /\ Trusted(r) # {}) =>
           Resolved(r)' = Resolved(r)
NamesKeepCodes == [][NamesKeepCodesNow]_codeVars

(* "Giving and moving a code apply to past records, too" (docs/            *)
(* dashboards-insight-public-flows.md 193): when a code moves to another   *)
(* material, no line of the material that had it is reported under it.     *)
LinesFollowTheMove ==
    [][\A m, o \in Present, r \in Lines :
         (/\ m # o /\ Code(m) # NoCode /\ materials'[o].code = Code(m)
          /\ rows[r].link = m) => Code(m) \notin Resolved(r)']_codeVars

(* A name leads to one material, one code and one owner, a manual entry of *)
(* the item master is held by somebody, and work on names alone never      *)
(* moves a recorded line to another code (item_code_routes.py).            *)
CodesAreUnique ==
    [][/\ NamesKeepCodesNow
       /\ (OneMaterialPerKey /\ OneCodePerName /\ OneOwnerOfCode /\ NoGhostCode)']_codeVars
=============================================================================
