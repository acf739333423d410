----------------------- MODULE RecipeVersionsProofs ------------------------
(***************************************************************************)
(* Proofs about RecipeVersions, for any number of managers, recipes,       *)
(* reactors and rows, and about RecipeSettings, for any settings.          *)
(***************************************************************************)
EXTENDS RecipeVersions, RecipeSettings, WellFoundedInduction, FiniteSetTheorems, TLAPS

(***************************************************************************)
(* Induction over the numbers.  The order of the numbers as a set of pairs *)
(* is well-founded, so a set of numbers has a least one.                   *)
(***************************************************************************)
Less == {ss \in Nat \X Nat : ss[1] < ss[2]}

LEMMA LessWF == IsWellFoundedOn(Less, Nat)
  BY NatLessThanWellFounded DEF OpToRel, Less

LEMMA LessIs == \A x, y \in Nat : <<x, y>> \in Less <=> x < y
  BY DEF Less

LEMMA LeastNat ==
  ASSUME NEW T \in SUBSET Nat, T # {} PROVE \E n \in T : \A m \in T : n <= m
<1>1. PICK x \in T : \A y \in T : ~ (<<y, x>> \in Less)
  BY LessWF, WFMin
<1>2. \A y \in T : ~ (y < x)
  BY <1>1, LessIs
<1>3. \A y \in T : x <= y
  BY <1>2
<1> QED
  BY <1>3

(* Induction, on the set of the numbers for which something holds.         *)
LEMMA AllNats ==
  ASSUME NEW T, 0 \in T, \A n \in Nat : n \in T => n + 1 \in T PROVE Nat \subseteq T
<1> SUFFICES ASSUME Nat \ T # {} PROVE FALSE
  OBVIOUS
<1>1. PICK n \in Nat \ T : \A m \in Nat \ T : n <= m
  BY LeastNat
<1>2. n # 0 /\ n - 1 \in Nat /\ n - 1 \notin Nat \ T
  BY <1>1
<1> QED
  BY <1>1, <1>2

(* A finite set of numbers with a member has a greatest and a least one.   *)
LEMMA MaxIs ==
  ASSUME NEW S \in SUBSET Nat, NEW n \in S, \A m \in S : m <= n PROVE Max(S) = n
<1>1. Max(S) = CHOOSE x \in S : \A y \in S : x >= y
  BY DEF Max
<1>2. \A x \in S : (\A y \in S : x >= y) => x = n
  OBVIOUS
<1>3. \A y \in S : n >= y
  OBVIOUS
<1> QED
  BY <1>1, <1>2, <1>3

LEMMA MinIs ==
  ASSUME NEW S \in SUBSET Nat, S # {} PROVE Min(S) \in S
<1>1. PICK n \in S : \A m \in S : n <= m
  BY LeastNat
<1> QED
  BY <1>1 DEF Min

LEMMA MaxIn ==
  ASSUME NEW n \in Nat, NEW S \in SUBSET (1..n), S # {}
  PROVE  Max(S) \in S /\ \A m \in S : m <= Max(S)
<1> DEFINE T == {k \in Nat : \A m \in S : m <= k}
<1>1. n \in T
  OBVIOUS
<1>2. PICK k \in T : \A j \in T : k <= j
  BY <1>1, LeastNat
<1>3. k \in S
  <2> SUFFICES ASSUME k \notin S PROVE FALSE
    OBVIOUS
  <2>1. \A m \in S : m \in Nat /\ m <= k /\ m # k /\ m # 0
    BY <1>2
  <2>2. k # 0
    <3>1. PICK m \in S : TRUE
      OBVIOUS
    <3>2. k \in Nat /\ m \in Nat /\ m <= k /\ m # 0
      BY <2>1
    <3> QED
      BY <3>2
  <2>3. k - 1 \in Nat /\ \A m \in S : m <= k - 1
    <3> HIDE DEF T
    <3>1. k \in Nat
      BY DEF T
    <3> QED
      BY <2>1, <2>2, <3>1
  <2>4. k - 1 \in T /\ ~ (k <= k - 1)
    BY <2>3
  <2> QED
    BY <1>2, <2>4
<1> QED
  BY <1>2, <1>3, MaxIs

(***************************************************************************)
(* The walk along a link.  Its steps are defined by recursion; they exist, *)
(* because each prefix of them exists and no two prefixes disagree.        *)
(***************************************************************************)
Grown(S, link)     == S \cup {link[j] : j \in S \cap DOMAIN link}
Closed(S, link)    == \A j \in S \cap DOMAIN link : link[j] \in S
Steps(f, N, i, link) ==
    /\ f = [n \in N |-> f[n]]
    /\ \A n \in N : f[n] = IF n = 0 THEN {i} ELSE Grown(f[n - 1], link)
Upwards(i, link) ==
    LET upTo[n \in Nat] ==
          IF n = 0 THEN {i}
          ELSE upTo[n - 1] \cup {link[j] : j \in upTo[n - 1] \cap DOMAIN link}
    IN  upTo

LEMMA StepsAgree ==
  ASSUME NEW i, NEW link, NEW m \in Nat, NEW n \in Nat, m <= n,
         NEW f, Steps(f, 0..m, i, link), NEW g, Steps(g, 0..n, i, link)
  PROVE  \A k \in 0..m : f[k] = g[k]
<1> DEFINE T == {k \in Nat : k <= m => f[k] = g[k]}
<1>1. 0 \in T
  <2>1. 0 \in 0..m /\ 0 \in 0..n
    OBVIOUS
  <2>2. f[0] = {i} /\ g[0] = {i}
    BY <2>1 DEF Steps
  <2> QED
    BY <2>2
<1>2. ASSUME NEW k \in Nat, k \in T PROVE k + 1 \in T
  <2> SUFFICES ASSUME k + 1 <= m PROVE f[k + 1] = g[k + 1]
    OBVIOUS
  <2>1. f[k] = g[k] /\ k + 1 \in 0..m /\ k + 1 \in 0..n /\ k + 1 # 0 /\ (k + 1) - 1 = k
    BY <1>2
  <2>2. f[k + 1] = Grown(f[(k + 1) - 1], link) /\ g[k + 1] = Grown(g[(k + 1) - 1], link)
    BY <2>1 DEF Steps
  <2> QED
    BY <2>1, <2>2
<1>3. Nat \subseteq T
  <2> HIDE DEF T
  <2> QED BY <1>1, <1>2, AllNats
<1> QED
  BY <1>3

LEMMA StepsExist ==
  ASSUME NEW i, NEW link
  PROVE  \A n \in Nat : \E f : Steps(f, 0..n, i, link)
<1> DEFINE T == {n \in Nat : \E f : Steps(f, 0..n, i, link)}
<1>1. 0 \in T
  <2>1. Steps([k \in 0..0 |-> {i}], 0..0, i, link)
    BY DEF Steps
  <2> QED
    BY <2>1
<1>2. ASSUME NEW n \in Nat, n \in T PROVE n + 1 \in T
  <2>1. PICK f : Steps(f, 0..n, i, link)
    BY <1>2
  <2> DEFINE g == [k \in 0..(n + 1) |-> IF k = n + 1 THEN Grown(f[n], link) ELSE f[k]]
  <2>2. g = [k \in 0..(n + 1) |-> g[k]]
    OBVIOUS
  <2>3. ASSUME NEW k \in 0..(n + 1)
        PROVE g[k] = IF k = 0 THEN {i} ELSE Grown(g[k - 1], link)
    <3>1. CASE k = n + 1
      <4>1. k # 0 /\ k - 1 = n /\ n \in 0..(n + 1) /\ n # n + 1
        BY <3>1
      <4> QED
        BY <3>1, <4>1
    <3>2. CASE k # n + 1
      <4>1. k \in 0..n /\ (k # 0 => k - 1 \in 0..(n + 1) /\ k - 1 # n + 1)
        BY <3>2
      <4>2. f[k] = IF k = 0 THEN {i} ELSE Grown(f[k - 1], link)
        BY <2>1, <4>1 DEF Steps
      <4> QED
        BY <3>2, <4>1, <4>2
    <3> QED
      BY <3>1, <3>2
  <2>4. Steps(g, 0..(n + 1), i, link)
    <3> HIDE DEF g
    <3> QED BY <2>2, <2>3 DEF Steps
  <2> QED
    BY <2>4
<1>3. Nat \subseteq T
  <2> HIDE DEF T
  <2> QED BY <1>1, <1>2, AllNats
<1> QED
  BY <1>3

LEMMA UpwardsIs ==
  ASSUME NEW i, NEW link PROVE Steps(Upwards(i, link), Nat, i, link)
<1> DEFINE pre(n) == CHOOSE f : Steps(f, 0..n, i, link)
           h == [n \in Nat |-> pre(n)[n]]
<1>1. \A n \in Nat : Steps(pre(n), 0..n, i, link)
  BY StepsExist
<1>2. ASSUME NEW n \in Nat PROVE h[n] = IF n = 0 THEN {i} ELSE Grown(h[n - 1], link)
  <2>1. CASE n = 0
    <3>1. Steps(pre(0), 0..0, i, link) /\ 0 \in 0..0
      BY <1>1
    <3> HIDE DEF pre
    <3>2. pre(0)[0] = {i}
      BY <3>1 DEF Steps
    <3> QED
      BY <2>1, <3>2
  <2>2. CASE n # 0
    <3>1. n - 1 \in Nat /\ n - 1 <= n /\ n - 1 \in 0..(n - 1) /\ n \in 0..n
      BY <2>2
    <3>2. Steps(pre(n), 0..n, i, link) /\ Steps(pre(n - 1), 0..(n - 1), i, link)
      BY <1>1, <3>1
    <3> HIDE DEF pre
    <3>3. pre(n - 1)[n - 1] = pre(n)[n - 1]
      BY <3>1, <3>2, StepsAgree
    <3>4. pre(n)[n] = Grown(pre(n)[n - 1], link)
      BY <2>2, <3>1, <3>2 DEF Steps
    <3> QED
      BY <2>2, <3>1, <3>3, <3>4
  <2> QED
    BY <2>1, <2>2
<1>3. h = [n \in Nat |-> IF n = 0 THEN {i}
                         ELSE h[n - 1] \cup {link[j] : j \in h[n - 1] \cap DOMAIN link}]
  <2>1. h = [n \in Nat |-> h[n]]
    OBVIOUS
  <2> HIDE DEF h
  <2> QED BY <1>2, <2>1 DEF Grown
<1> HIDE DEF h
<1>4. Upwards(i, link) = [n \in Nat |-> IF n = 0 THEN {i}
          ELSE Upwards(i, link)[n - 1] \cup {link[j] : j \in Upwards(i, link)[n - 1] \cap DOMAIN link}]
  BY <1>3 DEF Upwards
<1> QED
  BY <1>4 DEF Steps, Grown

LEMMA WalkIsUpwards ==
  ASSUME NEW i, NEW link PROVE Walk(i, link) = Upwards(i, link)[Cardinality(DOMAIN link)]
  BY DEF Walk, Upwards

(* The walk starts at i, goes on as long as there is a row, and meets      *)
(* nothing else.                                                           *)
LEMMA WalkIs ==
  ASSUME NEW i, NEW link, IsFiniteSet(DOMAIN link)
  PROVE  /\ i \in Walk(i, link)
         /\ Closed(Walk(i, link), link)
         /\ \A S : i \in S /\ Closed(S, link) => Walk(i, link) \subseteq S
<1> DEFINE up == Upwards(i, link)
           D  == DOMAIN link
           N  == Cardinality(D)
<1>1. up[0] = {i} /\ \A n \in Nat : up[n + 1] = Grown(up[n], link)
  <2>1. \A n \in Nat : up[n] = IF n = 0 THEN {i} ELSE Grown(up[n - 1], link)
    BY UpwardsIs DEF Steps
  <2> HIDE DEF up
  <2>2. ASSUME NEW n \in Nat PROVE n + 1 \in Nat /\ n + 1 # 0 /\ (n + 1) - 1 = n
    OBVIOUS
  <2> QED
    BY <2>1, <2>2
<1>2. N \in Nat /\ Walk(i, link) = up[N]
  BY WalkIsUpwards, FS_CardinalityType
<1> HIDE DEF up
<1>3. \A n \in Nat : i \in up[n]
  <2> DEFINE T == {n \in Nat : i \in up[n]}
  <2>1. 0 \in T /\ \A n \in Nat : n \in T => n + 1 \in T
    BY <1>1 DEF Grown
  <2> HIDE DEF T
  <2>2. Nat \subseteq T
    BY <2>1, AllNats
  <2> QED
    BY <2>2 DEF T
<1>4. ASSUME NEW S, i \in S, Closed(S, link) PROVE \A n \in Nat : up[n] \subseteq S
  <2> DEFINE T == {n \in Nat : up[n] \subseteq S}
  <2>1. 0 \in T /\ \A n \in Nat : n \in T => n + 1 \in T
    BY <1>1, <1>4 DEF Grown, Closed
  <2> HIDE DEF T
  <2>2. Nat \subseteq T
    BY <2>1, AllNats
  <2> QED
    BY <2>2 DEF T
(* A set that is not closed yet has met one more row than it took steps.   *)
<1>5. \A n \in Nat : Closed(up[n], link) \/ Cardinality(up[n] \cap D) >= n + 1
  <2> DEFINE T == {n \in Nat : Closed(up[n], link) \/ Cardinality(up[n] \cap D) >= n + 1}
  <2>1. 0 \in T
    <3>1. CASE i \in D
      <4>1. up[0] \cap D = {i}
        BY <1>1, <3>1
      <4>2. Cardinality({i}) = 1
        BY FS_Singleton
      <4> QED
        BY <4>1, <4>2
    <3>2. CASE i \notin D
      BY <1>1, <3>2 DEF Closed
    <3> QED
      BY <3>1, <3>2
  <2>2. ASSUME NEW n \in Nat, n \in T PROVE n + 1 \in T
    <3>1. up[n + 1] = Grown(up[n], link)
      BY <1>1
    <3>2. CASE Closed(up[n], link)
      <4>1. up[n + 1] = up[n]
        BY <3>1, <3>2 DEF Grown, Closed
      <4> QED
        BY <3>2, <4>1
    <3>3. CASE up[n + 1] \cap D = up[n] \cap D
      <4>1. Closed(up[n + 1], link)
        BY <3>1, <3>3 DEF Grown, Closed
      <4> QED
        BY <4>1
    <3>4. CASE ~ Closed(up[n], link) /\ up[n + 1] \cap D # up[n] \cap D
      <4> DEFINE A == up[n] \cap D
                 B == up[n + 1] \cap D
      <4>1. A \subseteq B /\ A # B
        BY <3>1, <3>4 DEF Grown
      <4>2. IsFiniteSet(B)
        BY FS_Subset
      <4>3. IsFiniteSet(A) /\ Cardinality(A) <= Cardinality(B)
            /\ Cardinality(A) # Cardinality(B)
        <5> HIDE DEF A, B
        <5> QED BY <4>1, <4>2, FS_Subset
      <4>4. Cardinality(A) >= n + 1
        BY <2>2, <3>4
      <4>5. Cardinality(A) \in Nat /\ Cardinality(B) \in Nat
        BY <4>2, <4>3, FS_CardinalityType
      <4> HIDE DEF A, B
      <4>6. Cardinality(B) >= (n + 1) + 1
        BY <4>3, <4>4, <4>5
      <4> QED
        BY <4>6 DEF B
    <3> QED
      BY <3>2, <3>3, <3>4
  <2> HIDE DEF T
  <2>3. Nat \subseteq T
    BY <2>1, <2>2, AllNats
  <2> QED
    BY <2>3 DEF T
<1>6. Closed(up[N], link)
  <2>1. Cardinality(up[N] \cap D) <= N
    BY FS_Subset
  <2>2. Cardinality(up[N] \cap D) \in Nat
    BY FS_Subset, FS_CardinalityType
  <2> HIDE DEF N
  <2> QED
    BY <1>2, <1>5, <2>1, <2>2
<1> QED
  BY <1>2, <1>3, <1>4, <1>6

LEMMA WalkOn ==
  ASSUME NEW i, NEW link, IsFiniteSet(DOMAIN link), NEW j \in Walk(i, link)
  PROVE  Walk(j, link) \subseteq Walk(i, link)
  BY WalkIs

LEMMA WalkStep ==
  ASSUME NEW link, IsFiniteSet(DOMAIN link), NEW j
  PROVE  Walk(j, link) = {j} \cup (IF j \in DOMAIN link THEN Walk(link[j], link) ELSE {})
<1>1. CASE j \in DOMAIN link
  <2> DEFINE S == {j} \cup Walk(link[j], link)
  <2>1. Closed(S, link) /\ j \in S
    BY <1>1, WalkIs DEF Closed
  <2>2. Walk(j, link) \subseteq S
    <3> HIDE DEF S
    <3> QED BY <2>1, WalkIs
  <2>3. link[j] \in Walk(j, link) /\ j \in Walk(j, link)
    BY <1>1, WalkIs DEF Closed
  <2>4. Walk(link[j], link) \subseteq Walk(j, link)
    BY <2>3, WalkOn
  <2> QED
    BY <1>1, <2>2, <2>3, <2>4
<1>2. CASE j \notin DOMAIN link
  <2>1. Closed({j}, link) /\ j \in {j}
    BY <1>2 DEF Closed
  <2>2. Walk(j, link) \subseteq {j} /\ j \in Walk(j, link)
    BY <2>1, WalkIs
  <2> QED
    BY <1>2, <2>2
<1> QED
  BY <1>1, <1>2

(* Of two ids on one walk one is met from the other.                       *)
LEMMA WalkIsLine ==
  ASSUME NEW i, NEW link, IsFiniteSet(DOMAIN link),
         NEW j \in Walk(i, link), NEW k \in Walk(i, link)
  PROVE  k \in Walk(j, link) \/ j \in Walk(k, link)
<1> DEFINE S == {n \in Walk(i, link) : j \in Walk(n, link)} \cup Walk(j, link)
<1>1. i \in S
  BY WalkIs
<1>2. ASSUME NEW n \in S \cap DOMAIN link PROVE link[n] \in S
  <2>1. CASE n \in Walk(j, link)
    BY <2>1, WalkIs DEF Closed
  <2>2. CASE n \in Walk(i, link) /\ j \in Walk(n, link) /\ n # j
    <3>1. j \in Walk(link[n], link)
      BY <2>2, WalkStep
    <3>2. link[n] \in Walk(i, link)
      BY <2>2, WalkIs DEF Closed
    <3> QED
      BY <3>1, <3>2
  <2>3. n = j => n \in Walk(j, link)
    BY WalkIs
  <2> QED
    BY <2>1, <2>2, <2>3
<1>3. Walk(i, link) \subseteq S
  <2> HIDE DEF S
  <2>1. Closed(S, link)
    BY <1>2 DEF Closed
  <2> QED
    BY <1>1, <2>1, WalkIs
<1> QED
  BY <1>3

(* A walk is the same along a link that is the same where the walk goes.   *)
Alike(S, link, other) ==
    \A j \in S : /\ j \in DOMAIN link <=> j \in DOMAIN other
                 /\ j \in DOMAIN link => link[j] = other[j]

LEMMA WalkSame ==
  ASSUME NEW i, NEW link, NEW other, IsFiniteSet(DOMAIN link), IsFiniteSet(DOMAIN other),
         Alike(Walk(i, link), link, other)
  PROVE  Walk(i, other) = Walk(i, link)
<1>1. i \in Walk(i, link) /\ Closed(Walk(i, link), other)
  BY WalkIs DEF Alike, Closed
<1>2. Walk(i, other) \subseteq Walk(i, link)
  BY <1>1, WalkIs
<1>3. i \in Walk(i, other) /\ Closed(Walk(i, other), link)
  BY <1>2, WalkIs DEF Alike, Closed
<1>4. Walk(i, link) \subseteq Walk(i, other)
  BY <1>3, WalkIs
<1> QED
  BY <1>2, <1>4

LEMMA WalkWithin ==
  ASSUME NEW link, IsFiniteSet(DOMAIN link), NEW S, \A j \in DOMAIN link : link[j] \in S,
         NEW i \in S
  PROVE  Walk(i, link) \subseteq S
<1>1. Closed(S, link)
  BY DEF Closed
<1> QED
  BY <1>1, WalkIs

(***************************************************************************)
(* The lines of a table of recipes.                                        *)
(***************************************************************************)
Parents(R) == [j \in DOMAIN R |-> R[j].parent]
Stages(R)  == [j \in DOMAIN R |-> R[j].stage1]
Row(n)     == [parent : 0..n, canceled : BOOLEAN, pinned : BOOLEAN, stage1 : 0..n]
Table(R, n) ==
    /\ n \in Nat /\ DOMAIN R \subseteq 1..n
    /\ \A i \in DOMAIN R : R[i] \in Row(n) /\ R[i].parent < i

(* Of a table only this matters to its lines.                              *)
Lineage(R, n) ==
    /\ n \in Nat /\ DOMAIN R \subseteq 1..n
    /\ \A i \in DOMAIN R : R[i].parent \in 0..n /\ R[i].parent < i

LEMMA TablesAreLineages == ASSUME NEW R, NEW n, Table(R, n) PROVE Lineage(R, n)
  BY DEF Table, Row, Lineage

LEMMA LinksFinite ==
  ASSUME NEW R, NEW n, Lineage(R, n)
  PROVE  /\ IsFiniteSet(DOMAIN R)
         /\ DOMAIN Parents(R) = DOMAIN R /\ DOMAIN Stages(R) = DOMAIN R
         /\ NULL \notin DOMAIN R
<1>1. IsFiniteSet(1..n)
  BY FS_Interval DEF Lineage
<1>2. IsFiniteSet(DOMAIN R)
  BY <1>1, FS_Subset DEF Lineage
<1> QED
  BY <1>2 DEF Parents, Stages, Lineage, NULL

LEMMA LinksAreFinite ==
  ASSUME NEW R, NEW n, Table(R, n)
  PROVE  /\ IsFiniteSet(DOMAIN R)
         /\ DOMAIN Parents(R) = DOMAIN R /\ DOMAIN Stages(R) = DOMAIN R
         /\ NULL \notin DOMAIN R
  BY TablesAreLineages, LinksFinite

LEMMA LinesOf ==
  ASSUME NEW R, NEW n, Lineage(R, n), NEW i
  PROVE  /\ Line(R, i) = Walk(i, Parents(R))
         /\ i \in Line(R, i)
         /\ \A j \in Line(R, i) \cap DOMAIN R : R[j].parent \in Line(R, i)
         /\ \A j \in Line(R, i) : Line(R, j) \subseteq Line(R, i)
         /\ \A j \in Line(R, i) : \A k \in Line(R, i) : k \in Line(R, j) \/ j \in Line(R, k)
         /\ Line(R, i) = {i} \cup (IF i \in DOMAIN R THEN Line(R, R[i].parent) ELSE {})
         /\ i \in 0..n => Line(R, i) \subseteq 0..n
         /\ i \in 0..n => \A j \in Line(R, i) : j <= i
<1>1. \A j : Line(R, j) = Walk(j, Parents(R))
  BY DEF Line, Parents
<1>2. IsFiniteSet(DOMAIN Parents(R)) /\ DOMAIN Parents(R) = DOMAIN R
  BY LinksFinite
<1>3. \A j \in DOMAIN R : Parents(R)[j] = R[j].parent
  BY DEF Parents
<1>4. i \in Line(R, i) /\ \A j \in Line(R, i) \cap DOMAIN R : R[j].parent \in Line(R, i)
  BY <1>1, <1>2, <1>3, WalkIs DEF Closed
<1>5. \A j \in Line(R, i) : Line(R, j) \subseteq Line(R, i)
  BY <1>1, <1>2, WalkOn
<1>6. \A j \in Line(R, i) : \A k \in Line(R, i) : k \in Line(R, j) \/ j \in Line(R, k)
  BY <1>1, <1>2, WalkIsLine
<1>7. Line(R, i) = {i} \cup (IF i \in DOMAIN R THEN Line(R, R[i].parent) ELSE {})
  BY <1>1, <1>2, <1>3, WalkStep
<1>8. i \in 0..n => Line(R, i) \subseteq 0..i
  <2> SUFFICES ASSUME i \in 0..n PROVE Line(R, i) \subseteq 0..i
    OBVIOUS
  <2>1. i \in 0..i /\ i \in Nat /\ n \in Nat
    BY DEF Lineage
  <2>2. ASSUME NEW j \in (0..i) \cap DOMAIN R PROVE R[j].parent \in 0..i
    <3>1. R[j].parent \in 0..n /\ R[j].parent < j
      BY DEF Lineage
    <3> QED
      BY <2>1, <3>1
  <2>3. Closed(0..i, Parents(R))
    BY <1>2, <1>3, <2>2 DEF Closed
  <2> QED
    BY <1>1, <1>2, <2>1, <2>3, WalkIs
<1>9. i \in 0..n => Line(R, i) \subseteq 0..n /\ \A j \in Line(R, i) : j <= i
  <2> SUFFICES ASSUME i \in 0..n PROVE Line(R, i) \subseteq 0..n /\ \A j \in Line(R, i) : j <= i
    OBVIOUS
  <2>1. \A j \in 0..i : j \in 0..n /\ j <= i
    BY DEF Lineage
  <2> QED
    BY <1>8, <2>1
<1> QED
  BY <1>1, <1>4, <1>5, <1>6, <1>7, <1>9

LEMMA LineIs ==
  ASSUME NEW R, NEW n, Table(R, n), NEW i
  PROVE  /\ Line(R, i) = Walk(i, Parents(R))
         /\ i \in Line(R, i)
         /\ \A j \in Line(R, i) \cap DOMAIN R : R[j].parent \in Line(R, i)
         /\ \A j \in Line(R, i) : Line(R, j) \subseteq Line(R, i)
         /\ \A j \in Line(R, i) : \A k \in Line(R, i) : k \in Line(R, j) \/ j \in Line(R, k)
         /\ Line(R, i) = {i} \cup (IF i \in DOMAIN R THEN Line(R, R[i].parent) ELSE {})
         /\ i \in 0..n => Line(R, i) \subseteq 0..n
         /\ i \in 0..n => \A j \in Line(R, i) : j <= i
  BY TablesAreLineages, LinesOf

(* A line that reaches NULL has a row for each of its ids, and one root.   *)
LEMMA RootOf ==
  ASSUME NEW R, NEW n, Lineage(R, n), NEW i \in DOMAIN R, NULL \in Line(R, i)
  PROVE  /\ Line(R, i) \ {NULL} \subseteq DOMAIN R
         /\ FindChainRoot(R, i) \in Line(R, i) \cap DOMAIN R
         /\ R[FindChainRoot(R, i)].parent = NULL
         /\ \A j \in Line(R, i) \cap DOMAIN R : R[j].parent = NULL => j = FindChainRoot(R, i)
<1>1. NULL \notin DOMAIN R /\ i # NULL
  BY LinksFinite
<1>2. Line(R, NULL) = {NULL}
  BY <1>1, LinesOf
<1>3. ASSUME NEW k \in Line(R, i), k # NULL PROVE k \in DOMAIN R
  <2> SUFFICES ASSUME k \notin DOMAIN R PROVE FALSE
    OBVIOUS
  <2>1. Line(R, k) = {k}
    BY LinesOf
  <2>2. NULL \in Line(R, k) \/ k \in Line(R, NULL)
    BY LinesOf
  <2> QED
    BY <1>2, <1>3, <2>1, <2>2
<1>4. \E j \in Line(R, i) \ {NULL} : R[j].parent = NULL
  <2> SUFFICES ASSUME \A j \in Line(R, i) \ {NULL} : R[j].parent # NULL PROVE FALSE
    OBVIOUS
  <2> DEFINE S == Line(R, i) \ {NULL}
  <2>1. i \in S /\ \A j \in S \cap DOMAIN R : R[j].parent \in S
    BY <1>1, LinesOf
  <2>2. Closed(S, Parents(R))
    BY <2>1, LinksFinite DEF Closed, Parents
  <2>3. Line(R, i) \subseteq S
    <3> HIDE DEF S
    <3>1. Line(R, i) = Walk(i, Parents(R)) /\ IsFiniteSet(DOMAIN Parents(R))
      BY LinesOf, LinksFinite
    <3> QED BY <2>1, <2>2, <3>1, WalkIs
  <2> QED
    BY <2>3
<1>5. ASSUME NEW j \in Line(R, i) \cap DOMAIN R, R[j].parent = NULL,
             NEW k \in Line(R, i) \cap DOMAIN R, R[k].parent = NULL
      PROVE  j = k
  <2>1. Line(R, j) = {j, NULL} /\ Line(R, k) = {k, NULL}
    BY <1>2, <1>5, LinesOf
  <2>2. k \in Line(R, j) \/ j \in Line(R, k)
    BY LinesOf
  <2> QED
    BY <1>1, <2>1, <2>2
<1>6. FindChainRoot(R, i) = CHOOSE j \in Line(R, i) \ {NULL} : R[j].parent = NULL
  BY DEF FindChainRoot
<1>7. FindChainRoot(R, i) \in Line(R, i) \ {NULL} /\ R[FindChainRoot(R, i)].parent = NULL
  BY <1>4, <1>6
<1> QED
  BY <1>3, <1>5, <1>7

LEMMA RootIs ==
  ASSUME NEW R, NEW n, Table(R, n), NEW i \in DOMAIN R, NULL \in Line(R, i)
  PROVE  /\ Line(R, i) \ {NULL} \subseteq DOMAIN R
         /\ FindChainRoot(R, i) \in Line(R, i) \cap DOMAIN R
         /\ R[FindChainRoot(R, i)].parent = NULL
         /\ \A j \in Line(R, i) \cap DOMAIN R : R[j].parent = NULL => j = FindChainRoot(R, i)
  BY TablesAreLineages, RootOf

LEMMA NoRootIs ==
  ASSUME NEW R, NEW i, NULL \notin Line(R, i) PROVE FindChainRoot(R, i) = i
  BY DEF FindChainRoot

(***************************************************************************)
(* How the lines of a table change: not at all with pins and statuses, at  *)
(* new ids only with a registration, and by the deleted id with a deletion.*)
(***************************************************************************)
LEMMA SameLinesOf ==
  ASSUME NEW R, NEW Q, NEW n, Lineage(R, n), Lineage(Q, n), Parents(Q) = Parents(R)
  PROVE  /\ DOMAIN Q = DOMAIN R
         /\ \A i : Line(Q, i) = Line(R, i) /\ Below(Q, i) = Below(R, i)
         /\ \A i \in DOMAIN R : /\ Q[i].parent = R[i].parent
                               /\ FindChainRoot(Q, i) = FindChainRoot(R, i)
                               /\ Chain(Q, i) = Chain(R, i)
<1>1. DOMAIN Q = DOMAIN R
  BY LinksFinite
<1>2. \A i : Line(Q, i) = Line(R, i)
  BY LinesOf
<1>3. \A i : Below(Q, i) = Below(R, i)
  BY <1>1, <1>2 DEF Below
<1>4. \A i \in DOMAIN R : Q[i].parent = R[i].parent
  <2>1. \A i \in DOMAIN R : Parents(Q)[i] = Q[i].parent /\ Parents(R)[i] = R[i].parent
    BY <1>1 DEF Parents
  <2> QED
    BY <2>1
<1>5. ASSUME NEW i \in DOMAIN R PROVE FindChainRoot(Q, i) = FindChainRoot(R, i)
  <2>1. CASE NULL \in Line(R, i)
    BY <1>1, <1>2, <1>4, <2>1, RootOf
  <2>2. CASE NULL \notin Line(R, i)
    BY <1>2, <2>2, NoRootIs
  <2> QED
    BY <2>1, <2>2
<1> QED
  BY <1>1, <1>2, <1>3, <1>4, <1>5 DEF Chain

LEMMA SameLines ==
  ASSUME NEW R, NEW Q, NEW n, Table(R, n), Table(Q, n), Parents(Q) = Parents(R)
  PROVE  /\ DOMAIN Q = DOMAIN R
         /\ \A i : Line(Q, i) = Line(R, i) /\ Below(Q, i) = Below(R, i)
         /\ \A i \in DOMAIN R : /\ Q[i].parent = R[i].parent
                               /\ FindChainRoot(Q, i) = FindChainRoot(R, i)
                               /\ Chain(Q, i) = Chain(R, i)
  BY TablesAreLineages, SameLinesOf

LEMMA WalkGrows ==
  ASSUME NEW link, NEW other, NEW n \in Nat, NEW k \in Nat,
         DOMAIN link \subseteq 1..n, DOMAIN other = DOMAIN link \cup (n + 1)..k,
         \A j \in DOMAIN link : link[j] \in 0..n /\ other[j] = link[j],
         NEW i \in 0..n
  PROVE  Walk(i, other) = Walk(i, link) /\ Walk(i, link) \subseteq 0..n
<1>1. IsFiniteSet(1..n) /\ IsFiniteSet((n + 1)..k)
  BY FS_Interval
<1>2. IsFiniteSet(DOMAIN link)
  BY <1>1, FS_Subset
<1>3. IsFiniteSet(DOMAIN other)
  BY <1>1, <1>2, FS_Union
<1>4. Walk(i, link) \subseteq 0..n
  BY <1>2, WalkWithin
<1>5. \A j \in 0..n : j \notin (n + 1)..k
  OBVIOUS
<1>6. Alike(Walk(i, link), link, other)
  BY <1>4, <1>5 DEF Alike
<1> QED
  BY <1>2, <1>3, <1>4, <1>6, WalkSame

LEMMA WalkSplice ==
  ASSUME NEW link, IsFiniteSet(DOMAIN link), NEW gone \in DOMAIN link, link[gone] # gone,
         NEW other,
         other = [j \in DOMAIN link \ {gone} |-> IF link[j] = gone THEN link[gone] ELSE link[j]],
         NEW i, i # gone
  PROVE  Walk(i, other) = Walk(i, link) \ {gone}
<1>1. DOMAIN other = DOMAIN link \ {gone} /\ IsFiniteSet(DOMAIN other)
  BY FS_Subset
<1>2. Walk(i, other) \subseteq Walk(i, link) \ {gone}
  <2>1. i \in Walk(i, link) \ {gone}
    BY WalkIs
  <2>2. ASSUME NEW j \in (Walk(i, link) \ {gone}) \cap DOMAIN other
        PROVE  other[j] \in Walk(i, link) \ {gone}
    <3>1. link[j] \in Walk(i, link)
      BY <1>1, WalkIs DEF Closed
    <3>2. CASE link[j] = gone
      <4>1. link[gone] \in Walk(i, link)
        BY <3>1, <3>2, WalkIs DEF Closed
      <4> QED
        BY <1>1, <3>2, <4>1
    <3>3. CASE link[j] # gone
      BY <1>1, <3>1, <3>3
    <3> QED
      BY <3>2, <3>3
  <2>3. Closed(Walk(i, link) \ {gone}, other)
    BY <2>2 DEF Closed
  <2> QED
    BY <1>1, <2>1, <2>3, WalkIs
<1>3. i \in Walk(i, other) /\ \A j \in Walk(i, other) \cap DOMAIN other : other[j] \in Walk(i, other)
  BY <1>1, WalkIs DEF Closed
<1>4. CASE \E j \in Walk(i, other) \cap DOMAIN other : link[j] = gone
  <2> DEFINE S == Walk(i, other) \cup {gone}
  <2>1. link[gone] \in S
    BY <1>1, <1>3, <1>4
  <2>2. ASSUME NEW j \in S \cap DOMAIN link PROVE link[j] \in S
    BY <1>1, <1>3, <2>1
  <2>3. Closed(S, link) /\ i \in S
    BY <1>3, <2>2 DEF Closed
  <2>4. Walk(i, link) \subseteq S
    <3> HIDE DEF S
    <3> QED BY <2>3, WalkIs
  <2> QED
    BY <1>2, <2>4
<1>5. CASE \A j \in Walk(i, other) \cap DOMAIN other : link[j] # gone
  <2>1. ASSUME NEW j \in Walk(i, other) \cap DOMAIN link PROVE link[j] \in Walk(i, other)
    BY <1>1, <1>2, <1>3, <1>5
  <2>2. Closed(Walk(i, other), link)
    BY <2>1 DEF Closed
  <2>3. Walk(i, link) \subseteq Walk(i, other)
    BY <1>3, <2>2, WalkIs
  <2> QED
    BY <1>2, <2>3
<1> QED
  BY <1>4, <1>5

LEMMA WalkCut ==
  ASSUME NEW link, IsFiniteSet(DOMAIN link), NULL \notin DOMAIN link, NEW gone, NEW other,
         other = [j \in DOMAIN link \ {gone} |-> IF link[j] = gone THEN NULL ELSE link[j]],
         NEW i
  PROVE  Walk(i, other) \subseteq Walk(i, link) \cup {NULL}
<1>1. DOMAIN other = DOMAIN link \ {gone} /\ IsFiniteSet(DOMAIN other)
  BY FS_Subset
<1>2. ASSUME NEW j \in (Walk(i, link) \cup {NULL}) \cap DOMAIN other
      PROVE  other[j] \in Walk(i, link) \cup {NULL}
  <2>1. link[j] \in Walk(i, link)
    BY <1>1, WalkIs DEF Closed
  <2> QED
    BY <1>1, <2>1
<1>3. Closed(Walk(i, link) \cup {NULL}, other) /\ i \in Walk(i, link) \cup {NULL}
  BY <1>2, WalkIs DEF Closed
<1> QED
  BY <1>1, <1>3, WalkIs

(***************************************************************************)
(* The current version of a table.                                         *)
(***************************************************************************)
LEMMA RootOfChain ==
  ASSUME NEW R, NEW n, Lineage(R, n), NEW i \in DOMAIN R
  PROVE  FindChainRoot(R, i) \in Line(R, i) /\ i \in Chain(R, i)
<1>1. FindChainRoot(R, i) \in Line(R, i)
  BY RootOf, NoRootIs, LinesOf
<1> QED
  BY <1>1 DEF Chain, Below

LEMMA RootIsAbove ==
  ASSUME NEW R, NEW n, Table(R, n), NEW i \in DOMAIN R
  PROVE  FindChainRoot(R, i) \in Line(R, i) /\ i \in Chain(R, i)
  BY TablesAreLineages, RootOfChain

LEMMA TipWithoutPin ==
  ASSUME NEW R, NEW n, Table(R, n), NEW i \in Active(R), Pinned(R, i) = {}
  PROVE  ResolveTip(R, i) = DefaultTip(R, FindChainRoot(R, i))
<1>1. i \in Below(R, i) \cap Active(R)
  BY LineIs DEF Below, Active
<1> QED
  BY <1>1 DEF ResolveTip

(* The newest id of all is the current version if its chain has no pin.    *)
LEMMA NewestIsCurrent ==
  ASSUME NEW R, NEW n, Table(R, n), n \in Active(R), Pinned(R, n) = {}
  PROVE  ResolveTip(R, n) = n
<1> DEFINE root   == FindChainRoot(R, n)
           leaves == {j \in Below(R, root) : Below(R, j) \cap Active(R) = {j}}
<1>1. n \in DOMAIN R /\ DOMAIN R \subseteq 1..n /\ n \in Nat
  BY DEF Active, Table
<1>2. Below(R, n) = {n}
  <2>1. ASSUME NEW j \in Below(R, n) PROVE j = n
    <3>1. j \in 1..n /\ j \in 0..n /\ n \in Line(R, j)
      BY <1>1 DEF Below
    <3>2. n <= j
      BY <3>1, LineIs
    <3> QED
      BY <1>1, <3>1, <3>2
  <2>2. n \in Below(R, n)
    BY <1>1, LineIs DEF Below
  <2> QED
    BY <2>1, <2>2
<1>3. n \in leaves
  <2>1. n \in Below(R, root)
    BY <1>1, RootIsAbove DEF Chain
  <2> QED
    BY <1>2, <2>1
<1>4. leaves \subseteq 1..n
  BY <1>1 DEF Below
<1>5. Max(leaves) = n
  <2> HIDE DEF leaves
  <2>1. leaves \in SUBSET Nat /\ \A j \in leaves : j <= n
    BY <1>1, <1>4
  <2> QED
    BY <1>3, <2>1, MaxIs
<1>6. DefaultTip(R, root) = n
  BY <1>3, <1>5 DEF DefaultTip
<1> QED
  BY <1>6, TipWithoutPin

(***************************************************************************)
(* What the handlers write into the table.                                 *)
(***************************************************************************)
SameLinks(Q, R) ==
    /\ DOMAIN Q = DOMAIN R
    /\ \A i \in DOMAIN R : Q[i].parent = R[i].parent /\ Q[i].stage1 = R[i].stage1

LEMMA LinksStay ==
  ASSUME NEW R, NEW Q, SameLinks(Q, R)
  PROVE  Parents(Q) = Parents(R) /\ Stages(Q) = Stages(R)
  BY DEF SameLinks, Parents, Stages

LEMMA RowWith ==
  ASSUME NEW n, NEW x \in Row(n), NEW b \in BOOLEAN, NEW s \in 0..n
  PROVE  /\ [x EXCEPT !.pinned = b] \in Row(n)
         /\ [x EXCEPT !.pinned = b].parent = x.parent
         /\ [x EXCEPT !.pinned = b].stage1 = x.stage1
         /\ [x EXCEPT !.pinned = b].canceled = x.canceled
         /\ [x EXCEPT !.pinned = b].pinned = b
         /\ [x EXCEPT !.canceled = b] \in Row(n)
         /\ [x EXCEPT !.canceled = b].parent = x.parent
         /\ [x EXCEPT !.canceled = b].stage1 = x.stage1
         /\ [x EXCEPT !.stage1 = s] \in Row(n)
         /\ [x EXCEPT !.stage1 = s].parent = x.parent
         /\ [x EXCEPT !.stage1 = s].stage1 = s
  BY DEF Row

LEMMA UnpinIs ==
  ASSUME NEW R, NEW n, Table(R, n), NEW ids
  PROVE  /\ Table(Unpin(R, ids), n) /\ SameLinks(Unpin(R, ids), R)
         /\ \A i \in DOMAIN R : /\ Unpin(R, ids)[i].canceled = R[i].canceled
                               /\ Unpin(R, ids)[i].pinned = (R[i].pinned /\ i \notin ids)
<1> DEFINE Q == Unpin(R, ids)
<1>1. DOMAIN Q = DOMAIN R
  BY DEF Unpin
<1>2. ASSUME NEW i \in DOMAIN R
      PROVE  /\ Q[i] \in Row(n) /\ Q[i].parent = R[i].parent /\ Q[i].stage1 = R[i].stage1
             /\ Q[i].canceled = R[i].canceled /\ Q[i].pinned = (R[i].pinned /\ i \notin ids)
  <2> DEFINE b == R[i].pinned /\ i \notin ids
  <2>1. Q[i] = [R[i] EXCEPT !.pinned = b]
    BY DEF Unpin
  <2>2. R[i] \in Row(n)
    BY DEF Table
  <2>3. b \in BOOLEAN
    OBVIOUS
  <2>4. 0 \in 0..n
    BY DEF Table
  <2> HIDE DEF b, Q
  <2> DEFINE x == R[i]
             y == [x EXCEPT !.pinned = b]
  <2>5. y \in Row(n) /\ y.parent = x.parent /\ y.stage1 = x.stage1
        /\ y.canceled = x.canceled /\ y.pinned = b
    <3> HIDE DEF x
    <3>1. x \in Row(n)
      BY <2>2 DEF x
    <3> QED
      BY <2>3, <3>1 DEF Row
  <2>6. Q[i] = y
    BY <2>1
  <2> HIDE DEF y
  <2> QED
    BY <2>5, <2>6 DEF b
<1> HIDE DEF Q
<1>3. Table(Q, n) /\ SameLinks(Q, R)
  BY <1>1, <1>2 DEF Table, SameLinks
<1> QED
  BY <1>2, <1>3 DEF Q

Registered(R, n, k, p, s) ==
    [i \in DOMAIN R \cup (n + 1)..k |->
       IF i \in DOMAIN R THEN R[i]
       ELSE [parent |-> p, canceled |-> FALSE, pinned |-> FALSE, stage1 |-> s]]

FreshRow(x, p, s) == x = [parent |-> p, canceled |-> FALSE, pinned |-> FALSE, stage1 |-> s]
Registers(Q, R, n, k, p, s) ==
    /\ Table(Q, k) /\ DOMAIN Q = DOMAIN R \cup (n + 1)..k
    /\ \A i \in DOMAIN R : Q[i] = R[i]
    /\ \A i \in (n + 1)..k : FreshRow(Q[i], p, s)

LEMMA RegisteredIs ==
  ASSUME NEW R, NEW n \in Nat, Table(R, n), NEW k \in Nat, n <= k, NEW p \in 0..n, NEW s \in 0..n
  PROVE  Registers(Registered(R, n, k, p, s), R, n, k, p, s)
<1> DEFINE Q == Registered(R, n, k, p, s)
<1>1. n \in Nat /\ DOMAIN R \subseteq 1..n /\ \A i \in (n + 1)..k : i \notin 1..n /\ i \in 1..k /\ p < i
  BY DEF Table
<1>2. DOMAIN Q = DOMAIN R \cup (n + 1)..k /\ \A i \in DOMAIN R : Q[i] = R[i]
  BY DEF Registered
<1>3. \A i \in (n + 1)..k :
        Q[i] = [parent |-> p, canceled |-> FALSE, pinned |-> FALSE, stage1 |-> s]
  BY <1>1 DEF Registered
<1>4. \A i \in 1..n : i \in 1..k
  BY <1>1
<1>5. \A i \in 0..n : i \in 0..k
  BY <1>1
<1>6. \A i \in DOMAIN R : R[i] \in Row(k) /\ R[i].parent < i
  BY <1>5 DEF Table, Row
<1>7. ASSUME NEW i \in (n + 1)..k PROVE Q[i] \in Row(k) /\ Q[i].parent < i
  <2>1. p \in 0..k /\ s \in 0..k /\ p < i
    BY <1>1, <1>5, <1>7
  <2>2. Q[i] = [parent |-> p, canceled |-> FALSE, pinned |-> FALSE, stage1 |-> s]
    BY <1>3, <1>7
  <2> HIDE DEF Q
  <2> QED
    BY <2>1, <2>2 DEF Row
<1> HIDE DEF Q
<1>8. Table(Q, k)
  BY <1>1, <1>2, <1>4, <1>6, <1>7 DEF Table
<1> QED
  BY <1>2, <1>3, <1>8 DEF Q, Registers, FreshRow

(* A revision that is written clears the pins of its chain.                *)
LEMMA RevisionIsCurrent ==
  ASSUME NEW R, NEW n \in Nat, Table(R, n), NEW k \in Nat, n < k, NEW p \in 0..n, NEW s \in 0..n,
         NEW T, T = Registered(R, n, k, p, s),
         NEW Q, Q = IF p = NULL THEN T ELSE Unpin(T, RevisionChain(T, p))
  PROVE  Table(Q, k) /\ SameLinks(Q, T) /\ ResolveTip(Q, k) = k
<1>1. /\ Table(T, k) /\ k \in (n + 1)..k /\ k \in DOMAIN T
      /\ T[k] = [parent |-> p, canceled |-> FALSE, pinned |-> FALSE, stage1 |-> s]
  <2>1. n \in Nat /\ n <= k
    BY DEF Table
  <2>2. k \in (n + 1)..k
    BY <2>1
  <2>3. Registers(T, R, n, k, p, s)
    BY <2>1, RegisteredIs
  <2> QED
    BY <2>2, <2>3 DEF Registers, FreshRow
<1>2. /\ Table(Q, k) /\ SameLinks(Q, T)
      /\ \A i \in DOMAIN T : Q[i].canceled = T[i].canceled
      /\ p = NULL => \A i \in DOMAIN T : Q[i].pinned = T[i].pinned
      /\ p # NULL => \A i \in DOMAIN T :
                        Q[i].pinned = (T[i].pinned /\ i \notin RevisionChain(T, p))
  <2>1. CASE p = NULL
    BY <1>1, <2>1 DEF SameLinks
  <2>2. CASE p # NULL
    BY <1>1, <2>2, UnpinIs
  <2> QED
    BY <2>1, <2>2
<1>3. /\ DOMAIN Q = DOMAIN T /\ k \in DOMAIN Q /\ Q[k].parent = p
      /\ \A i : Line(Q, i) = Line(T, i) /\ Below(Q, i) = Below(T, i)
  <2>1. Parents(Q) = Parents(T)
    BY <1>2, LinksStay
  <2> QED
    BY <1>1, <1>2, <2>1, SameLines DEF SameLinks
<1>4. Line(Q, k) = {k} \cup Line(Q, p)
  BY <1>2, <1>3, LineIs
<1>5. ASSUME FindChainRoot(Q, k) = k PROVE Pinned(Q, k) = {}
  <2>1. ASSUME NEW j \in Below(Q, k) PROVE j = k
    <3>1. j \in 1..k /\ k \in Line(Q, j)
      BY <1>2 DEF Below, Table
    <3>2. k <= j
      BY <1>2, <3>1, LineIs
    <3> QED
      BY <3>1, <3>2
  <2>2. ~ Q[k].pinned
    <3>1. T[k].pinned = FALSE
      BY <1>1
    <3>2. Q[k].pinned = T[k].pinned \/ Q[k].pinned = (T[k].pinned /\ k \notin RevisionChain(T, p))
      BY <1>1, <1>2
    <3> QED
      BY <3>1, <3>2
  <2> QED
    BY <1>5, <2>1, <2>2 DEF Pinned, Chain
<1>6. Pinned(Q, k) = {}
  <2>1. CASE NULL \notin Line(Q, k)
    BY <1>5, <2>1, NoRootIs
  <2>2. CASE NULL \in Line(Q, k) /\ p = NULL
    <3>1. FindChainRoot(Q, k) = k
      BY <1>2, <1>3, <2>2, LineIs, RootIs
    <3> QED
      BY <1>5, <3>1
  <2>3. CASE NULL \in Line(Q, k) /\ p # NULL
    <3> DEFINE root == FindChainRoot(Q, k)
    <3>1. /\ Line(Q, k) \ {NULL} \subseteq DOMAIN Q
          /\ root \in Line(Q, k) \cap DOMAIN Q /\ Q[root].parent = NULL
          /\ \A j \in Line(Q, k) \cap DOMAIN Q : Q[j].parent = NULL => j = root
      BY <1>2, <1>3, <2>3, RootIs
    <3> HIDE DEF root
    <3>2. p \in DOMAIN T /\ p \in Line(T, p)
      BY <1>2, <1>3, <1>4, <2>3, <3>1, LineIs
    <3>3. root \in Line(T, p) \cap DOMAIN T /\ T[root].parent = NULL
      BY <1>2, <1>3, <1>4, <2>3, <3>1 DEF SameLinks
    <3>4. NULL \notin DOMAIN T
      BY <1>1, LinksAreFinite
    <3>5. ASSUME NEW j \in Line(T, p) \cap DOMAIN T, T[j].parent \notin DOMAIN T PROVE j = root
      <4>1. T[j].parent \in Line(T, p)
        BY <1>1, LineIs
      <4>2. T[j].parent = NULL
        BY <1>3, <1>4, <3>1, <3>5, <4>1
      <4> QED
        BY <1>2, <1>3, <1>4, <3>1, <4>2 DEF SameLinks
    <3>6. RevisionChain(T, p) = Below(T, root)
      <4>1. root = CHOOSE j \in Line(T, p) \cap DOMAIN T : T[j].parent \notin DOMAIN T
        BY <3>3, <3>4, <3>5
      <4> QED
        BY <3>2, <4>1 DEF RevisionChain
    <3>7. \A i \in Below(Q, root) : ~ Q[i].pinned
      BY <1>2, <1>3, <2>3, <3>6 DEF Below
    <3> QED
      BY <3>7 DEF Pinned, Chain, root
  <2> QED
    BY <2>1, <2>2, <2>3
<1>7. k \in Active(Q)
  BY <1>1, <1>2, <1>3 DEF Active
<1> QED
  BY <1>2, <1>6, <1>7, NewestIsCurrent

PinnedOne(R, i, pin, ids) ==
    LET cleared == Unpin(R, ids)
    IN  [j \in DOMAIN R |-> IF j = i /\ pin THEN [cleared[j] EXCEPT !.pinned = TRUE]
                                            ELSE cleared[j]]
PinsOne(Q, R, n, i, pin, ids) ==
    /\ Table(Q, n) /\ SameLinks(Q, R)
    /\ \A j \in DOMAIN R :
          /\ Q[j].canceled = R[j].canceled
          /\ Q[j].pinned = ((R[j].pinned /\ j \notin ids) \/ (j = i /\ pin))

LEMMA PinnedOneIs ==
  ASSUME NEW R, NEW n \in Nat, Table(R, n), NEW i, NEW pin \in BOOLEAN, NEW ids
  PROVE  PinsOne(PinnedOne(R, i, pin, ids), R, n, i, pin, ids)
<1> DEFINE U == Unpin(R, ids)
           Q == PinnedOne(R, i, pin, ids)
<1>1. /\ Table(U, n) /\ SameLinks(U, R)
      /\ \A j \in DOMAIN R : U[j].canceled = R[j].canceled
                           /\ U[j].pinned = (R[j].pinned /\ j \notin ids)
  BY UnpinIs
<1>2. DOMAIN Q = DOMAIN R
  BY DEF PinnedOne
<1>3. \A j \in DOMAIN R : Q[j] = IF j = i /\ pin THEN [U[j] EXCEPT !.pinned = TRUE] ELSE U[j]
  BY DEF PinnedOne
<1> HIDE DEF U, Q
<1>4. ASSUME NEW j \in DOMAIN R
      PROVE  /\ Q[j] \in Row(n) /\ Q[j].parent = R[j].parent /\ Q[j].stage1 = R[j].stage1
             /\ Q[j].canceled = R[j].canceled /\ Q[j].parent < j
             /\ Q[j].pinned = ((R[j].pinned /\ j \notin ids) \/ (j = i /\ pin))
  <2>1. /\ U[j] \in Row(n) /\ U[j].parent = R[j].parent /\ U[j].stage1 = R[j].stage1
        /\ U[j].canceled = R[j].canceled /\ U[j].parent < j
        /\ U[j].pinned = (R[j].pinned /\ j \notin ids)
    BY <1>1 DEF Table, SameLinks
  <2>2. CASE j = i /\ pin
    <3> DEFINE y == [U[j] EXCEPT !.pinned = TRUE]
    <3>1. y \in Row(n) /\ y.parent = U[j].parent /\ y.stage1 = U[j].stage1
          /\ y.canceled = U[j].canceled /\ y.pinned = TRUE
      BY <2>1 DEF Row
    <3>2. Q[j] = y
      BY <1>3, <2>2
    <3> HIDE DEF y
    <3> QED
      BY <2>1, <2>2, <3>1, <3>2
  <2>3. CASE ~ (j = i /\ pin)
    <3>1. Q[j] = U[j]
      BY <1>3, <2>3
    <3> QED
      BY <2>1, <2>3, <3>1
  <2> QED
    BY <2>2, <2>3
<1>5. DOMAIN R \subseteq 1..n
  BY DEF Table
<1>6. Table(Q, n) /\ SameLinks(Q, R)
  BY <1>2, <1>4, <1>5 DEF Table, SameLinks
<1> QED
  BY <1>4, <1>6 DEF Q, PinsOne

(* The version that is set current: it has the pin of its chain, or it is  *)
(* current without a pin and there is none.                                *)
LEMMA ChosenIsCurrent ==
  ASSUME NEW R, NEW n \in Nat, Table(R, n), NEW i \in Active(R), NEW pin \in BOOLEAN,
         pin = (DefaultTip(R, FindChainRoot(R, i)) # i),
         NEW Q, Q = PinnedOne(R, i, pin, Chain(R, i))
  PROVE  ResolveTip(Q, i) = i
<1>1. /\ Table(Q, n) /\ SameLinks(Q, R)
      /\ \A j \in DOMAIN R :
            /\ Q[j].canceled = R[j].canceled
            /\ Q[j].pinned = ((R[j].pinned /\ j \notin Chain(R, i)) \/ (j = i /\ pin))
  <2>1. PinsOne(Q, R, n, i, pin, Chain(R, i))
    BY PinnedOneIs
  <2> QED
    BY <2>1 DEF PinsOne
<1>2. i \in DOMAIN R
  BY DEF Active
<1>3. /\ DOMAIN Q = DOMAIN R /\ Active(Q) = Active(R)
      /\ \A j : Line(Q, j) = Line(R, j) /\ Below(Q, j) = Below(R, j)
      /\ FindChainRoot(Q, i) = FindChainRoot(R, i) /\ Chain(Q, i) = Chain(R, i)
  <2>1. Parents(Q) = Parents(R)
    BY <1>1, LinksStay
  <2> QED
    BY <1>1, <1>2, <2>1, SameLines DEF SameLinks, Active
<1>4. i \in Chain(R, i) /\ Chain(R, i) \subseteq DOMAIN R
  BY <1>2, RootIsAbove DEF Chain, Below
<1>5. CASE pin
  <2>1. Pinned(Q, i) = {i}
    BY <1>1, <1>3, <1>4, <1>5 DEF Pinned
  <2>2. Min({i}) \in {i}
    <3>1. i \in Nat
      BY <1>2 DEF Table
    <3> QED
      BY <3>1, MinIs
  <2> QED
    BY <2>1, <2>2 DEF ResolveTip
<1>6. CASE ~ pin
  <2>1. Pinned(Q, i) = {}
    BY <1>1, <1>3, <1>4, <1>6 DEF Pinned
  <2>2. DefaultTip(Q, FindChainRoot(Q, i)) = DefaultTip(R, FindChainRoot(R, i))
    BY <1>3 DEF DefaultTip
  <2> QED
    BY <1>1, <1>3, <1>6, <2>1, <2>2, TipWithoutPin
<1> QED
  BY <1>5, <1>6

(***************************************************************************)
(* A deletion.  The children of the deleted id move to its parent.         *)
(***************************************************************************)
Spliced(R, gone, parent) ==
    [i \in DOMAIN R \ {gone} |->
       [R[i] EXCEPT !.parent = IF @ = gone THEN parent ELSE @,
                    !.stage1 = IF @ = gone THEN NULL ELSE @]]
Splices(Q, R, n, gone, parent) ==
    /\ Table(Q, n) /\ DOMAIN Q = DOMAIN R \ {gone}
    /\ \A i \in DOMAIN Q :
         /\ Q[i].parent = IF R[i].parent = gone THEN parent ELSE R[i].parent
         /\ Q[i].stage1 = IF R[i].stage1 = gone THEN NULL ELSE R[i].stage1

LEMMA SplicedIs ==
  ASSUME NEW R, NEW n \in Nat, Table(R, n), NEW gone \in Nat, NEW parent \in 0..n, parent < gone
  PROVE  Splices(Spliced(R, gone, parent), R, n, gone, parent)
<1> DEFINE Q == Spliced(R, gone, parent)
<1>1. DOMAIN Q = DOMAIN R \ {gone}
  BY DEF Spliced
<1>2. ASSUME NEW i \in DOMAIN R \ {gone}
      PROVE  /\ Q[i] \in Row(n) /\ Q[i].parent < i
             /\ Q[i].parent = IF R[i].parent = gone THEN parent ELSE R[i].parent
             /\ Q[i].stage1 = IF R[i].stage1 = gone THEN NULL ELSE R[i].stage1
  <2> DEFINE p == IF R[i].parent = gone THEN parent ELSE R[i].parent
             s == IF R[i].stage1 = gone THEN NULL ELSE R[i].stage1
             y == [R[i] EXCEPT !.parent = p, !.stage1 = s]
  <2>1. R[i] \in Row(n) /\ R[i].parent < i /\ i \in 1..n
    BY DEF Table
  <2>2. p \in 0..n /\ s \in 0..n /\ p < i
    <3>1. R[i].parent \in 0..n /\ R[i].stage1 \in 0..n /\ 0 \in 0..n
      BY <2>1 DEF Row
    <3> QED
      BY <2>1, <3>1 DEF NULL
  <2>3. Q[i] = y
    BY DEF Spliced
  <2> HIDE DEF p, s, Q
  <2>4. y \in Row(n) /\ y.parent = p /\ y.stage1 = s
    BY <2>1, <2>2 DEF Row
  <2> HIDE DEF y
  <2> QED
    BY <2>2, <2>3, <2>4 DEF p, s
<1>3. DOMAIN R \ {gone} \subseteq 1..n
  BY DEF Table
<1> HIDE DEF Q
<1>4. Table(Q, n)
  BY <1>1, <1>2, <1>3 DEF Table
<1> QED
  BY <1>1, <1>2, <1>4 DEF Q, Splices

LosesOne(Q, R, n, gone) ==
    /\ Table(Q, n) /\ DOMAIN Q = DOMAIN R \ {gone}
    /\ \A i \in DOMAIN Q : Q[i].parent = IF R[i].parent = gone THEN R[gone].parent
                                         ELSE R[i].parent
    /\ \A i : i # gone => Line(Q, i) = Line(R, i) \ {gone}

LEMMA SplicedLines ==
  ASSUME NEW R, NEW n \in Nat, Table(R, n), NEW gone \in DOMAIN R,
         NEW Q, Q = Spliced(R, gone, R[gone].parent)
  PROVE  LosesOne(Q, R, n, gone)
<1>1. gone \in Nat /\ R[gone].parent \in 0..n /\ R[gone].parent < gone
  BY DEF Table, Row
<1>2. /\ Table(Q, n) /\ DOMAIN Q = DOMAIN R \ {gone}
      /\ \A i \in DOMAIN Q : Q[i].parent = IF R[i].parent = gone THEN R[gone].parent
                                           ELSE R[i].parent
  <2>1. Splices(Q, R, n, gone, R[gone].parent)
    BY <1>1, SplicedIs
  <2> QED
    BY <2>1 DEF Splices
<1>3. Parents(Q) = [j \in DOMAIN Parents(R) \ {gone} |->
                      IF Parents(R)[j] = gone THEN Parents(R)[gone] ELSE Parents(R)[j]]
  BY <1>2 DEF Parents
<1>4. ASSUME NEW i, i # gone PROVE Line(Q, i) = Line(R, i) \ {gone}
  <2>1. IsFiniteSet(DOMAIN Parents(R)) /\ gone \in DOMAIN Parents(R)
        /\ Parents(R)[gone] # gone
    BY <1>1, LinksAreFinite DEF Parents
  <2>2. Walk(i, Parents(Q)) = Walk(i, Parents(R)) \ {gone}
    BY <1>3, <1>4, <2>1, WalkSplice
  <2> QED
    BY <1>2, <2>2, LineIs
<1> QED
  BY <1>2, <1>4 DEF LosesOne

(* The others keep their root, unless it is the root that goes.            *)
LEMMA SplicedRoots ==
  ASSUME NEW R, NEW n \in Nat, Table(R, n), NEW gone \in DOMAIN R,
         NEW Q, Q = Spliced(R, gone, R[gone].parent),
         NEW i \in DOMAIN Q,
         NULL \in Line(R, i) => FindChainRoot(R, i) # gone
  PROVE  FindChainRoot(Q, i) = FindChainRoot(R, i)
<1>1. /\ Table(Q, n) /\ DOMAIN Q = DOMAIN R \ {gone} /\ i \in DOMAIN R /\ i # gone
      /\ \A j \in DOMAIN Q : Q[j].parent = IF R[j].parent = gone THEN R[gone].parent
                                           ELSE R[j].parent
      /\ Line(Q, i) = Line(R, i) \ {gone}
  <2>1. LosesOne(Q, R, n, gone)
    BY SplicedLines
  <2> QED
    BY <2>1 DEF LosesOne
<1>2. NULL # gone
  BY LinksAreFinite
<1>3. CASE NULL \notin Line(R, i)
  BY <1>1, <1>3, NoRootIs
<1>4. CASE NULL \in Line(R, i)
  <2>1. /\ FindChainRoot(R, i) \in Line(R, i) \cap DOMAIN R
        /\ R[FindChainRoot(R, i)].parent = NULL
    BY <1>1, <1>4, RootIs
  <2>2. /\ FindChainRoot(R, i) \in Line(Q, i) \cap DOMAIN Q
        /\ Q[FindChainRoot(R, i)].parent = NULL
    BY <1>1, <1>2, <1>4, <2>1
  <2>3. NULL \in Line(Q, i)
    BY <1>1, <1>2, <1>4
  <2> QED
    BY <1>1, <2>2, <2>3, RootIs
<1> QED
  BY <1>3, <1>4

(***************************************************************************)
(* The assignments of reactors.  A row with the id of a version that is in *)
(* a whole chain has the id of its root.                                   *)
(***************************************************************************)
AssignRow(n) == [root : 1..n, reactor : Reactors, recipe : 0..n]
Keyed(R, k) == k \in DOMAIN R /\ NULL \in Line(R, k) => R[k].parent = NULL
Rerooted(A, old, new) ==
    [x \in DOMAIN A |-> [A[x] EXCEPT !.root = IF @ = old THEN new ELSE @]]

LEMMA RootIsKeyed ==
  ASSUME NEW R, NEW n, Table(R, n), NEW i \in DOMAIN R
  PROVE  Keyed(R, FindChainRoot(R, i)) /\ FindChainRoot(R, i) \in DOMAIN R
  BY RootIs, NoRootIs DEF Keyed

LEMMA AssignedAlike ==
  ASSUME NEW n, NEW A \in Seq(AssignRow(n)), NEW B \in Seq(AssignRow(n)), Len(A) = Len(B),
         NEW r, NEW q, NEW reactor,
         \A x \in 1..Len(A) : /\ A[x].root = r <=> B[x].root = q
                              /\ B[x].reactor = A[x].reactor /\ B[x].recipe = A[x].recipe
  PROVE  Assigned(B, q, reactor) = Assigned(A, r, reactor)
<1> DEFINE rows == {x \in 1..Len(A) : A[x].root = r /\ A[x].reactor = reactor}
<1>1. rows = {x \in 1..Len(B) : B[x].root = q /\ B[x].reactor = reactor}
  OBVIOUS
<1>2. rows # {} => Max(rows) \in rows
  <2>1. rows \in SUBSET (1..Len(A)) /\ Len(A) \in Nat
    OBVIOUS
  <2> HIDE DEF rows
  <2> QED
    BY <2>1, MaxIn
<1>3. rows # {} => B[Max(rows)].recipe = A[Max(rows)].recipe
  BY <1>2
<1>4. Assigned(A, r, reactor) = IF rows = {} THEN NULL ELSE A[Max(rows)].recipe
  BY DEF Assigned
<1>5. Assigned(B, q, reactor) = IF rows = {} THEN NULL ELSE B[Max(rows)].recipe
  BY <1>1 DEF Assigned
<1> QED
  BY <1>3, <1>4, <1>5
Reroots(B, A, n, old, new) ==
    /\ B \in Seq(AssignRow(n)) /\ Len(B) = Len(A)
    /\ \A x \in 1..Len(A) : /\ B[x].root = IF A[x].root = old THEN new ELSE A[x].root
                           /\ B[x].reactor = A[x].reactor /\ B[x].recipe = A[x].recipe

LEMMA RerootedIs ==
  ASSUME NEW n \in Nat, NEW A \in Seq(AssignRow(n)), NEW old, NEW new \in 1..n
  PROVE  Reroots(Rerooted(A, old, new), A, n, old, new)
<1> DEFINE B == Rerooted(A, old, new)
<1>1. DOMAIN A = 1..Len(A) /\ Len(A) \in Nat
  OBVIOUS
<1>2. B = [x \in 1..Len(A) |-> B[x]]
  BY <1>1 DEF Rerooted
<1>3. ASSUME NEW x \in 1..Len(A)
      PROVE  /\ B[x] \in AssignRow(n)
             /\ B[x].root = IF A[x].root = old THEN new ELSE A[x].root
             /\ B[x].reactor = A[x].reactor /\ B[x].recipe = A[x].recipe
  <2> DEFINE k == IF A[x].root = old THEN new ELSE A[x].root
             y == [A[x] EXCEPT !.root = k]
  <2>1. A[x] \in AssignRow(n)
    OBVIOUS
  <2>2. k \in 1..n
    BY <2>1 DEF AssignRow
  <2>3. B[x] = y
    BY <1>1 DEF Rerooted
  <2> HIDE DEF k, B
  <2>4. y \in AssignRow(n) /\ y.root = k /\ y.reactor = A[x].reactor /\ y.recipe = A[x].recipe
    BY <2>1, <2>2 DEF AssignRow
  <2> HIDE DEF y
  <2> QED
    BY <2>3, <2>4 DEF k
<1> HIDE DEF B
<1>4. B \in Seq(AssignRow(n)) /\ Len(B) = Len(A)
  BY <1>1, <1>2, <1>3
<1> QED
  BY <1>3, <1>4 DEF B, Reroots

Children(R, i) == {j \in DOMAIN R : R[j].parent = i}
Moved(R, Q, A, gone) ==
    IF FindChainRoot(R, gone) = gone /\ Children(R, gone) # {}
    THEN Rerooted(A, gone, FindChainRoot(Q, Min(Children(R, gone)))) ELSE A

AllKeyed(R, A)  == \A x \in 1..Len(A) : Keyed(R, A[x].root)
Stays(R, Q, gone, i) ==
    /\ NULL \in Line(R, i)
    /\ \/ FindChainRoot(Q, i) = FindChainRoot(R, i)
       \/ Children(R, gone) # {} /\ Min(Children(R, gone)) \in Line(R, i)
KeepsReactors(R, Q, A, B, gone) ==
    \A i \in DOMAIN Q, reactor \in Reactors : Stays(R, Q, gone, i) =>
        Assigned(B, FindChainRoot(Q, i), reactor) = Assigned(A, FindChainRoot(R, i), reactor)

LEMMA MovedKeeps ==
  ASSUME NEW R, NEW n \in Nat, Table(R, n), NEW gone \in DOMAIN R,
         NEW Q, Q = Spliced(R, gone, R[gone].parent),
         NEW A \in Seq(AssignRow(n)), AllKeyed(R, A),
         NEW B, B = Moved(R, Q, A, gone)
  PROVE  B \in Seq(AssignRow(n)) /\ AllKeyed(Q, B) /\ KeepsReactors(R, Q, A, B, gone)
<1> DEFINE c == Min(Children(R, gone))
<1>1. /\ Table(Q, n) /\ DOMAIN Q = DOMAIN R \ {gone} /\ DOMAIN R \subseteq 1..n
      /\ \A j \in DOMAIN Q : Q[j].parent = IF R[j].parent = gone THEN R[gone].parent
                                           ELSE R[j].parent
      /\ \A i : i # gone => Line(Q, i) = Line(R, i) \ {gone}
  <2>1. LosesOne(Q, R, n, gone)
    BY SplicedLines
  <2> QED
    BY <2>1 DEF LosesOne, Table
<1>2. NULL # gone /\ NULL \notin DOMAIN R
  BY LinksAreFinite
<1>3. ASSUME NEW k, Keyed(R, k) PROVE Keyed(Q, k)
  BY <1>1, <1>2, <1>3 DEF Keyed
<1>4. ASSUME NULL \in Line(R, gone), FindChainRoot(R, gone) = gone PROVE R[gone].parent = NULL
  BY <1>4, RootIs
<1>5. ASSUME NEW i \in DOMAIN R, NULL \in Line(R, i), FindChainRoot(R, i) = gone
      PROVE  /\ R[gone].parent = NULL /\ NULL \in Line(R, gone)
             /\ FindChainRoot(R, gone) = gone
  <2>1. R[gone].parent = NULL
    BY <1>5, RootIs
  <2>2. NULL \in Line(R, gone) /\ gone \in Line(R, gone)
    BY <2>1, LineIs
  <2> QED
    BY <2>1, <2>2, RootIs
<1>6. CASE ~ (FindChainRoot(R, gone) = gone /\ Children(R, gone) # {})
  <2>1. B = A
    BY <1>6 DEF Moved
  <2>2. ASSUME NEW i \in DOMAIN Q, Stays(R, Q, gone, i)
        PROVE  FindChainRoot(Q, i) = FindChainRoot(R, i)
    <3>1. CASE FindChainRoot(R, gone) # gone
      <4>1. FindChainRoot(R, i) # gone
        BY <1>1, <1>5, <2>2, <3>1 DEF Stays
      <4> QED
        BY <4>1, SplicedRoots
    <3>2. CASE Children(R, gone) = {}
      BY <2>2, <3>2 DEF Stays
    <3> QED
      BY <1>6, <3>1, <3>2
  <2>3. AllKeyed(Q, B)
    BY <1>3, <2>1 DEF AllKeyed
  <2> QED
    BY <2>1, <2>2, <2>3 DEF KeepsReactors
<1>7. CASE FindChainRoot(R, gone) = gone /\ Children(R, gone) # {}
  <2>1. /\ c \in DOMAIN R /\ R[c].parent = gone /\ c # gone /\ c \in DOMAIN Q /\ c \in 1..n
        /\ c # NULL
    <3>1. Children(R, gone) \in SUBSET Nat
      BY <1>1 DEF Children
    <3>2. c \in Children(R, gone)
      BY <1>7, <3>1, MinIs
    <3>3. c \in DOMAIN R /\ R[c].parent = gone /\ R[c].parent < c /\ c \in 1..n
      BY <1>1, <3>2 DEF Children, Table
    <3>4. c # gone
      BY <3>3
    <3> QED
      BY <1>1, <1>2, <3>3, <3>4
  <2> HIDE DEF c
  <2>2. Line(R, c) = {c} \cup Line(R, gone)
    BY <2>1, LineIs
  <2>3. FindChainRoot(Q, c) = c
    <3>1. CASE NULL \in Line(Q, c)
      <4>1. NULL \in Line(R, gone)
        BY <1>1, <2>1, <2>2, <3>1
      <4>2. Q[c].parent = NULL
        BY <1>1, <1>4, <1>7, <2>1, <4>1
      <4> QED
        BY <1>1, <2>1, <3>1, <4>2, LineIs, RootIs
    <3>2. CASE NULL \notin Line(Q, c)
      BY <3>2, NoRootIs
    <3> QED
      BY <3>1, <3>2
  <2>4. /\ B \in Seq(AssignRow(n)) /\ Len(B) = Len(A)
        /\ \A x \in 1..Len(A) : /\ B[x].root = IF A[x].root = gone THEN c ELSE A[x].root
                               /\ B[x].reactor = A[x].reactor /\ B[x].recipe = A[x].recipe
    <3>1. B = Rerooted(A, gone, c)
      BY <1>7, <2>3 DEF Moved, c
    <3>2. Reroots(B, A, n, gone, c)
      BY <2>1, <3>1, RerootedIs
    <3> QED
      BY <3>2 DEF Reroots
  <2>5. AllKeyed(Q, B)
    <3>1. Keyed(Q, c)
      BY <1>1, <2>1, <2>3, RootIsKeyed
    <3> QED
      BY <1>3, <2>4, <3>1 DEF AllKeyed
  <2>6. ASSUME NEW i \in DOMAIN Q, NEW reactor \in Reactors, Stays(R, Q, gone, i)
        PROVE  Assigned(B, FindChainRoot(Q, i), reactor) = Assigned(A, FindChainRoot(R, i), reactor)
    <3> DEFINE r == FindChainRoot(R, i)
               q == FindChainRoot(Q, i)
    <3>1. NULL \in Line(R, i) /\ i \in DOMAIN R /\ i # gone
      BY <1>1, <2>6 DEF Stays
    <3>2. r \in Line(R, i) /\ R[r].parent = NULL /\ q \in DOMAIN Q
      BY <1>1, <3>1, RootIs, RootIsKeyed
    <3>3. q = r \/ c \in Line(R, i)
      BY <2>6 DEF Stays, c
    <3>4. q = r \/ r = gone
      BY SplicedRoots
    <3> HIDE DEF r, q
    <3>5. CASE q = r
      <4>1. r # gone /\ r # c
        BY <1>1, <1>2, <2>1, <3>2, <3>5
      <4>2. \A x \in 1..Len(A) : /\ A[x].root = r <=> B[x].root = r
                                /\ B[x].reactor = A[x].reactor /\ B[x].recipe = A[x].recipe
        BY <2>4, <4>1
      <4>3. Assigned(B, r, reactor) = Assigned(A, r, reactor)
        BY <2>4, <4>2, AssignedAlike
      <4> QED
        BY <3>5, <4>3 DEF r, q
    <3>6. CASE q # r
      <4>1. r = gone /\ R[gone].parent = NULL /\ NULL \in Line(R, gone) /\ c \in Line(R, i)
        BY <1>5, <3>1, <3>3, <3>4, <3>6 DEF r
      <4>2. q = c
        <5>1. NULL \in Line(Q, i) /\ c \in Line(Q, i) /\ Q[c].parent = NULL
          BY <1>1, <1>2, <2>1, <3>1, <4>1
        <5> QED
          BY <1>1, <2>1, <5>1, RootIs DEF q
      <4>3. ASSUME NEW x \in 1..Len(A) PROVE A[x].root # c
        <5>1. Keyed(R, A[x].root)
          BY DEF AllKeyed
        <5> QED
          BY <1>2, <2>1, <2>2, <4>1, <5>1 DEF Keyed
      <4>4. \A x \in 1..Len(A) : /\ A[x].root = gone <=> B[x].root = c
                                /\ B[x].reactor = A[x].reactor /\ B[x].recipe = A[x].recipe
        BY <2>4, <4>3
      <4>5. Assigned(B, c, reactor) = Assigned(A, gone, reactor)
        BY <2>4, <4>4, AssignedAlike
      <4> QED
        BY <4>1, <4>2, <4>5 DEF r, q
    <3> QED
      BY <3>5, <3>6
  <2> QED
    BY <2>4, <2>5, <2>6 DEF KeepsReactors
<1> QED
  BY <1>6, <1>7

(***************************************************************************)
(* First stages.  A table without a cycle stays without one when a version *)
(* is registered or deleted, and when a link is made that was tested.      *)
(***************************************************************************)
Acyclic(link) == \A i \in DOMAIN link : i \notin Walk(link[i], link)
NoCycles(R)   == \A i \in DOMAIN R : ~ WouldCycle(R, i, R[i].stage1)
KeepsLinks(R, Q, n) ==
    /\ NoCycles(R) => NoCycles(Q)
    /\ \A i \in 1..n, s \in 0..n : ~ WouldCycle(R, i, s) => ~ WouldCycle(Q, i, s)

LEMMA CyclesAre ==
  ASSUME NEW R
  PROVE  /\ NoCycles(R) <=> Acyclic(Stages(R))
         /\ \A i, s : WouldCycle(R, i, s) <=> i \in Walk(s, Stages(R))
<1>1. \A i, s : WouldCycle(R, i, s) <=> i \in Walk(s, Stages(R))
  BY DEF WouldCycle, Stages
<1>2. DOMAIN Stages(R) = DOMAIN R /\ \A i \in DOMAIN R : Stages(R)[i] = R[i].stage1
  BY DEF Stages
<1> QED
  BY <1>1, <1>2 DEF NoCycles, Acyclic

LEMMA LinkKeepsAcyclic ==
  ASSUME NEW link, IsFiniteSet(DOMAIN link), Acyclic(link), NEW i, NEW s, i \notin Walk(s, link),
         NEW other, other = [j \in DOMAIN link |-> IF j = i THEN s ELSE link[j]]
  PROVE  Acyclic(other)
<1>1. DOMAIN other = DOMAIN link /\ \A j \in DOMAIN link : j # i => other[j] = link[j]
  OBVIOUS
<1>2. s \in Walk(s, link) /\ Closed(Walk(s, link), link)
  BY WalkIs
<1>3. Closed(Walk(s, link), other)
  BY <1>1, <1>2 DEF Closed
<1>4. Walk(s, other) \subseteq Walk(s, link)
  BY <1>1, <1>2, <1>3, WalkIs
<1>5. ASSUME NEW j \in DOMAIN link, j # i PROVE j \notin Walk(link[j], other)
  <2>1. j \notin Walk(link[j], link) /\ link[j] \in Walk(link[j], link)
        /\ Closed(Walk(link[j], link), link)
    BY WalkIs DEF Acyclic
  <2>2. CASE j \in Walk(s, link)
    <3>1. link[j] \in Walk(s, link)
      BY <1>2, <2>2 DEF Closed
    <3>2. Walk(link[j], link) \subseteq Walk(s, link)
      BY <3>1, WalkOn
    <3>3. Closed(Walk(link[j], link), other)
      BY <1>1, <2>1, <3>2 DEF Closed
    <3>4. Walk(link[j], other) \subseteq Walk(link[j], link)
      BY <1>1, <2>1, <3>3, WalkIs
    <3> QED
      BY <2>1, <3>4
  <2>3. CASE j \notin Walk(s, link)
    <3> DEFINE S == Walk(link[j], link) \cup Walk(s, link)
    <3>1. ASSUME NEW k \in S \cap DOMAIN other PROVE other[k] \in S
      <4>1. CASE k = i
        BY <1>1, <1>2, <4>1
      <4>2. CASE k # i
        BY <1>1, <1>2, <2>1, <4>2 DEF Closed
      <4> QED
        BY <4>1, <4>2
    <3>2. Closed(S, other) /\ link[j] \in S /\ j \notin S
      BY <2>1, <2>3, <3>1 DEF Closed
    <3>3. Walk(link[j], other) \subseteq S
      <4> HIDE DEF S
      <4> QED BY <1>1, <3>2, WalkIs
    <3> QED
      BY <3>2, <3>3
  <2> QED
    BY <2>2, <2>3
<1>6. i \in DOMAIN link => other[i] = s
  OBVIOUS
<1>7. ASSUME NEW j \in DOMAIN other PROVE j \notin Walk(other[j], other)
  <2>1. CASE j = i
    BY <1>1, <1>4, <1>6, <2>1
  <2>2. CASE j # i
    BY <1>1, <1>5, <2>2
  <2> QED
    BY <2>1, <2>2
<1> QED
  BY <1>7 DEF Acyclic

LEMMA SameLinksKeepLinks ==
  ASSUME NEW R, NEW n, NEW Q, SameLinks(Q, R) PROVE KeepsLinks(R, Q, n)
<1>1. Stages(Q) = Stages(R)
  BY LinksStay
<1>2. NoCycles(R) <=> NoCycles(Q)
  BY <1>1, CyclesAre
<1>3. \A i, s : WouldCycle(R, i, s) <=> WouldCycle(Q, i, s)
  BY <1>1, CyclesAre
<1> QED
  BY <1>2, <1>3 DEF KeepsLinks

LEMMA RegisteredKeepsLinks ==
  ASSUME NEW R, NEW n \in Nat, Table(R, n), NEW k \in Nat, n <= k, NEW p \in 0..n, NEW s \in 0..n,
         NEW Q, Registers(Q, R, n, k, p, s)
  PROVE  KeepsLinks(R, Q, n)
<1> DEFINE link == Stages(R) other == Stages(Q)
<1>1. /\ DOMAIN link = DOMAIN R /\ DOMAIN R \subseteq 1..n
      /\ DOMAIN other = DOMAIN link \cup (n + 1)..k
      /\ \A j \in DOMAIN link : link[j] \in 0..n /\ other[j] = link[j]
      /\ \A j \in (n + 1)..k : other[j] = s
  BY DEF Stages, Registers, FreshRow, Table, Row
<1> HIDE DEF link, other
<1>2. \A i \in 0..n : Walk(i, other) = Walk(i, link) /\ Walk(i, link) \subseteq 0..n
  BY <1>1, WalkGrows
<1>3. ASSUME Acyclic(link) PROVE Acyclic(other)
  <2>1. ASSUME NEW j \in DOMAIN link PROVE j \notin Walk(other[j], other)
    BY <1>1, <1>2, <1>3 DEF Acyclic
  <2>2. ASSUME NEW j \in (n + 1)..k PROVE j \notin Walk(other[j], other)
    <3>1. j \notin 0..n
      OBVIOUS
    <3> QED
      BY <1>1, <1>2, <3>1
  <2> QED
    BY <1>1, <2>1, <2>2 DEF Acyclic
<1>4. \A i \in 1..n, t \in 0..n : i \notin Walk(t, link) => i \notin Walk(t, other)
  BY <1>2
<1> QED
  BY <1>3, <1>4, CyclesAre DEF KeepsLinks, link, other

LEMMA SplicedKeepsLinks ==
  ASSUME NEW R, NEW n \in Nat, Table(R, n), NEW gone, NEW parent,
         NEW Q, Splices(Q, R, n, gone, parent)
  PROVE  KeepsLinks(R, Q, n)
<1> DEFINE link == Stages(R) other == Stages(Q)
<1>1. /\ IsFiniteSet(DOMAIN link) /\ NULL \notin DOMAIN link /\ DOMAIN link = DOMAIN R
      /\ other = [j \in DOMAIN link \ {gone} |-> IF link[j] = gone THEN NULL ELSE link[j]]
  BY LinksAreFinite DEF Stages, Splices
<1> HIDE DEF link, other
<1>2. \A i : Walk(i, other) \subseteq Walk(i, link) \cup {NULL}
  BY <1>1, WalkCut
<1>3. ASSUME Acyclic(link) PROVE Acyclic(other)
  <2>1. ASSUME NEW j \in DOMAIN other PROVE j \notin Walk(other[j], other)
    <3>1. j \in DOMAIN link /\ j # gone /\ j # NULL
      BY <1>1
    <3>2. CASE other[j] = link[j]
      BY <1>2, <1>3, <3>1, <3>2 DEF Acyclic
    <3>3. CASE other[j] = NULL
      <4>1. Walk(NULL, link) = {NULL}
        BY <1>1, WalkStep
      <4> QED
        BY <1>2, <3>1, <3>3, <4>1
    <3> QED
      BY <1>1, <3>2, <3>3
  <2> QED
    BY <2>1 DEF Acyclic
<1>4. \A i \in 1..n : i # NULL
  BY DEF NULL
<1>5. \A i \in 1..n, t \in 0..n : i \notin Walk(t, link) => i \notin Walk(t, other)
  BY <1>2, <1>4
<1> QED
  BY <1>3, <1>5, CyclesAre DEF KeepsLinks, link, other

(***************************************************************************)
(* The inductive invariant.  The table is one the handlers can have        *)
(* written, whatever overlaps.  As long as no two requests that link first *)
(* stages overlapped, the one in flight would still pass its test; as long *)
(* as no requests overlapped at all, the one in flight holds what one      *)
(* would read now, and every row of an assignment is found by its root.    *)
(***************************************************************************)
RequestOk(r, n) ==
    /\ r.name = "import"  => r.id \in 0..n /\ r.rows \in Nat \ {0} /\ r.stage1 \in 0..n
    /\ r.name = "status"  => r.canceled \in BOOLEAN
    /\ r.name = "current" => r.pin \in BOOLEAN
    /\ r.name = "assign"  => r.row \in AssignRow(n)
    /\ r.name = "delete"  => r.id \in 1..n /\ r.parent \in 0..n /\ r.parent < r.id
    /\ r.name = "stage1"  => r.id \in 1..n /\ r.stage1 \in 0..n

AsRead(r, R) ==
    /\ r.name = "import"  => (r.id # NULL => ResolveTip(R, r.id) = r.id)
    /\ r.name = "current" => /\ r.id \in Active(R) /\ r.chain = Chain(R, r.id)
                             /\ r.pin = (DefaultTip(R, FindChainRoot(R, r.id)) # r.id)
    /\ r.name = "assign"  => Keyed(R, r.row.root)
    /\ r.name = "delete"  => /\ r.id \in DOMAIN R /\ r.root = FindChainRoot(R, r.id)
                             /\ r.parent = R[r.id].parent

VersionsTyped ==
    /\ nextId \in Nat /\ Table(recipe, nextId) /\ assignments \in Seq(AssignRow(nextId))
    /\ request = [m \in Managers |-> request[m]]
    /\ overlap \in [any : BOOLEAN, links : BOOLEAN]
    /\ \A m \in InFlight : RequestOk(request[m], nextId)

LinksOk == ~ overlap.links =>
    /\ NoCycles(recipe)
    /\ \A m, k \in Linking : m = k
    /\ \A m \in Linking : ~ WouldCycle(recipe, request[m].id, request[m].stage1)

AloneOk == ~ overlap.any =>
    /\ \A m, k \in InFlight : m = k
    /\ \A m \in InFlight : AsRead(request[m], recipe)
    /\ AllKeyed(recipe, assignments)

VersionsInv == VersionsTyped /\ LinksOk /\ AloneOk

LEMMA RequestOkGrows ==
  ASSUME NEW r, NEW n \in Nat, NEW k \in Nat, n <= k, RequestOk(r, n) PROVE RequestOk(r, k)
<1>1. 0..n \subseteq 0..k /\ 1..n \subseteq 1..k
  OBVIOUS
<1>2. AssignRow(n) \subseteq AssignRow(k)
  BY <1>1 DEF AssignRow
<1> QED
  BY <1>1, <1>2 DEF RequestOk

LEMMA OverlapIs ==
  ASSUME VersionsTyped, NEW m, NEW op, Read(m, op)
  PROVE  /\ overlap' \in [any : BOOLEAN, links : BOOLEAN]
         /\ ~ overlap'.any => ~ overlap.any /\ InFlight = {}
         /\ ~ overlap'.links => ~ overlap.links /\ (op.name = "stage1" => Linking = {})
<1> DEFINE a == overlap.any \/ InFlight # {}
           b == overlap.links \/ (op.name = "stage1" /\ Linking # {})
<1>1. overlap' = [any |-> a, links |-> b]
  BY DEF Read
<1>2. a \in BOOLEAN /\ b \in BOOLEAN
  BY DEF VersionsTyped
<1>3. overlap'.any = a /\ overlap'.links = b /\ overlap' \in [any : BOOLEAN, links : BOOLEAN]
  <2> HIDE DEF a, b
  <2> QED BY <1>1, <1>2
<1> QED
  BY <1>3

(* What a step that reads has to show of what it read.                     *)
LEMMA ReadKeeps ==
  ASSUME VersionsInv, NEW m \in Managers, NEW op, Read(m, op),
         RequestOk(op, nextId), AsRead(op, recipe),
         op.name = "stage1" => ~ WouldCycle(recipe, op.id, op.stage1)
  PROVE  VersionsInv'
<1>1. /\ UNCHANGED <<recipe, nextId, assignments>> /\ m \notin InFlight
      /\ request' = [request EXCEPT ![m] = op] /\ VersionsTyped
  BY DEF Read, VersionsInv
<1>2. request'[m] = op /\ (\A k \in Managers : k # m => request'[k] = request[k])
      /\ request' = [k \in Managers |-> request'[k]]
  BY <1>1 DEF VersionsTyped
<1>3. \A k \in InFlight' : k = m \/ (k \in InFlight /\ k # m /\ request'[k] = request[k])
  BY <1>1, <1>2 DEF InFlight
<1>4. \A k \in Linking' : (k = m /\ op.name = "stage1")
                          \/ (k \in Linking /\ k # m /\ request'[k] = request[k])
  BY <1>2, <1>3 DEF Linking
<1>5. VersionsTyped'
  <2>1. \A k \in InFlight' : RequestOk(request'[k], nextId')
    BY <1>1, <1>2, <1>3 DEF VersionsTyped
  <2> QED
    BY <1>1, <1>2, <2>1, OverlapIs DEF VersionsTyped
<1>6. LinksOk'
  <2> SUFFICES ASSUME ~ overlap'.links
               PROVE  /\ NoCycles(recipe')
                      /\ \A j, k \in Linking' : j = k
                      /\ \A k \in Linking' : ~ WouldCycle(recipe', request'[k].id, request'[k].stage1)
    BY DEF LinksOk
  <2>1. ~ overlap.links /\ (op.name = "stage1" => Linking = {})
    BY <1>1, OverlapIs
  <2>2. /\ NoCycles(recipe) /\ \A j, k \in Linking : j = k
        /\ \A k \in Linking : ~ WouldCycle(recipe, request[k].id, request[k].stage1)
    BY <2>1 DEF LinksOk, VersionsInv
  <2>3. ASSUME NEW k \in Linking'
        PROVE  ~ WouldCycle(recipe, request'[k].id, request'[k].stage1)
    BY <1>2, <1>4, <2>2
  <2> QED
    BY <1>1, <1>4, <2>1, <2>2, <2>3
<1>7. AloneOk'
  <2> SUFFICES ASSUME ~ overlap'.any
               PROVE  /\ \A j, k \in InFlight' : j = k
                      /\ \A k \in InFlight' : AsRead(request'[k], recipe')
                      /\ AllKeyed(recipe', assignments')
    BY DEF AloneOk
  <2>1. ~ overlap.any /\ InFlight = {}
    BY <1>1, OverlapIs
  <2>2. AllKeyed(recipe, assignments)
    BY <2>1 DEF AloneOk, VersionsInv
  <2> QED
    BY <1>1, <1>2, <1>3, <2>1, <2>2
<1> QED
  BY <1>5, <1>6, <1>7 DEF VersionsInv

(* What a step that writes has to show of what it wrote.                   *)
LEMMA WriteKeeps ==
  ASSUME VersionsInv, NEW m \in Managers, NEW name, Writes(m, name),
         nextId' \in Nat, nextId <= nextId', Table(recipe', nextId'),
         assignments' \in Seq(AssignRow(nextId')),
         ~ overlap.links =>
            /\ NoCycles(recipe')
            /\ \A k \in Linking \ {m} : ~ WouldCycle(recipe', request[k].id, request[k].stage1),
         ~ overlap.any => AllKeyed(recipe', assignments')
  PROVE  VersionsInv'
<1>1. /\ request' = [request EXCEPT ![m] = NoRequest] /\ overlap' = overlap /\ m \in InFlight
      /\ VersionsTyped
  BY DEF Writes, VersionsInv
<1>2. request'[m] = NoRequest /\ (\A k \in Managers : k # m => request'[k] = request[k])
      /\ request' = [k \in Managers |-> request'[k]]
  BY <1>1 DEF VersionsTyped
<1>3. \A k \in InFlight' : k \in InFlight /\ k # m /\ request'[k] = request[k]
  BY <1>2 DEF InFlight
<1>4. \A k \in Linking' : k \in Linking /\ k # m /\ request'[k] = request[k]
  BY <1>3 DEF Linking
<1>5. VersionsTyped'
  <2>1. \A k \in InFlight' : RequestOk(request'[k], nextId')
    BY <1>1, <1>3, RequestOkGrows DEF VersionsTyped
  <2> QED
    BY <1>1, <1>2, <2>1 DEF VersionsTyped
<1>6. LinksOk'
  BY <1>1, <1>4 DEF LinksOk, VersionsInv
<1>7. AloneOk'
  BY <1>1, <1>3 DEF AloneOk, VersionsInv
<1> QED
  BY <1>5, <1>6, <1>7 DEF VersionsInv

LEMMA WriteKeepsLinks ==
  ASSUME VersionsInv, NEW m \in Managers, NEW name, Writes(m, name),
         nextId' \in Nat, nextId <= nextId', Table(recipe', nextId'),
         assignments' \in Seq(AssignRow(nextId')), KeepsLinks(recipe, recipe', nextId),
         ~ overlap.any => AllKeyed(recipe', assignments')
  PROVE  VersionsInv'
<1>1. ASSUME ~ overlap.links
      PROVE  /\ NoCycles(recipe')
             /\ \A k \in Linking \ {m} : ~ WouldCycle(recipe', request[k].id, request[k].stage1)
  <2>1. \A k \in Linking : request[k].id \in 1..nextId /\ request[k].stage1 \in 0..nextId
    BY DEF VersionsInv, VersionsTyped, RequestOk, Linking
  <2> QED
    BY <1>1, <2>1 DEF KeepsLinks, LinksOk, VersionsInv
<1> QED
  BY <1>1, WriteKeeps

(***************************************************************************)
(* The handlers that read.                                                 *)
(***************************************************************************)
LEMMA KnownIs ==
  ASSUME VersionsInv
  PROVE  /\ nextId \in Nat /\ {NULL} \cup Known \subseteq 0..nextId
         /\ DOMAIN recipe \subseteq 1..nextId /\ {NULL} \cup DOMAIN recipe \subseteq 0..nextId
<1>1. nextId \in Nat /\ DOMAIN recipe \subseteq 1..nextId
  BY DEF VersionsInv, VersionsTyped, Table
<1> QED
  BY <1>1 DEF Known, NULL

LEMMA ReadImportKeeps ==
  ASSUME VersionsInv, NEW m \in Managers, ReadImport(m) PROVE VersionsInv'
<1>1. PICK parent \in {NULL} \cup Known, rows \in 1..MaxRows, stage1 \in StageChoices :
        /\ parent # NULL => ResolveTip(recipe, parent) = parent
        /\ Read(m, [name |-> "import", id |-> parent, rows |-> rows, stage1 |-> stage1])
  BY DEF ReadImport
<1> DEFINE op == [name |-> "import", id |-> parent, rows |-> rows, stage1 |-> stage1]
<1>2. parent \in 0..nextId /\ rows \in Nat \ {0} /\ stage1 \in 0..nextId
  <2>1. parent \in 0..nextId /\ stage1 \in 0..nextId
    BY KnownIs DEF StageChoices
  <2>2. MaxRows \in Nat
    BY VersionsAssumption
  <2> QED
    BY <2>1, <2>2
<1>3. op.name = "import" /\ op.id = parent /\ op.rows = rows /\ op.stage1 = stage1
  OBVIOUS
<1> HIDE DEF op
<1>4. RequestOk(op, nextId) /\ AsRead(op, recipe)
  BY <1>1, <1>2, <1>3 DEF RequestOk, AsRead
<1> QED
  BY <1>1, <1>3, <1>4, ReadKeeps DEF op

LEMMA ReadStatusKeeps ==
  ASSUME VersionsInv, NEW m \in Managers, ReadStatus(m) PROVE VersionsInv'
<1>1. PICK i \in DOMAIN recipe :
        Read(m, [name |-> "status", id |-> i, canceled |-> ~ recipe[i].canceled])
  BY DEF ReadStatus
<1> DEFINE op == [name |-> "status", id |-> i, canceled |-> ~ recipe[i].canceled]
<1>2. op.name = "status" /\ op.canceled = ~ recipe[i].canceled
  OBVIOUS
<1> HIDE DEF op
<1>3. RequestOk(op, nextId) /\ AsRead(op, recipe)
  BY <1>2 DEF RequestOk, AsRead
<1> QED
  BY <1>1, <1>2, <1>3, ReadKeeps DEF op

LEMMA ReadCurrentKeeps ==
  ASSUME VersionsInv, NEW m \in Managers, ReadCurrent(m) PROVE VersionsInv'
<1>1. PICK i \in Active(recipe) :
        Read(m, [name |-> "current", id |-> i, chain |-> Chain(recipe, i),
                 pin |-> DefaultTip(recipe, FindChainRoot(recipe, i)) # i])
  BY DEF ReadCurrent
<1> DEFINE op == [name |-> "current", id |-> i, chain |-> Chain(recipe, i),
                  pin |-> DefaultTip(recipe, FindChainRoot(recipe, i)) # i]
<1>2. /\ op.name = "current" /\ op.id = i /\ op.chain = Chain(recipe, i)
      /\ op.pin = (DefaultTip(recipe, FindChainRoot(recipe, i)) # i)
  OBVIOUS
<1> HIDE DEF op
<1>3. RequestOk(op, nextId) /\ AsRead(op, recipe)
  BY <1>2 DEF RequestOk, AsRead
<1> QED
  BY <1>1, <1>2, <1>3, ReadKeeps DEF op

LEMMA ReadAssignKeeps ==
  ASSUME VersionsInv, NEW m \in Managers, ReadAssign(m) PROVE VersionsInv'
<1>1. PICK i \in DOMAIN recipe, reactor \in Reactors, target \in {NULL} \cup Active(recipe) :
        Read(m, [name |-> "assign", id |-> i,
                 row |-> [root |-> FindChainRoot(recipe, i),
                          reactor |-> reactor, recipe |-> target]])
  BY DEF ReadAssign
<1> DEFINE row == [root |-> FindChainRoot(recipe, i), reactor |-> reactor, recipe |-> target]
           op  == [name |-> "assign", id |-> i, row |-> row]
<1>2. op.name = "assign" /\ op.row = row /\ row.root = FindChainRoot(recipe, i)
  OBVIOUS
<1>3. FindChainRoot(recipe, i) \in 1..nextId /\ target \in 0..nextId
  <2>1. FindChainRoot(recipe, i) \in DOMAIN recipe
    BY RootIsKeyed DEF VersionsInv, VersionsTyped
  <2>2. target \in {NULL} \cup DOMAIN recipe
    BY DEF Active
  <2> QED
    BY <2>1, <2>2, KnownIs
<1>4. row \in AssignRow(nextId)
  BY <1>3 DEF AssignRow
<1>5. Keyed(recipe, FindChainRoot(recipe, i))
  BY RootIsKeyed DEF VersionsInv, VersionsTyped
<1> HIDE DEF op, row
<1>6. RequestOk(op, nextId) /\ AsRead(op, recipe)
  BY <1>2, <1>4, <1>5 DEF RequestOk, AsRead
<1> QED
  BY <1>1, <1>2, <1>6, ReadKeeps DEF op, row

LEMMA ReadDeleteKeeps ==
  ASSUME VersionsInv, NEW m \in Managers, ReadDelete(m) PROVE VersionsInv'
<1>1. PICK i \in DOMAIN recipe :
        Read(m, [name |-> "delete", id |-> i, root |-> FindChainRoot(recipe, i),
                 parent |-> recipe[i].parent])
  BY DEF ReadDelete
<1> DEFINE op == [name |-> "delete", id |-> i, root |-> FindChainRoot(recipe, i),
                  parent |-> recipe[i].parent]
<1>2. /\ op.name = "delete" /\ op.id = i /\ op.root = FindChainRoot(recipe, i)
      /\ op.parent = recipe[i].parent
  OBVIOUS
<1>3. i \in 1..nextId /\ recipe[i].parent \in 0..nextId /\ recipe[i].parent < i
  BY DEF VersionsInv, VersionsTyped, Table, Row
<1> HIDE DEF op
<1>4. RequestOk(op, nextId) /\ AsRead(op, recipe)
  BY <1>2, <1>3 DEF RequestOk, AsRead
<1> QED
  BY <1>1, <1>2, <1>4, ReadKeeps DEF op

LEMMA ReadStage1Keeps ==
  ASSUME VersionsInv, NEW m \in Managers, ReadStage1(m) PROVE VersionsInv'
<1>1. PICK i \in DOMAIN recipe, s \in {NULL} \cup DOMAIN recipe :
        /\ s # NULL => s # i /\ ~ WouldCycle(recipe, i, s)
        /\ Read(m, [name |-> "stage1", id |-> i, stage1 |-> s])
  BY DEF ReadStage1
<1> DEFINE op == [name |-> "stage1", id |-> i, stage1 |-> s]
<1>2. op.name = "stage1" /\ op.id = i /\ op.stage1 = s
  OBVIOUS
<1>3. i \in 1..nextId /\ s \in 0..nextId
  BY KnownIs
<1>4. ~ WouldCycle(recipe, i, s)
  <2>1. NULL \notin DOMAIN Stages(recipe) /\ IsFiniteSet(DOMAIN Stages(recipe)) /\ i # NULL
    BY LinksAreFinite DEF VersionsInv, VersionsTyped
  <2>2. Walk(NULL, Stages(recipe)) = {NULL}
    BY <2>1, WalkStep
  <2>3. ~ WouldCycle(recipe, i, NULL)
    BY <2>1, <2>2, CyclesAre
  <2> QED
    BY <1>1, <2>3
<1> HIDE DEF op
<1>5. RequestOk(op, nextId) /\ AsRead(op, recipe)
  BY <1>2, <1>3 DEF RequestOk, AsRead
<1> QED
  BY <1>1, <1>2, <1>4, <1>5, ReadKeeps DEF op

(***************************************************************************)
(* The handlers that write.                                                *)
(***************************************************************************)
LEMMA WriteImportIs ==
  ASSUME VersionsInv, NEW m \in Managers, WriteImport(m)
  PROVE  \E p, s, T :
           /\ p \in 0..nextId /\ s \in 0..nextId
           /\ nextId < nextId' /\ nextId' \in Nat /\ UNCHANGED assignments
           /\ p = request[m].id
           /\ T = Registered(recipe, nextId, nextId', p, s)
           /\ recipe' = IF p = NULL THEN T ELSE Unpin(T, RevisionChain(T, p))
<1> DEFINE r == request[m]
           T == Registered(recipe, nextId, nextId', r.id, r.stage1)
<1>1. m \in InFlight /\ r.name = "import"
  BY DEF WriteImport, Writes
<1>2. r.id \in 0..nextId /\ r.rows \in Nat \ {0} /\ r.stage1 \in 0..nextId /\ nextId \in Nat
  BY <1>1 DEF VersionsInv, VersionsTyped, RequestOk
<1>3. nextId' = nextId + r.rows /\ UNCHANGED assignments
  BY DEF WriteImport
<1>4. recipe' = IF r.id = NULL THEN T ELSE Unpin(T, RevisionChain(T, r.id))
  BY <1>3 DEF WriteImport, Registered
<1>5. nextId < nextId' /\ nextId' \in Nat
  BY <1>2, <1>3
<1> HIDE DEF r
<1> QED
  BY <1>2, <1>3, <1>4, <1>5 DEF r

LEMMA WriteImportKeeps ==
  ASSUME VersionsInv, NEW m \in Managers, WriteImport(m)
  PROVE  VersionsInv' /\ ResolveTip(recipe', nextId') = nextId'
<1>1. PICK p, s, T :
        /\ p \in 0..nextId /\ s \in 0..nextId
        /\ nextId < nextId' /\ nextId' \in Nat /\ UNCHANGED assignments
        /\ T = Registered(recipe, nextId, nextId', p, s)
        /\ recipe' = IF p = NULL THEN T ELSE Unpin(T, RevisionChain(T, p))
  BY WriteImportIs
<1>2. /\ nextId \in Nat /\ Table(recipe, nextId) /\ nextId <= nextId'
      /\ assignments \in Seq(AssignRow(nextId))
  BY <1>1 DEF VersionsInv, VersionsTyped
<1>3. Table(recipe', nextId') /\ SameLinks(recipe', T) /\ ResolveTip(recipe', nextId') = nextId'
  BY <1>1, <1>2, RevisionIsCurrent
<1>4. Registers(T, recipe, nextId, nextId', p, s)
  BY <1>1, <1>2, RegisteredIs
<1>5. KeepsLinks(recipe, recipe', nextId)
  <2>1. KeepsLinks(recipe, T, nextId)
    BY <1>1, <1>2, <1>4, RegisteredKeepsLinks
  <2>2. KeepsLinks(T, recipe', nextId)
    BY <1>3, SameLinksKeepLinks
  <2> QED
    BY <2>1, <2>2 DEF KeepsLinks
<1>6. assignments' \in Seq(AssignRow(nextId'))
  <2>1. 1..nextId \subseteq 1..nextId' /\ 0..nextId \subseteq 0..nextId'
    BY <1>1, <1>2
  <2>2. AssignRow(nextId) \subseteq AssignRow(nextId')
    BY <2>1 DEF AssignRow
  <2> QED
    BY <1>1, <1>2, <2>2
<1>7. ASSUME ~ overlap.any PROVE AllKeyed(recipe', assignments')
  <2>1. ASSUME NEW x \in 1..Len(assignments), Keyed(recipe', assignments[x].root) = FALSE PROVE FALSE
    <3> DEFINE k == assignments[x].root
    <3>1. Keyed(recipe, k)
      BY <1>7 DEF VersionsInv, AloneOk, AllKeyed
    <3>2. k \in 1..nextId
      <4>1. assignments[x] \in AssignRow(nextId)
        BY <1>2
      <4> QED
        BY <4>1 DEF AssignRow
    <3> HIDE DEF k
    <3>3. k \in DOMAIN recipe' /\ NULL \in Line(recipe', k) /\ recipe'[k].parent # NULL
      BY <2>1 DEF Keyed, k
    <3>4. k \in DOMAIN recipe /\ recipe'[k].parent = recipe[k].parent
      <4>1. k \notin (nextId + 1)..nextId'
        BY <1>1, <1>2, <3>2
      <4>2. k \in DOMAIN recipe /\ T[k] = recipe[k]
        BY <1>3, <1>4, <3>3, <4>1 DEF SameLinks, Registers
      <4> QED
        BY <1>3, <1>4, <4>2 DEF SameLinks, Registers
    <3>5. Line(recipe', k) = Line(recipe, k)
      <4> DEFINE link == Parents(recipe) other == Parents(T)
      <4>1. Parents(recipe') = other
        BY <1>3, LinksStay
      <4>2. /\ DOMAIN link \subseteq 1..nextId
            /\ DOMAIN other = DOMAIN link \cup (nextId + 1)..nextId'
            /\ \A j \in DOMAIN link : link[j] \in 0..nextId /\ other[j] = link[j]
        BY <1>2, <1>4 DEF Parents, Registers, Table, Row
      <4> HIDE DEF link, other
      <4>3. k \in 0..nextId
        BY <1>2, <3>2
      <4>4. Walk(k, other) = Walk(k, link)
        BY <1>1, <1>2, <4>2, <4>3, WalkGrows
      <4> QED
        BY <1>2, <1>3, <4>1, <4>4, LineIs DEF link
    <3> QED
      BY <3>1, <3>3, <3>4, <3>5 DEF Keyed
  <2> QED
    BY <1>1, <2>1 DEF AllKeyed, Keyed
<1>8. Writes(m, "import")
  BY DEF WriteImport
<1>9. VersionsInv'
  BY <1>1, <1>2, <1>3, <1>5, <1>6, <1>7, <1>8, WriteKeepsLinks
<1> QED
  BY <1>3, <1>9

LEMMA SameKeyed ==
  ASSUME NEW R, NEW Q, NEW n, Table(R, n), Table(Q, n), SameLinks(Q, R), NEW A, AllKeyed(R, A)
  PROVE  AllKeyed(Q, A)
<1>1. Parents(Q) = Parents(R)
  BY LinksStay
<1>2. DOMAIN Q = DOMAIN R /\ (\A i : Line(Q, i) = Line(R, i))
      /\ \A i \in DOMAIN R : Q[i].parent = R[i].parent
  BY <1>1, SameLines
<1> QED
  BY <1>2 DEF AllKeyed, Keyed

(* A write that changes no link and no assignment.                         *)
LEMMA SameLinksKeep ==
  ASSUME VersionsInv, NEW m \in Managers, NEW name, Writes(m, name),
         UNCHANGED <<nextId, assignments>>, Table(recipe', nextId), SameLinks(recipe', recipe)
  PROVE  VersionsInv'
<1>1. /\ nextId \in Nat /\ nextId <= nextId /\ Table(recipe, nextId)
      /\ assignments \in Seq(AssignRow(nextId))
  BY DEF VersionsInv, VersionsTyped
<1>2. KeepsLinks(recipe, recipe', nextId)
  BY SameLinksKeepLinks
<1>3. ~ overlap.any => AllKeyed(recipe', assignments')
  BY <1>1, SameKeyed DEF VersionsInv, AloneOk
<1> QED
  BY <1>1, <1>2, <1>3, WriteKeepsLinks

LEMMA WriteStatusKeeps ==
  ASSUME VersionsInv, NEW m \in Managers, WriteStatus(m) PROVE VersionsInv'
<1> DEFINE r == request[m]
<1>1. Writes(m, "status") /\ UNCHANGED <<nextId, assignments>> /\ r.canceled \in BOOLEAN
  BY DEF WriteStatus, Writes, VersionsInv, VersionsTyped, RequestOk
<1>2. recipe' = [i \in DOMAIN recipe |-> IF i = r.id THEN [recipe[i] EXCEPT !.canceled = r.canceled]
                                         ELSE recipe[i]]
  BY DEF WriteStatus
<1> HIDE DEF r
<1>3. ASSUME NEW i \in DOMAIN recipe
      PROVE  /\ recipe'[i] \in Row(nextId) /\ recipe'[i].parent = recipe[i].parent
             /\ recipe'[i].stage1 = recipe[i].stage1 /\ recipe[i].parent < i
  <2> DEFINE y == [recipe[i] EXCEPT !.canceled = r.canceled]
  <2>1. recipe[i] \in Row(nextId) /\ recipe[i].parent < i
    BY DEF VersionsInv, VersionsTyped, Table
  <2>2. y \in Row(nextId) /\ y.parent = recipe[i].parent /\ y.stage1 = recipe[i].stage1
    BY <1>1, <2>1 DEF Row
  <2>3. recipe'[i] = y \/ recipe'[i] = recipe[i]
    BY <1>2
  <2> HIDE DEF y
  <2> QED
    BY <2>1, <2>2, <2>3
<1>4. nextId \in Nat /\ DOMAIN recipe' = DOMAIN recipe /\ DOMAIN recipe \subseteq 1..nextId
  BY <1>2, KnownIs
<1>5. Table(recipe', nextId) /\ SameLinks(recipe', recipe)
  BY <1>3, <1>4 DEF Table, SameLinks
<1> QED
  BY <1>1, <1>5, SameLinksKeep

LEMMA WriteCurrentKeeps ==
  ASSUME VersionsInv, NEW m \in Managers, WriteCurrent(m)
  PROVE  VersionsInv' /\ (~ overlap.any => ResolveTip(recipe', request[m].id) = request[m].id)
<1> DEFINE r == request[m]
<1>1. /\ Writes(m, "current") /\ UNCHANGED <<nextId, assignments>> /\ r.pin \in BOOLEAN
      /\ recipe' = PinnedOne(recipe, r.id, r.pin, r.chain)
  <2>1. m \in InFlight /\ r.name = "current"
    BY DEF WriteCurrent, Writes
  <2> QED
    BY <2>1 DEF WriteCurrent, PinnedOne, VersionsInv, VersionsTyped, RequestOk
<1>2. nextId \in Nat /\ Table(recipe, nextId)
  BY DEF VersionsInv, VersionsTyped
<1>3. PinsOne(recipe', recipe, nextId, r.id, r.pin, r.chain)
  BY <1>1, <1>2, PinnedOneIs
<1>4. Table(recipe', nextId) /\ SameLinks(recipe', recipe)
  BY <1>3 DEF PinsOne
<1>5. VersionsInv'
  BY <1>1, <1>4, SameLinksKeep
<1>6. ASSUME ~ overlap.any PROVE ResolveTip(recipe', r.id) = r.id
  <2>1. /\ r.id \in Active(recipe) /\ r.chain = Chain(recipe, r.id)
        /\ r.pin = (DefaultTip(recipe, FindChainRoot(recipe, r.id)) # r.id)
    BY <1>6, <1>1 DEF Writes, VersionsInv, AloneOk, AsRead
  <2>2. recipe' = PinnedOne(recipe, r.id, r.pin, Chain(recipe, r.id))
    BY <1>1, <2>1
  <2> DEFINE i == r.id
             pin == r.pin
  <2>3. /\ i \in Active(recipe) /\ pin \in BOOLEAN
        /\ pin = (DefaultTip(recipe, FindChainRoot(recipe, i)) # i)
        /\ recipe' = PinnedOne(recipe, i, pin, Chain(recipe, i))
    BY <1>1, <2>1, <2>2
  <2> HIDE DEF i, pin
  <2>4. ResolveTip(recipe', i) = i
    BY <1>2, <2>3, ChosenIsCurrent
  <2> QED
    BY <2>4 DEF i
<1> QED
  BY <1>5, <1>6

LEMMA WriteAssignKeeps ==
  ASSUME VersionsInv, NEW m \in Managers, WriteAssign(m) PROVE VersionsInv'
<1> DEFINE row == request[m].row
<1>1. /\ Writes(m, "assign") /\ UNCHANGED <<recipe, nextId>> /\ row \in AssignRow(nextId)
      /\ assignments' = Append(assignments, row) /\ m \in InFlight /\ request[m].name = "assign"
  BY DEF WriteAssign, Writes, VersionsInv, VersionsTyped, RequestOk
<1>2. /\ nextId \in Nat /\ Table(recipe, nextId) /\ assignments \in Seq(AssignRow(nextId))
      /\ nextId <= nextId
  BY DEF VersionsInv, VersionsTyped
<1>3. ASSUME ~ overlap.any PROVE AllKeyed(recipe', assignments')
  <2>1. Keyed(recipe, row.root) /\ AllKeyed(recipe, assignments)
    BY <1>1, <1>3 DEF VersionsInv, AloneOk, AsRead
  <2> HIDE DEF row
  <2>2. /\ Len(assignments') = Len(assignments) + 1 /\ assignments'[Len(assignments) + 1] = row
        /\ \A x \in 1..Len(assignments) : assignments'[x] = assignments[x]
        /\ Len(assignments) \in Nat
    BY <1>1, <1>2
  <2>3. \A x \in 1..Len(assignments') : x \in 1..Len(assignments) \/ x = Len(assignments) + 1
    BY <2>2
  <2> QED
    BY <1>1, <2>1, <2>2, <2>3 DEF AllKeyed
<1>4. assignments' \in Seq(AssignRow(nextId))
  <2> HIDE DEF row
  <2> QED BY <1>1, <1>2
<1>5. KeepsLinks(recipe, recipe', nextId)
  BY <1>1 DEF KeepsLinks
<1> QED
  BY <1>1, <1>2, <1>3, <1>4, <1>5, WriteKeepsLinks

LEMMA WriteStage1Keeps ==
  ASSUME VersionsInv, NEW m \in Managers, WriteStage1(m) PROVE VersionsInv'
<1> DEFINE i == request[m].id
           s == request[m].stage1
<1>1. /\ Writes(m, "stage1") /\ UNCHANGED <<nextId, assignments>> /\ m \in Linking
      /\ i \in 1..nextId /\ s \in 0..nextId
  BY DEF WriteStage1, Writes, Linking, VersionsInv, VersionsTyped, RequestOk
<1>2. recipe' = [j \in DOMAIN recipe |-> IF j = i THEN [recipe[j] EXCEPT !.stage1 = s] ELSE recipe[j]]
  BY DEF WriteStage1
<1>3. /\ nextId \in Nat /\ nextId <= nextId /\ Table(recipe, nextId)
      /\ assignments \in Seq(AssignRow(nextId))
  BY DEF VersionsInv, VersionsTyped
<1>4. ~ overlap.links => Linking \ {m} = {} /\ NoCycles(recipe) /\ ~ WouldCycle(recipe, i, s)
  BY <1>1 DEF VersionsInv, LinksOk
<1> HIDE DEF i, s
<1>5. ASSUME NEW j \in DOMAIN recipe
      PROVE  /\ recipe'[j] \in Row(nextId) /\ recipe'[j].parent = recipe[j].parent
             /\ recipe'[j].stage1 = (IF j = i THEN s ELSE recipe[j].stage1)
             /\ recipe[j].parent < j
  <2> DEFINE y == [recipe[j] EXCEPT !.stage1 = s]
  <2>1. recipe[j] \in Row(nextId) /\ recipe[j].parent < j
    BY <1>3 DEF Table
  <2>2. y \in Row(nextId) /\ y.parent = recipe[j].parent /\ y.stage1 = s
    BY <1>1, <2>1 DEF Row
  <2>3. recipe'[j] = IF j = i THEN y ELSE recipe[j]
    BY <1>2
  <2> HIDE DEF y
  <2> QED
    BY <2>1, <2>2, <2>3
<1>6. DOMAIN recipe' = DOMAIN recipe /\ DOMAIN recipe \subseteq 1..nextId
  BY <1>2, KnownIs
<1>7. Table(recipe', nextId) /\ Parents(recipe') = Parents(recipe)
  BY <1>3, <1>5, <1>6 DEF Table, Parents
<1>8. ASSUME ~ overlap.links PROVE NoCycles(recipe')
  <2>1. Stages(recipe') = [j \in DOMAIN Stages(recipe) |-> IF j = i THEN s ELSE Stages(recipe)[j]]
    BY <1>5, <1>6 DEF Stages
  <2>2. /\ IsFiniteSet(DOMAIN Stages(recipe)) /\ Acyclic(Stages(recipe))
        /\ i \notin Walk(s, Stages(recipe))
    BY <1>3, <1>4, <1>8, LinksAreFinite, CyclesAre
  <2>3. Acyclic(Stages(recipe'))
    BY <2>1, <2>2, LinkKeepsAcyclic
  <2> QED
    BY <2>3, CyclesAre
<1>9. ASSUME ~ overlap.any PROVE AllKeyed(recipe', assignments')
  <2>1. AllKeyed(recipe, assignments)
    BY <1>9 DEF VersionsInv, AloneOk
  <2>2. /\ DOMAIN recipe' = DOMAIN recipe /\ (\A j : Line(recipe', j) = Line(recipe, j))
        /\ \A j \in DOMAIN recipe : recipe'[j].parent = recipe[j].parent
    BY <1>3, <1>7, SameLines
  <2> QED
    BY <1>1, <2>1, <2>2 DEF AllKeyed, Keyed
<1> QED
  BY <1>1, <1>3, <1>4, <1>7, <1>8, <1>9, WriteKeeps

LEMMA WriteDeleteIs ==
  ASSUME NEW m, WriteDelete(m)
  PROVE  /\ Writes(m, "delete") /\ UNCHANGED nextId /\ m \in InFlight
         /\ request[m].name = "delete"
         /\ recipe' = Spliced(recipe, request[m].id, request[m].parent)
         /\ assignments' =
              IF request[m].root = request[m].id /\ Children(recipe, request[m].id) # {}
              THEN Rerooted(assignments, request[m].id,
                            FindChainRoot(recipe', Min(Children(recipe, request[m].id))))
              ELSE assignments
  BY DEF WriteDelete, Writes, Relinked, Spliced, Rekeyed, Rerooted, Children

LEMMA WriteDeleteAlone ==
  ASSUME VersionsInv, NEW m \in Managers, WriteDelete(m), ~ overlap.any, NEW gone, gone = request[m].id
  PROVE  /\ gone \in DOMAIN recipe /\ request[m].root = FindChainRoot(recipe, gone)
         /\ recipe' = Spliced(recipe, gone, recipe[gone].parent)
         /\ AllKeyed(recipe', assignments')
         /\ KeepsReactors(recipe, recipe', assignments, assignments', gone)
<1>1. /\ gone \in DOMAIN recipe /\ request[m].root = FindChainRoot(recipe, gone)
      /\ request[m].parent = recipe[gone].parent /\ AllKeyed(recipe, assignments)
  <2>1. AsRead(request[m], recipe) /\ AllKeyed(recipe, assignments)
    BY WriteDeleteIs DEF VersionsInv, AloneOk
  <2> QED
    BY <2>1, WriteDeleteIs DEF AsRead
<1>2. recipe' = Spliced(recipe, gone, recipe[gone].parent)
  BY <1>1, WriteDeleteIs
<1>3. assignments' = Moved(recipe, recipe', assignments, gone)
  BY <1>1, WriteDeleteIs DEF Moved
<1>4. nextId \in Nat /\ Table(recipe, nextId) /\ assignments \in Seq(AssignRow(nextId))
  BY DEF VersionsInv, VersionsTyped
<1> QED
  BY <1>1, <1>2, <1>3, <1>4, MovedKeeps

LEMMA WriteDeleteKeeps ==
  ASSUME VersionsInv, NEW m \in Managers, WriteDelete(m) PROVE VersionsInv'
<1> DEFINE gone == request[m].id
           parent == request[m].parent
<1>1. /\ nextId \in Nat /\ nextId <= nextId /\ Table(recipe, nextId)
      /\ assignments \in Seq(AssignRow(nextId))
  BY DEF VersionsInv, VersionsTyped
<1>2. gone \in 1..nextId /\ parent \in 0..nextId /\ parent < gone
  BY WriteDeleteIs DEF VersionsInv, VersionsTyped, RequestOk
<1>3. /\ recipe' = Spliced(recipe, gone, parent)
      /\ \/ assignments' = assignments
         \/ /\ Children(recipe, gone) # {}
            /\ assignments' = Rerooted(assignments, gone,
                                       FindChainRoot(recipe', Min(Children(recipe, gone))))
  BY WriteDeleteIs
<1> HIDE DEF gone, parent
<1>4. Splices(recipe', recipe, nextId, gone, parent)
  <2>1. gone \in Nat
    BY <1>2
  <2> QED
    BY <1>1, <1>2, <1>3, <2>1, SplicedIs
<1>5. Table(recipe', nextId) /\ KeepsLinks(recipe, recipe', nextId)
  <2>1. KeepsLinks(recipe, recipe', nextId)
    BY <1>1, <1>4, SplicedKeepsLinks
  <2> QED
    BY <1>4, <2>1 DEF Splices
<1>6. assignments' \in Seq(AssignRow(nextId))
  <2>1. CASE assignments' = assignments
    BY <1>1, <2>1
  <2>2. CASE /\ Children(recipe, gone) # {}
             /\ assignments' = Rerooted(assignments, gone,
                                        FindChainRoot(recipe', Min(Children(recipe, gone))))
    <3> DEFINE c == Min(Children(recipe, gone))
    <3>1. Children(recipe, gone) \in SUBSET Nat
      BY KnownIs DEF Children
    <3>2. c \in Children(recipe, gone)
      BY <2>2, <3>1, MinIs
    <3>3. c \in DOMAIN recipe /\ recipe[c].parent = gone /\ recipe[c].parent < c
      BY <1>1, <3>2 DEF Children, Table
    <3>4. c # gone
      BY <1>1, <1>2, <3>3 DEF Table
    <3> HIDE DEF c
    <3>5. FindChainRoot(recipe', c) \in 1..nextId
      BY <1>4, <1>5, <3>3, <3>4, RootIsKeyed DEF Splices, Table
    <3>6. Reroots(assignments', assignments, nextId, gone, FindChainRoot(recipe', c))
      BY <1>1, <2>2, <3>5, RerootedIs DEF c
    <3> QED
      BY <3>6 DEF Reroots
  <2> QED
    BY <1>3, <2>1, <2>2
<1>7. ~ overlap.any => AllKeyed(recipe', assignments')
  BY WriteDeleteAlone
<1>8. Writes(m, "delete") /\ UNCHANGED nextId
  BY WriteDeleteIs
<1> QED
  BY <1>1, <1>5, <1>6, <1>7, <1>8, WriteKeepsLinks

(***************************************************************************)
(* The invariant holds at the start and is kept by every step.             *)
(***************************************************************************)
LEMMA VersionsBegin == VersionsInit => VersionsInv
<1> SUFFICES ASSUME VersionsInit PROVE VersionsInv
  OBVIOUS
<1>1. /\ recipe = << >> /\ nextId = 0 /\ assignments = << >> /\ DOMAIN recipe = {}
      /\ overlap.any = FALSE /\ overlap.links = FALSE /\ overlap \in [any : BOOLEAN, links : BOOLEAN]
      /\ request = [m \in Managers |-> NoRequest]
  BY DEF VersionsInit
<1>2. InFlight = {} /\ Linking = {} /\ request = [m \in Managers |-> request[m]]
  BY <1>1 DEF InFlight, Linking
<1>3. Table(recipe, nextId) /\ NoCycles(recipe)
  BY <1>1 DEF Table, NoCycles
<1>4. assignments \in Seq(AssignRow(nextId)) /\ AllKeyed(recipe, assignments)
  BY <1>1 DEF AllKeyed
<1> QED
  BY <1>1, <1>2, <1>3, <1>4 DEF VersionsInv, VersionsTyped, LinksOk, AloneOk

LEMMA VersionsStay == VersionsInv /\ UNCHANGED versionVars => VersionsInv'
  BY DEF versionVars, VersionsInv, VersionsTyped, LinksOk, AloneOk, InFlight, Linking

LEMMA VersionsStep == VersionsInv /\ [VersionsNext]_versionVars => VersionsInv'
<1>1. ASSUME VersionsInv, NEW m \in Managers,
             \/ ReadImport(m) \/ ReadStatus(m) \/ ReadCurrent(m)
             \/ ReadAssign(m) \/ ReadDelete(m) \/ ReadStage1(m)
      PROVE  VersionsInv'
  BY <1>1, ReadImportKeeps, ReadStatusKeeps, ReadCurrentKeeps, ReadAssignKeeps,
     ReadDeleteKeeps, ReadStage1Keeps
<1>2. ASSUME VersionsInv, NEW m \in Managers,
             \/ WriteImport(m) \/ WriteStatus(m) \/ WriteCurrent(m)
             \/ WriteAssign(m) \/ WriteDelete(m) \/ WriteStage1(m)
      PROVE  VersionsInv'
  BY <1>2, WriteImportKeeps, WriteStatusKeeps, WriteCurrentKeeps, WriteAssignKeeps,
     WriteDeleteKeeps, WriteStage1Keeps
<1>3. VersionsInv /\ VersionsNext => VersionsInv'
  BY <1>1, <1>2 DEF VersionsNext
<1> QED
  BY <1>3, VersionsStay

LEMMA VersionsAlways == VersionsSpec => []VersionsInv
<1> QED
  BY VersionsBegin, VersionsStep, PTL DEF VersionsSpec

(* No recipe is its own first stage over any number of links, as long as   *)
(* no two requests that link first stages overlapped (set_recipe_stage1).  *)
THEOREM StagesStayAcyclic == VersionsSpec => []NoStage1Cycle
<1>1. VersionsInv => NoStage1Cycle
  BY DEF VersionsInv, LinksOk, NoCycles, NoStage1Cycle, WouldCycle
<1> QED
  BY <1>1, VersionsAlways, PTL

(* Of all steps only the one that writes a registration takes a new id.    *)
LEMMA NewIdIsImported ==
  ASSUME [VersionsNext]_versionVars, nextId' > nextId, nextId \in Nat
  PROVE  \E m \in Managers : WriteImport(m)
<1>1. nextId' # nextId
  OBVIOUS
<1>2. VersionsNext
  BY <1>1 DEF versionVars
<1>3. PICK m \in Managers :
        \/ ReadImport(m) \/ ReadStatus(m) \/ ReadCurrent(m)
        \/ ReadAssign(m) \/ ReadDelete(m) \/ ReadStage1(m)
        \/ WriteImport(m) \/ WriteStatus(m) \/ WriteCurrent(m)
        \/ WriteAssign(m) \/ WriteDelete(m) \/ WriteStage1(m)
  BY <1>2 DEF VersionsNext
<1>4. ~ ReadImport(m) /\ ~ ReadStatus(m) /\ ~ ReadCurrent(m)
      /\ ~ ReadAssign(m) /\ ~ ReadDelete(m) /\ ~ ReadStage1(m)
  BY <1>1 DEF ReadImport, ReadStatus, ReadCurrent, ReadAssign, ReadDelete, ReadStage1, Read
<1>5. ~ WriteStatus(m) /\ ~ WriteCurrent(m) /\ ~ WriteAssign(m) /\ ~ WriteDelete(m)
      /\ ~ WriteStage1(m)
  BY <1>1 DEF WriteStatus, WriteCurrent, WriteAssign, WriteDelete, WriteStage1
<1> QED
  BY <1>3, <1>4, <1>5

LEMMA RevisionIsOfCurrent ==
  ASSUME VersionsInv, NEW m \in Managers, WriteImport(m), ~ overlap.any PROVE RevisesCurrentNow
<1>1. PICK p, s, T :
        /\ p \in 0..nextId /\ s \in 0..nextId
        /\ nextId < nextId' /\ nextId' \in Nat /\ p = request[m].id
        /\ T = Registered(recipe, nextId, nextId', p, s)
        /\ recipe' = IF p = NULL THEN T ELSE Unpin(T, RevisionChain(T, p))
  BY WriteImportIs
<1>2. nextId \in Nat /\ Table(recipe, nextId) /\ nextId <= nextId'
  BY <1>1 DEF VersionsInv, VersionsTyped
<1>3. SameLinks(recipe', T) /\ Registers(T, recipe, nextId, nextId', p, s)
  BY <1>1, <1>2, RevisionIsCurrent, RegisteredIs
<1>4. nextId' \in (nextId + 1)..nextId'
  BY <1>1, <1>2
<1>5. recipe'[nextId'].parent = p
  BY <1>3, <1>4 DEF SameLinks, Registers, FreshRow
<1>6. p # NULL => ResolveTip(recipe, p) = p
  BY <1>1 DEF WriteImport, Writes, VersionsInv, AloneOk, AsRead
<1>7. NULL \notin DOMAIN recipe
  BY <1>2, LinksAreFinite
<1> QED
  BY <1>5, <1>6, <1>7 DEF RevisesCurrentNow

(* The current version is the one a manager chose last: for any number of  *)
(* managers a revision that is registered is current; and as long as no    *)
(* requests overlapped, so is the version that was set current, and        *)
(* revisions do not branch the chain (import_recipes, set_recipe_current). *)
THEOREM CurrentStaysChosen == VersionsSpec => CurrentIsChosen
<1>1. ASSUME VersionsInv, [VersionsNext]_versionVars PROVE RevisionBecomesCurrentNow
  <2> SUFFICES ASSUME nextId' > nextId PROVE ResolveTip(recipe', nextId') = nextId'
    BY DEF RevisionBecomesCurrentNow
  <2>1. nextId \in Nat
    BY <1>1 DEF VersionsInv, VersionsTyped
  <2>2. PICK m \in Managers : WriteImport(m)
    BY <1>1, <2>1, NewIdIsImported
  <2> QED
    BY <1>1, <2>2, WriteImportKeeps
<1>2. ASSUME VersionsInv, [VersionsNext]_versionVars, ~ overlap.any PROVE RevisesCurrentNow
  <2>1. nextId \in Nat
    BY <1>2 DEF VersionsInv, VersionsTyped
  <2>2. CASE nextId' > nextId
    <3>1. PICK m \in Managers : WriteImport(m)
      BY <1>2, <2>1, <2>2, NewIdIsImported
    <3> QED
      BY <1>2, <3>1, RevisionIsOfCurrent
  <2>3. CASE ~ (nextId' > nextId)
    BY <2>3 DEF RevisesCurrentNow
  <2> QED
    BY <2>2, <2>3
<1>3. ASSUME VersionsInv, ~ overlap.any PROVE SetCurrentTakesEffectNow
  BY <1>3, WriteCurrentKeeps DEF SetCurrentTakesEffectNow
<1>4. VersionsInv /\ [VersionsNext]_versionVars =>
        [/\ RevisionBecomesCurrentNow
         /\ ~ overlap.any => RevisesCurrentNow /\ SetCurrentTakesEffectNow]_versionVars
  BY <1>1, <1>2, <1>3
<1> QED
  BY <1>4, VersionsAlways, PTL DEF VersionsSpec, CurrentIsChosen

(* Deleting a version keeps the others in one chain, with their reactors,  *)
(* also when the root goes, as long as no requests overlapped              *)
(* (delete_recipe).                                                        *)
THEOREM ChainsOutliveVersions == VersionsSpec => DeletionKeepsChain
<1>1. ASSUME VersionsInv, ~ overlap.any, NEW m \in Managers, WriteDelete(m),
             request[m].root # request[m].id, NEW i \in DOMAIN recipe'
      PROVE  FindChainRoot(recipe', i) = FindChainRoot(recipe, i)
  <2> DEFINE gone == request[m].id
  <2>1. /\ gone \in DOMAIN recipe /\ FindChainRoot(recipe, gone) # gone
        /\ recipe' = Spliced(recipe, gone, recipe[gone].parent)
    BY <1>1, WriteDeleteAlone
  <2>2. nextId \in Nat /\ Table(recipe, nextId)
    BY <1>1 DEF VersionsInv, VersionsTyped
  <2> HIDE DEF gone
  <2>3. DOMAIN recipe' = DOMAIN recipe \ {gone}
    BY <2>1 DEF Spliced
  <2>4. NULL \in Line(recipe, i) => FindChainRoot(recipe, i) # gone
    <3> SUFFICES ASSUME NULL \in Line(recipe, i), FindChainRoot(recipe, i) = gone PROVE FALSE
      OBVIOUS
    <3>1. recipe[gone].parent = NULL
      BY <1>1, <2>2, <2>3, RootIs
    <3>2. NULL \in Line(recipe, gone) /\ gone \in Line(recipe, gone)
      BY <2>1, <2>2, <3>1, LineIs
    <3> QED
      BY <2>1, <2>2, <3>1, <3>2, RootIs
  <2> QED
    BY <1>1, <2>1, <2>2, <2>4, SplicedRoots
<1>2. ASSUME VersionsInv, ~ overlap.any PROVE DeleteKeepsLineageNow
  BY <1>1, <1>2 DEF DeleteKeepsLineageNow
<1>3. ASSUME VersionsInv, ~ overlap.any, NEW m \in Managers, WriteDelete(m)
      PROVE  KeepsReactors(recipe, recipe', assignments, assignments', request[m].id)
  BY <1>3, WriteDeleteAlone
<1>4. ASSUME VersionsInv, ~ overlap.any PROVE DeleteKeepsAssignmentsNow
  BY <1>3, <1>4 DEF DeleteKeepsAssignmentsNow, KeepsReactors, Stays, Children
<1>5. VersionsInv /\ [VersionsNext]_versionVars =>
        [~ overlap.any => DeleteKeepsLineageNow /\ DeleteKeepsAssignmentsNow]_versionVars
  BY <1>2, <1>4
<1> QED
  BY <1>5, VersionsAlways, PTL DEF VersionsSpec, DeletionKeepsChain

(***************************************************************************)
(* The two rules for the current version.                                  *)
(***************************************************************************)
(* A chain with a root has the same members and leaves for both rules.     *)
LEMMA MembersAre ==
  ASSUME NEW R, NEW n, Table(R, n), NEW root \in DOMAIN R, R[root].parent = NULL
  PROVE  /\ Members(R, root) = Below(R, root)
         /\ \A i \in Below(R, root) : FindChainRoot(R, i) = root /\ NULL \in Line(R, i)
<1>1. ASSUME NEW i \in DOMAIN R, root \in Line(R, i) PROVE NULL \in Line(R, i)
  BY <1>1, LineIs
<1>2. ASSUME NEW i \in Below(R, root) PROVE FindChainRoot(R, i) = root /\ NULL \in Line(R, i)
  <2>1. i \in DOMAIN R /\ root \in Line(R, i) /\ NULL \in Line(R, i)
    BY <1>1 DEF Below
  <2> QED
    BY <2>1, RootIs
<1> QED
  BY <1>1, <1>2 DEF Members, Below

(* An active version of the chain is a leaf for one exactly if the other   *)
(* does not call it superseded, and the newest of them is one.             *)
Leaves(R, root) == {j \in Below(R, root) : Below(R, j) \cap Active(R) = {j}}

LEMMA LeavesAre ==
  ASSUME NEW R, NEW n, Table(R, n), NEW root \in DOMAIN R, R[root].parent = NULL,
         NEW usable, usable = Members(R, root) \cap Active(R)
  PROVE  /\ Leaves(R, root) = usable \ OldSuperseded(R)
         /\ Leaves(R, root) = {} => usable = {}
         /\ Leaves(R, root) # {} => Max(Leaves(R, root)) \in usable
<1>1. Members(R, root) = Below(R, root) /\ n \in Nat /\ DOMAIN R \subseteq 1..n
  BY MembersAre DEF Table
<1>2. \A j \in DOMAIN R : j \in Below(R, j)
  BY LineIs DEF Below
<1>3. Below(R, root) \subseteq DOMAIN R
  BY DEF Below
<1>4. Leaves(R, root) = usable \ OldSuperseded(R)
  <2>1. ASSUME NEW j \in Below(R, root), j \in Active(R)
        PROVE  Below(R, j) \cap Active(R) = {j} <=> j \notin OldSuperseded(R)
    BY <1>2, <1>3, <2>1 DEF OldSuperseded
  <2>2. ASSUME NEW j \in Leaves(R, root) PROVE j \in Active(R)
    BY DEF Leaves
  <2> QED
    BY <1>1, <2>1, <2>2 DEF Leaves
<1>5. ASSUME usable # {} PROVE Leaves(R, root) # {}
  <2> DEFINE m == Max(usable)
  <2>1. usable \in SUBSET (1..n)
    BY <1>1, <1>3
  <2>2. m \in usable
    BY <1>1, <1>5, <2>1, MaxIn
  <2>3. \A j \in usable : j <= m
    BY <1>1, <1>5, <2>1, MaxIn
  <2> HIDE DEF m
  <2>4. ASSUME NEW j \in Below(R, m) \cap Active(R) PROVE j = m
    <3>1. j \in DOMAIN R /\ m \in Line(R, j) /\ m \in DOMAIN R /\ root \in Line(R, m)
      BY <1>1, <2>2, <2>4 DEF Below
    <3>2. root \in Line(R, j)
      BY <3>1, LineIs
    <3>3. j \in usable
      BY <1>1, <2>4, <3>1, <3>2 DEF Below
    <3>4. j \in 0..n /\ m \in Nat
      BY <1>1, <3>1
    <3>5. m <= j
      BY <3>1, <3>4, LineIs
    <3> QED
      BY <2>3, <3>3, <3>4, <3>5
  <2>5. m \in Leaves(R, root)
    BY <1>1, <1>2, <1>3, <2>2, <2>4 DEF Leaves
  <2> QED
    BY <2>5
<1>6. ASSUME Leaves(R, root) # {} PROVE Max(Leaves(R, root)) \in usable
  <2>1. Leaves(R, root) \in SUBSET (1..n) /\ Leaves(R, root) \subseteq usable
    BY <1>1, <1>3, <1>4
  <2> QED
    BY <1>1, <1>6, <2>1, MaxIn
<1> QED
  BY <1>4, <1>5, <1>6

(* Both rules choose the same member.                                      *)
LEMMA ListTipIs ==
  ASSUME NEW R, NEW n, Table(R, n), NEW root \in DOMAIN R, R[root].parent = NULL,
         NEW usable, usable = Members(R, root) \cap Active(R)
  PROVE  /\ \A i \in usable : ResolveTip(R, i) = ListTip(R, root)
         /\ ListTip(R, root) \in usable \cup {NULL}
         /\ usable # {} => ListTip(R, root) \in usable
<1> DEFINE pins == {i \in usable : R[i].pinned}
<1>1. /\ Members(R, root) = Below(R, root) /\ DOMAIN R \subseteq 1..n /\ n \in Nat
      /\ \A i \in Below(R, root) : FindChainRoot(R, i) = root
      /\ usable \subseteq DOMAIN R
  BY MembersAre DEF Table, Below
<1>2. /\ Leaves(R, root) = usable \ OldSuperseded(R)
      /\ Leaves(R, root) = {} => usable = {}
      /\ Leaves(R, root) # {} => Max(Leaves(R, root)) \in usable
  BY LeavesAre
<1>3. ListTip(R, root) = IF pins # {} THEN Min(pins)
                         ELSE IF Leaves(R, root) # {} THEN Max(Leaves(R, root)) ELSE NULL
  BY <1>2 DEF ListTip
<1>4. ASSUME NEW i \in usable PROVE Pinned(R, i) = pins /\ FindChainRoot(R, i) = root
  BY <1>1 DEF Pinned, Chain
<1>5. DefaultTip(R, root) = IF Leaves(R, root) = {} THEN NULL ELSE Max(Leaves(R, root))
  BY DEF DefaultTip, Leaves
<1>6. ASSUME NEW i \in usable PROVE Below(R, i) \cap Active(R) # {}
  <2>1. i \in DOMAIN R /\ i \in Active(R)
    BY <1>1
  <2>2. i \in Below(R, i)
    BY <2>1, LineIs DEF Below
  <2> QED
    BY <2>1, <2>2
<1>7. pins # {} => Min(pins) \in pins
  <2>1. pins \in SUBSET Nat
    BY <1>1
  <2> QED
    BY <2>1, MinIs
<1>8. pins \subseteq usable
  OBVIOUS
<1> HIDE DEF pins
<1>9. ASSUME NEW i \in usable PROVE ResolveTip(R, i) = ListTip(R, root)
  <2>1. ResolveTip(R, i) = IF pins # {} THEN Min(pins) ELSE DefaultTip(R, root)
    BY <1>4, <1>6 DEF ResolveTip
  <2> QED
    BY <1>3, <1>5, <2>1
<1>10. ListTip(R, root) \in usable \cup {NULL} /\ (usable # {} => ListTip(R, root) \in usable)
  BY <1>2, <1>3, <1>7, <1>8
<1> QED
  BY <1>9, <1>10

LEMMA TableAgrees ==
  ASSUME NEW R, NEW n, Table(R, n) PROVE RulesAgree(R)
<1> DEFINE U(root) == Members(R, root) \cap Active(R)
           Roots1 == {i \in DOMAIN R : R[i].parent = NULL}
<1>1. ASSUME NEW root \in Roots1, NEW i \in U(root)
      PROVE  U(root) \ Superseded(R) = {ResolveTip(R, i)}
  <2>1. root \in DOMAIN R /\ R[root].parent = NULL
    OBVIOUS
  <2>2. /\ ResolveTip(R, i) = ListTip(R, root) /\ ListTip(R, root) \in U(root)
    BY <1>1, <2>1, ListTipIs
  <2>3. \A j \in U(root) : FindChainRoot(R, j) = root /\ NULL \in Line(R, j) /\ j \in Active(R)
    BY <2>1, MembersAre
  <2>4. NULL \notin DOMAIN R
    BY LinksAreFinite
  <2>5. ASSUME NEW j \in U(root), j \in ListTips(R) PROVE j = ListTip(R, root)
    <3>1. PICK other \in Roots1 : j = ListTip(R, other)
      BY <2>5 DEF ListTips
    <3>2. other \in DOMAIN R /\ R[other].parent = NULL
      OBVIOUS
    <3>3. j \in DOMAIN R
      BY DEF Active
    <3>4. j \in U(other)
      BY <2>4, <3>1, <3>2, <3>3, ListTipIs
    <3>5. FindChainRoot(R, j) = other
      BY <3>2, <3>4, MembersAre
    <3> QED
      BY <2>3, <3>1, <3>5
  <2>6. ListTip(R, root) \in ListTips(R)
    BY <1>1 DEF ListTips
  <2>7. \A j \in U(root) : j \in Superseded(R) <=> j \notin ListTips(R)
    BY <2>3 DEF Superseded
  <2> HIDE DEF U
  <2> QED
    BY <2>2, <2>5, <2>6, <2>7
<1> QED
  BY <1>1 DEF RulesAgree

(* In every table that the handlers make, however they overlap, the lists  *)
(* show exactly the version a blend resolves to (resolve_chain_tip,        *)
(* SUPERSEDED_RECIPE_IDS_SQL).                                             *)
THEOREM ListsShowCurrent == VersionsSpec => []ListAndResolveAgree
<1>1. VersionsInv => ListAndResolveAgree
  BY TableAgrees DEF VersionsInv, VersionsTyped, ListAndResolveAgree
<1> QED
  BY <1>1, VersionsAlways, PTL

(***************************************************************************)
(* Settings that are handed on.  The chains of a table from which nothing  *)
(* is deleted: every line ends at NULL, two versions are in one chain if   *)
(* their roots are one, and a new version has the root of its parent.      *)
(***************************************************************************)
Full(R, n) == Lineage(R, n) /\ DOMAIN R = 1..n

LEMMA FullLines ==
  ASSUME NEW R, NEW n, Full(R, n), NEW i \in 0..n
  PROVE  NULL \in Line(R, i)
<1>1. Line(R, i) \subseteq 0..n /\ i \in Line(R, i)
  BY LinesOf DEF Full
<1>2. n \in Nat /\ 0..n \subseteq Nat
  BY DEF Full, Lineage
<1>3. PICK k \in Line(R, i) : \A m \in Line(R, i) : k <= m
  BY <1>1, <1>2, LeastNat
<1>4. CASE k = 0
  BY <1>3, <1>4 DEF NULL
<1>5. CASE k # 0
  <2>1. k \in DOMAIN R
    BY <1>1, <1>2, <1>5 DEF Full
  <2>2. R[k].parent \in Line(R, i) /\ R[k].parent < k /\ R[k].parent \in Nat /\ k \in Nat
    BY <1>2, <2>1, LinesOf DEF Full, Lineage
  <2> QED
    BY <1>3, <2>2
<1> QED
  BY <1>4, <1>5

LEMMA FullRoots ==
  ASSUME NEW R, NEW n, Full(R, n), NEW i \in DOMAIN R
  PROVE  /\ FindChainRoot(R, i) \in Line(R, i) \cap DOMAIN R
         /\ R[FindChainRoot(R, i)].parent = NULL
         /\ \A j \in Line(R, i) \cap DOMAIN R : R[j].parent = NULL => j = FindChainRoot(R, i)
<1>1. i \in 0..n
  BY DEF Full, Lineage
<1> QED
  BY <1>1, FullLines, RootOf DEF Full

LEMMA FullChains ==
  ASSUME NEW R, NEW n, Full(R, n), NEW i \in DOMAIN R, NEW j \in DOMAIN R
  PROVE  j \in Chain(R, i) <=> FindChainRoot(R, j) = FindChainRoot(R, i)
  BY FullRoots DEF Chain, Below

(* R with one more version, whose parent is p.                             *)
Extends(Q, R, n, p) ==
    /\ DOMAIN Q = 1..(n + 1) /\ p \in 0..n
    /\ Q[n + 1].parent = p /\ \A i \in 1..n : Q[i].parent = R[i].parent
RootsStay(Q, R, n, p) ==
    /\ Full(Q, n + 1)
    /\ \A i \in 1..n : FindChainRoot(Q, i) = FindChainRoot(R, i) /\ FindChainRoot(R, i) \in 1..n
    /\ FindChainRoot(Q, n + 1) = IF p = NULL THEN n + 1 ELSE FindChainRoot(R, p)

LEMMA FullGrows ==
  ASSUME NEW R, NEW n, Full(R, n), NEW Q, NEW p, Extends(Q, R, n, p)
  PROVE  RootsStay(Q, R, n, p)
<1>1. n \in Nat /\ n + 1 \in Nat /\ 1..(n + 1) = 1..n \cup (n + 1)..(n + 1)
      /\ n + 1 \in 1..(n + 1) /\ 0..n \subseteq 0..(n + 1)
  BY DEF Full, Lineage
<1>2. ASSUME NEW i \in DOMAIN Q PROVE Q[i].parent \in 0..(n + 1) /\ Q[i].parent < i
  <2>1. CASE i = n + 1
    BY <1>1, <2>1 DEF Extends
  <2>2. CASE i # n + 1
    <3>1. i \in 1..n
      BY <1>1, <1>2, <2>2 DEF Extends
    <3>2. Q[i].parent = R[i].parent /\ R[i].parent \in 0..n /\ R[i].parent < i
      BY <3>1 DEF Extends, Full, Lineage
    <3> QED
      BY <1>1, <3>2
  <2> QED
    BY <2>1, <2>2
<1>3. Full(Q, n + 1)
  BY <1>1, <1>2 DEF Full, Lineage, Extends
<1>4. ASSUME NEW i \in 0..n PROVE Line(Q, i) = Line(R, i)
  <2>1. DOMAIN Parents(R) = DOMAIN R /\ DOMAIN Parents(Q) = DOMAIN R \cup (n + 1)..(n + 1)
    BY <1>1 DEF Parents, Extends, Full
  <2>2. ASSUME NEW j \in DOMAIN Parents(R)
        PROVE  Parents(R)[j] \in 0..n /\ Parents(Q)[j] = Parents(R)[j]
    BY <1>1, <2>1 DEF Parents, Extends, Full, Lineage
  <2>3. DOMAIN Parents(R) \subseteq 1..n
    BY <2>1 DEF Full
  <2>4. DOMAIN Parents(Q) = DOMAIN Parents(R) \cup (n + 1)..(n + 1)
    BY <2>1
  <2>5. Walk(i, Parents(Q)) = Walk(i, Parents(R))
    BY <1>1, <2>2, <2>3, <2>4, WalkGrows
  <2> QED
    BY <1>3, <2>5, LinesOf DEF Full
<1>5. ASSUME NEW i \in 1..n
      PROVE  FindChainRoot(Q, i) = FindChainRoot(R, i) /\ FindChainRoot(R, i) \in 1..n
  <2>1. i \in DOMAIN R /\ i \in DOMAIN Q /\ i \in 0..n
    BY <1>1 DEF Full, Extends
  <2> DEFINE r == FindChainRoot(R, i)
  <2>2. r \in Line(R, i) /\ r \in 1..n /\ R[r].parent = NULL
    BY <2>1, FullRoots DEF Full
  <2>3. r \in Line(Q, i) /\ r \in DOMAIN Q /\ Q[r].parent = NULL
    BY <1>1, <1>4, <2>1, <2>2 DEF Extends
  <2>4. r = FindChainRoot(Q, i)
    <3> HIDE DEF r
    <3> QED BY <1>3, <2>1, <2>3, FullRoots
  <2> QED
    BY <2>2, <2>4
<1>6. FindChainRoot(Q, n + 1) = IF p = NULL THEN n + 1 ELSE FindChainRoot(R, p)
  <2>1. n + 1 \in DOMAIN Q /\ Q[n + 1].parent = p /\ p \in 0..n
    BY <1>1 DEF Extends
  <2>2. n + 1 \in Line(Q, n + 1) /\ Line(Q, n + 1) = {n + 1} \cup Line(Q, p)
    BY <1>3, <2>1, LinesOf DEF Full
  <2>3. CASE p = NULL
    BY <1>3, <2>1, <2>2, <2>3, FullRoots
  <2>4. CASE p # NULL
    <3>1. p \in 1..n /\ p \in DOMAIN Q
      BY <1>1, <2>1, <2>4 DEF NULL, Extends
    <3>2. FindChainRoot(Q, p) \in Line(Q, p) \cap DOMAIN Q /\ Q[FindChainRoot(Q, p)].parent = NULL
      BY <1>3, <3>1, FullRoots
    <3>3. FindChainRoot(Q, p) = FindChainRoot(Q, n + 1)
      BY <1>3, <2>1, <2>2, <3>2, FullRoots
    <3> QED
      BY <1>5, <2>4, <3>1, <3>3
  <2> QED
    BY <2>3, <2>4
<1> QED
  BY <1>3, <1>5, <1>6 DEF RootsStay

(***************************************************************************)
(* The invariant.  A row has its columns; no decision about a loss is ever *)
(* missed; and an import in flight has read a row that exists, though it   *)
(* may have changed since.                                                 *)
(***************************************************************************)
Columns   == {"parent", "items"} \cup Settings
Shaped(r) == DOMAIN r = Columns /\ r = [c \in Columns |-> r[c]]
Sound(r) ==
    /\ Shaped(r) /\ r.items \subseteq Materials
    /\ r.anchor \in r.items \cup {Unset} /\ r.category \in Categories \cup {Unset}

SentOk(r) ==
    /\ r.parent \in {NULL} \cup Ids /\ r.items \subseteq Materials
    /\ r.anchor \in r.items \cup {Unset, Clear} /\ r.tolerance \in Tolerances \cup {Unset}
    /\ r.reactor \in BOOLEAN \cup {Unset} /\ Sound(r.read)
    /\ r.parent = NULL => r.read = Fresh(r.items)

VersionsAreRows(n) ==
    /\ Full(version, n) /\ DOMAIN wanted = 1..n /\ DOMAIN missed = 1..n
    /\ \A i \in 1..n : Sound(version[i]) /\ Shaped(wanted[i]) /\ missed[i] \subseteq Settings \ {"loss"}
OneKind ==
    \A i \in Ids : \A j \in Ids :
        FindChainRoot(version, i) = FindChainRoot(version, j) =>
            "dhr" \in missed[i] \cup missed[j] \/ version[i].dhr = version[j].dhr
SettingsInv ==
    /\ \E n \in Nat : VersionsAreRows(n)
    /\ import # Unset => SentOk(import)
    /\ SettingsSurvive /\ OneKind

LEMMA OneKindIs ==
  ASSUME NEW n, VersionsAreRows(n) PROVE OneKind <=> ChainIsOneKind
<1>1. Full(version, n) /\ Ids = DOMAIN version
  BY DEF VersionsAreRows, Ids
<1>2. \A i \in Ids : Chain(version, i) = {j \in Ids : FindChainRoot(version, j) = FindChainRoot(version, i)}
  <2>1. \A i \in Ids : Chain(version, i) \subseteq Ids
    BY <1>1 DEF Chain, Below
  <2> QED
    BY <1>1, <2>1, FullChains
<1> QED
  BY <1>2 DEF OneKind, ChainIsOneKind

LEMMA SettingsInvTells == ASSUME SettingsInv PROVE SettingsAreHandedOn
<1>1. PICK n \in Nat : VersionsAreRows(n)
  BY DEF SettingsInv
<1>2. AnchorIsMember
  BY <1>1 DEF VersionsAreRows, AnchorIsMember, Sound, Full, Ids
<1>3. ChainIsOneKind
  BY <1>1, OneKindIs DEF SettingsInv
<1> QED
  BY <1>2, <1>3 DEF SettingsInv, SettingsAreHandedOn

LEMMA SettingsInvStarts == ASSUME SettingsInit PROVE SettingsInv
<1>1. DOMAIN version = {} /\ DOMAIN wanted = {} /\ DOMAIN missed = {} /\ import = Unset
  BY DEF SettingsInit
<1>2. 1..0 = {}
  OBVIOUS
<1>3. VersionsAreRows(0)
  BY <1>1, <1>2 DEF VersionsAreRows, Full, Lineage
<1> QED
  BY <1>1, <1>3 DEF SettingsInv, SettingsSurvive, OneKind, Ids

(***************************************************************************)
(* A handler of one setting.                                               *)
(***************************************************************************)
LEMMA EditedIs ==
  ASSUME NEW r, Shaped(r), NEW setting \in Settings, NEW value
  PROVE  /\ Shaped([r EXCEPT ![setting] = value])
         /\ \A c \in Columns : [r EXCEPT ![setting] = value][c] = IF c = setting THEN value ELSE r[c]
<1>1. setting \in Columns /\ DOMAIN r = Columns /\ r = [c \in Columns |-> r[c]]
  BY DEF Columns, Shaped
<1>2. DOMAIN [r EXCEPT ![setting] = value] = Columns
  BY <1>1
<1>3. \A c \in Columns : [r EXCEPT ![setting] = value][c] = IF c = setting THEN value ELSE r[c]
  BY <1>1
<1>4. [r EXCEPT ![setting] = value] = [c \in Columns |-> [r EXCEPT ![setting] = value][c]]
  BY <1>1
<1> QED
  BY <1>2, <1>3, <1>4 DEF Shaped

(* A value that a handler may give.                                        *)
MayGive(ids, setting, value) ==
    /\ setting = "anchor" => \A i \in ids : value \in version[i].items \cup {Unset}
    /\ setting = "category" => value \in Categories \cup {Unset}
    /\ setting = "dhr" => \E i \in Ids : ids = Chain(version, i)

LEMMA EditKeeps ==
  ASSUME SettingsInv, NEW ids \in SUBSET Ids, NEW setting \in Settings, NEW value,
         Edit(ids, setting, value), MayGive(ids, setting, value)
  PROVE  SettingsInv'
<1>1. PICK n \in Nat : VersionsAreRows(n)
  BY DEF SettingsInv
<1>2. /\ Ids = 1..n /\ import' = import
      /\ DOMAIN version' = Ids /\ DOMAIN wanted' = Ids /\ DOMAIN missed' = Ids
      /\ \A i \in Ids :
            /\ version'[i] = IF i \in ids THEN [version[i] EXCEPT ![setting] = value] ELSE version[i]
            /\ wanted'[i] = IF i \in ids THEN [wanted[i] EXCEPT ![setting] = value] ELSE wanted[i]
            /\ missed'[i] = IF i \in ids THEN missed[i] \ {setting} ELSE missed[i]
  BY <1>1 DEF Edit, VersionsAreRows, Full, Ids
<1>3. \A i \in Ids : /\ Sound(version[i]) /\ Shaped(version[i]) /\ Shaped(wanted[i])
                     /\ missed[i] \subseteq Settings \ {"loss"}
  BY <1>1, <1>2 DEF VersionsAreRows, Sound
<1>4. ASSUME NEW i \in Ids
      PROVE  /\ Shaped(version'[i]) /\ Shaped(wanted'[i])
             /\ \A c \in Columns :
                   /\ version'[i][c] = IF i \in ids /\ c = setting THEN value ELSE version[i][c]
                   /\ wanted'[i][c] = IF i \in ids /\ c = setting THEN value ELSE wanted[i][c]
  <2>1. CASE i \in ids
    <3>1. Shaped(version[i]) /\ Shaped(wanted[i])
      BY <1>3
    <3>2. /\ version'[i] = [version[i] EXCEPT ![setting] = value]
          /\ wanted'[i] = [wanted[i] EXCEPT ![setting] = value]
      BY <1>2, <2>1
    <3>3. /\ Shaped([version[i] EXCEPT ![setting] = value])
          /\ \A c \in Columns : [version[i] EXCEPT ![setting] = value][c]
                             = IF c = setting THEN value ELSE version[i][c]
      BY <3>1, EditedIs
    <3>4. /\ Shaped([wanted[i] EXCEPT ![setting] = value])
          /\ \A c \in Columns : [wanted[i] EXCEPT ![setting] = value][c]
                             = IF c = setting THEN value ELSE wanted[i][c]
      BY <3>1, EditedIs
    <3> QED
      BY <2>1, <3>2, <3>3, <3>4
  <2>2. CASE i \notin ids
    BY <1>2, <1>3, <2>2
  <2> QED
    BY <2>1, <2>2
<1>5. ASSUME NEW i \in Ids
      PROVE  Sound(version'[i]) /\ version'[i].parent = version[i].parent
  <2>1. /\ version'[i].items = version[i].items /\ version'[i].parent = version[i].parent
        /\ version'[i].anchor = IF i \in ids /\ setting = "anchor" THEN value ELSE version[i].anchor
        /\ version'[i].category = IF i \in ids /\ setting = "category" THEN value ELSE version[i].category
    BY <1>4 DEF Columns, Settings
  <2> QED
    BY <1>3, <1>4, <2>1 DEF Sound, MayGive
<1>6. VersionsAreRows(n)'
  <2>1. \A i \in 1..n : version'[i].parent = version[i].parent
    BY <1>2, <1>5
  <2>2. Full(version, n) /\ Full(version', n)
    BY <1>1, <1>2, <2>1 DEF VersionsAreRows, Full, Lineage
  <2>3. \A i \in 1..n : missed'[i] \subseteq Settings \ {"loss"}
    BY <1>2, <1>3
  <2> QED
    BY <1>2, <1>4, <1>5, <2>2, <2>3 DEF VersionsAreRows
<1>7. \A i \in Ids : FindChainRoot(version', i) = FindChainRoot(version, i)
  <2>1. Parents(version') = Parents(version)
    BY <1>2, <1>5 DEF Parents, Ids
  <2>2. Lineage(version, n) /\ Lineage(version', n) /\ DOMAIN version = Ids
    BY <1>1, <1>6 DEF VersionsAreRows, Full, Ids
  <2> QED
    BY <2>1, <2>2, SameLinesOf
<1>8. SettingsSurvive'
  <2> SUFFICES ASSUME NEW i \in Ids, NEW s \in Settings \ missed'[i]
               PROVE  version'[i][s] = wanted'[i][s]
    BY <1>2 DEF SettingsSurvive, Ids
  <2>1. s \in Columns /\ (~ (i \in ids /\ s = setting) => s \notin missed[i])
    BY <1>2 DEF Columns
  <2>2. s \notin missed[i] => version[i][s] = wanted[i][s]
    BY DEF SettingsInv, SettingsSurvive
  <2> QED
    BY <1>4, <2>1, <2>2
<1>9. OneKind'
  <2> SUFFICES ASSUME NEW i \in Ids, NEW j \in Ids,
                      FindChainRoot(version, i) = FindChainRoot(version, j),
                      "dhr" \notin missed'[i] \cup missed'[j]
               PROVE  version'[i].dhr = version'[j].dhr
    BY <1>2, <1>7 DEF OneKind, Ids
  <2>1. \A k \in Ids : version'[k].dhr = IF k \in ids /\ setting = "dhr" THEN value ELSE version[k].dhr
    BY <1>4 DEF Columns, Settings
  <2>2. "dhr" \notin missed[i] \cup missed[j] => version[i].dhr = version[j].dhr
    BY DEF SettingsInv, OneKind
  <2>3. CASE setting = "dhr"
    <3>1. PICK k \in Ids : ids = Chain(version, k)
      BY <2>3 DEF MayGive
    <3>2. Full(version, n) /\ DOMAIN version = Ids
      BY <1>1 DEF VersionsAreRows, Ids
    <3>3. i \in ids <=> j \in ids
      BY <3>1, <3>2, FullChains
    <3>4. i \notin ids /\ j \notin ids => "dhr" \notin missed[i] \cup missed[j]
      BY <1>2
    <3> QED
      BY <2>1, <2>2, <2>3, <3>3, <3>4
  <2>4. CASE setting # "dhr"
    <3>1. "dhr" \notin missed[i] \cup missed[j]
      BY <1>2, <2>4
    <3> QED
      BY <2>1, <2>2, <2>4, <3>1
  <2> QED
    BY <2>3, <2>4
<1>10. (import # Unset => SentOk(import))'
  BY <1>2 DEF SettingsInv, SentOk, Ids
<1> QED
  BY <1>6, <1>8, <1>9, <1>10 DEF SettingsInv

(***************************************************************************)
(* The import.                                                             *)
(***************************************************************************)
LEMMA FreshIsSound ==
  ASSUME NEW items \in SUBSET Materials PROVE Sound(Fresh(items))
  BY DEF Fresh, Sound, Shaped, Columns, Settings

LEMMA BeginKeeps == ASSUME SettingsInv, BeginImport PROVE SettingsInv'
<1>1. UNCHANGED <<version, wanted, missed>>
  BY DEF BeginImport
<1>2. PICK n \in Nat : VersionsAreRows(n)
  BY DEF SettingsInv
<1>3. Ids = 1..n /\ Ids' = Ids /\ \A i \in Ids : Sound(version[i])
  BY <1>1, <1>2 DEF VersionsAreRows, Full, Ids
<1>4. SentOk(import)'
  <2>1. PICK parent \in {NULL} \cup {i \in Ids : IsCurrent(i)},
             items \in (SUBSET Materials) \ {{}},
             tolerance \in Tolerances \cup {Unset}, reactor \in BOOLEAN \cup {Unset},
             hint \in Hints \cup {Unset} :
          \E anchor \in items \cup {Unset, Clear} :
              /\ about \in {"anchor", "loss"} \/ items = Materials
              /\ Spoken("tolerance", tolerance) /\ Spoken("reactor", reactor)
              /\ Spoken("category", hint) /\ Spoken("anchor", anchor)
              /\ import' = [parent |-> parent, items |-> items, anchor |-> anchor,
                          tolerance |-> tolerance, reactor |-> reactor, hint |-> hint,
                          read |-> IF parent = NULL THEN Fresh(items) ELSE version[parent]]
    BY Zenon DEF BeginImport
  <2>2. PICK anchor \in items \cup {Unset, Clear} :
                import' = [parent |-> parent, items |-> items, anchor |-> anchor,
                           tolerance |-> tolerance, reactor |-> reactor, hint |-> hint,
                           read |-> IF parent = NULL THEN Fresh(items) ELSE version[parent]]
    BY <2>1
  <2>3. Sound(IF parent = NULL THEN Fresh(items) ELSE version[parent])
    BY <1>3, FreshIsSound
  <2> QED
    BY <1>3, <2>2, <2>3 DEF SentOk
<1>5. VersionsAreRows(n)' /\ SettingsSurvive' /\ OneKind'
  BY <1>1, <1>2 DEF SettingsInv, VersionsAreRows, SettingsSurvive, OneKind, Ids
<1> QED
  BY <1>4, <1>5 DEF SettingsInv

(* What is inserted is sound, and is what managers want of it, where what  *)
(* was read was wanted and still is.                                       *)
LEMMA InsertedIsSound ==
  ASSUME NEW r, SentOk(r)
  PROVE  /\ Sound(Inserted(r)) /\ Inserted(r).parent = r.parent
         /\ Shaped(Wish(r)) /\ Inserted(r).dhr = r.read.dhr
<1>1. r.items \subseteq Materials /\ r.anchor \in r.items \cup {Unset, Clear}
  BY DEF SentOk
<1>2. AnchorOf(r.anchor, r.read.anchor, r.items) \in r.items \cup {Unset}
  BY <1>1 DEF AnchorOf
<1>3. CategoryOf(r.read.category, r.hint) \in Categories \cup {Unset}
  BY DEF CategoryOf
<1>4. Sound(Inserted(r)) /\ Inserted(r).parent = r.parent /\ Inserted(r).dhr = r.read.dhr
  BY <1>1, <1>2, <1>3 DEF Inserted, Sound, Shaped, Columns, Settings
<1>5. Shaped(Inserted(r))
  BY <1>4 DEF Sound
<1>6. Shaped(Wish(r))
  <2>1. PICK old : old = IF r.parent = NULL THEN Fresh(r.items) ELSE wanted[r.parent]
    OBVIOUS
  <2>2. PICK row : row = Inserted(r)
    OBVIOUS
  <2>3. Shaped(row)
    BY <1>5, <2>2
  <2>4. PICK a : a = CASE r.anchor \in Materials -> r.anchor
                       [] r.anchor = Clear -> Unset
                       [] OTHER -> IF old.anchor \in r.items THEN old.anchor ELSE Unset
    OBVIOUS
  <2>5. PICK t : t = IF r.tolerance \in Tolerances THEN r.tolerance ELSE old.tolerance
    OBVIOUS
  <2>6. PICK c : c = IF old.category # Unset THEN old.category ELSE row.category
    OBVIOUS
  <2>7. PICK x : x = IF r.reactor \in BOOLEAN THEN r.reactor ELSE old.reactor
    OBVIOUS
  <2>8. PICK l : l = [m \in r.items |-> IF m \in DOMAIN old.loss THEN old.loss[m] ELSE 0]
    OBVIOUS
  <2>9. Wish(r) = [row EXCEPT !.anchor = a, !.tolerance = t, !.category = c,
                               !.reactor = x, !.dhr = old.dhr, !.loss = l]
    BY <2>1, <2>2, <2>3, <2>4, <2>5, <2>6, <2>7, <2>8 DEF Wish, Shaped, Columns, Settings
  <2>10. PICK w : w = Wish(r)
    OBVIOUS
  <2>11. DOMAIN w = Columns
    BY <2>3, <2>9, <2>10 DEF Shaped
  <2>12. w = [k \in Columns |-> w[k]]
    BY <2>3, <2>9, <2>10 DEF Shaped
  <2> QED
    BY <2>10, <2>11, <2>12 DEF Shaped
<1> QED
  BY <1>4, <1>6

Handed(r, s) ==
    IF r.parent = NULL THEN TRUE ELSE wanted[r.parent][s] = r.read[s]

LEMMA WishIs ==
  ASSUME NEW r, SentOk(r)
  PROVE  /\ Handed(r, "anchor") => Inserted(r)["anchor"] = Wish(r)["anchor"]
         /\ Handed(r, "tolerance") => Inserted(r)["tolerance"] = Wish(r)["tolerance"]
         /\ Handed(r, "category") => Inserted(r)["category"] = Wish(r)["category"]
         /\ Handed(r, "reactor") => Inserted(r)["reactor"] = Wish(r)["reactor"]
         /\ Handed(r, "dhr") => Inserted(r)["dhr"] = Wish(r)["dhr"]
         /\ (r.parent = NULL \/ wanted[r.parent].loss = version[r.parent].loss)
               => Inserted(r)["loss"] = Wish(r)["loss"]
<1>1. PICK old : old = IF r.parent = NULL THEN Fresh(r.items) ELSE wanted[r.parent]
  OBVIOUS
<1>2. PICK row : row = Inserted(r)
  OBVIOUS
<1>3. Shaped(row)
  BY <1>2, InsertedIsSound DEF Sound
<1>4. /\ Wish(r)["anchor"] = CASE r.anchor \in Materials -> r.anchor
                               [] r.anchor = Clear -> Unset
                               [] OTHER -> IF old.anchor \in r.items THEN old.anchor ELSE Unset
      /\ Wish(r)["tolerance"] = IF r.tolerance \in Tolerances THEN r.tolerance ELSE old.tolerance
      /\ Wish(r)["category"] = IF old.category # Unset THEN old.category ELSE row.category
      /\ Wish(r)["reactor"] = IF r.reactor \in BOOLEAN THEN r.reactor ELSE old.reactor
      /\ Wish(r)["dhr"] = old.dhr
      /\ Wish(r)["loss"] = [m \in r.items |-> IF m \in DOMAIN old.loss THEN old.loss[m] ELSE 0]
  BY <1>1, <1>2, <1>3 DEF Wish, Shaped, Columns, Settings
<1>5. \A s \in Settings \ {"loss"} : Handed(r, s) => old[s] = r.read[s]
  BY <1>1 DEF Handed, SentOk, Settings
<1>6. /\ row.anchor = AnchorOf(r.anchor, r.read.anchor, r.items)
      /\ row.tolerance = IF r.tolerance = Unset THEN r.read.tolerance ELSE r.tolerance
      /\ row.category = CategoryOf(r.read.category, r.hint)
      /\ row.reactor = Flag(r.reactor, r.read.reactor)
      /\ row.dhr = r.read.dhr
      /\ row.loss = IF r.parent = NULL THEN NoLoss(r.items)
                    ELSE LossHanded(version[r.parent].loss, r.items)
  BY <1>2 DEF Inserted
<1>7. Handed(r, "anchor") => row.anchor = Wish(r)["anchor"]
  <2> SUFFICES ASSUME Handed(r, "anchor") PROVE row.anchor = Wish(r)["anchor"]
    OBVIOUS
  <2>1. old.anchor = r.read.anchor
    BY <1>5 DEF Settings
  <2>2. r.anchor \in r.items \cup {Unset, Clear} /\ r.items \subseteq Materials
    BY DEF SentOk
  <2> QED
    BY <1>4, <1>6, <2>1, <2>2, SettingsAssumption DEF AnchorOf
<1>8. Handed(r, "tolerance") => row.tolerance = Wish(r)["tolerance"]
  BY <1>4, <1>5, <1>6, SettingsAssumption DEF Settings, SentOk
<1>9. Handed(r, "category") => row.category = Wish(r)["category"]
  <2> SUFFICES ASSUME Handed(r, "category") PROVE row.category = Wish(r)["category"]
    OBVIOUS
  <2>1. old.category = r.read.category
    BY <1>5 DEF Settings
  <2>2. r.read.category \in Categories \cup {Unset}
    BY DEF SentOk, Sound
  <2> QED
    BY <1>4, <1>6, <2>1, <2>2 DEF CategoryOf
<1>10. Handed(r, "reactor") => row.reactor = Wish(r)["reactor"]
  BY <1>4, <1>5, <1>6, SettingsAssumption DEF Settings, SentOk, Flag
<1>11. Handed(r, "dhr") => row.dhr = Wish(r)["dhr"]
  BY <1>4, <1>5, <1>6 DEF Settings
<1>12. (r.parent = NULL \/ wanted[r.parent].loss = version[r.parent].loss)
          => row.loss = Wish(r)["loss"]
  <2>1. CASE r.parent = NULL
    <3>1. old.loss = NoLoss(r.items)
      BY <1>1, <2>1 DEF Fresh
    <3> QED
      BY <1>4, <1>6, <2>1, <3>1 DEF NoLoss
  <2>2. CASE r.parent # NULL
    BY <1>1, <1>4, <1>6, <2>2 DEF LossHanded
  <2> QED
    BY <2>1, <2>2
<1> QED
  BY <1>2, <1>7, <1>8, <1>9, <1>10, <1>11, <1>12

LEMMA InsertKeeps == ASSUME SettingsInv, InsertImport PROVE SettingsInv'
<1>1. PICK n \in Nat : VersionsAreRows(n)
  BY DEF SettingsInv
<1>2. PICK r : r = import
  OBVIOUS
<1>3. SentOk(r) /\ import' = Unset
  BY <1>2 DEF InsertImport, SettingsInv
<1>4. Ids = 1..n /\ Cardinality(Ids) = n /\ Full(version, n)
      /\ DOMAIN wanted = Ids /\ DOMAIN missed = Ids
  BY <1>1, FS_Interval DEF VersionsAreRows, Full, Ids
<1>5. PICK new : new = n + 1
  OBVIOUS
<1>6. Ids \cup {new} = 1..(n + 1) /\ new \notin Ids /\ n + 1 \in Nat /\ new \in 1..(n + 1)
  BY <1>4, <1>5
<1>7. /\ DOMAIN version' = 1..(n + 1) /\ DOMAIN wanted' = 1..(n + 1) /\ DOMAIN missed' = 1..(n + 1)
      /\ \A i \in Ids : version'[i] = version[i] /\ wanted'[i] = wanted[i] /\ missed'[i] = missed[i]
      /\ version'[new] = Inserted(r) /\ wanted'[new] = Wish(r) /\ missed'[new] = MissedBy(r)
  BY <1>2, <1>4, <1>5, <1>6 DEF InsertImport
<1>8. PICK p : p = r.parent
  OBVIOUS
<1>9. p \in 0..n /\ (p # NULL => p \in Ids)
  BY <1>3, <1>4, <1>8 DEF SentOk, NULL
<1>10. /\ Sound(Inserted(r)) /\ Inserted(r).parent = p
       /\ Shaped(Wish(r)) /\ Inserted(r).dhr = r.read.dhr
  BY <1>3, <1>8, InsertedIsSound
<1>11. RootsStay(version', version, n, p)
  <2>1. Extends(version', version, n, p)
    BY <1>4, <1>5, <1>7, <1>9, <1>10 DEF Extends
  <2> QED
    BY <1>4, <2>1, FullGrows
<1>12. VersionsAreRows(n + 1)'
  <2>1. Full(version', n + 1)
    BY <1>11 DEF RootsStay
  <2>2. MissedBy(r) \subseteq Settings \ {"loss"}
    BY DEF MissedBy
  <2>3. ASSUME NEW i \in 1..(n + 1)
        PROVE  Sound(version'[i]) /\ Shaped(wanted'[i]) /\ missed'[i] \subseteq Settings \ {"loss"}
    <3>1. CASE i = new
      BY <1>7, <1>10, <2>2, <3>1
    <3>2. CASE i # new
      <4>1. i \in Ids
        BY <1>6, <3>2
      <4> QED
        BY <1>1, <1>4, <1>7, <4>1 DEF VersionsAreRows
    <3> QED
      BY <3>1, <3>2
  <2> QED
    BY <1>7, <2>1, <2>3 DEF VersionsAreRows
(* Where nothing was missed, the parent is still as it was read, and that  *)
(* is what was wanted of it.                                               *)
<1>13. ASSUME NEW s \in Settings \ {"loss"}, s \notin MissedBy(r), p # NULL
       PROVE  /\ s \notin missed[p] /\ version[p][s] = r.read[s] /\ wanted[p][s] = r.read[s]
  <2>1. s \notin missed[p] /\ version[p][s] = r.read[s]
    BY <1>8, <1>13 DEF MissedBy
  <2>2. version[p][s] = wanted[p][s]
    BY <1>9, <1>13, <2>1 DEF SettingsInv, SettingsSurvive
  <2> QED
    BY <2>1, <2>2
<1>14. p # NULL => wanted[p].loss = version[p].loss
  <2> SUFFICES ASSUME p # NULL PROVE wanted[p].loss = version[p].loss
    OBVIOUS
  <2>1. "loss" \in Settings \ missed[p]
    BY <1>1, <1>4, <1>9 DEF VersionsAreRows, Settings
  <2> QED
    BY <1>9, <2>1 DEF SettingsInv, SettingsSurvive
<1>15. SettingsSurvive'
  <2>1. ASSUME NEW s \in Settings \ MissedBy(r) PROVE Inserted(r)[s] = Wish(r)[s]
    <3>1. s # "loss" => Handed(r, s)
      BY <1>8, <1>13 DEF Handed
    <3>2. r.parent = NULL \/ wanted[r.parent].loss = version[r.parent].loss
      BY <1>8, <1>14
    <3>3. s \in {"anchor", "tolerance", "category", "reactor", "dhr", "loss"}
      BY DEF Settings
    <3> QED
      BY <1>3, <3>1, <3>2, <3>3, WishIs
  <2>2. ASSUME NEW i \in 1..(n + 1), NEW s \in Settings \ missed'[i]
        PROVE  version'[i][s] = wanted'[i][s]
    <3>1. CASE i = new
      BY <1>7, <2>1, <2>2, <3>1
    <3>2. CASE i # new
      <4>1. i \in Ids /\ s \in Settings \ missed[i]
        BY <1>6, <1>7, <2>2, <3>2
      <4>2. version[i][s] = wanted[i][s]
        BY <4>1 DEF SettingsInv, SettingsSurvive
      <4> QED
        BY <1>7, <4>1, <4>2
    <3> QED
      BY <3>1, <3>2
  <2> QED
    BY <1>7, <2>2 DEF SettingsSurvive, Ids
<1>16. OneKind'
  <2>1. ASSUME NEW j \in Ids, FindChainRoot(version', new) = FindChainRoot(version', j),
               "dhr" \notin missed'[new] \cup missed'[j]
        PROVE  version'[new].dhr = version'[j].dhr
    <3>1. FindChainRoot(version', j) = FindChainRoot(version, j) /\ FindChainRoot(version, j) \in 1..n
      BY <1>4, <1>11 DEF RootsStay
    <3>2. p # NULL /\ FindChainRoot(version', new) = FindChainRoot(version, p)
      BY <1>4, <1>5, <1>6, <1>11, <2>1, <3>1 DEF RootsStay
    <3>3. "dhr" \in Settings \ {"loss"} /\ "dhr" \notin MissedBy(r) /\ "dhr" \notin missed[j]
      BY <1>7, <2>1 DEF Settings
    <3>4. "dhr" \notin missed[p] /\ version[p]["dhr"] = r.read["dhr"]
      BY <1>13, <3>2, <3>3
    <3>5. version[p].dhr = version[j].dhr
      BY <1>9, <2>1, <3>1, <3>2, <3>3, <3>4 DEF SettingsInv, OneKind
    <3> QED
      BY <1>7, <1>10, <3>4, <3>5
  <2>2. ASSUME NEW i \in Ids, NEW j \in Ids,
               FindChainRoot(version', i) = FindChainRoot(version', j),
               "dhr" \notin missed'[i] \cup missed'[j]
        PROVE  version'[i].dhr = version'[j].dhr
    <3>1. /\ FindChainRoot(version, i) = FindChainRoot(version, j)
          /\ "dhr" \notin missed[i] \cup missed[j]
      BY <1>4, <1>7, <1>11, <2>2 DEF RootsStay
    <3>2. version[i].dhr = version[j].dhr
      BY <3>1 DEF SettingsInv, OneKind
    <3> QED
      BY <1>7, <3>2
  <2>3. ASSUME NEW i \in 1..(n + 1), NEW j \in 1..(n + 1),
               FindChainRoot(version', i) = FindChainRoot(version', j),
               "dhr" \notin missed'[i] \cup missed'[j]
        PROVE  version'[i].dhr = version'[j].dhr
    <3>1. i \in Ids \/ i = new
      BY <1>6
    <3>2. j \in Ids \/ j = new
      BY <1>6
    <3> QED
      BY <2>1, <2>2, <2>3, <3>1, <3>2
  <2> QED
    BY <1>7, <2>3 DEF OneKind, Ids
<1> QED
  BY <1>3, <1>6, <1>12, <1>15, <1>16 DEF SettingsInv

LEMMA SetKeeps ==
  ASSUME SettingsInv,
         SetAnchor \/ SetTolerance \/ SetCategory \/ SetReactor \/ SetDhr \/ SetLoss
  PROVE  SettingsInv'
<1>1. CASE SetAnchor
  <2>1. PICK i \in Ids : \E m \in version[i].items \cup {Unset} : Edit({i}, "anchor", m)
    BY <1>1 DEF SetAnchor
  <2> QED
    BY <2>1, EditKeeps DEF MayGive, Settings
<1>2. CASE SetTolerance
  BY <1>2, EditKeeps DEF SetTolerance, MayGive, Settings
<1>3. CASE SetCategory
  BY <1>3, EditKeeps DEF SetCategory, MayGive, Settings
<1>4. CASE SetReactor
  BY <1>4, EditKeeps DEF SetReactor, MayGive, Settings
<1>5. CASE SetDhr
  <2>1. PICK i \in Ids, b \in BOOLEAN : Edit(Chain(version, i), "dhr", b)
    BY <1>5 DEF SetDhr
  <2>2. Chain(version, i) \subseteq Ids
    BY DEF Chain, Below, Ids
  <2> QED
    BY <2>1, <2>2, EditKeeps DEF MayGive, Settings
<1>6. CASE SetLoss
  <2>1. PICK i \in Ids : \E l : Edit({i}, "loss", l)
    BY <1>6 DEF SetLoss
  <2> QED
    BY <2>1, EditKeeps DEF MayGive, Settings
<1> QED
  BY <1>1, <1>2, <1>3, <1>4, <1>5, <1>6

(* What managers decided about a recipe holds for all its later versions,  *)
(* its base is one of its materials, and a chain is official as a whole    *)
(* (recipe_import_routes.py, recipe_operator_routes.py).                   *)
THEOREM SettingsStayHandedOn == SettingsSpec => []SettingsAreHandedOn
<1>1. SettingsInit => SettingsInv
  BY SettingsInvStarts
<1>2. SettingsInv /\ [SettingsNext]_settingsVars => SettingsInv'
  <2> SUFFICES ASSUME SettingsInv, [SettingsNext]_settingsVars PROVE SettingsInv'
    OBVIOUS
  <2>1. CASE UNCHANGED settingsVars
    BY <2>1 DEF settingsVars, SettingsInv, VersionsAreRows, SentOk, SettingsSurvive, OneKind, Ids
  <2>2. CASE SettingsNext
    BY <2>2, SetKeeps, BeginKeeps, InsertKeeps DEF SettingsNext
  <2> QED
    BY <2>1, <2>2
<1>3. SettingsInv => SettingsAreHandedOn
  BY SettingsInvTells
<1> QED
  BY <1>1, <1>2, <1>3, PTL DEF SettingsSpec
=============================================================================
