-------------------------- MODULE KpmrTreesProofs --------------------------
(***************************************************************************)
(* What the two builders of KpmrTrees keep for every list of records: the   *)
(* types, and the place of every profile.  The relation of the profile      *)
(* builder is first shown to be a function of the child: a subcategory has  *)
(* one possible parent, an item has one, and nothing else has any.  The     *)
(* search for the first such record then finds that one id or nothing, so   *)
(* that the order of the document can not matter.                           *)
(*                                                                         *)
(* The source builder may choose, but only between the id cut by one        *)
(* segment and by two.  Every link of either builder so leads to an id that *)
(* ends earlier, and a finished tree can not have a ring beside it.         *)
(***************************************************************************)
EXTENDS KpmrTrees, NaturalsInduction, SequenceTheorems,
        WellFoundedInduction, TLAPS

LEMMA CutShape ==
    ASSUME NEW c \in Id, NEW k \in Nat
    PROVE  /\ Cut(c, k) \in Id
           /\ Len(Cut(c, k)) = Len(c)
           /\ \A i \in 1..Len(c) : Cut(c, k)[i] = IF i <= k THEN c[i] ELSE 0
<1>1. Len(c) \in Nat /\ \A i \in 1..Len(c) : c[i] \in Nat
  BY DEF Id
<1>2. Cut(c, k) \in [1..Len(c) -> Nat]
  BY <1>1 DEF Cut
<1>3. Cut(c, k) \in Seq(Nat) /\ Len(Cut(c, k)) = Len(c)
  BY <1>1, <1>2
<1> QED
  BY <1>1, <1>3 DEF Cut, Id

LEMMA SameDigits ==
    ASSUME NEW p \in Id, NEW q \in Id, Len(p) = 8, Len(q) = 8,
           \A i \in 1..8 : p[i] = q[i]
    PROVE  p = q
<1>1. p \in [1..8 -> Nat] /\ q \in [1..8 -> Nat]
  BY LenProperties DEF Id
<1> QED
  BY <1>1

LEMMA RelationGivesParent ==
    ASSUME NEW p \in Id, NEW c \in Id, profile_relation(p, c)
    PROVE  HasCategory(c) /\ p = OneUp(c)
<1>1. Len(p) = 8 /\ Len(c) = 8 /\ Zeros(p, 6, 8)
  BY DEF profile_relation, Numbered
<1>2. CASE Zeros(p, 3, 8)
  <2>1. p[1] = c[1] /\ p[2] = c[2] /\ ~ Zeros(c, 3, 5) /\ Zeros(c, 6, 8)
    BY <1>2 DEF profile_relation
  <2>2. OneUp(c) = Cut(c, 2)
    BY <2>1 DEF OneUp
  <2>3. \A i \in 1..8 : p[i] = Cut(c, 2)[i]
    BY <1>1, <1>2, <2>1, CutShape DEF Zeros
  <2> QED
    BY <1>1, <2>1, <2>2, <2>3, CutShape, SameDigits DEF HasCategory, Numbered
<1>3. CASE ~ Zeros(p, 3, 8)
  <2>1. (\A i \in 1..5 : p[i] = c[i]) /\ ~ Zeros(c, 6, 8)
    BY <1>3 DEF profile_relation
  <2>2. OneUp(c) = Cut(c, 5)
    BY <2>1 DEF OneUp
  <2>3. \A i \in 1..8 : p[i] = Cut(c, 5)[i]
    BY <1>1, <2>1, CutShape DEF Zeros
  <2>4. ~ Zeros(c, 3, 5)
    BY <1>1, <1>3, <2>1 DEF Zeros
  <2> QED
    BY <1>1, <2>2, <2>3, <2>4, CutShape, SameDigits DEF HasCategory, Numbered
<1> QED
  BY <1>2, <1>3

LEMMA ParentGivesRelation ==
    ASSUME NEW c \in Id, HasCategory(c)
    PROVE  profile_relation(OneUp(c), c)
<1>1. Len(c) = 8 /\ ~ Zeros(c, 3, 5)
  BY DEF HasCategory, Numbered
<1>2. CASE Zeros(c, 6, 8)
  <2>1. OneUp(c) = Cut(c, 2)
    BY <1>2 DEF OneUp
  <2> DEFINE p == Cut(c, 2)
  <2>2. Len(p) = 8 /\ \A i \in 1..8 : p[i] = IF i <= 2 THEN c[i] ELSE 0
    BY <1>1, CutShape
  <2> HIDE DEF p
  <2>3. Zeros(p, 3, 8) /\ Zeros(p, 6, 8) /\ p # c
    BY <1>1, <2>2 DEF Zeros
  <2>4. \A i \in 1..2 : p[i] = c[i]
    BY <2>2
  <2>5. profile_relation(p, c)
    BY <1>1, <1>2, <2>2, <2>3, <2>4 DEF profile_relation, Numbered
  <2> QED
    BY <2>1, <2>5 DEF p
<1>3. CASE ~ Zeros(c, 6, 8)
  <2>1. OneUp(c) = Cut(c, 5)
    BY <1>3 DEF OneUp
  <2> DEFINE p == Cut(c, 5)
  <2>2. Len(p) = 8 /\ \A i \in 1..8 : p[i] = IF i <= 5 THEN c[i] ELSE 0
    BY <1>1, CutShape
  <2> HIDE DEF p
  <2>3. ~ Zeros(p, 3, 8) /\ Zeros(p, 6, 8) /\ p # c
    BY <1>1, <1>3, <2>2 DEF Zeros
  <2>4. (\A i \in 1..5 : p[i] = c[i]) /\ Zeros(c, 9, 8)
    BY <2>2 DEF Zeros
  <2>5. profile_relation(p, c)
    BY <1>1, <1>3, <2>2, <2>3, <2>4 DEF profile_relation, Numbered
  <2> QED
    BY <2>1, <2>5 DEF p
<1> QED
  BY <1>2, <1>3

(***************************************************************************)
(* is_parent_child_relation of build_tree_kpmr_cli.c, for all ids: a parent *)
(* is the id with its last used level cleared, and a category, or an item   *)
(* without a subcategory, has none.                                         *)
(***************************************************************************)
THEOREM ProfileRelationIsExact ==
    ASSUME NEW p \in Id, NEW c \in Id
    PROVE  profile_relation(p, c) <=> HasCategory(c) /\ p = OneUp(c)
BY RelationGivesParent, ParentGivesRelation

-----------------------------------------------------------------------------
(* The search.                                                              *)

LEMMA FirstExists ==
    ASSUME NEW S \in SUBSET Nat, S # {}
    PROVE  \E j \in S : \A i \in S : j <= i
<1> DEFINE R == OpToRel(<, Nat)
<1>1. IsWellFoundedOn(R, Nat)
  BY NatLessThanWellFounded
<1>2. PICK j \in S : \A i \in S : <<i, j>> \notin R
  <2> HIDE DEF R
  <2> QED
    BY <1>1, WFMin
<1>3. \A i \in S : ~ i < j
  BY <1>2 DEF OpToRel
<1> QED
  BY <1>3

LEMMA FirstOfIsOneUp ==
    ASSUME records \in Seq(Id), NEW c \in Id
    PROVE  /\ FirstOf(c) \subseteq
                  IF HasCategory(c) /\ \E i \in 1..Len(records) : records[i] = OneUp(c)
                  THEN {OneUp(c)} ELSE {}
           /\ (HasCategory(c) /\ \E i \in 1..Len(records) : records[i] = OneUp(c))
                  => FirstOf(c) # {}
<1>1. \A j \in 1..Len(records) : records[j] \in Id
  OBVIOUS
<1>2. Above(c) \subseteq Nat
  BY DEF Above
<1>3. \A j \in Above(c) : /\ j \in 1..Len(records)
                          /\ HasCategory(c) /\ records[j] = OneUp(c)
  BY <1>1, RelationGivesParent DEF Above
<1>4. (HasCategory(c) /\ \E i \in 1..Len(records) : records[i] = OneUp(c))
          => Above(c) # {}
  BY ParentGivesRelation DEF Above
<1>5. Above(c) # {} => FirstOf(c) # {}
  BY <1>2, FirstExists DEF FirstOf
<1>6. \A q \in FirstOf(c) : \E j \in Above(c) : q = records[j]
  BY DEF FirstOf
<1> QED
  BY <1>3, <1>4, <1>5, <1>6

-----------------------------------------------------------------------------
(* Types.                                                                   *)

\* Where the first pass has been, every record that may have a node has one.
Passed ==
    \A i \in 1..Len(records) :
        (phase = "create" => i < at)
            => records[i] \in Nodes \cup {Missing, Empty}

IInv == TypeOK /\ Passed

LEMMA FoundIsANode ==
    ASSUME TypeOK, Passed, phase = "link", NEW c \in Nodes
    PROVE  FirstOf(c) \subseteq Nodes
<1> SUFFICES ASSUME NEW p \in FirstOf(c) PROVE p \in Nodes
  OBVIOUS
<1>1. PICK j \in 1..Len(records) : p = records[j] /\ profile_relation(records[j], c)
  BY DEF FirstOf, Above
<1>2. p # Missing /\ p # Empty
  BY <1>1 DEF profile_relation, Numbered, Missing, Empty
<1> QED
  BY <1>1, <1>2 DEF Passed

LEMMA CreateNodeKeeps ==
    ASSUME IInv, CreateNode
    PROVE  IInv'
<1>1. /\ records \in Seq(Id) /\ at \in 1..Len(records) /\ Len(records) \in Nat
      /\ phase = "create" /\ at' = at + 1
      /\ kind' = kind /\ records' = records /\ phase' = phase /\ parent' = parent
      /\ data \in [Nodes -> 1..Len(records)]
      /\ \A c \in Nodes : c # Missing /\ records[data[c]] = c
  BY DEF IInv, TypeOK, CreateNode
<1>2. CASE records[at] # Missing /\ data' = Put(data, records[at], at)
  <2>1. /\ Nodes' = Nodes \cup {records[at]}
        /\ data' \in [Nodes' -> 1..Len(records)]
        /\ data'[records[at]] = at
        /\ \A z \in Nodes \ {records[at]} : data'[z] = data[z]
    BY <1>1, <1>2 DEF Nodes, Put
  <2>2. TypeOK'
    BY <1>1, <1>2, <2>1 DEF IInv, TypeOK, Linked
  <2>3. Passed'
    BY <1>1, <2>1 DEF IInv, Passed
  <2> QED
    BY <2>2, <2>3 DEF IInv
<1>3. CASE data' = data /\ records[at] \in Nodes \cup {Missing, Empty}
  <2>1. Nodes' = Nodes
    BY <1>3 DEF Nodes
  <2>2. TypeOK'
    BY <1>1, <1>3, <2>1 DEF IInv, TypeOK, Linked
  <2>3. Passed'
    BY <1>1, <1>3, <2>1 DEF IInv, Passed
  <2> QED
    BY <2>2, <2>3 DEF IInv
<1> QED
  BY <1>2, <1>3 DEF CreateNode

LEMMA LinkKeeps ==
    ASSUME IInv, phase = "link", NEW c \in Nodes, NEW p \in Nodes \cup {Root},
           parent' = Put(parent, c, p),
           at' \in 1..Len(records) + 1,
           UNCHANGED <<kind, records, phase, data>>
    PROVE  IInv'
<1>1. parent \in [Linked -> Nodes \cup {Root}] /\ Linked \subseteq Nodes
  BY DEF IInv, TypeOK
<1>2. /\ Linked' = Linked \cup {c}
      /\ parent' \in [Linked' -> Nodes \cup {Root}]
  BY <1>1 DEF Linked, Put
<1>3. Nodes' = Nodes
  BY DEF Nodes
<1>4. TypeOK'
  BY <1>1, <1>2, <1>3 DEF IInv, TypeOK
<1>5. Passed'
  BY <1>3 DEF IInv, Passed
<1> QED
  BY <1>4, <1>5 DEF IInv

LEMMA QuietKeeps ==
    ASSUME IInv, phase' \in {"create", "link", "done", "null"},
           phase' = phase \/ phase = "link"
               \/ (phase = "create" /\ at > Len(records)),
           at' \in 1..Len(records) + 1, phase' = "create" => at' <= at,
           phase' = "create" => phase = "create",
           UNCHANGED <<kind, records, data, parent>>
    PROVE  IInv'
<1>1. Nodes' = Nodes /\ Linked' = Linked
  BY DEF Nodes, Linked
<1>2. TypeOK'
  BY <1>1 DEF IInv, TypeOK
<1>3. Passed'
  BY <1>1 DEF IInv, TypeOK, Passed
<1> QED
  BY <1>2, <1>3 DEF IInv

LEMMA IInvHolds == Spec => []IInv
<1>1. Init => IInv
  <2> SUFFICES ASSUME Init PROVE IInv
    OBVIOUS
  <2>1. records \in Seq(Id) /\ Len(records) \in Nat
    BY DocumentsAssumption DEF Init
  <2>2. Nodes = {} /\ Linked = {}
    BY DEF Init, Nodes, Linked, Missing
  <2>3. data \in [{} -> 1..Len(records)] /\ parent \in [{} -> {Root}]
    BY DEF Init, Missing
  <2> QED
    BY <2>1, <2>2, <2>3 DEF Init, IInv, TypeOK, Passed
<1>2. IInv /\ [Next]_vars => IInv'
  <2> SUFFICES ASSUME IInv, [Next]_vars PROVE IInv'
    OBVIOUS
  <2>0. records \in Seq(Id) /\ Len(records) \in Nat /\ at \in 1..Len(records) + 1
    BY DEF IInv, TypeOK
  <2>1. CASE CreateNode
    BY <2>1, CreateNodeKeeps
  <2>2. CASE Created
    BY <2>0, <2>2, QuietKeeps DEF Created
  <2>3. CASE LinkSource
    <3>1. PICK c \in Nodes \ Linked, p \in Nodes \cup {Root} : parent' = Put(parent, c, p)
      BY <2>3 DEF LinkSource
    <3> QED
      BY <2>0, <2>3, <3>1, LinkKeeps DEF LinkSource
  <2>4. CASE LinkProfile
    <3>1. CASE UNCHANGED parent
      BY <2>0, <2>4, <3>1, QuietKeeps DEF LinkProfile, IInv
    <3>2. CASE /\ records[at] \in Nodes
               /\ \E p \in IF FirstOf(records[at]) = {} THEN {Root} ELSE FirstOf(records[at]) :
                      parent' = Put(parent, records[at], p)
      <4>1. phase = "link"
        BY <2>4 DEF LinkProfile
      <4>2. FirstOf(records[at]) \subseteq Nodes
        BY <3>2, <4>1, FoundIsANode DEF IInv
      <4>3. PICK p \in Nodes \cup {Root} : parent' = Put(parent, records[at], p)
        BY <3>2, <4>2
      <4> QED
        BY <2>0, <2>4, <3>2, <4>1, <4>3, LinkKeeps DEF LinkProfile
    <3> QED
      BY <2>4, <3>1, <3>2 DEF LinkProfile
  <2>5. CASE Finish
    BY <2>0, <2>5, QuietKeeps DEF Finish
  <2>6. CASE UNCHANGED vars
    BY <2>0, <2>6, QuietKeeps DEF vars, IInv, TypeOK
  <2> QED
    BY <2>1, <2>2, <2>3, <2>4, <2>5, <2>6 DEF Next
<1> QED
  BY <1>1, <1>2, PTL DEF Spec

(***************************************************************************)
(* Every node of either builder belongs to a record, and every link ends at *)
(* a node or at the virtual root.                                           *)
(***************************************************************************)
THEOREM TreesTypeCorrect == Spec => []TypeOK
<1>1. IInv => TypeOK
  BY DEF IInv
<1> QED
  BY <1>1, IInvHolds, PTL

-----------------------------------------------------------------------------
(***************************************************************************)
(* Every profile that hangs somewhere hangs where its id says, for every    *)
(* document: neither the order nor duplicates can change it.                *)
(***************************************************************************)
THEOREM ProfilesAlwaysHangWhereTheyBelong == Spec => []ProfilesHangWhereTheyBelong
<1>1. Init => ProfilesHangWhereTheyBelong
  BY DEF Init, ProfilesHangWhereTheyBelong, Linked, Missing
<1>2. IInv /\ ProfilesHangWhereTheyBelong /\ [Next]_vars
          => ProfilesHangWhereTheyBelong'
  <2> SUFFICES ASSUME IInv, ProfilesHangWhereTheyBelong, [Next]_vars
               PROVE  ProfilesHangWhereTheyBelong'
    OBVIOUS
  <2>1. kind' = kind /\ records' = records
    BY DEF Next, vars, CreateNode, Created, LinkSource, LinkProfile, Finish
  <2>2. CASE parent' = parent
    <3>1. Linked' = Linked
      BY <2>2 DEF Linked
    <3> QED
      BY <2>1, <2>2, <3>1 DEF ProfilesHangWhereTheyBelong
  <2>3. CASE kind # "profile"
    BY <2>1, <2>3 DEF ProfilesHangWhereTheyBelong
  <2>4. CASE kind = "profile" /\ parent' # parent
    <3>1. LinkProfile
      BY <2>4 DEF Next, vars, CreateNode, Created, LinkSource, LinkProfile, Finish
    <3> DEFINE c == records[at]
    <3>2. c \in Nodes
      BY <2>4, <3>1 DEF LinkProfile
    <3>3. PICK p \in IF FirstOf(c) = {} THEN {Root} ELSE FirstOf(c) :
                 parent' = Put(parent, c, p)
      BY <2>4, <3>1 DEF LinkProfile
    <3>4. records \in Seq(Id) /\ c \in Id /\ parent \in [Linked -> Nodes \cup {Root}]
      BY <3>1 DEF IInv, TypeOK, LinkProfile
    <3>5. p = IF HasCategory(c) /\ \E i \in 1..Len(records) : records[i] = OneUp(c)
              THEN OneUp(c) ELSE Root
      <4> HIDE DEF c
      <4> QED
        BY <3>3, <3>4, FirstOfIsOneUp
    <3>6. /\ Linked' = Linked \cup {c}
          /\ parent'[c] = p
          /\ \A z \in Linked \ {c} : parent'[z] = parent[z]
      <4> HIDE DEF c
      <4>1. parent \in [DOMAIN parent -> Nodes \cup {Root, p}]
        BY <3>4 DEF Linked
      <4> QED
        BY <3>3, <4>1 DEF Linked, Put
    <3> HIDE DEF c
    <3> QED
      BY <2>1, <3>5, <3>6 DEF ProfilesHangWhereTheyBelong
  <2> QED
    BY <2>2, <2>3, <2>4
<1> QED
  BY <1>1, <1>2, IInvHolds, PTL DEF Spec

-----------------------------------------------------------------------------
(* The sources.                                                             *)

\* The loop finds the first segment that differs.
LEMMA FirstDiffFound ==
    ASSUME NEW p \in Id, NEW c \in Id, Len(p) = Len(c), p # c
    PROVE  /\ FirstDiff(p, c) \in 1..Len(p)
           /\ p[FirstDiff(p, c)] # c[FirstDiff(p, c)]
           /\ \A j \in 1..FirstDiff(p, c)-1 : p[j] = c[j]
<1> DEFINE S == {i \in 1..Len(p) : p[i] # c[i]}
<1>1. S # {}
  <2>1. p \in [1..Len(p) -> Nat] /\ c \in [1..Len(p) -> Nat] /\ Len(p) \in Nat
    BY DEF Id
  <2>2. \E i \in 1..Len(p) : p[i] # c[i]
    BY <2>1
  <2> QED
    BY <2>2
<1>2. S \in SUBSET Nat
  BY DEF Id
<1>3. PICK m \in S : \A n \in S : m <= n
  <2> HIDE DEF S
  <2> QED
    BY <1>1, <1>2, FirstExists
<1>4. \A j \in 1..m-1 : p[j] = c[j]
  <2>1. SUFFICES ASSUME NEW j \in 1..m-1, p[j] # c[j] PROVE FALSE
    OBVIOUS
  <2>2. m \in 1..Len(p) /\ Len(p) \in Nat
    BY DEF Id
  <2>3. j \in S /\ j < m /\ j \in Nat
    BY <2>1, <2>2
  <2> QED
    BY <2>3, <1>3, <2>2
<1>5. \E i \in 1..Len(p) : p[i] # c[i] /\ \A j \in 1..i-1 : p[j] = c[j]
  BY <1>3, <1>4
<1> QED
  BY <1>5 DEF FirstDiff

\* There is only one.
LEMMA FirstDiffIs ==
    ASSUME NEW p \in Id, NEW c \in Id, Len(p) = Len(c),
           NEW d \in 1..Len(p), p[d] # c[d], \A j \in 1..d-1 : p[j] = c[j]
    PROVE  FirstDiff(p, c) = d
<1> DEFINE f == FirstDiff(p, c)
<1>1. p # c /\ Len(p) \in Nat
  BY DEF Id
<1>2. f \in 1..Len(p) /\ p[f] # c[f] /\ \A j \in 1..f-1 : p[j] = c[j]
  BY <1>1, FirstDiffFound
<1> HIDE DEF f
<1>3. ~ (f < d)
  <2>1. ASSUME f < d PROVE FALSE
    <3>1. f \in 1..d-1
      BY <2>1, <1>1, <1>2
    <3> QED
      BY <3>1, <1>2
  <2> QED
    BY <2>1
<1>4. ~ (d < f)
  <2>1. ASSUME d < f PROVE FALSE
    <3>1. d \in 1..f-1
      BY <2>1, <1>1, <1>2
    <3> QED
      BY <3>1, <1>2
  <2> QED
    BY <2>1
<1>5. f = d
  BY <1>1, <1>2, <1>3, <1>4
<1> QED
  BY <1>5 DEF f

\* Which ids the relation accepts, of any length: the parent is the child
\* without its last segment in use, or without its last two.
LEMMA RelationIsCut ==
    \A p, c \in Id :
        is_parent_child_relation(p, c) <=> Len(c) >= 2 /\ OneOrTwoLevelsUp(p, c)
<1> SUFFICES ASSUME NEW p \in Id, NEW c \in Id
             PROVE  is_parent_child_relation(p, c)
                        <=> Len(c) >= 2 /\ OneOrTwoLevelsUp(p, c)
  OBVIOUS
<1>t. /\ Len(p) \in Nat /\ Len(c) \in Nat
      /\ p \in [1..Len(p) -> Nat] /\ c \in [1..Len(c) -> Nat]
  BY DEF Id
<1>1. ASSUME is_parent_child_relation(p, c)
      PROVE  Len(c) >= 2 /\ OneOrTwoLevelsUp(p, c)
  <2> DEFINE d == FirstDiff(p, c)
  <2>1. /\ Len(p) = Len(c) /\ Len(c) >= 2 /\ p # c
        /\ p[d] = 0 /\ c[d] # 0
        /\ \A i \in d+1..Len(p) : p[i] = 0
        /\ \A i \in d+2..Len(c) : c[i] = 0
    BY <1>1, <1>t DEF is_parent_child_relation
  <2>2. d \in 1..Len(c) /\ \A j \in 1..d-1 : p[j] = c[j]
    BY <2>1, FirstDiffFound
  <2> HIDE DEF d
  <2>3. \A i \in 1..Len(c) : p[i] = IF i <= d-1 THEN c[i] ELSE 0
    <3> SUFFICES ASSUME NEW i \in 1..Len(c) PROVE p[i] = IF i <= d-1 THEN c[i] ELSE 0
      OBVIOUS
    <3>1. CASE i <= d-1
      <4>1. i \in 1..d-1
        BY <3>1, <2>2, <1>t
      <4> QED
        BY <4>1, <3>1, <2>2
    <3>2. CASE i = d
      BY <3>2, <2>1, <2>2, <1>t
    <3>3. CASE i > d
      <4>1. i \in d+1..Len(p)
        BY <3>3, <2>1, <2>2, <1>t
      <4> QED
        BY <4>1, <3>3, <2>1, <2>2, <1>t
    <3> QED
      BY <3>1, <3>2, <3>3, <2>2, <1>t
  <2>4. p = Cut(c, d-1)
    BY <2>1, <2>3, <1>t DEF Cut
  <2>5. CASE d+1 <= Len(c) /\ c[d+1] # 0
    <3>1. Level(c, d+1)
      BY <2>5, <2>1, <2>2, <1>t DEF Level
    <3>2. d+1 \in 1..Len(c) /\ (d+1) - 2 = d-1
      BY <2>5, <2>2, <1>t
    <3> QED
      BY <3>1, <3>2, <2>1, <2>4 DEF OneOrTwoLevelsUp
  <2>6. CASE ~ (d+1 <= Len(c) /\ c[d+1] # 0)
    <3>1. \A i \in d+1..Len(c) : c[i] = 0
      <4> SUFFICES ASSUME NEW i \in d+1..Len(c) PROVE c[i] = 0
        OBVIOUS
      <4>1. CASE i = d+1
        BY <4>1, <2>6, <2>2, <1>t
      <4>2. CASE i # d+1
        <5>1. i \in d+2..Len(c)
          BY <4>2, <2>2, <1>t
        <5> QED
          BY <5>1, <2>1
      <4> QED
        BY <4>1, <4>2
    <3>2. Level(c, d)
      BY <3>1, <2>1, <2>2 DEF Level
    <3> QED
      BY <3>2, <2>1, <2>2, <2>4 DEF OneOrTwoLevelsUp
  <2> QED
    BY <2>1, <2>5, <2>6
<1>2. ASSUME Len(c) >= 2, OneOrTwoLevelsUp(p, c)
      PROVE  is_parent_child_relation(p, c)
  <2>1. PICK k \in 1..Len(c) :
            Level(c, k) /\ p # c /\ p \in {Cut(c, k-1), Cut(c, k-2)}
    BY <1>2 DEF OneOrTwoLevelsUp
  <2>2. c[k] # 0 /\ \A i \in k+1..Len(c) : c[i] = 0
    BY <2>1 DEF Level
  <2>3. ASSUME NEW d \in 1..Len(c), p = Cut(c, d-1), c[d] # 0,
               \A i \in d+2..Len(c) : c[i] = 0
        PROVE  is_parent_child_relation(p, c)
    <3>1. Len(p) = Len(c)
      <4>1. DOMAIN p = 1..Len(c)
        BY <2>3 DEF Cut
      <4>2. DOMAIN p = 1..Len(p)
        BY <1>t
      <4> QED
        BY <4>1, <4>2, <1>t
    <3>2. \A i \in 1..Len(c) : p[i] = IF i <= d-1 THEN c[i] ELSE 0
      BY <2>3 DEF Cut
    <3>3. p[d] = 0
      BY <3>2, <1>t
    <3>4. \A j \in 1..d-1 : p[j] = c[j]
      BY <3>2, <1>t
    <3>5. \A i \in d+1..Len(p) : p[i] = 0
      BY <3>1, <3>2, <1>t
    <3>6. FirstDiff(p, c) = d
      BY <3>1, <3>3, <3>4, <2>3, FirstDiffIs
    <3> QED
      BY <3>1, <3>3, <3>5, <3>6, <2>1, <2>3, <1>2 DEF is_parent_child_relation
  <2>4. CASE p = Cut(c, k-1)
    <3>1. \A i \in k+2..Len(c) : c[i] = 0
      BY <2>2, <1>t
    <3> QED
      BY <3>1, <2>2, <2>3, <2>4
  <2>5. CASE p = Cut(c, k-2) /\ k >= 2 /\ c[k-1] # 0
    <3>1. k-1 \in 1..Len(c) /\ (k-1)-1 = k-2 /\ (k-1)+2 = k+1
      BY <2>5, <1>t
    <3>2. \A i \in (k-1)+2..Len(c) : c[i] = 0
      BY <3>1, <2>2
    <3>3. p = Cut(c, (k-1)-1) /\ c[k-1] # 0
      BY <3>1, <2>5
    <3> QED
      BY <3>1, <3>2, <3>3, <2>3
  <2>6. CASE p = Cut(c, k-2) /\ ~ (k >= 2 /\ c[k-1] # 0)
    <3>1. \A i \in 1..Len(c) : (IF i <= k-2 THEN c[i] ELSE 0) = (IF i <= k-1 THEN c[i] ELSE 0)
      BY <2>6, <1>t
    <3>2. p = Cut(c, k-1)
      BY <3>1, <2>6 DEF Cut
    <3> QED
      BY <3>2, <2>4
  <2> QED
    BY <2>1, <2>4, <2>5, <2>6
<1> QED
  BY <1>1, <1>2

\* What the source builder takes for a parent.
LEMMA SourceRelationIsCut ==
    ASSUME NEW p \in Id, NEW c \in Id
    PROVE  kpmr_is_parent_child_relation(p, c) <=> Len(c) >= 2 /\ OneOrTwoLevelsUp(p, c)
BY RelationIsCut DEF kpmr_is_parent_child_relation

\* What the passes leave behind: no link before the second one; a node for
\* every record that may have one; and a link for every node passed.
PassInv ==
    /\ phase = "create" => Linked = {}
    /\ kind = "profile" => Empty \notin Nodes
    /\ kind = "source" => \A i \in 1..Len(records) :
           (phase = "create" => i < at) => records[i] \in Nodes \cup {Missing}
    /\ kind = "profile" /\ phase = "link" =>
           \A i \in 1..Len(records) : i < at => records[i] \in Linked \cup {Missing, Empty}
    /\ phase = "done" => Nodes \subseteq Linked

\* PassInv is inductive next to IInv.
LEMMA PassInvHolds == Spec => []PassInv
<1>1. Init => PassInv
  <2> SUFFICES ASSUME Init PROVE PassInv
    OBVIOUS
  <2>1. Nodes = {} /\ Linked = {}
    BY DEF Init, Nodes, Linked, Missing
  <2> QED
    BY <2>1 DEF Init, PassInv
<1>2. IInv /\ PassInv /\ [Next]_vars => PassInv'
  <2> SUFFICES ASSUME IInv, PassInv, [Next]_vars PROVE PassInv'
    OBVIOUS
  <2>0. /\ records \in Seq(Id) /\ Len(records) \in Nat /\ at \in 1..Len(records) + 1
        /\ kind \in {"source", "profile"}
        /\ \A c \in Nodes : c # Missing /\ data[c] \in 1..Len(records) /\ records[data[c]] = c
    BY DEF IInv, TypeOK
  <2>1. CASE CreateNode
    <3>1. /\ phase = "create" /\ phase' = "create" /\ at' = at + 1 /\ at \in 1..Len(records)
          /\ kind' = kind /\ records' = records /\ Linked' = Linked
      BY <2>0, <2>1 DEF CreateNode, Linked
    <3>2. /\ Nodes \subseteq Nodes' /\ Nodes' \subseteq Nodes \cup {records[at]}
          /\ kind = "profile" /\ records[at] = Empty => Nodes' = Nodes
          /\ kind = "source" => records[at] \in Nodes' \cup {Missing}
      <4>1. CASE data' = data /\ (records[at] = Missing \/ (kind = "profile" /\ records[at] = Empty)
                                    \/ (kind = "source" /\ records[at] \in Nodes))
        BY <2>0, <4>1 DEF Nodes
      <4>2. CASE data' = Put(data, records[at], at) /\ ~(kind = "profile" /\ records[at] = Empty)
        <5>1. Nodes' = Nodes \cup {records[at]}
          BY <4>2 DEF Nodes, Put
        <5> QED
          BY <4>2, <5>1
      <4> QED
        BY <2>1, <4>1, <4>2 DEF CreateNode
    <3> QED
      BY <2>0, <3>1, <3>2 DEF PassInv
  <2>2. CASE Created
    <3>1. /\ phase = "create" /\ phase' \in {"null", "link"} /\ at' = 1 /\ at > Len(records)
          /\ kind' = kind /\ records' = records /\ Linked' = Linked /\ Nodes' = Nodes
      BY <2>2 DEF Created, Linked, Nodes
    <3> QED
      BY <2>0, <3>1 DEF PassInv
  <2>3. CASE LinkSource
    <3>1. /\ phase = "link" /\ phase' = "link" /\ kind = "source" /\ Nodes' = Nodes
          /\ kind' = kind /\ records' = records
      BY <2>3 DEF LinkSource, Nodes
    <3> QED
      BY <3>1 DEF PassInv
  <2>4. CASE LinkProfile
    <3>1. /\ phase = "link" /\ phase' = "link" /\ kind = "profile" /\ Nodes' = Nodes
          /\ kind' = kind /\ records' = records /\ at' = at + 1 /\ at \in 1..Len(records)
      BY <2>0, <2>4 DEF LinkProfile, Nodes
    <3>2. Linked \subseteq Linked' /\ records[at] \in Linked' \cup {Missing, Empty}
      <4>1. records[at] \in Nodes \cup {Missing, Empty}
        BY <3>1 DEF IInv, Passed
      <4>2. CASE UNCHANGED parent /\ (records[at] \notin Nodes \/ records[at] \in Linked)
        BY <4>1, <4>2 DEF Linked
      <4>3. CASE \E p : parent' = Put(parent, records[at], p)
        <5>1. Linked' = Linked \cup {records[at]}
          BY <4>3 DEF Linked, Put
        <5> QED
          BY <5>1
      <4> QED
        BY <2>4, <4>2, <4>3 DEF LinkProfile
    <3> QED
      BY <2>0, <3>1, <3>2 DEF PassInv
  <2>5. CASE Finish
    <3>1. /\ phase = "link" /\ phase' = "done" /\ Nodes' = Nodes /\ Linked' = Linked
          /\ kind' = kind /\ records' = records
          /\ IF kind = "source" THEN Nodes = Linked ELSE at > Len(records)
      BY <2>5 DEF Finish, Nodes, Linked
    <3>2. Nodes \subseteq Linked
      <4>1. CASE kind = "source"
        BY <3>1, <4>1
      <4>2. CASE kind = "profile"
        <5> SUFFICES ASSUME NEW c \in Nodes PROVE c \in Linked
          OBVIOUS
        <5>1. data[c] \in 1..Len(records) /\ data[c] < at /\ records[data[c]] = c
          BY <2>0, <3>1, <4>2
        <5>2. c # Missing /\ c # Empty
          BY <2>0, <4>2 DEF PassInv
        <5> QED
          BY <3>1, <4>2, <5>1, <5>2 DEF PassInv
      <4> QED
        BY <2>0, <4>1, <4>2
    <3> QED
      BY <3>1, <3>2 DEF PassInv
  <2>6. CASE UNCHANGED vars
    BY <2>6 DEF vars, PassInv, Nodes, Linked
  <2> QED
    BY <2>1, <2>2, <2>3, <2>4, <2>5, <2>6 DEF Next
<1> QED
  BY <1>1, <1>2, IInvHolds, PTL DEF Spec

(***************************************************************************)
(* For every document and every hash order: a source that has a possible    *)
(* parent among the nodes hangs under one, which is its own id without the  *)
(* last segment in use or without the last two, and any other at the top.   *)
(***************************************************************************)
THEOREM SourcesAlwaysHangAbove == Spec => []SourcesHangAbove
<1>1. Init => SourcesHangAbove
  BY DEF Init, SourcesHangAbove, Linked, Missing
<1>2. IInv /\ PassInv /\ SourcesHangAbove /\ [Next]_vars => SourcesHangAbove'
  <2> SUFFICES ASSUME IInv, PassInv, SourcesHangAbove, [Next]_vars
               PROVE  SourcesHangAbove'
    OBVIOUS
  <2>1. kind' = kind
    BY DEF Next, vars, CreateNode, Created, LinkSource, LinkProfile, Finish
  <2>2. CASE CreateNode
    <3>1. Linked' = {}
      BY <2>2 DEF CreateNode, PassInv, Linked
    <3> QED
      BY <3>1 DEF SourcesHangAbove
  <2>3. CASE Nodes' = Nodes /\ parent' = parent
    <3>1. Linked' = Linked
      BY <2>3 DEF Linked
    <3> QED
      BY <2>1, <2>3, <3>1 DEF SourcesHangAbove
  <2>4. CASE kind # "source"
    BY <2>1, <2>4 DEF SourcesHangAbove
  <2>5. CASE LinkSource
    <3>1. Nodes' = Nodes /\ kind = "source"
      BY <2>5 DEF LinkSource, Nodes
    <3> DEFINE found(c) == {p \in Nodes : kpmr_is_parent_child_relation(p, c)}
               above(c) == {p \in Nodes : Len(c) >= 2 /\ OneOrTwoLevelsUp(p, c)}
    <3>2. PICK c \in Nodes \ Linked :
              \E p \in IF found(c) = {} THEN {Root} ELSE found(c) : parent' = Put(parent, c, p)
      BY <2>5 DEF LinkSource
    <3>3. PICK p \in IF found(c) = {} THEN {Root} ELSE found(c) : parent' = Put(parent, c, p)
      BY <3>2
    <3>4. \A x \in Nodes : x \in Id
      BY DEF IInv, TypeOK
    <3>5. found(c) = above(c)
      BY <3>4, SourceRelationIsCut
    <3>6. Linked' = Linked \cup {c} /\ parent'[c] = p /\ \A z \in Linked : parent'[z] = parent[z]
      <4> HIDE DEF found, above
      <4>1. parent \in [Linked -> Nodes \cup {Root}] /\ c \notin Linked
        BY <3>2 DEF IInv, TypeOK
      <4> QED
        BY <3>3, <4>1 DEF Linked, Put
    <3>7. IF above(c) # {} THEN p \in above(c) ELSE p = Root
      <4> HIDE DEF found, above
      <4> QED
        BY <3>3, <3>5
    <3>8. \A z \in Linked : IF above(z) # {} THEN parent[z] \in above(z) ELSE parent[z] = Root
      BY <3>1 DEF SourcesHangAbove
    <3>9. \A z \in Linked' : IF above(z) # {} THEN parent'[z] \in above(z) ELSE parent'[z] = Root
      <4> HIDE DEF found, above
      <4> QED
        BY <3>6, <3>7, <3>8
    <3> QED
      BY <3>1, <3>9 DEF SourcesHangAbove
  <2> QED
    BY <2>2, <2>3, <2>4, <2>5 DEF Next, vars, Created, LinkProfile, Finish, Nodes
<1> QED
  BY <1>1, <1>2, IInvHolds, PassInvHolds, PTL DEF Spec

-----------------------------------------------------------------------------
(* The tree.                                                                *)

\* A link leads from an id to one that ends earlier: it has zeros from a place
\* on at which the child has something else.
LEMMA LinksLeadUp ==
    ASSUME IInv, SourcesHangAbove, ProfilesHangWhereTheyBelong,
           NEW c \in Linked, parent[c] # Root
    PROVE  /\ c \in Id /\ Len(parent[c]) = Len(c)
           /\ \E k \in 1..Len(c) : c[k] # 0 /\ \A i \in k..Len(c) : parent[c][i] = 0
<1> DEFINE p == parent[c]
<1>1. /\ c \in Id /\ Len(c) \in Nat /\ kind \in {"source", "profile"}
  <2>1. /\ c \in Nodes /\ records \in Seq(Id)
        /\ \A x \in Nodes : data[x] \in 1..Len(records) /\ records[data[x]] = x
    BY DEF IInv, TypeOK
  <2>2. c \in Id
    BY <2>1
  <2> QED
    BY <2>1, <2>2 DEF IInv, TypeOK, Id
<1>2. \A k \in Nat : /\ Len(Cut(c, k)) = Len(c)
                     /\ \A i \in 1..Len(c) : Cut(c, k)[i] = IF i <= k THEN c[i] ELSE 0
  BY <1>1, CutShape
<1>3. CASE kind = "profile"
  <2>1. HasCategory(c) /\ p = OneUp(c)
    BY <1>3 DEF ProfilesHangWhereTheyBelong
  <2>2. Len(c) = 8 /\ ~ Zeros(c, 3, 5)
    BY <2>1 DEF HasCategory, Numbered
  <2>3. CASE Zeros(c, 6, 8)
    <3>1. p = Cut(c, 2)
      BY <2>1, <2>3 DEF OneUp
    <3>2. PICK k \in 3..5 : c[k] # 0
      BY <2>2 DEF Zeros
    <3> HIDE DEF p
    <3>3. k \in 1..8 /\ Len(p) = Len(c) /\ \A i \in k..8 : p[i] = 0
      BY <1>2, <2>2, <3>1
    <3> QED
      BY <1>1, <2>2, <3>2, <3>3 DEF p
  <2>4. CASE ~ Zeros(c, 6, 8)
    <3>1. p = Cut(c, 5)
      BY <2>1, <2>4 DEF OneUp
    <3>2. PICK k \in 6..8 : c[k] # 0
      BY <2>4 DEF Zeros
    <3> HIDE DEF p
    <3>3. k \in 1..8 /\ Len(p) = Len(c) /\ \A i \in k..8 : p[i] = 0
      BY <1>2, <2>2, <3>1
    <3> QED
      BY <1>1, <2>2, <3>2, <3>3 DEF p
  <2> QED
    BY <2>3, <2>4
<1>4. CASE kind = "source"
  <2>1. OneOrTwoLevelsUp(p, c)
    BY <1>4 DEF SourcesHangAbove
  <2> HIDE DEF p
  <2>2. PICK k \in 1..Len(c) : Level(c, k) /\ p # c /\ p \in {Cut(c, k-1), Cut(c, k-2)}
    BY <2>1 DEF OneOrTwoLevelsUp
  <2>3. Len(p) = Len(c) /\ \A i \in k..Len(c) : p[i] = 0
    <3>1. CASE p = Cut(c, k-1)
      BY <1>1, <3>1 DEF Cut
    <3>2. CASE p = Cut(c, k-2)
      BY <1>1, <3>2 DEF Cut
    <3> QED
      BY <2>2, <3>1, <3>2
  <2> QED
    BY <1>1, <2>2, <2>3 DEF Level, p
<1> QED
  BY <1>1, <1>3, <1>4

\* So a set that has the root and, of its members, all the children, has
\* every node that is linked: the one that ends first has no node to hang on
\* outside of it.
LEMMA NothingIsCutOff ==
    ASSUME IInv, SourcesHangAbove, ProfilesHangWhereTheyBelong,
           NEW T, Root \in T, \A d \in Linked : parent[d] \in T => d \in T,
           Nodes \subseteq Linked
    PROVE  Linked \subseteq T
<1> DEFINE Out == Linked \ T
           S == {r \in Nat : \E c \in Out : \A i \in r + 1..Len(c) : c[i] = 0}
<1>1. parent \in [Linked -> Nodes \cup {Root}]
  BY DEF IInv, TypeOK
<1>2. \A c \in Out : parent[c] # Root /\ parent[c] \in Out
  BY <1>1
<1>3. \A c \in Out : Len(c) \in S
  <2> SUFFICES ASSUME NEW c \in Out PROVE Len(c) \in S
    OBVIOUS
  <2>1. c \in Id
    BY <1>2, LinksLeadUp
  <2>2. Len(c) \in Nat
    BY <2>1 DEF Id
  <2> QED
    BY <2>2
<1>4. SUFFICES ASSUME S # {} PROVE FALSE
  BY <1>3
<1>5. S \in SUBSET Nat
  OBVIOUS
<1>6. PICK r \in S : \A q \in S : r <= q
  <2> HIDE DEF S
  <2> QED
    BY <1>4, <1>5, FirstExists
<1>7. PICK c \in Out : \A i \in r + 1..Len(c) : c[i] = 0
  BY <1>6
<1>8. /\ Len(c) \in Nat /\ Len(parent[c]) = Len(c)
      /\ \E k \in 1..Len(c) : c[k] # 0 /\ \A i \in k..Len(c) : parent[c][i] = 0
  <2>1. /\ c \in Id /\ Len(parent[c]) = Len(c)
        /\ \E k \in 1..Len(c) : c[k] # 0 /\ \A i \in k..Len(c) : parent[c][i] = 0
    BY <1>2, LinksLeadUp
  <2> QED
    BY <2>1 DEF Id
<1>9. PICK k \in 1..Len(c) : c[k] # 0 /\ \A i \in k..Len(c) : parent[c][i] = 0
  BY <1>8
<1>10. k <= r /\ r \in Nat /\ k \in Nat
  <2>1. r \in Nat
    BY <1>6
  <2>2. ASSUME ~ (k <= r) PROVE FALSE
    <3>1. k \in r + 1..Len(c)
      BY <1>8, <1>9, <2>1, <2>2
    <3> QED
      BY <1>7, <1>9, <3>1
  <2> QED
    BY <1>8, <1>9, <2>1, <2>2
<1>11. k - 1 \in S
  <2>1. k - 1 \in Nat /\ (k - 1) + 1 = k
    BY <1>8, <1>9
  <2> QED
    BY <1>2, <1>8, <1>9, <2>1
<1>12. r <= k - 1
  BY <1>6, <1>11
<1> QED
  BY <1>10, <1>12

(***************************************************************************)
(* For every document, hash order and builder: the finished tree has every  *)
(* id that can have a node, below the virtual root, and nothing else.       *)
(***************************************************************************)
THEOREM EveryIdIsAlwaysInTheTree == Spec => []EveryIdIsInTheTree
<1>1. IInv /\ PassInv /\ SourcesHangAbove /\ ProfilesHangWhereTheyBelong => EveryIdIsInTheTree
  <2> SUFFICES ASSUME IInv, PassInv, SourcesHangAbove, ProfilesHangWhereTheyBelong, phase = "done"
               PROVE  {records[i] : i \in 1..Len(records)}
                        \ ({Missing} \cup IF kind = "profile" THEN {Empty} ELSE {})
                      = Under({Root}) \ {Root}
    BY DEF EveryIdIsInTheTree
  <2>1. /\ Nodes = Linked /\ kind \in {"source", "profile"}
        /\ \A c \in Nodes : c # Missing /\ \E i \in 1..Len(records) : records[i] = c
        /\ kind = "profile" => Empty \notin Nodes
    BY DEF IInv, TypeOK, PassInv
  <2>2. \A i \in 1..Len(records) :
            records[i] \in Nodes \cup {Missing} \cup IF kind = "profile" THEN {Empty} ELSE {}
    BY <2>1 DEF IInv, Passed, PassInv
  <2>3. {records[i] : i \in 1..Len(records)}
          \ ({Missing} \cup IF kind = "profile" THEN {Empty} ELSE {}) = Nodes
    BY <2>1, <2>2
  <2>4. Root \notin Linked
    BY <2>1 DEF Root, Missing
  <2>5. Linked \subseteq Under({Root})
    BY <2>1, NothingIsCutOff DEF Under
  <2>6. Under({Root}) \subseteq Linked \cup {Root}
    BY DEF Under
  <2> QED
    BY <2>1, <2>3, <2>4, <2>5, <2>6
<1> QED
  BY <1>1, IInvHolds, PassInvHolds, SourcesAlwaysHangAbove,
     ProfilesAlwaysHangWhereTheyBelong, PTL
=============================================================================
