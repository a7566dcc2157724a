------------------------------ MODULE KpmrTrees ------------------------------
(***************************************************************************)
(* The two trees of the KPMR half in C: build_kpmr_source_tree of           *)
(* ilf/src/kpmr_source_tree.c and build_kpmr_risk_profile_tree of           *)
(* ilf/src/build_tree_kpmr_cli.c.  Both make a node for every id of a flat  *)
(* list of DATA_RECORDs and then look for a parent for every node, but they *)
(* differ in which of two records with one id counts, in what a parent is   *)
(* and in the order they look.                                              *)
(*                                                                         *)
(* An id is what its builder compares.  The id of a source is the sequence  *)
(* of its segments of two characters, the prefix included, as in            *)
(* ProfileTree; the id of a profile is the sequence of the eight characters *)
(* behind RK, "0" being 0.  An id that has no relations by its form is a    *)
(* sequence of one: the id of a source with an odd number of characters or  *)
(* fewer than four, the id of a profile without RK or of another length.    *)
(* The empty text is <<0>>, and <<>> is a record without an id.             *)
(***************************************************************************)
EXTENDS ProfileTree, FiniteSets

CONSTANTS
    SourceDocuments,    \* the lists of ids that may be read, by builder
    ProfileDocuments

ASSUME DocumentsAssumption ==
    SourceDocuments \subseteq Seq(Id) /\ ProfileDocuments \subseteq Seq(Id)

VARIABLES
    kind,     \* the builder: "source" or "profile" (fixed)
    records,  \* the ids of the records in document order (fixed)
    phase,    \* "create", "link", "done", or "null" if there is no tree
    at,       \* the record that is looked at next
    data,     \* the record of a node, by id: the keys are the nodes
    parent    \* the id of its parent, or Root, of the nodes that have one

vars == <<kind, records, phase, at, data, parent>>

Missing == <<>>
Empty   == <<0>>
Root    == <<>>

Nodes == DOMAIN data
Put(f, x, y) == [z \in DOMAIN f \cup {x} |-> IF z = x THEN y ELSE f[z]]

Init ==
    /\ \/ kind = "source" /\ records \in SourceDocuments
       \/ kind = "profile" /\ records \in ProfileDocuments
    /\ phase = "create"
    /\ at = 1
    /\ data = Missing /\ parent = Missing

-----------------------------------------------------------------------------
(* What a parent is.                                                        *)

\* Word for word the relation of the inherent tree.
kpmr_is_parent_child_relation(p, c) == is_parent_child_relation(p, c)

Numbered(d) == Len(d) = 8
Zeros(d, from, to) == \A i \in from..to : d[i] = 0

\* The profile builder knows categories of two digits, subcategories of three
\* and items of three.  The trailing zeros of the parent tell which it is;
\* those within its last significant segment do not count.
profile_relation(p, c) ==
    /\ Numbered(p) /\ Numbered(c) /\ p # c
    /\ Zeros(p, 6, 8)
    /\ LET start == IF Zeros(p, 3, 8) THEN 3 ELSE 6
       IN  /\ \A i \in 1..start - 1 : p[i] = c[i]
           /\ ~ Zeros(c, start, start + 2)
           /\ Zeros(c, start + 3, 8)

-----------------------------------------------------------------------------
(* The first pass: nodes by id.                                             *)

\* Mutant of CreateNode: a record without an id gets a node as well.
CreateNodeUnchecked ==
    /\ phase = "create" /\ at <= Len(records)
    /\ at' = at + 1
    /\ data' = IF kind = "source" /\ records[at] \in Nodes
               THEN data ELSE Put(data, records[at], at)
    /\ UNCHANGED <<kind, records, phase, parent>>

\* Mutant of CreateNode: a record without an id ends the pass.
CreateNodeStops ==
    /\ phase = "create" /\ at <= Len(records)
    /\ at' = IF records[at] = Missing THEN Len(records) + 1 ELSE at + 1
    /\ data' = IF records[at] = Missing THEN data ELSE Put(data, records[at], at)
    /\ UNCHANGED <<kind, records, phase, parent>>

\* The source builder keeps the first record of an id, the profile builder
\* overwrites the key of the first with the node of the last.
CreateNode ==
    /\ phase = "create" /\ at <= Len(records)
    /\ at' = at + 1
    /\ data' = IF \/ records[at] = Missing
                  \/ kind = "profile" /\ records[at] = Empty
                  \/ kind = "source" /\ records[at] \in Nodes
               THEN data ELSE Put(data, records[at], at)
    /\ UNCHANGED <<kind, records, phase, parent>>

\* An empty list is an error to one and an empty tree to the other.
Created ==
    /\ phase = "create" /\ at > Len(records)
    /\ phase' = IF kind = "source" /\ records = <<>> THEN "null" ELSE "link"
    /\ at' = 1
    /\ UNCHANGED <<kind, records, data, parent>>

-----------------------------------------------------------------------------
(* The second pass: links.                                                  *)

Linked == DOMAIN parent

\* Mutant of LinkSource: a parent is only looked for among the nodes that the
\* pass has linked.
LinkSourceInOnePass ==
    /\ phase = "link" /\ kind = "source"
    /\ \E c \in Nodes \ Linked :
          LET above == {p \in Linked : kpmr_is_parent_child_relation(p, c)}
          IN  \E p \in IF above = {} THEN {Root} ELSE above : parent' = Put(parent, c, p)
    /\ UNCHANGED <<kind, records, phase, at, data>>

\* In the order of the hash table, both ways.
LinkSource ==
    /\ phase = "link" /\ kind = "source"
    /\ \E c \in Nodes \ Linked :
          LET above == {p \in Nodes : kpmr_is_parent_child_relation(p, c)}
          IN  \E p \in IF above = {} THEN {Root} ELSE above : parent' = Put(parent, c, p)
    /\ UNCHANGED <<kind, records, phase, at, data>>

Above(c) == {j \in 1..Len(records) : profile_relation(records[j], c)}

\* Mutant of FirstOf: only records before the child are looked at.
FirstOfBefore(c) ==
    {records[j] : j \in {j \in Above(c) : j < at /\ \A i \in Above(c) : j <= i}}

FirstOf(c) ==
    {records[j] : j \in {j \in Above(c) : \A i \in Above(c) : j <= i}}

\* In the order of the document; a node that another record has attached is
\* passed over.
LinkProfile ==
    /\ phase = "link" /\ kind = "profile" /\ at <= Len(records)
    /\ at' = at + 1
    /\ LET c == records[at]
       IN  IF c \notin Nodes \/ c \in Linked
           THEN UNCHANGED parent
           ELSE \E p \in IF FirstOf(c) = {} THEN {Root} ELSE FirstOf(c) :
                   parent' = Put(parent, c, p)
    /\ UNCHANGED <<kind, records, phase, data>>

Finish ==
    /\ phase = "link"
    /\ IF kind = "source" THEN Nodes = Linked ELSE at > Len(records)
    /\ phase' = "done"
    /\ UNCHANGED <<kind, records, at, data, parent>>

Next == CreateNode \/ Created \/ LinkSource \/ LinkProfile \/ Finish

Spec == Init /\ [][Next]_vars

-----------------------------------------------------------------------------
TypeOK ==
    /\ kind \in {"source", "profile"}
    /\ records \in Seq(Id)
    /\ phase \in {"create", "link", "done", "null"}
    /\ at \in 1..Len(records) + 1
    /\ data \in [Nodes -> 1..Len(records)]
    /\ \A c \in Nodes : c # Missing /\ records[data[c]] = c
    /\ parent \in [Linked -> Nodes \cup {Root}]
    /\ Linked \subseteq Nodes

\* The nodes under a set of nodes, down to the leaves: what is in every set
\* that has these nodes and the children of its members.
Under(S) ==
    {c \in S \cup Linked :
        \A T \in SUBSET (S \cup Linked) :
            S \subseteq T /\ (\A d \in Linked : parent[d] \in T => d \in T) => c \in T}

(***************************************************************************)
(* No record is lost: every id of the document that can have a node is in   *)
(* the tree below the virtual root, whatever the order, duplicates and      *)
(* records without an id before it; the links form no ring.                 *)
(***************************************************************************)
EveryIdIsInTheTree ==
    phase = "done" =>
        {records[i] : i \in 1..Len(records)}
            \ ({Missing} \cup IF kind = "profile" THEN {Empty} ELSE {})
          = Under({Root}) \ {Root}

(***************************************************************************)
(* The position of a profile depends on the ids of the document and on      *)
(* nothing else: a subcategory is below its category and an item below its  *)
(* subcategory if there is a record of it, in whatever order they come, and *)
(* everything else is at the top.                                           *)
(***************************************************************************)
HasCategory(c) == Numbered(c) /\ ~ Zeros(c, 3, 5)
OneUp(c) == Cut(c, IF Zeros(c, 6, 8) THEN 2 ELSE 5)

ProfilesHangWhereTheyBelong ==
    kind = "profile" =>
        \A c \in Linked :
            parent[c] = IF HasCategory(c) /\ \E i \in 1..Len(records) : records[i] = OneUp(c)
                        THEN OneUp(c) ELSE Root

(***************************************************************************)
(* The hash order may decide between two parents of a source, but not       *)
(* between a parent and none, and either is the id without its last segment *)
(* in use or without its last two, for ids of every length.                 *)
(***************************************************************************)
SourcesHangAbove ==
    kind = "source" =>
        \A c \in Linked :
            LET above == {p \in Nodes : Len(c) >= 2 /\ OneOrTwoLevelsUp(p, c)}
            IN  IF above # {} THEN parent[c] \in above ELSE parent[c] = Root
=============================================================================
