------------------------- MODULE ProfileEvaluation -------------------------
(***************************************************************************)
(* One evaluation of a risk-profile document by ilf/src/eval.c: build the   *)
(* tree (build_risk_profile_tree), walk it in post-order and run the C      *)
(* scripts of every node (_fx_risk_profile), then turn ratings into scores  *)
(* (apply_rating_to_score_mapping).                                         *)
(*                                                                         *)
(* The nodes are kept in a GHashTable, whose iteration order is a function  *)
(* of the hash values and unrelated to the document: it is any order here.  *)
(*                                                                         *)
(* A script that aggregates is one that adds up the results stored in the   *)
(* elements of the direct children, as the scripts of                       *)
(* ilf/docs/TEST_PARENT_AGGREGATION.md do; of a result only the elements    *)
(* it was computed from are kept.                                           *)
(***************************************************************************)
EXTENDS ProfileTree, FiniteSets, SequencesExt

CONSTANTS
    NoId,       \* the Profile_ID of an element that has none
    Documents   \* the documents evaluated: sequences of RiskProfile elements

\* Logic_Risk_Profile_Fx: absent or empty, a text that does not compile, or
\* one that aggregates.  ThresholdFunction: likewise, or one that returns the
\* rating, in tenths, as it is written out.  The results and ratings are those the
\* element comes with if the document is the output of an earlier evaluation.
Element == [id : Id \cup {NoId},
            logic : {"absent", "broken", "aggregates"},
            threshold : {"absent", "broken", "returns"},
            rating : Nat,
            results : Seq(SUBSET Nat),
            ratings : Seq(Nat)]

ASSUME DocumentAssumption ==
    /\ NoId \notin Id
    /\ Documents \subseteq Seq(Element)

Positions(doc) == 1..Len(doc)
Ids(doc) == {doc[e].id : e \in Positions(doc)} \ {NoId}

VARIABLES
    doc,       \* the RiskProfile elements, in document order
    pc,        \* "create", "link", "walk", "map", "done", "failed", "aborted"
    next,      \* the element or the position of an order to deal with next
    nodes,     \* nodes_by_id: the element of each Profile_ID
    order,     \* the iteration order of nodes_by_id
    parent,    \* has_parent: the parent each attached node was appended to
    kids,      \* the children of each node, in order
    ran,       \* the nodes whose scripts were run, in order
    results,   \* riskProfileEvaluationResult of each element, oldest first
    ratings,   \* thresholdRating of each element, oldest first
    scores     \* finalScore of each element, oldest first

vars == <<doc, pc, next, nodes, order, parent, kids, ran, results, ratings, scores>>
tree == <<nodes, order, parent, kids>>
xml  == <<results, ratings, scores>>

Init ==
    /\ doc \in Documents
    /\ pc = "create"
    /\ next = 1
    /\ nodes = [i \in {} |-> 0]
    /\ order = <<>>
    /\ parent = [i \in {} |-> NoId]
    /\ kids = [i \in Ids(doc) |-> <<>>]
    /\ ran = <<>>
    /\ results = [e \in Positions(doc) |-> doc[e].results]
    /\ ratings = [e \in Positions(doc) |-> doc[e].ratings]
    /\ scores = [e \in Positions(doc) |-> <<>>]

-----------------------------------------------------------------------------
(* build_risk_profile_tree.                                                 *)

\* f with f[x] = v, whether or not x was in its domain.
Put(f, x, v) == [y \in DOMAIN f \cup {x} |-> IF y = x THEN v ELSE f[y]]

\* No RiskProfile element: there is no tree.
NoTree ==
    /\ pc = "create" /\ doc = <<>>
    /\ pc' = "failed"
    /\ UNCHANGED <<doc, next, tree, ran, xml>>

\* Mutant of CreateNode: of two elements with one Profile_ID the first stays.
CreateNodeFirst ==
    /\ pc = "create" /\ next \in Positions(doc)
    /\ nodes' = IF doc[next].id \in DOMAIN nodes \cup {NoId} THEN nodes
                ELSE Put(nodes, doc[next].id, next)
    /\ next' = next + 1
    /\ UNCHANGED <<doc, pc, order, parent, kids, ran, xml>>

\* Mutant of CreateNode: the warning does not skip the element.
CreateNodeNoId ==
    /\ pc = "create" /\ next \in Positions(doc)
    /\ nodes' = Put(nodes, doc[next].id, next)
    /\ next' = next + 1
    /\ UNCHANGED <<doc, pc, order, parent, kids, ran, xml>>

\* The first pass.  An element without a Profile_ID is skipped with a warning;
\* a second element with one Profile_ID takes the place of the first.
CreateNode ==
    /\ pc = "create" /\ next \in Positions(doc)
    /\ nodes' = IF doc[next].id = NoId THEN nodes ELSE Put(nodes, doc[next].id, next)
    /\ next' = next + 1
    /\ UNCHANGED <<doc, pc, order, parent, kids, ran, xml>>

StartLinking ==
    /\ pc = "create" /\ doc # <<>> /\ next = Len(doc) + 1
    /\ order' \in SetToSeqs(DOMAIN nodes)
    /\ pc' = "link" /\ next' = 1
    /\ UNCHANGED <<doc, nodes, parent, kids, ran, xml>>

\* The second pass appends a node to the first parent the iteration meets.
Candidates(c) == {i \in 1..Len(order) : is_parent_child_relation(order[i], c)}

Link ==
    /\ pc = "link" /\ next \in 1..Len(order)
    /\ LET c  == order[next]
           at == Candidates(c)
           p  == order[CHOOSE i \in at : \A j \in at : i <= j]
       IN  IF at = {}
           THEN UNCHANGED <<parent, kids>>
           ELSE /\ parent' = Put(parent, c, p)
                /\ kids' = [kids EXCEPT ![p] = Append(@, c)]
    /\ next' = next + 1
    /\ UNCHANGED <<doc, pc, nodes, order, ran, xml>>

\* The nodes without a parent are appended to the virtual root, in iteration
\* order.
Roots == FlattenSeq([i \in 1..Len(order) |->
                        IF order[i] \in DOMAIN parent THEN <<>> ELSE <<order[i]>>])

Walk == INSTANCE TreeWalk WITH Elements <- Ids(doc), Roots <- Roots, Kids <- kids

\* Mutant of PostOrder: G_PRE_ORDER.
PostOrderPre == Walk!IndexWalk

\* g_node_traverse with G_POST_ORDER, of which the virtual root, the last
\* node, has no data and is skipped.
PostOrder == Walk!RuleWalk

StartWalk ==
    /\ pc = "link" /\ next = Len(order) + 1
    /\ pc' = "walk" /\ next' = 1
    /\ UNCHANGED <<doc, tree, ran, xml>>

-----------------------------------------------------------------------------
(* _fx_risk_profile.                                                        *)

\* What an aggregating script finds: the results in the elements of direct
\* children, those no node was kept for included.
Found(p) ==
    {e \in Positions(doc) :
        doc[e].id # NoId /\ OneSegmentUp(p, doc[e].id) /\ results[e] # <<>>}

\* A text that does not compile ends the process: g_error aborts.  The result
\* of the logic is already in the document when the threshold fails.
Run ==
    /\ pc = "walk" /\ next \in 1..Len(PostOrder)
    /\ LET c == PostOrder[next]
           e == nodes[c]
       IN  /\ IF doc[e].logic = "aggregates"
              THEN /\ results' = [results EXCEPT ![e] = Append(@, Found(c))]
                   /\ ratings' = IF doc[e].threshold = "returns"
                                 THEN [ratings EXCEPT ![e] = Append(@, doc[e].rating)]
                                 ELSE ratings
              ELSE UNCHANGED <<results, ratings>>
           /\ ran' = Append(ran, c)
           /\ pc' = IF doc[e].logic = "broken"
                       \/ (doc[e].logic = "aggregates" /\ doc[e].threshold = "broken")
                    THEN "aborted" ELSE pc
    /\ next' = next + 1
    /\ UNCHANGED <<doc, tree, scores>>

StartMapping ==
    /\ pc = "walk" /\ next = Len(PostOrder) + 1
    /\ pc' = "map" /\ next' = 1
    /\ UNCHANGED <<doc, tree, ran, xml>>

-----------------------------------------------------------------------------
(* apply_rating_to_score_mapping: of every element with a thresholdRating,  *)
(* the first one is read; out of 1 to 5 it is skipped, and the fraction of  *)
(* a rating is dropped before the table is asked.                           *)

MapRating ==
    /\ pc = "map" /\ next \in Positions(doc)
    /\ scores' = IF ratings[next] # <<>> /\ Head(ratings[next]) \in 10..50
                 THEN [scores EXCEPT ![next] = Append(@, Head(ratings[next]) \div 10)]
                 ELSE scores
    /\ next' = next + 1
    /\ UNCHANGED <<doc, pc, tree, ran, results, ratings>>

Finish ==
    /\ pc = "map" /\ next = Len(doc) + 1
    /\ pc' = "done"
    /\ UNCHANGED <<doc, next, tree, ran, xml>>

Next ==
    \/ NoTree \/ CreateNode \/ StartLinking \/ Link \/ StartWalk
    \/ Run \/ StartMapping \/ MapRating \/ Finish

Spec == Init /\ [][Next]_vars

-----------------------------------------------------------------------------
TypeOK ==
    /\ doc \in Documents
    /\ pc \in {"create", "link", "walk", "map", "done", "failed", "aborted"}
    /\ next \in Nat \ {0}
    /\ DOMAIN nodes \subseteq Ids(doc)
    /\ \A c \in DOMAIN nodes : nodes[c] \in Positions(doc) /\ doc[nodes[c]].id = c
    /\ order \in Seq(Ids(doc))
    /\ DOMAIN parent \subseteq Ids(doc)
    /\ \A c \in DOMAIN parent : parent[c] \in Ids(doc)
    /\ kids \in [Ids(doc) -> Seq(Ids(doc))]
    /\ ran \in Seq(Ids(doc))
    /\ results \in [Positions(doc) -> Seq(SUBSET Nat)]
    /\ ratings \in [Positions(doc) -> Seq(Nat)]
    /\ scores \in [Positions(doc) -> Seq(Nat)]

(***************************************************************************)
(* Whatever the hash order, the tree the two passes build holds every       *)
(* Profile_ID of the document once: the post-order walk runs each script    *)
(* exactly once, none is lost behind a duplicate or in a ring of nodes      *)
(* that are each other's parents.                                           *)
(***************************************************************************)
EveryProfileRunsOnce ==
    pc \in {"map", "done"} =>
        /\ IsInjective(ran)
        /\ {ran[i] : i \in 1..Len(ran)} = Ids(doc)

(***************************************************************************)
(* A node only ever hangs under the Profile_ID that is its own cut by one   *)
(* or two levels; so the links can not form a ring.                         *)
(***************************************************************************)
ParentsAreAbove == \A c \in DOMAIN parent : OneOrTwoLevelsUp(parent[c], c)

(***************************************************************************)
(* Where the tree is unambiguous - no parent of c but the documented one    *)
(* is in the document - the result of the parent is computed from the       *)
(* result of c: the walk reached c first, and the node kept for c is the    *)
(* element the result went into.                                            *)
(***************************************************************************)
Unambiguous(c) ==
    \A p, q \in Ids(doc) :
        is_parent_child_relation(p, c) /\ is_parent_child_relation(q, c) => p = q

ChildrenAreAggregated ==
    pc \in {"map", "done"} =>
        \A c, p \in Ids(doc) :
            /\ is_parent_child_relation(p, c) /\ OneSegmentUp(p, c) /\ Unambiguous(c)
            /\ doc[nodes[p]].logic = "aggregates" /\ doc[nodes[c]].logic = "aggregates"
            => nodes[c] \in Last(results[nodes[p]])

(***************************************************************************)
(* In a document that was not evaluated before, the score of an element is  *)
(* the one of the rating its own script gave it in this evaluation, and an  *)
(* element whose script was not run (a duplicate) has no score.             *)
(***************************************************************************)
Fresh == \A e \in Positions(doc) : doc[e].results = <<>> /\ doc[e].ratings = <<>>

ScoresFollowRatings ==
    pc = "done" /\ Fresh =>
        \A e \in Positions(doc) :
            scores[e] = IF /\ doc[e].id # NoId
                           /\ \A f \in Positions(doc) : f > e => doc[f].id # doc[e].id
                           /\ doc[e].logic = "aggregates"
                           /\ doc[e].threshold = "returns"
                           /\ doc[e].rating \in 10..50
                        THEN <<doc[e].rating \div 10>>
                        ELSE <<>>

-----------------------------------------------------------------------------
(***************************************************************************)
(* ilf/test/risk_profile_tree_test1.c:27, "Test invalid relationships       *)
(* (grandparent-grandchild, not direct parent-child)": a node is only       *)
(* attached to a node one segment up.                                       *)
(***************************************************************************)
GrandparentsAreNotParents ==
    \A c \in DOMAIN parent : OneSegmentUp(parent[c], c)
=============================================================================
