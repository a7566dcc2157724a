------------------------------ MODULE TreeWalk ------------------------------
(***************************************************************************)
(* The two walks of ilfx/src/riskprofile.hpp over the element tree.         *)
(***************************************************************************)
EXTENDS Sequences, SequencesExt

CONSTANTS Elements,  \* the RiskProfileNode elements
          Roots,     \* those of the document, in order
          Kids       \* the children of each, in order

\* addInherent of buildIndexes: an element, then its children.
PreorderFrom[n \in Elements] ==
    <<n>> \o FlattenSeq([i \in 1..Len(Kids[n]) |-> PreorderFrom[Kids[n][i]]])

\* processInherentRiskNode: the children, then the rules of the element.
PostorderFrom[n \in Elements] ==
    FlattenSeq([i \in 1..Len(Kids[n]) |-> PostorderFrom[Kids[n][i]]]) \o <<n>>

IndexWalk == FlattenSeq([i \in 1..Len(Roots) |-> PreorderFrom[Roots[i]]])
RuleWalk  == FlattenSeq([i \in 1..Len(Roots) |-> PostorderFrom[Roots[i]]])
=============================================================================
