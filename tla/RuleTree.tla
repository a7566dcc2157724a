------------------------------ MODULE RuleTree ------------------------------
(***************************************************************************)
(* The static part of an inherent risk-profile tree as                      *)
(* ilfx/src/riskprofile.hpp sees it: the elements, the index by Profile_ID, *)
(* the rules, and what each computed field is computed from.                *)
(*                                                                         *)
(* A rule is abstracted to the helper calls its script makes, in order, and *)
(* to how it ends.                                                          *)
(***************************************************************************)
EXTENDS Integers, Sequences

CONSTANTS
    Codes,       \* the Profile_IDs a rule may name
    Nodes,       \* the RiskProfileNode elements of the tree
    CodeOf,      \* the Profile_ID of an element
    Preorder,    \* the order in which buildIndexes meets the elements
    Postorder,   \* the order in which processInherentRiskNode runs rules
    RuleTables,  \* the rules a tree may carry
    Prefilled    \* the sets of computed fields an input file may come with

Kinds  == {"value", "rating", "score"}
Fields == Kinds \cup {"weighted"}
Key    == Fields \X Codes

\* "absent" covers a rule element that is missing or empty.
Rule == [calls : Seq(Key), ends : {"absent", "malformed", "throws", "returns"}]

ASSUME TreeAssumption ==
    /\ CodeOf \in [Nodes -> Codes]
    /\ Preorder \in Seq(Nodes)
    /\ Postorder \in Seq(Nodes)
    /\ \A n \in Nodes : \E i \in 1..Len(Preorder) : Preorder[i] = n
    /\ \A n \in Nodes : \E i \in 1..Len(Postorder) : Postorder[i] = n
    /\ \A i, j \in 1..Len(Postorder) : Postorder[i] = Postorder[j] => i = j

ASSUME RuleAssumption ==
    /\ RuleTables \subseteq [Nodes -> [Kinds -> Rule]]
    /\ Prefilled \subseteq SUBSET (Nodes \X Fields)

-----------------------------------------------------------------------------
\* buildIndexes: of several elements with one Profile_ID the last one stays.
Indexed(c) == {i \in 1..Len(Preorder) : CodeOf[Preorder[i]] = c}
Known(c)   == Indexed(c) # {}
NodeOf(c)  == Preorder[CHOOSE i \in Indexed(c) : \A j \in Indexed(c) : j <= i]

\* A weighted score has no rule of its own: it follows from the score rule.
RuleOf(table, n, f)  == table[n][IF f = "weighted" THEN "score" ELSE f]
HasRule(table, n, f) == RuleOf(table, n, f).ends # "absent"

\* The fields of the same element that are passed to a rule as arguments, or
\* multiplied by the weight.
OwnInputs(f) ==
    CASE f = "value"    -> {}
      [] f = "rating"   -> {"value"}
      [] f = "score"    -> {"value", "rating"}
      [] f = "weighted" -> {"score"}

\* The fields a script asks for through the helpers.  A Profile_ID that is
\* not in the tree reads as 0.
CalledInputs(table, n, f) ==
    IF f = "weighted" THEN {}
    ELSE LET calls == RuleOf(table, n, f).calls
         IN  {<<NodeOf(calls[i][2]), calls[i][1]>> :
                 i \in {j \in 1..Len(calls) : Known(calls[j][2])}}

Inputs(table, n, f) ==
    {<<n, g>> : g \in OwnInputs(f)} \cup CalledInputs(table, n, f)

\* A set of fields each of which waits for another one of the set: nobody
\* gave them, and every one is computed from a member.  Such a set exists
\* exactly if the dependencies of the tree have a cycle.
Knot(table, given, S) ==
    /\ S # {}
    /\ \A x \in S : /\ x \notin given
                    /\ HasRule(table, x[1], x[2])
                    /\ Inputs(table, x[1], x[2]) \cap S # {}

Cyclic(table, given) ==
    \E S \in SUBSET {x \in Nodes \X Fields : HasRule(table, x[1], x[2])} :
        Knot(table, given, S)

\* A script that cannot be run to its end.
Faulty(table) ==
    \E n \in Nodes, k \in Kinds : table[n][k].ends \in {"malformed", "throws"}
=============================================================================
