-------------------------- MODULE MCKpmrEvaluation --------------------------
(***************************************************************************)
(* Instances of KpmrEvaluation: a top-level element with three children, of *)
(* which the second has the third Profile_ID's element below it, so that    *)
(* scripts can look back, ahead, down and up; "X" names no element.         *)
(***************************************************************************)
EXTENDS KpmrEvaluation

CONSTANTS top, left, mid, leaf

MCNodes  == {top, left, mid, leaf}
MCCodeOf == [n \in MCNodes |->
                CASE n = top -> "T" [] n = left -> "A" [] n = mid -> "B" [] n = leaf -> "C"]
MCKids   == [n \in MCNodes |->
                CASE n = top -> <<left, mid>> [] n = mid -> <<leaf>> [] OTHER -> <<>>]
Tree == INSTANCE TreeWalk WITH Elements <- MCNodes, Roots <- <<top>>, Kids <- MCKids
MCPreorder  == Tree!IndexWalk
MCPostorder == Tree!RuleWalk

NoRule == [calls |-> <<>>, ends |-> "absent"]
Calls(cs, ends) == [calls |-> [i \in DOMAIN cs |-> <<"weighted", cs[i]>>], ends |-> ends]
Element(rating, score) ==
    [k \in Kinds |-> CASE k = "value" -> NoRule [] k = "rating" -> rating [] k = "score" -> score]

AnyOf == {"A", "B", "C", "T"}
Scores == {NoRule, Calls(<<>>, "returns")} \cup {Calls(<<c>>, "returns") : c \in AnyOf}
Ratings == {NoRule, Calls(<<>>, "returns")}

\* Every graph of single calls between scores, with and without ratings.
ScoreTables ==
    [MCNodes -> {Element(r, s) : r \in Ratings, s \in Scores}]

\* Two calls per script, ratings that call, and scripts that fail.
FaultlessScores == {NoRule, Calls(<<>>, "returns"), Calls(<<"A", "C">>, "returns"),
                    Calls(<<"C", "X">>, "returns"), Calls(<<"T", "B">>, "returns")}
FailingScores == {Calls(<<"C", "B">>, "throws"), Calls(<<>>, "malformed")}
CallingRatings == {NoRule, Calls(<<"A">>, "returns"), Calls(<<"T">>, "throws")}
MixedTables ==
    {t \in [MCNodes -> {Element(r, s) :
            r \in CallingRatings, s \in FaultlessScores \cup FailingScores}] :
        /\ t[top]["rating"] = NoRule /\ t[leaf]["rating"] = NoRule
        /\ t[left]["score"] \in FaultlessScores}

MCTables == ScoreTables \cup MixedTables
OutputsGiven == {{}, MCNodes \X KpmrFields}
=============================================================================
