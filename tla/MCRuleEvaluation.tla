-------------------------- MODULE MCRuleEvaluation --------------------------
(***************************************************************************)
(* Instances of RuleEvaluation: families of rule tables on a tree of a root *)
(* and two leaves, where Profile_ID "X" names no element, and on the same   *)
(* tree with one more element, a child of right that has the Profile_ID of  *)
(* left: the walk runs the rules of both twins, the helpers see only the    *)
(* one that buildIndexes met last.                                          *)
(***************************************************************************)
EXTENDS RuleEvaluation

CONSTANTS root, left, right, twin

MCNodes  == {root, left, right}
MCCodeOf == [n \in MCNodes |->
                CASE n = root -> "R" [] n = left -> "A" [] n = right -> "B"]
MCKids   == [n \in MCNodes |-> IF n = root THEN <<left, right>> ELSE <<>>]
Tree == INSTANCE TreeWalk WITH Elements <- MCNodes, Roots <- <<root>>, Kids <- MCKids
MCPreorder  == Tree!IndexWalk
MCPostorder == Tree!RuleWalk

TwinNodes  == {root, left, right, twin}
TwinCodeOf == [n \in TwinNodes |-> IF n = twin THEN "A" ELSE MCCodeOf[n]]
TwinKids   == [n \in TwinNodes |->
                 CASE n = root -> <<left, right>> [] n = right -> <<twin>> [] OTHER -> <<>>]
TwinTree == INSTANCE TreeWalk WITH Elements <- TwinNodes, Roots <- <<root>>, Kids <- TwinKids
TwinPreorder  == TwinTree!IndexWalk
TwinPostorder == TwinTree!RuleWalk

NoRule == [calls |-> <<>>, ends |-> "absent"]
Returns(calls) == [calls |-> calls, ends |-> "returns"]
Throws(calls) == [calls |-> calls, ends |-> "throws"]
Malformed == [calls |-> <<>>, ends |-> "malformed"]

UpTo1(S) == {<<>>} \cup {<<x>> : x \in S}
UpTo2(S) == UpTo1(S) \cup (S \X S)
Refs(fs, cs) == fs \X cs

\* Tables with only value rules, each calling up to two values: every shape
\* of dependency graph on three elements, cyclic ones included.
ValueRules == {NoRule} \cup {Returns(c) : c \in UpTo2(Refs({"value"}, {"A", "B", "R"}))}
ValueTables ==
    {[n \in MCNodes |-> [k \in Kinds |-> IF k = "value" THEN t[n] ELSE NoRule]] :
        t \in [MCNodes -> ValueRules]}

\* Tables with all three rules on the leaves, the rating and score rules
\* calling one field of either leaf; the root aggregates weighted scores.
LeafValues  == {NoRule, Returns(<<>>), Returns(<< <<"rating", "B">> >>)}
LeafRatings == {NoRule, Returns(<<>>), Returns(<< <<"score", "B">> >>)}
LeafScores  == {NoRule} \cup
    {Returns(c) : c \in UpTo1(Refs({"value", "rating", "score", "weighted"}, {"A", "B"}))}
Aggregate == Returns(<< <<"weighted", "A">>, <<"weighted", "B">>, <<"weighted", "X">> >>)
ScoreTables ==
    {[n \in MCNodes |->
        IF n = root
        THEN [k \in Kinds |-> IF k = "score" THEN Aggregate ELSE NoRule]
        ELSE [k \in Kinds |-> CASE k = "value"  -> t[n][1]
                                [] k = "rating" -> t[n][2]
                                [] k = "score"  -> t[n][3]]] :
        t \in [{left, right} -> LeafValues \X LeafRatings \X LeafScores]}

\* Tables with a faulty script somewhere behind a call.
FaultyRules == {Returns(<<>>), Returns(<< <<"score", "B">> >>),
                Returns(<< <<"weighted", "R">>, <<"score", "A">> >>),
                Throws(<<>>), Throws(<< <<"score", "R">> >>), Malformed}
FaultTables ==
    {[n \in MCNodes |-> [k \in Kinds |->
        CASE k = "value" -> Returns(<<>>) [] k = "score" -> t[n][1]
          [] k = "rating" -> t[n][2]]] :
        t \in [MCNodes -> FaultyRules \X {NoRule, Returns(<< <<"value", "B">> >>), Malformed}]}


\* Tables of twins that ask for their own Profile_ID, for an element above
\* them, and fail.
TwinValues == {NoRule, Returns(<< <<"score", "A">> >>)}
TwinScores == {NoRule, Returns(<<>>), Throws(<<>>),
               Returns(<< <<"weighted", "B">>, <<"value", "A">> >>)}
TwinTables ==
    {[n \in TwinNodes |->
        IF n = root
        THEN [k \in Kinds |-> IF k = "score" THEN Returns(<< <<"weighted", "A">> >>)
                              ELSE NoRule]
        ELSE [k \in Kinds |-> CASE k = "value" -> t[n][1] [] k = "score" -> t[n][2]
                                [] k = "rating" -> Returns(<<>>)]] :
        t \in [TwinNodes \ {root} -> TwinValues \X TwinScores]}

\* The helpers do not see left next to its twin: without rules it leaves
\* every shape of dependency graph to the other three.
InsteadOfLeft(t) ==
    [n \in TwinNodes |-> CASE n = left -> [k \in Kinds |-> NoRule]
                           [] n = twin -> t[left]
                           [] OTHER -> t[n]]

MCScoreTables == ScoreTables
MCCycleTables == TwinTables \cup {InsteadOfLeft(t) : t \in ValueTables \cup FaultTables}

TwinsGiven == {{}, TwinNodes \X Fields}
\* A fresh input, an output of an earlier evaluation, and one of which only
\* the scores were kept.
OutputsGiven == {{}, MCNodes \X Fields, MCNodes \X {"score", "weighted"}}
=============================================================================
