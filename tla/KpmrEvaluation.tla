--------------------------- MODULE KpmrEvaluation ---------------------------
(***************************************************************************)
(* The KPMR half of ilfx::riskprofile::Evaluator                            *)
(* (ilfx/src/riskprofile.hpp): evaluateKPMRRiskProfile runs the rating rule *)
(* and the score rule of every element below the top level, children first. *)
(* The one helper that runs rules, computedWeightedScoreByCodeKPMR, differs *)
(* from its inherent sibling: it takes the rating of the element as it is,  *)
(* 0 if the walk has not been there, and keeps its result in double_cache_  *)
(* only.                                                                    *)
(*                                                                         *)
(* A field is "right" if it is what the rules define and "wrong" if it      *)
(* depends on a rating that was not there yet or on a field of the input    *)
(* that a rule says should be different.  compiled_rules_, the telemetry    *)
(* and dependency_stack_, which here only make up messages, are left out;   *)
(* RuleEvaluation has them.                                                 *)
(***************************************************************************)
EXTENDS RuleTree, FiniteSets

CONSTANTS
    TopLevel,        \* the elements of the document that have no parent
    MaxEvaluations   \* bound: calls of evaluateKPMRRiskProfile

\* A KPMR element has no value rule, and a script knows no other helper that
\* reads computed fields.
ASSUME KpmrAssumption ==
    /\ TopLevel \subseteq Nodes
    /\ MaxEvaluations \in Nat \ {0}
    /\ \A t \in RuleTables : \A n \in Nodes :
          /\ ~HasRule(t, n, "value")
          /\ \A k \in Kinds : \A i \in 1..Len(t[n][k].calls) :
                t[n][k].calls[i][1] = "weighted"

VARIABLES
    rules,       \* the rule table of this tree (fixed)
    given,       \* the fields that were present in the input (fixed)
    field,       \* computed_rating, computed_score, computed_weighted_score
    cache,       \* double_cache_, by Profile_ID
    computing,   \* computing_
    stack,       \* the C++ call stack: the rule being run and its helpers
    pos,         \* the next rule of processKPMRRiskNode
    mode,        \* "running", "throwing", "done" or "failed"
    evaluations  \* how often evaluateKPMRRiskProfile was called

vars == <<rules, given, field, cache, computing, stack, pos, mode, evaluations>>
memory == <<field, cache, computing>>
tree == <<rules, given>>

KpmrFields == {"rating", "score", "weighted"}
Grade == {"none", "wrong", "right"}
ToGrade(isRight) == IF isRight THEN "right" ELSE "wrong"

\* Mutant of WalkOrder: the score rule is run before the rating rule.
WalkOrderScoreFirst ==
    [p \in 1..2 * Len(Postorder) |->
        <<Postorder[(p + 1) \div 2], IF p % 2 = 1 THEN "score" ELSE "rating">>]

\* The two rules of a child are run when processKPMRRiskNode is back from it.
WalkOrder ==
    [p \in 1..2 * Len(Postorder) |->
        <<Postorder[(p + 1) \div 2], IF p % 2 = 1 THEN "rating" ELSE "score">>]

\* The loop over the children runs them, so nobody runs those of the top level.
Runs(n, k) == n \notin TopLevel /\ HasRule(rules, n, k)

\* The rating a score rule is given: 0 if it is absent, which is right only
\* without a rating rule.
RatingIsRight(n) ==
    IF field[n]["rating"] = "none" THEN ~HasRule(rules, n, "rating")
    ELSE field[n]["rating"] = "right"

Init ==
    /\ rules \in RuleTables
    /\ given \in Prefilled
    /\ field = [n \in Nodes |-> [f \in KpmrFields |->
                  IF <<n, f>> \notin given THEN "none" ELSE ToGrade(~HasRule(rules, n, f))]]
    /\ cache = [c \in Codes |-> "none"]
    /\ computing = {}
    /\ stack = <<>>
    /\ pos = 1
    /\ mode = "running"
    /\ evaluations = 1

-----------------------------------------------------------------------------
(* runRule.                                                                 *)

Top    == stack[Len(stack)]
Pop(s) == SubSeq(s, 1, Len(s) - 1)

\* A script that does not compile makes no calls.
Enter(op, n, f) ==
    LET r == RuleOf(rules, n, f)
    IN  [op |-> op, node |-> n, fld |-> f, ends |-> r.ends,
         todo |-> IF r.ends = "malformed" THEN <<>>
                  ELSE [i \in 1..Len(r.calls) |-> r.calls[i][2]],
         right |-> f = "rating" \/ RatingIsRight(n)]

Answered(s, grade) ==
    [s EXCEPT ![Len(s)].todo = Tail(@), ![Len(s)].right = @ /\ grade = "right"]

Returning == mode = "running" /\ stack # <<>> /\ Top.todo = <<>> /\ Top.ends = "returns"

-----------------------------------------------------------------------------
(* processKPMRRiskNode.                                                     *)

AtRule == mode = "running" /\ stack = <<>> /\ pos <= Len(WalkOrder)

\* Mutant of ProcessSkip: a missing rule makes the walk leave the element.
ProcessSkipElement ==
    /\ AtRule /\ ~Runs(WalkOrder[pos][1], WalkOrder[pos][2])
    /\ pos' = pos + 2
    /\ UNCHANGED <<tree, memory, stack, mode, evaluations>>

ProcessSkip ==
    /\ AtRule /\ ~Runs(WalkOrder[pos][1], WalkOrder[pos][2])
    /\ pos' = pos + 1
    /\ UNCHANGED <<tree, memory, stack, mode, evaluations>>

ProcessRule ==
    /\ AtRule /\ Runs(WalkOrder[pos][1], WalkOrder[pos][2])
    /\ stack' = <<Enter("process", WalkOrder[pos][1], WalkOrder[pos][2])>>
    /\ UNCHANGED <<tree, memory, pos, mode, evaluations>>

\* A score also sets the weighted score.
FinishProcess ==
    /\ Returning /\ Top.op = "process"
    /\ field' = [field EXCEPT ![Top.node] = [g \in KpmrFields |->
                   IF g = Top.fld \/ (Top.fld = "score" /\ g = "weighted")
                   THEN ToGrade(Top.right) ELSE @[g]]]
    /\ stack' = <<>>
    /\ pos' = pos + 1
    /\ UNCHANGED <<tree, cache, computing, mode, evaluations>>

-----------------------------------------------------------------------------
(* computedWeightedScoreByCodeKPMR.                                         *)

Calling == mode = "running" /\ stack # <<>> /\ Top.todo # <<>>
Wanted  == Head(Top.todo)

\* Mutant of Lookup: the cache is asked before the element.
LookupCacheFirst(c) ==
    IF ~Known(c) THEN "right"
    ELSE IF cache[c] # "none" THEN cache[c] ELSE field[NodeOf(c)]["weighted"]

\* What is known without running a rule: an unknown Profile_ID reads as 0,
\* the element comes before the cache.
Lookup(c) ==
    IF ~Known(c) THEN "right"
    ELSE IF field[NodeOf(c)]["weighted"] # "none" THEN field[NodeOf(c)]["weighted"]
    ELSE cache[c]

CallAnswered ==
    /\ Calling /\ Lookup(Wanted) # "none"
    /\ stack' = Answered(stack, Lookup(Wanted))
    /\ UNCHANGED <<tree, memory, pos, mode, evaluations>>

\* Mutant of CallCycle: what is being computed reads as 0.
CallCycleZero ==
    /\ Calling /\ Lookup(Wanted) = "none"
    /\ Wanted \in computing
    /\ stack' = Answered(stack, "right")
    /\ UNCHANGED <<tree, memory, pos, mode, evaluations>>

CallCycle ==
    /\ Calling /\ Lookup(Wanted) = "none"
    /\ Wanted \in computing
    /\ mode' = "throwing"
    /\ UNCHANGED <<tree, memory, stack, pos, evaluations>>

\* Without a score rule the result is 0; the key enters computing_ and leaves
\* it at once.
CallRuleless ==
    /\ Calling /\ Lookup(Wanted) = "none"
    /\ Wanted \notin computing
    /\ ~HasRule(rules, NodeOf(Wanted), "score")
    /\ cache' = [cache EXCEPT ![Wanted] = "right"]
    /\ stack' = Answered(stack, "right")
    /\ UNCHANGED <<tree, field, computing, pos, mode, evaluations>>

CallCompute ==
    /\ Calling /\ Lookup(Wanted) = "none"
    /\ Wanted \notin computing
    /\ HasRule(rules, NodeOf(Wanted), "score")
    /\ computing' = computing \cup {Wanted}
    /\ stack' = Append(stack, Enter("memo", NodeOf(Wanted), "score"))
    /\ UNCHANGED <<tree, field, cache, pos, mode, evaluations>>

FinishMemo ==
    /\ Returning /\ Top.op = "memo"
    /\ cache' = [cache EXCEPT ![CodeOf[Top.node]] = ToGrade(Top.right)]
    /\ computing' = computing \ {CodeOf[Top.node]}
    /\ stack' = Answered(Pop(stack), ToGrade(Top.right))
    /\ UNCHANGED <<tree, field, pos, mode, evaluations>>

-----------------------------------------------------------------------------
(* Failure, and the end.                                                    *)

RuleThrows ==
    /\ mode = "running" /\ stack # <<>> /\ Top.todo = <<>> /\ Top.ends # "returns"
    /\ mode' = "throwing"
    /\ UNCHANGED <<tree, memory, stack, pos, evaluations>>

\* Mutant of Unwind: the catch block of memoized does not erase the key.
UnwindKeepsKey ==
    /\ mode = "throwing" /\ stack # <<>>
    /\ stack' = Pop(stack)
    /\ UNCHANGED <<tree, memory, pos, mode, evaluations>>

Unwind ==
    /\ mode = "throwing" /\ stack # <<>>
    /\ computing' = IF Top.op = "memo" THEN computing \ {CodeOf[Top.node]} ELSE computing
    /\ stack' = Pop(stack)
    /\ UNCHANGED <<tree, field, cache, pos, mode, evaluations>>

Fail ==
    /\ mode = "throwing" /\ stack = <<>>
    /\ mode' = "failed"
    /\ UNCHANGED <<tree, memory, stack, pos, evaluations>>

Finish ==
    /\ mode = "running" /\ stack = <<>> /\ pos > Len(WalkOrder)
    /\ mode' = "done"
    /\ UNCHANGED <<tree, memory, stack, pos, evaluations>>

EvaluateAgain ==
    /\ mode \in {"done", "failed"} /\ evaluations < MaxEvaluations
    /\ evaluations' = evaluations + 1
    /\ pos' = 1
    /\ mode' = "running"
    /\ UNCHANGED <<tree, memory, stack>>

Next ==
    \/ ProcessSkip \/ ProcessRule \/ FinishProcess
    \/ CallAnswered \/ CallCycle \/ CallRuleless \/ CallCompute \/ FinishMemo
    \/ RuleThrows \/ Unwind \/ Fail \/ Finish
    \/ EvaluateAgain

Spec == Init /\ [][Next]_vars

-----------------------------------------------------------------------------
Frame == [op : {"process", "memo"}, node : Nodes, fld : {"rating", "score"},
          ends : {"malformed", "throws", "returns"}, todo : Seq(Codes), right : BOOLEAN]

TypeOK ==
    /\ rules \in RuleTables
    /\ given \in Prefilled
    /\ field \in [Nodes -> [KpmrFields -> Grade]]
    /\ cache \in [Codes -> Grade]
    /\ computing \subseteq Codes
    /\ stack \in Seq(Frame)
    /\ pos \in 1..Len(WalkOrder) + 1
    /\ mode \in {"running", "throwing", "done", "failed"}
    /\ evaluations \in 1..MaxEvaluations

(***************************************************************************)
(* What the scripts of an element ask for, directly and through others.     *)
(***************************************************************************)
Asks(n, k) ==
    IF HasRule(rules, n, k) THEN {x[1] : x \in CalledInputs(rules, n, k)} ELSE {}
AsksFor(n) == Asks(n, "rating") \cup Asks(n, "score")

\* What the scripts of an element get to: a helper runs score rules only.
ReachedFrom(n) ==
    {m \in Nodes : \A S \in SUBSET Nodes :
        AsksFor(n) \subseteq S /\ (\A x \in S : Asks(x, "score") \subseteq S) => m \in S}

Walked == Nodes \ TopLevel
Place(n) == CHOOSE i \in 1..Len(Postorder) : Postorder[i] = n
Before(m, n) == m \in Walked /\ Place(m) < Place(n)

IsRight(n) ==
    \A f \in KpmrFields : HasRule(rules, n, f) => field[n][f] = "right"

(***************************************************************************)
(* Scripts may look ahead of the walk as long as the elements they reach    *)
(* have no rating rule and no old result: then every result is what the     *)
(* rules define.                                                            *)
(***************************************************************************)
LookAheadIsSafe ==
    \A n \in Walked : \A m \in ReachedFrom(n) :
        \/ Before(m, n)
        \/ ~HasRule(rules, m, "rating") /\ <<m, "weighted">> \notin given

DoneIsRight ==
    mode = "done" /\ LookAheadIsSafe => \A n \in Walked : IsRight(n)

(***************************************************************************)
(* A result computed ahead of the walk, and so without a rating, stays in   *)
(* the cache; but an element whose scripts look back only, and at such      *)
(* elements only, gets what the rules define, whatever other scripts asked  *)
(* for before.                                                              *)
(***************************************************************************)
Orderly ==
    {n \in Nodes : \A S \in SUBSET Nodes :
        (\A m \in Walked : AsksFor(m) \subseteq {x \in S : Before(x, m)} => m \in S) => n \in S}

EarlyResultsDoNotSpread ==
    mode = "done" => \A n \in Orderly : IsRight(n)

(***************************************************************************)
(* computing_ is kept by hand, on the normal and on the exception path: it  *)
(* names the helpers in progress, so that a failed evaluation leaves no key *)
(* behind that the next one takes for a cycle.                              *)
(***************************************************************************)
ComputingIsTheCallStack ==
    /\ computing = {CodeOf[stack[i].node] : i \in 2..Len(stack)}
    /\ \A i, j \in 2..Len(stack) : stack[i].node = stack[j].node => i = j

(***************************************************************************)
(* An evaluation of a tree whose scores depend on each other in a circle    *)
(* never succeeds if the walk gets to the circle at all.                    *)
(***************************************************************************)
Circle(S) ==
    \A n \in S : /\ HasRule(rules, n, "score") /\ <<n, "weighted">> \notin given
                 /\ Asks(n, "score") \cap S # {}

CirclesNeverSucceed ==
    mode = "done" =>
        ~ \E S \in SUBSET Nodes \ {{}} :
             Circle(S) /\ \E n \in Walked : n \in S \/ AsksFor(n) \cap S # {}
=============================================================================
