--------------------------- MODULE RuleEvaluation ---------------------------
(***************************************************************************)
(* The inherent half of ilfx::riskprofile::Evaluator                        *)
(* (ilfx/src/riskprofile.hpp): a tree of risk-profile nodes, each with an   *)
(* optional value, rating and score rule, evaluated bottom-up; a rule may   *)
(* ask, through the script helpers, for the computed field of any other     *)
(* node, which is then evaluated on demand and memoized.                    *)
(*                                                                         *)
(* A rule is abstracted to the helper calls it makes, in order, and to how  *)
(* it ends.  Its result is abstracted to one question: is it the value the  *)
(* rules of this tree define ("fresh"), or does it depend on a computed     *)
(* field that was already in the input file ("stale")?                      *)
(***************************************************************************)
EXTENDS RuleTree, FiniteSets

CONSTANT MaxEvaluations   \* bound: calls of evaluateInherentRiskProfile

ASSUME BoundAssumption == MaxEvaluations \in Nat \ {0}

-----------------------------------------------------------------------------
VARIABLES
    rules,       \* the rule table of this tree (fixed)
    given,       \* the fields that were present in the input (fixed)
    field,       \* computed_value, computed_rating, ... of every element
    cache,       \* double_cache_ and int_cache_
    computing,   \* computing_
    depStack,    \* dependency_stack_
    compiled,    \* compiled_rules_
    stack,       \* the C++ call stack: the rule being run and its helpers
    pos,         \* the next rule of processInherentRiskNode
    mode,        \* "running", "throwing", "done" or "failed"
    telemetry,   \* the counters of Evaluator::Telemetry
    evaluations  \* how often evaluateInherentRiskProfile was called

vars == <<rules, given, field, cache, computing, depStack, compiled, stack,
          pos, mode, telemetry, evaluations>>

-----------------------------------------------------------------------------
(* Arguments and agenda.                                                    *)

RuleAt(n, f) == RuleOf(rules, n, f)

\* Mutant of ArgOrders: the score helper forgets to ask for the rating.
ArgOrdersNoRating(f, c) ==
    CASE f = "value"    -> { <<>> }
      [] f = "rating"   -> { << <<"value", c>> >> }
      [] f = "score"    -> { << <<"value", c>> >> }
      [] f = "weighted" -> { << <<"score", c>> >> }

\* What a computed...ByCode helper asks for before it runs the rule.  C++
\* leaves the order of the two arguments of the score rule to the compiler.
ArgOrders(f, c) ==
    CASE f = "value"    -> { <<>> }
      [] f = "rating"   -> { << <<"value", c>> >> }
      [] f = "score"    -> { << <<"value", c>>, <<"rating", c>> >>,
                             << <<"rating", c>>, <<"value", c>> >> }
      [] f = "weighted" -> { << <<"score", c>> >> }

\* Mutant of ReadsFresh: the walk leaves runRule's default argument 0.
ReadsFreshDefault(n, f) == ~HasRule(rules, n, f)

\* A computed field that is absent reads as 0; that is what the rules define
\* only when there is no rule for it.
ReadsFresh(n, f) ==
    IF field[n][f] = "none" THEN ~HasRule(rules, n, f) ELSE field[n][f] = "fresh"

\* Mutant of KindSeq: the score rule is run before the rating rule.
KindSeqScoreEarly == <<"value", "score", "rating">>
KindSeq == <<"value", "rating", "score">>
Agenda == [p \in 1..3 * Len(Postorder) |->
             <<Postorder[(p + 2) \div 3], KindSeq[((p - 1) % 3) + 1]>>]

-----------------------------------------------------------------------------
(* The call stack.                                                          *)

Frame == [op : {"process", "memo"}, node : Nodes, fld : Fields,
          phase : {"args", "rule", "zero"}, todo : Seq(Key), fresh : BOOLEAN]

Top      == stack[Len(stack)]
Pop(s)   == SubSeq(s, 1, Len(s) - 1)
KeyOf(f) == <<f.fld, CodeOf[f.node]>>
Result(f) == IF f.fresh THEN "fresh" ELSE "stale"

\* The helper on top of s has returned a value to its caller.
Answered(s, isFresh) ==
    [s EXCEPT ![Len(s)].todo = Tail(@), ![Len(s)].fresh = @ /\ isFresh]

CompileKey(n, f) == <<CodeOf[n], f, RuleAt(n, f)>>

\* compileRule: a script is compiled once; a script that does not compile
\* throws and is not remembered.
Compile(n, f) ==
    IF CompileKey(n, f) \in compiled
    THEN compiled' = compiled /\ telemetry' = [telemetry EXCEPT !.executions = @ + 1]
    ELSE /\ compiled' = compiled \cup {CompileKey(n, f)}
         /\ telemetry' = [telemetry EXCEPT !.compiles = @ + 1, !.executions = @ + 1]

-----------------------------------------------------------------------------
Init ==
    /\ rules \in RuleTables
    /\ given \in Prefilled
    /\ field = [n \in Nodes |-> [f \in Fields |->
                  IF <<n, f>> \notin given THEN "none"
                  ELSE IF HasRule(rules, n, f) THEN "stale" ELSE "fresh"]]
    /\ cache = [k \in Key |-> "none"]
    /\ computing = {}
    /\ depStack = <<>>
    /\ compiled = {}
    /\ stack = <<>>
    /\ pos = 1
    /\ mode = "running"
    /\ telemetry = [compiles |-> 0, executions |-> 0, recursive |-> 0,
                    depth |-> 0, cycles |-> 0]
    /\ evaluations = 1

-----------------------------------------------------------------------------
(* processInherentRiskNode: the rules of every element, children first.     *)

AtAgenda == mode = "running" /\ stack = <<>> /\ pos <= Len(Agenda)

\* Mutant of ProcessSkip: a missing rule makes the walk leave the element.
ProcessSkipElement ==
    /\ AtAgenda
    /\ ~HasRule(rules, Agenda[pos][1], Agenda[pos][2])
    /\ pos' = pos + 3
    /\ UNCHANGED <<rules, given, field, cache, computing, depStack, compiled,
                   stack, mode, telemetry, evaluations>>

ProcessSkip ==
    /\ AtAgenda
    /\ ~HasRule(rules, Agenda[pos][1], Agenda[pos][2])
    /\ pos' = pos + 1
    /\ UNCHANGED <<rules, given, field, cache, computing, depStack, compiled,
                   stack, mode, telemetry, evaluations>>

ProcessMalformed ==
    /\ AtAgenda
    /\ RuleAt(Agenda[pos][1], Agenda[pos][2]).ends = "malformed"
    /\ mode' = "throwing"
    /\ UNCHANGED <<rules, given, field, cache, computing, depStack, compiled,
                   stack, pos, telemetry, evaluations>>

ProcessRule ==
    /\ AtAgenda
    /\ LET n == Agenda[pos][1]
           f == Agenda[pos][2]
       IN  /\ RuleAt(n, f).ends \in {"throws", "returns"}
           /\ Compile(n, f)
           /\ stack' = << [op |-> "process", node |-> n, fld |-> f, phase |-> "rule",
                           todo |-> RuleAt(n, f).calls,
                           fresh |-> \A g \in OwnInputs(f) : ReadsFresh(n, g)] >>
    /\ UNCHANGED <<rules, given, field, cache, computing, depStack, pos, mode,
                   evaluations>>

\* The result replaces whatever the element held; a score also sets the
\* weighted score.
FinishProcess ==
    /\ mode = "running" /\ stack # <<>>
    /\ Top.op = "process" /\ Top.todo = <<>>
    /\ RuleAt(Top.node, Top.fld).ends = "returns"
    /\ field' = [field EXCEPT ![Top.node] =
                   [g \in Fields |->
                      IF g = Top.fld \/ (Top.fld = "score" /\ g = "weighted")
                      THEN Result(Top) ELSE @[g]]]
    /\ stack' = <<>>
    /\ pos' = pos + 1
    /\ UNCHANGED <<rules, given, cache, computing, depStack, compiled, mode,
                   telemetry, evaluations>>

-----------------------------------------------------------------------------
(* A script calls a computed...ByCode helper.                               *)

Calling == mode = "running" /\ stack # <<>> /\ Top.todo # <<>>
Wanted  == Head(Top.todo)

CallUnknown ==
    /\ Calling
    /\ ~Known(Wanted[2])
    /\ stack' = Answered(stack, TRUE)
    /\ UNCHANGED <<rules, given, field, cache, computing, depStack, compiled,
                   pos, mode, telemetry, evaluations>>

CallPresent ==
    /\ Calling
    /\ Known(Wanted[2])
    /\ field[NodeOf(Wanted[2])][Wanted[1]] # "none"
    /\ stack' = Answered(stack, field[NodeOf(Wanted[2])][Wanted[1]] = "fresh")
    /\ UNCHANGED <<rules, given, field, cache, computing, depStack, compiled,
                   pos, mode, telemetry, evaluations>>

AbsentField ==
    /\ Calling
    /\ Known(Wanted[2])
    /\ field[NodeOf(Wanted[2])][Wanted[1]] = "none"

CallCached ==
    /\ AbsentField
    /\ cache[Wanted] # "none"
    /\ stack' = Answered(stack, cache[Wanted] = "fresh")
    /\ UNCHANGED <<rules, given, field, cache, computing, depStack, compiled,
                   pos, mode, telemetry, evaluations>>

\* Mutant of CallCycle: a cycle is counted and answered with 0.
CallCycleZero ==
    /\ AbsentField
    /\ cache[Wanted] = "none"
    /\ Wanted \in computing
    /\ stack' = Answered(stack, TRUE)
    /\ telemetry' = [telemetry EXCEPT !.cycles = @ + 1]
    /\ UNCHANGED <<rules, given, field, cache, computing, depStack, compiled,
                   pos, mode, evaluations>>

\* memoized finds the key among those being computed: "dependency cycle".
CallCycle ==
    /\ AbsentField
    /\ cache[Wanted] = "none"
    /\ Wanted \in computing
    /\ mode' = "throwing"
    /\ telemetry' = [telemetry EXCEPT !.cycles = @ + 1]
    /\ UNCHANGED <<rules, given, field, cache, computing, depStack, compiled,
                   stack, pos, evaluations>>

\* Without a rule the helper computes 0 and asks for nothing.
CallCompute ==
    /\ AbsentField
    /\ cache[Wanted] = "none"
    /\ Wanted \notin computing
    /\ computing' = computing \cup {Wanted}
    /\ depStack' = Append(depStack, Wanted)
    /\ telemetry' = [telemetry EXCEPT !.recursive = @ + 1,
                       !.depth = IF @ < Len(depStack) + 1 THEN Len(depStack) + 1 ELSE @]
    /\ LET n == NodeOf(Wanted[2])
           zero == Wanted[1] # "weighted" /\ ~HasRule(rules, n, Wanted[1])
       IN  \E args \in ArgOrders(Wanted[1], Wanted[2]) :
             stack' = Append(stack,
                [op |-> "memo", node |-> n, fld |-> Wanted[1],
                 phase |-> IF zero THEN "zero" ELSE "args",
                 todo |-> IF zero THEN <<>> ELSE args, fresh |-> TRUE])
    /\ UNCHANGED <<rules, given, field, cache, compiled, pos, mode, evaluations>>

-----------------------------------------------------------------------------
(* The body of a memoized helper.                                           *)

AtRule == /\ mode = "running" /\ stack # <<>>
          /\ Top.op = "memo" /\ Top.phase = "args" /\ Top.todo = <<>>
          /\ Top.fld # "weighted"

StartMalformed ==
    /\ AtRule
    /\ RuleAt(Top.node, Top.fld).ends = "malformed"
    /\ mode' = "throwing"
    /\ UNCHANGED <<rules, given, field, cache, computing, depStack, compiled,
                   stack, pos, telemetry, evaluations>>

StartRule ==
    /\ AtRule
    /\ RuleAt(Top.node, Top.fld).ends \in {"throws", "returns"}
    /\ Compile(Top.node, Top.fld)
    /\ stack' = [stack EXCEPT ![Len(stack)].phase = "rule",
                              ![Len(stack)].todo = RuleAt(Top.node, Top.fld).calls]
    /\ UNCHANGED <<rules, given, field, cache, computing, depStack, pos, mode,
                   evaluations>>

\* Mutant of FinishMemo: the result is returned but not remembered.
FinishMemoForgets ==
    /\ mode = "running" /\ stack # <<>>
    /\ Top.op = "memo" /\ Top.todo = <<>>
    /\ \/ Top.phase = "zero"
       \/ Top.fld = "weighted"
       \/ Top.phase = "rule" /\ RuleAt(Top.node, Top.fld).ends = "returns"
    /\ computing' = computing \ {KeyOf(Top)}
    /\ depStack' = Pop(depStack)
    /\ stack' = Answered(Pop(stack), Top.fresh)
    /\ UNCHANGED <<rules, given, field, cache, compiled, pos, mode, telemetry,
                   evaluations>>

\* The helper has its result: a rule's result is written to the element (a
\* missing rule's 0 is not), it is cached, and the caller gets it.
FinishMemo ==
    /\ mode = "running" /\ stack # <<>>
    /\ Top.op = "memo" /\ Top.todo = <<>>
    /\ \/ Top.phase = "zero"
       \/ Top.fld = "weighted"
       \/ Top.phase = "rule" /\ RuleAt(Top.node, Top.fld).ends = "returns"
    /\ field' = IF Top.phase = "zero" THEN field
                ELSE [field EXCEPT ![Top.node][Top.fld] = Result(Top)]
    /\ cache' = [cache EXCEPT ![KeyOf(Top)] = Result(Top)]
    /\ computing' = computing \ {KeyOf(Top)}
    /\ depStack' = Pop(depStack)
    /\ stack' = Answered(Pop(stack), Top.fresh)
    /\ UNCHANGED <<rules, given, compiled, pos, mode, telemetry, evaluations>>

-----------------------------------------------------------------------------
(* Failure: a script error or a cycle unwinds the whole call stack.         *)

RuleThrows ==
    /\ mode = "running" /\ stack # <<>>
    /\ Top.phase = "rule" /\ Top.todo = <<>>
    /\ RuleAt(Top.node, Top.fld).ends = "throws"
    /\ mode' = "throwing"
    /\ UNCHANGED <<rules, given, field, cache, computing, depStack, compiled,
                   stack, pos, telemetry, evaluations>>

\* Mutant of UnwindMemo: the catch block does not erase the key.
UnwindMemoKeepsKey ==
    /\ mode = "throwing" /\ stack # <<>>
    /\ Top.op = "memo"
    /\ depStack' = Pop(depStack)
    /\ stack' = Pop(stack)
    /\ UNCHANGED <<rules, given, field, cache, computing, compiled, pos, mode,
                   telemetry, evaluations>>

UnwindMemo ==
    /\ mode = "throwing" /\ stack # <<>>
    /\ Top.op = "memo"
    /\ depStack' = Pop(depStack)
    /\ computing' = computing \ {KeyOf(Top)}
    /\ stack' = Pop(stack)
    /\ UNCHANGED <<rules, given, field, cache, compiled, pos, mode, telemetry,
                   evaluations>>

UnwindProcess ==
    /\ mode = "throwing" /\ stack # <<>>
    /\ Top.op = "process"
    /\ stack' = <<>>
    /\ UNCHANGED <<rules, given, field, cache, computing, depStack, compiled,
                   pos, mode, telemetry, evaluations>>

Fail ==
    /\ mode = "throwing" /\ stack = <<>>
    /\ mode' = "failed"
    /\ UNCHANGED <<rules, given, field, cache, computing, depStack, compiled,
                   stack, pos, telemetry, evaluations>>

\* Mutant of Finish: the end test misses the position behind the last rule.
FinishOffByOne ==
    /\ mode = "running" /\ stack = <<>> /\ pos = Len(Agenda)
    /\ mode' = "done"
    /\ UNCHANGED <<rules, given, field, cache, computing, depStack, compiled,
                   stack, pos, telemetry, evaluations>>

Finish ==
    /\ mode = "running" /\ stack = <<>> /\ pos > Len(Agenda)
    /\ mode' = "done"
    /\ UNCHANGED <<rules, given, field, cache, computing, depStack, compiled,
                   stack, pos, telemetry, evaluations>>

\* The owner of the Evaluator calls evaluateInherentRiskProfile again.
EvaluateAgain ==
    /\ mode \in {"done", "failed"}
    /\ evaluations < MaxEvaluations
    /\ evaluations' = evaluations + 1
    /\ pos' = 1
    /\ mode' = "running"
    /\ UNCHANGED <<rules, given, field, cache, computing, depStack, compiled,
                   stack, telemetry>>

-----------------------------------------------------------------------------
Evaluate ==
    \/ ProcessSkip \/ ProcessMalformed \/ ProcessRule \/ FinishProcess
    \/ CallUnknown \/ CallPresent \/ CallCached \/ CallCycle \/ CallCompute
    \/ StartMalformed \/ StartRule \/ FinishMemo
    \/ RuleThrows \/ UnwindMemo \/ UnwindProcess \/ Fail \/ Finish

Next == Evaluate \/ EvaluateAgain

\* The evaluator runs on one thread and nothing in it blocks: a step that is
\* possible is taken.  Nobody is obliged to evaluate again.
Spec == Init /\ [][Next]_vars /\ WF_vars(Evaluate)

-----------------------------------------------------------------------------
(* Properties.                                                              *)

Counters == [compiles : Nat, executions : Nat, recursive : Nat, depth : Nat,
             cycles : Nat]

\* Every variable holds a value the C++ type of the field it models admits.
TypeOK ==
    /\ rules \in [Nodes -> [Kinds -> Rule]]
    /\ given \subseteq Nodes \X Fields
    /\ field \in [Nodes -> [Fields -> {"none", "stale", "fresh"}]]
    /\ cache \in [Key -> {"none", "stale", "fresh"}]
    /\ computing \subseteq Key
    /\ depStack \in Seq(Key)
    /\ compiled \subseteq Codes \X Kinds \X Rule
    /\ stack \in Seq(Frame)
    /\ pos \in 1..Len(Agenda) + 1
    /\ mode \in {"running", "throwing", "done", "failed"}
    /\ telemetry \in Counters
    /\ evaluations \in 1..MaxEvaluations

\* computing_ and dependency_stack_ are kept by hand next to the C++ call
\* stack, on the normal and on the exception path of memoized: they name
\* exactly the helpers in progress, each once and in call order, so that an
\* exception leaves nothing behind for the next evaluation to trip over.
ComputingIsTheCallStack ==
    /\ Len(depStack) = IF stack = <<>> THEN 0 ELSE Len(stack) - 1
    /\ \A i \in 1..Len(depStack) : depStack[i] = KeyOf(stack[i + 1])
    /\ computing = {depStack[i] : i \in 1..Len(depStack)}
    /\ \A i, j \in 1..Len(depStack) : depStack[i] = depStack[j] => i = j

\* What the helper for key k asks for, as keys.
Asks(k) ==
    LET n == NodeOf(k[2])
    IN  {<<g, k[2]>> : g \in OwnInputs(k[1])}
          \cup (IF k[1] = "weighted" THEN {}
                ELSE {RuleAt(n, k[1]).calls[i] : i \in 1..Len(RuleAt(n, k[1]).calls)})

\* A "dependency cycle" error names a real one: the chain that memoized
\* prints ends in keys each of which asks for the next, and the last for the
\* first, by the rules of the tree and not by the history of the evaluator.
CycleReportsAreReal ==
    [][telemetry'.cycles # telemetry.cycles =>
         \E i \in 1..Len(depStack) :
            /\ \A j \in i..Len(depStack) - 1 : depStack[j + 1] \in Asks(depStack[j])
            /\ depStack[i] \in Asks(depStack[Len(depStack)])]_vars

\* No cycle is missed: an evaluation of a tree whose rules depend on each
\* other in a circle never succeeds, wherever the walk enters the circle.
CyclesNeverSucceed == mode = "done" => ~Cyclic(rules, given)

\* Every call of a script goes to an element that the walk has finished.
LooksBackward ==
    \A n \in Nodes, k \in Kinds : \A x \in CalledInputs(rules, n, k) :
        \E i, j \in 1..Len(Postorder) :
            i < j /\ Postorder[i] = x[1] /\ Postorder[j] = n

\* A successful evaluation leaves in every field that has a rule the value
\* the rules define, although helpers run rules ahead of the walk, the walk
\* runs them again, and both write the element.  If the input already has
\* computed fields this is only so when no script looks ahead.
DoneIsFresh ==
    mode = "done" /\ (given = {} \/ LooksBackward) =>
        \A n \in Nodes, f \in Fields :
            HasRule(rules, n, f) => field[n][f] = "fresh"

\* The second execution of a rule never replaces a right result by a wrong
\* one.
FreshStaysFresh ==
    [][\A n \in Nodes, f \in Fields :
          field[n][f] = "fresh" => field'[n][f] = "fresh"]_vars

RulesPresent == {x \in Nodes \X Kinds : HasRule(rules, x[1], x[2])}

(***************************************************************************)
(* Memoization bounds the work: the walk runs every rule once per           *)
(* evaluation, the helpers add at most one execution of each over the       *)
(* evaluator's lifetime, however many scripts ask for it; and the C++ stack *)
(* cannot be exhausted by a circle, because no helper is entered while it   *)
(* is running and the nesting is bounded by the keys of the tree.           *)
(***************************************************************************)
WorkIsBounded ==
    /\ mode = "done" =>
           telemetry.executions <= (evaluations + 1) * Cardinality(RulesPresent)
    /\ telemetry.depth <= Cardinality({k \in Key : Known(k[2])})

\* Every evaluation ends, with a result or with an error.
EvaluationEnds == mode = "running" ~> mode \in {"done", "failed"}

\* The evaluator implements evaluation in dependency order.
DepOrder == INSTANCE DependencyOrder
    WITH mode <- IF mode = "throwing" THEN "running" ELSE mode
ImplementsDependencyOrder == DepOrder!Spec
=============================================================================
