------------------------- MODULE InherentDatasource -------------------------
(***************************************************************************)
(* ilfx::inherent::datasource::Evaluator                                    *)
(* (ilfx/src/inherent_datasource.hpp): evaluate runs the fsiRule of an item *)
(* on every row of it, item after item, and only then the consolidation     *)
(* rules.  A script reads the rows of other items as they are, and may run  *)
(* the consolidation rule of another code, which runs further scripts below *)
(* it on the C++ stack; nothing remembers what is being evaluated.          *)
(*                                                                         *)
(* A rule is the helper calls of its script, whether it uses the value of   *)
(* its own row, and how it ends.  A value is "settled" if it is what the    *)
(* rules define: every value its rule read was.                             *)
(***************************************************************************)
EXTENDS Integers, FiniteSets, FiniteSetsExt, SequencesExt, Functions

CONSTANTS
    Codes,           \* the codes a script may name
    CodeOf,          \* the code of each item, in document order
    Names,           \* the company names of rows and scripts
    Rows,            \* the companies of the rows of each item
    RuleTables,      \* the rules the items may carry
    StackLimit,      \* evaluations that fit on the C++ stack
    MaxEvaluations   \* bound: calls of evaluate

Items   == DOMAIN CodeOf
AllRows == UNION {{<<i, r>> : r \in DOMAIN Rows[i]} : i \in Items}

\* Every script has every helper.  Those for one company take any name;
\* "companyName" is the variable with the company of the row, which only the
\* rule of a row has.
Call == ({"rows", "consolidation"} \X Codes)
        \cup ({"one", "update"} \X Codes \X (Names \cup {"companyName"}))

\* A rule that ends "either" way throws or returns a number, as the values it
\* read will have it.
Rule == [calls : Seq(Call), own : BOOLEAN,
         ends : {"absent", "throws", "either", "undefined", "number"}]

ASSUME DatasourceAssumption ==
    /\ CodeOf \in Seq(Codes) /\ Rows \in Seq(Seq(Names)) /\ Len(Rows) = Len(CodeOf)
    /\ StackLimit \in Nat /\ StackLimit > Len(CodeOf)
    /\ MaxEvaluations \in Nat \ {0}
    /\ \A t \in RuleTables : \A i \in Items :
          /\ {t[i].fsi, t[i].consolidation} \subseteq Rule
          /\ ~t[i].consolidation.own
          /\ \A c \in Range(t[i].consolidation.calls) :
                c[1] \in {"one", "update"} => c[3] # "companyName"

VARIABLES
    rules,         \* fsiRule and consolidationRule of each item (fixed)
    row,           \* the value of each row
    eligible,      \* the rows that are eligible
    consolidated,  \* consolidate of each item
    inputs,        \* computedInputs: the script that set it, by company
    stack,         \* the scripts that are running
    pos,           \* the next rule of evaluate
    mode,          \* "running", "done", "failed" or "crashed"
    evaluations    \* how often evaluate was called

vars == <<rules, row, eligible, consolidated, inputs, stack, pos, mode, evaluations>>
document == <<rules, row, eligible, consolidated>>

Nobody == <<0, 0>>

RowsOf(i) == [r \in DOMAIN Rows[i] |-> <<i, r>>]
FsiJobs == FlattenSeq([i \in Items |-> RowsOf(i)])

\* Mutant of Jobs: the code in comments, which consolidates an item in the
\* first loop.
JobsInOneLoop == FlattenSeq([i \in Items |-> RowsOf(i) \o << <<i, 0>> >>])

\* A job <<i, r>> is the fsiRule of row r of item i; with r = 0 it is the
\* consolidation rule of the item.
Jobs == FsiJobs \o [i \in Items |-> <<i, 0>>]

RuleOf(job) == IF job[2] = 0 THEN rules[job[1]].consolidation ELSE rules[job[1]].fsi
HasRule(job) == RuleOf(job).ends # "absent"

Init ==
    /\ rules \in RuleTables
    /\ row = [x \in AllRows |-> IF HasRule(x) THEN "given" ELSE "settled"]
    /\ eligible \in {{}, AllRows}
    /\ consolidated = [i \in Items |-> "none"]
    /\ inputs = [k \in Names |-> Nobody]
    /\ stack = <<>>
    /\ pos = 1
    /\ mode = "running"
    /\ evaluations = 1

-----------------------------------------------------------------------------
(* What a helper reads.                                                     *)

Holding(c) == {i \in Items : CodeOf[i] = c}
First(c)   == Min(Holding(c))

\* The helpers that return a map look at the first item with the code, where
\* the last row of a company overwrites those before it.
MapOf(c) ==
    IF Holding(c) = {} THEN {}
    ELSE {<<First(c), r>> : r \in {r \in DOMAIN Rows[First(c)] :
             \A q \in DOMAIN Rows[First(c)] : Rows[First(c)][q] = Rows[First(c)][r] => q <= r}}

\* The helpers that return one value look at every item with the code, for
\* the first row of the company.
RowsFor(c, company) ==
    {x \in AllRows : CodeOf[x[1]] = c /\ Rows[x[1]][x[2]] = company}
OneOf(c, company) ==
    {x \in RowsFor(c, company) : \A y \in RowsFor(c, company) :
        x[1] < y[1] \/ (x[1] = y[1] /\ x[2] <= y[2])}

NameIn(call, job) == IF call[3] = "companyName" THEN Rows[job[1]][job[2]] ELSE call[3]
Read(call, job) ==
    CASE call[1] = "rows" -> MapOf(call[2])
      [] call[1] = "one"  -> OneOf(call[2], NameIn(call, job))
      [] OTHER            -> {}

-----------------------------------------------------------------------------
(* The scripts.                                                             *)

Top == stack[Len(stack)]
Replace(frame) == [stack EXCEPT ![Len(stack)] = frame]
Answered(frame, good) == [frame EXCEPT !.todo = Tail(@), !.good = @ /\ good]

\* The variable "value" of a script is what the row holds: the input once,
\* and from then on the result.
Enter(op, job) ==
    [op |-> op, job |-> job, todo |-> RuleOf(job).calls,
     good |-> RuleOf(job).own => row[job] = "given"]

ReturnsNumber(job) == RuleOf(job).ends \in {"either", "number"}
MayThrow(job)      == RuleOf(job).ends \in {"either", "throws"}

\* A result that is not a number becomes 0, whatever was read.
IsRight(frame) == frame.good \/ RuleOf(frame.job).ends = "undefined"

Calling(names) ==
    mode = "running" /\ stack # <<>> /\ Top.todo # <<>> /\ Head(Top.todo)[1] \in names
Wanted == Head(Top.todo)[2]
Returning(op) ==
    /\ mode = "running" /\ stack # <<>> /\ Top.todo = <<>> /\ Top.op = op
    /\ RuleOf(Top.job).ends # "throws"

ReadRows ==
    /\ Calling({"one", "rows"})
    /\ stack' = Replace(Answered(Top, \A x \in Read(Head(Top.todo), Top.job) : row[x] = "settled"))
    /\ UNCHANGED <<document, inputs, pos, mode, evaluations>>

\* Mutant of UpdateInput: emplace keeps what is there.
UpdateInputOnce ==
    /\ Calling({"update"})
    /\ inputs' = [inputs EXCEPT ![NameIn(Head(Top.todo), Top.job)] =
                     IF @ = Nobody THEN Top.job ELSE @]
    /\ stack' = Replace(Answered(Top, TRUE))
    /\ UNCHANGED <<document, pos, mode, evaluations>>

\* updateCompanyInputByValues does not look at the code it is given, nor
\* whether there is a row of the company.
UpdateInput ==
    /\ Calling({"update"})
    /\ inputs' = [inputs EXCEPT ![NameIn(Head(Top.todo), Top.job)] = Top.job]
    /\ stack' = Replace(Answered(Top, TRUE))
    /\ UNCHANGED <<document, pos, mode, evaluations>>

\* evalConsolidationByCode: the first item with the code, 0 without a rule.
Ruled(c) == {i \in Holding(c) : i = First(c) /\ HasRule(<<i, 0>>)}

ConsolidateNothing ==
    /\ Calling({"consolidation"}) /\ Ruled(Wanted) = {}
    /\ stack' = Replace(Answered(Top, TRUE))
    /\ UNCHANGED <<document, inputs, pos, mode, evaluations>>

\* A process that is out of stack is ended where it is.
RunBelow(i) ==
    IF Len(stack) < StackLimit
    THEN stack' = Append(stack, Enter("call", <<i, 0>>)) /\ mode' = mode
    ELSE mode' = "crashed" /\ stack' = stack

\* Mutant of Consolidate: a code that is being consolidated reads as 0.
ConsolidateOnce ==
    /\ Calling({"consolidation"})
    /\ \E i \in Ruled(Wanted) :
          IF \E f \in Range(stack) : f.job = <<i, 0>>
          THEN stack' = Replace(Answered(Top, TRUE)) /\ mode' = mode
          ELSE RunBelow(i)
    /\ UNCHANGED <<document, inputs, pos, evaluations>>

Consolidate ==
    /\ Calling({"consolidation"})
    /\ \E i \in Ruled(Wanted) : RunBelow(i)
    /\ UNCHANGED <<document, inputs, pos, evaluations>>

\* The result goes to the script that asked and is stored nowhere.
Return ==
    /\ Returning("call")
    /\ stack' = SubSeq(stack, 1, Len(stack) - 2)
                  \o <<Answered(stack[Len(stack) - 1], IsRight(Top))>>
    /\ UNCHANGED <<document, inputs, pos, mode, evaluations>>

-----------------------------------------------------------------------------
(* evaluate.                                                                *)

AtJob == mode = "running" /\ stack = <<>> /\ pos <= Len(Jobs)

\* Mutant of SkipRule: a missing rule also passes over what follows.
SkipRuleAndNext ==
    /\ AtJob /\ ~HasRule(Jobs[pos])
    /\ pos' = pos + 2
    /\ UNCHANGED <<document, inputs, stack, mode, evaluations>>

SkipRule ==
    /\ AtJob /\ ~HasRule(Jobs[pos])
    /\ pos' = pos + 1
    /\ UNCHANGED <<document, inputs, stack, mode, evaluations>>

RunRule ==
    /\ AtJob /\ HasRule(Jobs[pos])
    /\ stack' = <<Enter("evaluate", Jobs[pos])>>
    /\ UNCHANGED <<document, inputs, pos, mode, evaluations>>

FinishRow ==
    /\ Returning("evaluate") /\ Top.job[2] # 0
    /\ row' = [row EXCEPT ![Top.job] = IF IsRight(Top) THEN "settled" ELSE "early"]
    /\ eligible' = IF ReturnsNumber(Top.job) THEN eligible \cup {Top.job}
                   ELSE eligible \ {Top.job}
    /\ stack' = <<>> /\ pos' = pos + 1
    /\ UNCHANGED <<rules, consolidated, inputs, mode, evaluations>>

FinishConsolidation ==
    /\ Returning("evaluate") /\ Top.job[2] = 0
    /\ consolidated' = [consolidated EXCEPT ![Top.job[1]] =
                          IF IsRight(Top) THEN "right" ELSE "early"]
    /\ stack' = <<>> /\ pos' = pos + 1
    /\ UNCHANGED <<rules, row, eligible, inputs, mode, evaluations>>

\* Mutant of Throws: the error of a rule is logged and the next one is run.
ThrowsAndGoesOn ==
    /\ mode = "running" /\ stack # <<>> /\ Top.todo = <<>> /\ MayThrow(Top.job)
    /\ stack' = <<>> /\ pos' = pos + 1
    /\ UNCHANGED <<document, inputs, mode, evaluations>>

\* Nobody catches an exception on the way out of evaluate: the rows that were
\* evaluated stay evaluated.
Throws ==
    /\ mode = "running" /\ stack # <<>> /\ Top.todo = <<>> /\ MayThrow(Top.job)
    /\ stack' = <<>>
    /\ mode' = "failed"
    /\ UNCHANGED <<document, inputs, pos, evaluations>>

\* Mutant of Finish: only a successful last rule is the end.
FinishOffByOne ==
    /\ mode = "running" /\ stack = <<>> /\ pos > Len(Jobs) + 1
    /\ mode' = "done"
    /\ UNCHANGED <<document, inputs, stack, pos, evaluations>>

Finish ==
    /\ mode = "running" /\ stack = <<>> /\ pos > Len(Jobs)
    /\ mode' = "done"
    /\ UNCHANGED <<document, inputs, stack, pos, evaluations>>

EvaluateAgain ==
    /\ mode \in {"done", "failed"} /\ evaluations < MaxEvaluations
    /\ evaluations' = evaluations + 1
    /\ pos' = 1
    /\ mode' = "running"
    /\ UNCHANGED <<document, inputs, stack>>

Evaluate ==
    \/ ReadRows \/ UpdateInput \/ ConsolidateNothing \/ Consolidate \/ Return
    \/ SkipRule \/ RunRule \/ FinishRow \/ FinishConsolidation \/ Throws \/ Finish
Next == Evaluate \/ EvaluateAgain

\* The evaluator runs on one thread and waits for nobody.
Spec == Init /\ [][Next]_vars /\ WF_vars(Evaluate)

-----------------------------------------------------------------------------
Frame == [op : {"evaluate", "call"}, job : AllRows \cup (Items \X {0}),
          todo : Seq(Call), good : BOOLEAN]

TypeOK ==
    /\ rules \in RuleTables
    /\ row \in [AllRows -> {"given", "early", "settled"}]
    /\ eligible \subseteq AllRows
    /\ consolidated \in [Items -> {"none", "early", "right"}]
    /\ inputs \in [Names -> AllRows \cup (Items \X {0}) \cup {Nobody}]
    /\ stack \in Seq(Frame) /\ Len(stack) <= StackLimit
    /\ pos \in 1..Len(Jobs) + 1
    /\ mode \in {"running", "done", "failed", "crashed"}
    /\ evaluations \in 1..MaxEvaluations

\* The items whose consolidation rule a rule runs, directly and through
\* other consolidation rules.
Runs(job) ==
    UNION {Ruled(c[2]) : c \in {c \in Range(RuleOf(job).calls) : c[1] = "consolidation"}}
Reached(job) ==
    {i \in Items : \A S \in SUBSET Items :
        Runs(job) \subseteq S /\ (\A j \in S : Runs(<<j, 0>>) \subseteq S) => i \in S}

\* What a rule reads, itself and through them.
Reads(job)  == UNION {Read(c, job) : c \in Range(RuleOf(job).calls)}
ReadBy(job) == Reads(job) \cup UNION {Reads(<<i, 0>>) : i \in Reached(job)}

\* The rows that have no rule, or whose rule reads such rows only, and of
\* those with a rule only ones before it.  A rule that uses the value it
\* replaces works once.
IsBefore(x, y) == x[1] < y[1] \/ (x[1] = y[1] /\ x[2] < y[2])
LooksBackAt(S, x) ==
    \/ ~HasRule(x)
    \/ /\ \A y \in ReadBy(x) : y \in S /\ (HasRule(y) => IsBefore(y, x))
       /\ RuleOf(x).own => evaluations = 1
Orderly ==
    {x \in AllRows : \A S \in SUBSET AllRows :
        (\A y \in AllRows : LooksBackAt(S, y) => y \in S) => x \in S}

(***************************************************************************)
(* Scripts that look back are safe: their rows end with what the rules      *)
(* define, whatever scripts that look ahead did in the meantime, and are    *)
(* eligible exactly if the rule returned a number, also when an evaluation  *)
(* broke off half-way before this one.                                      *)
(***************************************************************************)
LookingBackIsSafe ==
    mode = "done" =>
        \A x \in AllRows : HasRule(x) =>
            /\ x \in Orderly => row[x] = "settled"
            /\ (x \in eligible) = ReturnsNumber(x)

(***************************************************************************)
(* A consolidation rule sees the rows of the whole document after their     *)
(* rules, those behind its own item as well, directly and through the       *)
(* consolidations it asks for.                                              *)
(***************************************************************************)
ConsolidationsSeeEveryRow ==
    mode = "done" =>
        \A i \in Items : HasRule(<<i, 0>>) /\ ReadBy(<<i, 0>>) \subseteq Orderly =>
            consolidated[i] = "right"

\* A rule gets into a circle of consolidation rules.
Circular == \E n \in DOMAIN Jobs :
                HasRule(Jobs[n]) /\ \E i \in Reached(Jobs[n]) : i \in Reached(<<i, 0>>)

(***************************************************************************)
(* Circles of consolidation rules are what exhausts the stack, and nothing  *)
(* else: without one the nesting never exceeds the number of items, and     *)
(* with one that some rule gets to no evaluation succeeds, so there is no   *)
(* result from a value that depends on itself.                              *)
(***************************************************************************)
CirclesOverflow ==
    /\ mode = "crashed" => Circular
    /\ mode = "done" => ~Circular

\* The calls of a script that set the input of company k, itself or through
\* the consolidation rule they run.
Updates(job, k) ==
    \E c \in Range(RuleOf(job).calls) : c[1] = "update" /\ NameIn(c, job) = k
UpdatesBelow(job, k) == \E i \in Reached(job) : Updates(<<i, 0>>, k)
Sets(c, job, k) ==
    \/ c[1] = "update" /\ NameIn(c, job) = k
    \/ /\ c[1] = "consolidation"
       /\ \E i \in Ruled(c[2]) : Updates(<<i, 0>>, k) \/ UpdatesBelow(<<i, 0>>, k)
Setting(job, k) ==
    {n \in DOMAIN RuleOf(job).calls : HasRule(job) /\ Sets(RuleOf(job).calls[n], job, k)}

\* The last of them, followed through the consolidation rules until it is the
\* script's own.
LastSetting(job, k) == RuleOf(job).calls[Max(Setting(job, k))]
SetsItself(job, k)  == Setting(job, k) # {} /\ LastSetting(job, k)[1] = "update"
Leads(job, k) ==
    IF Setting(job, k) = {} \/ SetsItself(job, k) THEN {} ELSE Ruled(LastSetting(job, k)[2])
LastBelow(job, k) ==
    {i \in Items : \A S \in SUBSET Items :
        Leads(job, k) \subseteq S /\ (\A j \in S : Leads(<<j, 0>>, k) \subseteq S) => i \in S}
LastToSet(job, k) ==
    {x \in {job} \cup {<<i, 0>> : i \in LastBelow(job, k)} : SetsItself(x, k)}

(***************************************************************************)
(* The input of a company is that of the last script to set it, in the      *)
(* order in which evaluate comes to the scripts: those of the rows, then    *)
(* the consolidations, and in a script call after call, with what a call    *)
(* runs.  The code and the company of the script play no part, nor does     *)
(* what an earlier evaluation left, be it one that broke off.               *)
(***************************************************************************)
InputsAreOfTheLastScript ==
    mode = "done" => \A k \in Names :
        LET setting == {n \in DOMAIN Jobs : Setting(Jobs[n], k) # {}}
        IN  IF setting = {} THEN inputs[k] = Nobody
            ELSE LastToSet(Jobs[Max(setting)], k) = {inputs[k]}

\* Every evaluation ends: with a result, with an error or in a crash.
EvaluationEnds == mode = "running" ~> mode # "running"
=============================================================================
