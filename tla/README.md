# A TLA+ model of fsistoolx

fsistoolx computes the risk profile of a financial institution. A risk profile
is a tree of elements, each with scripts (rules) that yield a value, a rating
from 1 to 5 and a score; scripts may read what other elements yielded. There
are two independent implementations, one in C++ (`ilfx/`) and one in C (`ilf/`,
with a server around it). This directory models both, checks the models with TLC and
proves the main invariants with TLAPS. Paths in this file are relative to the
repository.

Contents: [1 Inventory](#1-inventory) - [2 Modules](#2-modules-and-the-code) -
[3 Runs](#3-what-the-runs-check) - [4 Fairness](#4-fairness) -
[5 Findings](#5-where-the-code-and-its-documents-disagree) -
[6 Proofs](#6-what-is-proved) - [7 Limits](#7-what-is-not-modelled-and-why) -
[8 Plan](#8-plan)

## 1 Inventory

**Evaluator of inherent risk profiles** (`ilfx/src/riskprofile.hpp`). State: the
XML tree with its `computed_*` fields, the index by Profile_ID, two memo caches,
the set `computing_` and the list `dependency_stack_` of what is being computed,
the compiled scripts, counters. Operations: build the index, walk the tree
children first and run three rules per element, answer the `computed...ByCode`
helpers by field, cache or nested evaluation, unwind on an error. Hard: rules
ask for elements the walk has not reached, in circles, in the compiler's
argument order, in a tree that already holds old results; an exception leaves
through several helpers. Right if: a circle is always an error and an error
always a circle or a faulty script; a success leaves what the rules define;
nothing stays behind after a failure; an evaluation ends.

**Evaluator of KPMR profiles** (same file). The same machinery with a walk that
leaves the top level out, and one helper that neither computes the rating first
nor stores its result in the element. Right if: results are what the rules
define wherever scripts look ahead at nothing whose rating is computed.

**Profile tree and its evaluation** (`ilf/src/risk_profile_tree.c`,
`ilf/src/eval.c`). State: a hash table of nodes by Profile_ID, a set of nodes
that have a parent, an n-ary tree, the XML document. Operations: create nodes,
link each under the first node the hash order yields that
`is_parent_child_relation` accepts, collect the rest under a virtual root, walk
in post-order and run the scripts, map ratings to scores. Hard: the hash order
decides among several parents; duplicates; documents that were evaluated before;
a script that does not compile aborts the process. Right if: every profile runs
once, children come before what adds them up, a score belongs to the rating of
this evaluation.

**Evaluation server and client** (`ilf/src/eval_server.c`,
`ilf/src/eval_client.c`). State: the socket file, its queue, the connection
served, the response being built; the client's progress and exit code.
Operations: start (unlink, bind, listen), accept, receive, the five stages of an
evaluation, answer, shutdown, signals; connect, send, receive. Hard: clients
leave, servers crash with the file in place, two servers meet, of different
users perhaps, shutdown passes queued clients. Right if: a waiting client is
always somebody's business, a response is true, a failed start has a cause in
another server, a client ends.

**Datasource of the inherent half** (`ilfx/src/inherent_datasource.hpp`). State:
items of a code with a row per company, a value and an `eligible` mark in each
row, a consolidated value in each item, the inputs of the companies. Operations:
run the `fsiRule` of an item on each of its rows, item after item; then the
`consolidationRule` of each item; helpers that read rows, and one that runs
another item's consolidation. Hard: unlike the risk profile evaluator it has no
index, no memo and no set of what is being computed; items share codes and
companies have several rows; every script, a consolidation too, may set the
inputs of any company; an exception leaves it half-way. Right if: scripts
that look back end with what the rules define, consolidations see every row
after its rule, only circles exhaust the stack, an input is that of the last
script to set it.

**Consolidation in C** (`ilf/src/eval.c`, `ilf/src/src_inherent_cli.c`). State:
the report, the company document, a table of results by sandiRevamp, a file.
Operations: check the documents, and for each row collect its elements, run its
script, write the result into the row and into the companies it is for; save.
Hard: rows share a sandiRevamp; scripts read what earlier rows delivered; one
that does not compile ends the function in the middle; the save fails. Right if:
what a row delivers is its own result, and the documents agree whenever it
returns.

**Trees of the KPMR half in C** (`ilf/src/kpmr_source_tree.c`,
`ilf/src/build_tree_kpmr_cli.c`). State: a hash table of nodes, the links.
Operations: a node for every id, a parent for every node. Hard: duplicates, ids
of another form, the hash order in one and the document order in the other.
Right if: no id is lost and a node hangs where its id says.

The other parts:

| part | state and operations | why not |
|---|---|---|
| `evaluate_src_inherent` behind its checks, the rule variants it would call, `parser.c` | a walk over rows of several files; a scanner | never run: finding 2 in section 5 |
| `kpmr_datasource.hpp` | a walk that runs the rule of every item over the values its children came with | no step reads what another wrote; an item with the id of an item above it is passed over silently (line 199) |
| `otel_cli.hpp`, `telemetry/` | nested spans around a command | observes only |
| `scoreratingparser.cpp`, thresholds, `gofunct/` | functions of their arguments | no state; unit tests reach them |
| command lines | arguments, one call, exit code | only those of the client and of `src_inherent_cli` decide anything |
| `xmlh.c`, `tcch.c`, `gslh.c`, `glibh.c` | wrappers of libraries | no state |
| `ilfxslt-main`, `xsltcli`, `thy`, `otel-elastic-apm`, `scripts` | filters, a sample parser, deployment | no logic of the program |
| `ilfreporter-0.0.1` | an older copy of `ilfx` | superseded |
| `tools`, `vendor`, `ilfx/thirdparty`, `gen` | vendored and generated | not this program's code |

The two evaluators do not call each other. The server calls `eval.c`, which
calls `risk_profile_tree.c`; both evaluators hand control to a script engine
(ChaiScript, libtcc) that calls back into them. Nothing is multi-threaded: the
concurrency is between processes, and the rest of the difficulty is in order,
recursion and failure.

## 2 Modules and the code

| module | models |
|---|---|
| `RuleTree` | the static tree of `riskprofile.hpp`: index, rules, who reads what; also the definition of a dependency cycle (`Knot`) |
| `TreeWalk` | pre-order and post-order over an element tree |
| `RuleEvaluation` | the inherent evaluator as a machine with an explicit call stack |
| `DependencyOrder` | what it promises: fields appear after those they are computed from |
| `KpmrEvaluation` | the KPMR evaluator, same style |
| `ProfileTree` | Profile_IDs and `is_parent_child_relation`; its documented meaning next to it |
| `ProfileEvaluation` | one evaluation of a document by `eval.c` |
| `EvalServer` | servers, clients, the socket file and its queue |
| `InherentDatasource` | `ilfx::inherent::datasource::Evaluator` |
| `Consolidation` | `evaluate_konsolidasi_inherent`, the checks of `evaluate_src_inherent`, and the command line that calls both |
| `KpmrTrees` | the two tree builders of the KPMR half, over `ProfileTree` |
| `MC*` | instances for TLC |
| `*Proofs` | theorems |

*Inherent evaluator.* One behaviour is the life of an `Evaluator`: a tree, then
up to `MaxEvaluations` calls of `evaluateInherentRiskProfile`. A rule is the
list of helper calls its script makes and how it ends. `stack` is the C++ call
stack: its bottom frame is the rule the walk is running, each frame above it a
`memoized` helper. `CallPresent`, `CallCached`, `CallCycle`, `CallCompute` are
the exits of a helper, in the order of the code; `FinishMemo` is its normal and
`UnwindMemo` its exceptional end. A result is `"fresh"` if it is what the rules
of this tree define, `"stale"` if it depends on an old result found in the
input. The digits are not kept. `DependencyOrder` has no stack, no caches and no
walk; `RuleEvaluation` implements it with `"throwing"` seen as `"running"`.

*KPMR evaluator.* The same with `"right"` and `"wrong"`, since here a result
may also be wrong because a rating was not there yet. A script calls
`computedWeightedScoreByCodeKPMR` only. The counters, `compiled_rules_` and
`dependency_stack_` are left out, `RuleEvaluation` having shown how they follow
the stack.

*C evaluator.* A Profile_ID is a sequence of segments, `"00"` being 0. The hash
order is chosen when the second pass begins and is any order. Of a script's
result only the elements it was computed from are kept, which is what the
properties ask about. `"broken"` is a text that does not compile, on which
`g_error` aborts. Ratings are kept in tenths, as they are written out.

*Server.* Every C statement that another process can observe is an action:
unlink, bind, listen, accept, receive, each stage, save, send. `eval_server.c:381`
does not look at what `unlink` returns: `MayUnlink` says which server may remove
the file of which (in `/tmp`, one of the same user or of root), and where it may
not the file stays and `bind` fails. `met` is a history variable, the pairs of
servers that ran at the same time; only `FailedStartsHaveACause` asks it. The
permission that `connect` needs for the file of another user is left out. The kernel is
modelled by what the code relies on (the `external` entries of the map): a
closed socket resets the connections that were not accepted or not read and ends
the one that was read. `fails` says at which stage an evaluation goes wrong.
A request fits into the one `recv` the server makes.

*Datasource.* One behaviour is the life of an `Evaluator`: up to
`MaxEvaluations` calls of `evaluate`. A job `<<i, r>>` is the rule of a row,
`<<i, 0>>` a consolidation, and `Jobs` the order of the two loops. The frames of
`stack` are scripts on the C++ stack; there is more than one only below
`evalConsolidationByCode`. `StackLimit` stands for the size of the stack: one
frame more than items is enough to tell a circle from a long chain. All helpers
are there for every script, those for one company with any company name, names
without a row included; only the variable `companyName` is for the rule of a row
(line 308), and `DatasourceAssumption` says no more than that. A script makes the
same calls each time it runs: a branch that depends on values is only there as
the end `"either"`, in an exception or a number. No helper reads an input. A value is
`"settled"` or `"early"` by what was read for it. A helper that returns a map
(`MapOf`) sees the first item of a code, one that returns a value (`OneOf`) all
of them, as in the code.

*Consolidation.* A row goes through `"collect"`, `"evaluate"` and `"deliver"`,
the three parts of the loop's body. A script is the set of sandiRevamps it
reads; a result is the row it is from and whether it read only what the company
document came with. `EvaluateSource` is all that can happen in
`evaluate_src_inherent`. A save that fails leaves the file as it was, cut off
(no whole one: `<<>>`) or whole.

*KPMR trees.* The id of a source is the sequence of its segments of two
characters, of any number, the prefix included, which is what
`kpmr_is_parent_child_relation` compares; it is the relation of `ProfileTree` word
for word. The id of a profile is the eight characters behind `RK`. An id without
relations by its form (an odd number of characters or fewer than four; no `RK` or
another length) is a sequence of one, and the empty text is `<<0>>`. The source
builder's hash order is any order, in both loops. `kind` says
which builder a behaviour is of; `CreateNode` has the rules of both, because
what differs is only which records they skip or overwrite.

## 3 What the runs check

| run | instance | distinct states | shows |
|---|---|---|---|
| `cycles` | four elements, two of them with one Profile_ID; all tables of value rules with up to two calls, a family of faulty scripts; two evaluations | 618,756 | circles are always found and never invented; an exception leaves `computing_` and `dependency_stack_` clean; executions and nesting are bounded; every evaluation ends |
| `results` | two leaves with value, rating and score rules that call across, a root that adds up; fresh input, full output, scores only | 1,076,644 | the results are those of evaluation in dependency order, also when rules run twice |
| `kpmr` | four elements: all graphs of single calls between scores, ratings present or not; two calls per script, ratings that call, scripts that throw or do not compile; fresh and old input; two evaluations | 1,875,104 | looking ahead is safe without ratings; an early result never reaches an element that only looks back; circles are errors; `computing_` is clean after failures |
| `profiles` | all documents of up to three elements over seven Profile_IDs and none, larger sets, a chain of four levels; all script combinations on a pair; every hash order | 89,696 | every profile runs once; links lead up; unambiguous children are added up; scores follow ratings |
| `requests` | two servers, one after the other or at the same time, the second run by root, so that it may remove the file of the first and not the other way round; two clients, every pair of the eleven requests, one signal, one kill | 1,074,706 | nobody is forgotten, responses are true, failed starts and crashes have a cause, every client that connected ends |
| `datasource` | three items, two of them with one code, five rows of two companies, a third name without rows; all combinations of row rules, all of consolidation rules, circles included; rules of both kinds that set inputs of their own and of other companies; two evaluations | 129,436 | scripts that look back are safe, consolidations see the whole document, circles and nothing else overflow, inputs are those of the last script |
| `consolidation` | all reports of one row and a large family with three, two sandiRevamps, three companies of different type; wrong roots; saves that fail; two calls | 183,156 | a row delivers its own result; the documents agree after every return; which results mix in earlier ones |
| `kpmr_trees` | all lists of up to four records over ten ids, sources of two, four and five segments among them, both builders, every hash order | 289,235 | every id is in the tree; profiles and sources hang where their id says |
| `relation`, `rejected`, `exit_code`, `survives` | small | | each violates one documented statement, see section 5 |

Why the bounds are enough. *Evaluators:* a helper's answer depends on one
element, and what is remembered is per key, so a wrong interplay needs an asker,
an answerer and a third that closes a circle or asks in between; three elements
(four for KPMR, so that back, ahead, down and up all exist below the top) with
every graph of calls among them contain all these. A second evaluation is the
first that sees what an evaluation leaves behind, and a third sees nothing new:
the state it starts from is again a tree with fields and a cache.
*Documents:* a wrong link needs a node, two candidates and an order; gaps,
duplicates, nodes without an id and ids of another length are in the set.
*Server:* properties speak of one client and one server; the second client is
the one that is queued or interferes, the second server the one that starts
after a crash or next to the first, in either order of users. `Backlog` is 0 or 1
so that the queue does fill; the real 5 differs in nothing but how many wait. The
theorems are about any number of servers.
*Datasource:* a wrong reading needs a row before and one behind the reader, an
item whose code another has too, and a company with two rows; a circle needs one
consolidation, or two. *Consolidation:* a wrong delivery needs two rows of one
sandiRevamp and a third between them that reads it. *Trees:* a wrong link needs
a child, two candidates and a duplicate.

Deadlock checking is off in every run: evaluations end, servers are stopped, and
once the bounds are used up nothing more happens.

Reading some properties:

- `DoneIsFresh` - with a fresh input always, and with an evaluated one if
  scripts only look back. The condition is needed: a script that looks ahead
  reads the old result that is still in the element.
- `CyclesNeverSucceed` compares the machine with `Knot`, a definition of a
  circle that knows nothing of stacks.
- `EarlyResultsDoNotSpread` - the cache of the KPMR evaluator does hold wrong
  scores; the property says who never sees them.
- `ChildrenAreAggregated` is restricted to children with one candidate parent;
  it fails without the restriction, because of finding 1 in section 5.
- `FailedStartsHaveACause` - a start does fail where a crashed server of another
  user left its file, as `UNIX_SOCKET_SERVER.md:349-354` has it ("bind() failed",
  "Socket file may already exist"), and two servers at a time cut each other off.
  The property says that nothing else does it.
- `InputsAreOfTheLastScript` - "last" is in the order of execution: the rules of
  the rows, then the consolidations, in each call after call, and for a call that
  runs a consolidation what that one sets. The right side (`LastToSet`) is defined
  over the rules and knows no stack.
- `LookingBackIsSafe` - `Orderly` is a definition over the rules that knows
  nothing of the evaluation. A rule that uses its own value is only promised to
  work once: a second evaluation applies it to its own result.
- `CirclesOverflow` - "crashed" is the end of the process by stack overflow.
  That circles do overflow is what the code does; the property says that a
  circle never yields a number and that nothing else overflows.
- `MixedExactlyIfReadBack` says when a result contains an earlier one, not that
  it should: whether a row is meant to read another's result no document says.

## 4 Fairness

`RuleEvaluation` and `InherentDatasource`: weak fairness on `Evaluate`. The
evaluator is one thread that never waits, so a possible step is taken; nobody must evaluate again, and
`EvaluateAgain` has no fairness. `EvalServer`: weak fairness on the steps of each
server and each client process, which the operating system schedules. Nothing is
assumed of those who start servers, send signals or kill clients. A client that
was never let into the queue is not promised anything (`connect` blocks while it
is full, and other clients may always be first), so `ClientsEnd` starts at
`"connected"`. Its run takes a queue of one, so that clients do wait.
The other modules are checked for safety only.

## 5 Where the code and its documents disagree

1. `relation`: `is_parent_child_relation` accepts a grandparent
   (`risk_profile_tree.c:103` checks the child's tail one segment too late). The
   test `risk_profile_tree_test1.c:27` asserts the contrary. As a consequence a
   node may run before its own child, if the hash order hung the child under the
   grandparent.
2. `rejected`: `evaluate_src_inherent` rejects every document, because it asks
   for two different root elements (`eval.c:199` and `eval.c:207`); the header
   and the test say that it evaluates the first kind. `src_inherent_cli` stops
   there, so the consolidation is never reached from the command line, only by
   programs that call it.
3. `exit_code`: a client whose server died during its request exits with 0
   (`eval_client.c:109`).
4. `survives`: a client that leaves before its response kills the server by
   SIGPIPE (`eval_server.c:361`); the documentation says errors are handled
   gracefully.

Met while modelling, without a run:

- `save_risk_profile_result` aborts on a failed save (`eval.c:1006`) where
  `eval.h:75` promises `ILF_ERROR` (`SaveAborts` in `EvalServer`).
- `kpmr_source_tree.c:58` and 99-100 have the comments and the relation of
  finding 1: "DIRECT parent (only one level up)", and grandparents are accepted.
- `UNIX_SOCKET_SERVER.md:349-354` tells the user to remove the socket file when
  `bind()` fails. The server does so itself (`eval_server.c:381`), but without
  looking at the result: the advice is needed for a file it may not remove.
- `build_tree_kpmr_cli.c:337` says that records with an empty profile id are
  processed; they are in no tree. A profile whose id comes again is not either.
- `inherent_datasource.hpp:575` says that the default weight is 1.0;
  `findWeightByCompany` returns 0.0.
- The options `--output-pic` and `--output-doc` of `src_inherent_cli` are parsed
  and printed; the files are `updated_pic.xml` and `updated_doc.xml`. The comment
  at `eval.c:789` says that the company document is written; the report is.

## 6 What is proved

For every value of the constants, under the assumptions named in the modules
(`TreeAssumption`, `RuleAssumption`, `BoundAssumption`, `DocumentAssumption`,
`ServerAssumption`, `ConsolidationAssumption`, `DocumentsAssumption`, `KpmrAssumption`,
`DatasourceAssumption`: the constants have their types, the walks visit every element
and the rule walk visits it once, the C++ stack has room for more scripts than there
are items). Sets that are given by reachability (`Reached`, `Orderly`, `Under`) are
defined as the least set that is closed under a step, so that an induction over them
is the choice of a set; inductions over numbers go by a smallest counterexample.

*`RuleEvaluationProofs`.* `TypeCorrect`, `StackCorrect`
(`ComputingIsTheCallStack`) and `CyclesReal` (`CycleReportsAreReal`) rest on
`IInv == TypeOK /\ CallInv`. `CallInv` adds the shape of the call stack to the
property: only the bottom frame is a rule of the walk, every other frame is the
first pending call of the one below and waits for calls of its own rule only,
and a non-empty stack means an evaluation in progress. Without the
shape a pop could not be shown to restore the caller's key, nor a reported chain
to be a chain of calls. `ResultsAreFresh` (`DoneIsFresh`) needs two invariants
more: `WalkInv` ties the bottom frame to the agenda position, and `SoundInv`
says, under the property's condition, that nothing stale is cached or on its
way and that what the walk has passed is settled. The lemmas go by kind of step
(a step that only answers, pushes, pops, clears), one step per action above
them.

*`DependencyOrderProofs`.* `EvaluatesInDependencyOrder`: the evaluator implements
`DependencyOrder` (`ImplementsDependencyOrder`), so for every tree, with any mix
of old and new results, a result is the one its rule has for the inputs there
are when it is written. The difficulty is that a script reads its inputs one by
one, the first long before the last; `ReadInv` says for each frame of the call
stack what it has read, that this is still what the element holds, and that
"fresh" is the truth about it. Its parts: a helper is only run for an absent
field, and two helpers never for the same one (from `CallInv`), so fields that
were read do not change under a frame; what the cache holds for an absent field
is the 0 of a missing rule; what the walk has passed is there. The chain that a
cycle error reports is shown to be a `Knot`. `CyclesAreNeverMissed`
(`CyclesNeverSucceed`) then needs only the abstract steps: in dependency order
none of the fields of a knot can be the first to get a result (`KnotInv`). So does `ResultsStayFresh` (`FreshStaysFresh`), by `FreshInv`: a field
with a rule is only right when everything it is computed from is there and right; so
a rule that is run again has the same right inputs. `WorkIsAlwaysBounded` (`WorkIsBounded`) by `WorkInv`, which
counts: an execution is either of the rule whose turn it is (`Walked`, each rule has
one turn) or of a rule no helper has run before (`Helped`: its key is not remembered
while it is being computed, and is from the end of it on). The count is only kept
where nothing can fail (`Clean`), and a success shows that nothing could: the walk
has passed every script, and no circle succeeds. The nesting is bounded because the
keys in `dependency_stack_` are different keys of the tree (`NestingIsBounded`).

*`KpmrEvaluationProofs`.* `KpmrTypeCorrect`, `KpmrStackCorrect`
(`ComputingIsTheCallStack`) and `CirclesAreNeverMissed` (`CirclesNeverSucceed`).
`KpmrInv` is the shape of the call stack and its tie to `computing_` and to the
walk, as for the inherent half. There is no abstract machine here, since results
may be early; so circles need an invariant about the frames: `CircleInv` says
that no score of a circle is ever in an element or in the cache, because each
frame whose rule asks for one still has such a call to make.
`SafeLookAheadIsRight` (`DoneIsRight`) and `OrderlyElementsAreRight`
(`EarlyResultsDoNotSpread`) are about the results. Both are an instance of one
statement: `RightInv` says `Keeps(G, F, R)` for all sets that fit together
(`Sound(G, F, R)`), where `G` are elements promised to be right once they are
walked, `F` elements that may be looked ahead at (no rating rule, no old result) and
`R` what the script of each element gets to. In the first property `G` is every
element the walk gets to, in the second it is `Orderly`. `Keeps` says that what the
walk has passed of `G` is right, that no element of `F` and no cached score of one is
wrong, and that while an element of `G` has its turn every frame on the stack has
read right values only, and every helper on it runs for an element of `F`.

*`ProfileEvaluationProofs`.* `RelationIsCut`: for Profile_IDs of any length and
any segments, `is_parent_child_relation(p, c)` holds exactly if `p` is `c`
without its last segment in use or without its last two. The others rest on two
invariants. `BuildInv`: `nodes` holds the last element of each id, the hash order
lists each id once, and the links are those of the part linked so far. `LinksLeadUp`
(`ParentsAreAbove`) follows; so the links form no ring, in any hash order, and the
tree is a forest whose height is bounded by the segments of an id. That is what
makes the recursive walk well defined: by induction over the height (`UpFromZero`,
an induction over a set of naturals) the post-order below a node lists each node
below it once and behind its children (`WholeWalk`, `PostOrderShape`), which is
`ProfilesAlwaysRunOnce` (`EveryProfileRunsOnce`) and, with the types of what the
walk leaves, `ProfileEvaluationTypes` (`TypeOK`). `DocumentInv` says what the nodes
the walk has passed left in results and ratings and the mapping in scores, and that
everything else is as it was given; from it follow `ChildrenAreAlwaysAggregated`
(`ChildrenAreAggregated`: a child is passed before its parent runs) and
`ScoresAlwaysFollowRatings` (`ScoresFollowRatings`).

*`EvalServerProofs`.* `NobodyIsEverForgotten` and `ServerTypeCorrect` by
`ServerInv == TypeOK /\ ServingInv /\ NobodyIsForgotten`. `ServingInv` (a server
handles a client exactly in the stages between accept and close, keeps no queue
when it does not listen, and answers only with a response) is what makes
`Accept` and `Answer` preserve the property.

`ResponsesAreAlwaysTrue` by `PlaceInv` (a connection is
in one queue, once, or served by one server, or with none, and has no response
while it is held) and `TruthInv`: a client whose file is written and that a server
still holds is about to be told so, and a success is only told after the file is
written. `FailedStartsAlwaysHaveACause`, for any number of servers at a time and
any `MayUnlink` in which a server may remove its own file, by `StartInv`: a file is
of a server that bound it and has not exited; two servers that run have met; a
server that finds a file between its unlink and its bind has met the one it
is of, or may not remove what that one left; and a server that lost its file
lost it to one it met.
`CrashesAlwaysHaveACause` by `CauseInv`: a server past the receiving stage has a
request, and a client it holds has either no answer yet or been killed.

*`ConsolidationProofs`.* `ConsolidationTypeCorrect` and `ResultsAreAlwaysOwn` by
`TypeOK /\ TableInv /\ ResultsAreOwn`. `Deliver` takes what the table holds under
the sandiRevamp of the row; `TableInv` says that this is nothing before the
script runs and nothing or its result afterwards, which is what `Collect`
establishes by overwriting an older entry.
`DocumentsAlwaysAgree` adds `AgreeInv` to it. `DocumentsAgree` only holds between
calls, so `CountInv` counts what each row has at each company with the one result
a row in `deliver` still owes; `CallInv` makes what a row delivers a new element
(no earlier one has its row and its call), so that the count grows by one
(`FS_AddElement`); and `RanInv` says that a row with no broken script up to it has
run as often as there were calls, which is what makes a saved file complete.
`CurrentInv` is that nothing changes in memory between a success and the next call.
`ResultsMixExactlyIfReadBack` (`MixedExactlyIfReadBack`) is both directions of a
statement about the past: a result says whether earlier ones were in what its
script read. `MixedInv` says it of the results in the table and in the elements,
with what had been delivered by then (`DeliveredSoFar`) as a function of the row
and the call, so that it stays true when more is delivered.

*`KpmrTreesProofs`.* `ProfileRelationIsExact`: the relation of the profile
builder holds between an id and that id with its last level cleared and between
nothing else. So every child has one possible parent, the search for the first
match can only find that one, and `ProfilesAlwaysHangWhereTheyBelong` follows for
documents of any length, order and number of duplicates. `TreesTypeCorrect`
carries the fact that everything the first pass has gone over has a node
(`Passed`), without which a link could end nowhere.
`SourcesAlwaysHangAbove` needs the relation of the source builder only, which for
ids of any length is that of an id and the same without its last segment in use or
its last two (`RelationIsCut`).
`EveryIdIsAlwaysInTheTree` says that nothing is cut off in a ring: every link leads
to an id that ends at an earlier place, so of the ids that are not below a root
one that ends first would have a parent that is, and be below it after all.

*`InherentDatasourceProofs`.* The five invariants of `datasource`, for every
document, rule table, stack size and number of evaluations.
`InherentDatasourceTypes` and `OnlyCirclesOverflow` rest on `StackInv`: the script at
the bottom is that of the rule at `pos`, every other one is the consolidation the
script below waits for, and its item is reached from every script below it. So a
stack with more frames than items has two of one item (`FS_PigeonHole`), which
reaches itself. That a success has met no circle is `DoomInv`: a script whose rule
gets into a circle has a call in front of it that does, so it never returns and
`pos` never passes it. `ScriptsThatLookBackAreSafe` and `ConsolidationsAreRight`
follow from `RowsInv` (rows before `pos` are what the properties say of the end, rows
behind it are still as given in a first evaluation, whatever broke off or ran
before) and `ReadInv` (all scripts run for a rule that looks back have read settled
rows only, since what they read the rule itself reads through them). Where a row
is in the order of `Jobs`, which is a flattened sequence, is `JobsShape`.
`InputsAreOfTheLast` (`InputsAreOfTheLastScript`) holds whatever scripts set, for
whichever company, in rows and in consolidations. `UpdateInv` says of every script on the
stack whose rule, or a consolidation below it, sets an input: it is to do so in the
calls it has left, or the input is of the last script it runs to set it. So a script
that returns leaves its last setter (`LastToSet`) in the input, and what follows in
the script below either sets it again or does not. `InputInv` says the same of the
rules before `pos`, which is what a success ends with.

Model-checked only: liveness (`EvaluationEnds`, `ClientsEnd`), which the prover
does not do. Every other property of the passing runs is stated by a theorem.

## 7 What is not modelled, and why

- Digits. A helper returns a full double once and later the value rounded to six
  decimals by `std::to_string`; which results are fresh is modelled, their
  digits are not.
- The script engines. A script is its calls and its end; one that catches its
  own errors (ChaiScript `try`) or that loops forever is left out.
- Text: the scanner of requests, XML, messages, logs, paths.
- Failures of `socket`, `listen`, `accept` and of memory; the permission `connect`
  needs; requests and responses cut into several pieces; clients other than
  `eval_client`, so also one that stays silent, which would block the service.
- Profile_IDs of odd length, which have no relations.
- What a process that aborts had in memory: a threshold function that does not
  compile (`eval.c:121`) ends it before anything is saved.
- Branches of a datasource script on values, but for its end.
- The parts of the table in section 1. What `evaluate_src_inherent` does behind
  its checks is left out because no document gets there; a model of it would
  have no initial state.
- The order of siblings in the KPMR trees, and the numbers of the datasource and
  of the consolidation: a value is what it was computed from.

## 8 Plan

In order of importance.

1. `RequestText`: `parse_json_command` and requests in pieces, as a module that
   `EvalServer` can be composed with.
2. The rest of `evaluate_src_inherent` and `parser.c`, once a document can reach
   them.
3. Two precisions of a value, for the rounding of helper results; thresholds as
   operators with a reference definition.
