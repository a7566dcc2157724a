-------------------------- MODULE DependencyOrder ---------------------------
(***************************************************************************)
(* What an evaluation of the inherent risk profile promises, without the    *)
(* call stack, the memo caches and the order of the walk: computed fields   *)
(* appear one after the other, none before the fields it is computed from,  *)
(* each as if its rule had read all of them at that moment; an evaluation   *)
(* succeeds only when every rule has its result, and fails only if some     *)
(* script is faulty or the dependencies are cyclic.                         *)
(***************************************************************************)
EXTENDS RuleTree

VARIABLES
    rules,   \* the rule table of the tree (fixed)
    given,   \* the computed fields present in the input (fixed)
    field,   \* "none", "stale" or "fresh" for every field of every element
    mode     \* "running", "done" or "failed"

vars == <<rules, given, field, mode>>

\* A field of the input is "stale" if a rule says what it should be.
GivenFields(table, present) ==
    [n \in Nodes |-> [f \in Fields |->
        IF <<n, f>> \notin present THEN "none"
        ELSE IF HasRule(table, n, f) THEN "stale" ELSE "fresh"]]

Init ==
    /\ rules \in RuleTables
    /\ given \in Prefilled
    /\ field = GivenFields(rules, given)
    /\ mode = "running"

Available(x) == field[x[1]][x[2]] # "none" \/ ~HasRule(rules, x[1], x[2])
Fresh(x)     == field[x[1]][x[2]] \in {"none", "fresh"}

Computed(n, f) ==
    IF \A x \in Inputs(rules, n, f) : Fresh(x) THEN "fresh" ELSE "stale"

\* One rule has its result.  The weighted score follows at once when the walk
\* reaches the score rule, and later when only the score was asked for.
Compute(n, f) ==
    /\ mode = "running"
    /\ RuleOf(rules, n, f).ends = "returns"
    /\ \A x \in Inputs(rules, n, f) : Available(x)
    /\ \/ field' = [field EXCEPT ![n][f] = Computed(n, f)]
       \/ /\ f = "score"
          /\ field' = [field EXCEPT ![n][f] = Computed(n, f),
                                    ![n]["weighted"] = Computed(n, f)]
    /\ UNCHANGED <<rules, given, mode>>

ComputeWeighted(n) ==
    /\ mode = "running"
    /\ Available(<<n, "score">>)
    /\ field' = [field EXCEPT ![n]["weighted"] = Computed(n, "weighted")]
    /\ UNCHANGED <<rules, given, mode>>

Finish ==
    /\ mode = "running"
    /\ \A n \in Nodes, f \in Fields : Available(<<n, f>>)
    /\ mode' = "done"
    /\ UNCHANGED <<rules, given, field>>

Fail ==
    /\ mode = "running"
    /\ Faulty(rules) \/ Cyclic(rules, given)
    /\ mode' = "failed"
    /\ UNCHANGED <<rules, given, field>>

EvaluateAgain ==
    /\ mode \in {"done", "failed"}
    /\ mode' = "running"
    /\ UNCHANGED <<rules, given, field>>

Next ==
    \/ \E n \in Nodes, f \in Kinds : Compute(n, f)
    \/ \E n \in Nodes : ComputeWeighted(n)
    \/ Finish \/ Fail \/ EvaluateAgain

Spec == Init /\ [][Next]_vars
=============================================================================
