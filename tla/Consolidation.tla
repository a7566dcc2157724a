---------------------------- MODULE Consolidation ----------------------------
(***************************************************************************)
(* Consolidation in C: evaluate_src_inherent and                            *)
(* evaluate_konsolidasi_inherent (ilf/src/eval.c) and the command line that *)
(* calls one after the other (ilf/src/src_inherent_cli.c).                  *)
(*                                                                         *)
(* Every row of a report is evaluated in document order: its compiled       *)
(* logicKonsolidasi reads sourceInherentEvalResult elements of the company  *)
(* document, its result goes into the row, into a table by sandiRevamp, and *)
(* from that table into the very elements that later scripts read.  The     *)
(* report is written to a file at the end, the company document is not.     *)
(*                                                                         *)
(* A script is the set of sandiRevamps whose elements it reads; its result  *)
(* is clean if it read none that a consolidation has appended.              *)
(***************************************************************************)
EXTENDS Integers, Sequences, FiniteSets

CONSTANTS
    Sandis,      \* the sandiRevamps
    NoSandi,     \* a row without one
    Companies,   \* the DATA_RECORDs of the company document
    TypeOf,      \* their type
    Documents,   \* the documents to evaluate
    MaxCalls     \* bound: calls of evaluate_konsolidasi_inherent

Report == "sourceInherentRevampReport"
\* A "broken" script does not compile.
Row == [sandi : Sandis \cup {NoSandi}, pic : {"All LJK", "Bank", "other"},
        script : {"absent", "broken", "runs"}, reads : SUBSET Sandis]

ASSUME ConsolidationAssumption ==
    /\ NoSandi \notin Sandis
    /\ TypeOf \in [Companies -> {"BANK", "other", "none"}]
    /\ \A d \in Documents : d.rows \in Seq(Row)
    /\ MaxCalls \in Nat

VARIABLES
    root,       \* the root element of the report (fixed)
    rows,       \* its rows (fixed)
    caller,     \* "cli" or "library" (fixed)
    context,    \* whether pic_doc and memo are set (fixed)
    source,     \* what evaluate_src_inherent returned
    status,     \* what evaluate_konsolidasi_inherent returned
    calls,      \* how often it was called
    at,         \* the row it is at
    phase,      \* "idle", "collect", "evaluate" or "deliver"
    results,    \* results_ht: the result by sandiRevamp
    values,     \* the logicKonsolidasiResults of each row
    entries,    \* the sourceInherentEvalResults of each company
    saved       \* updated_doc.xml: its values, if there is a whole one

input == <<root, rows, caller, context>>
vars == <<input, source, status, calls, at, phase, results, values, entries, saved>>

\* No result yet: the NULL in the table.
Null == [from |-> 0, clean |-> TRUE]

\* Row 0 stands for the elements the company document came with.
Result == [from : Nat, clean : BOOLEAN]
Entry  == [sandi : Sandis, from : Nat, at : Nat, call : Nat]
SourceEntries == {[sandi |-> s, from |-> 0, at |-> 0, call |-> 0] : s \in Sandis}

Init ==
    /\ \E d \in Documents : root = d.root /\ rows = d.rows
    /\ caller \in {"cli", "library"}
    /\ context \in {"complete", "incomplete"}
    /\ caller = "cli" => context = "complete"
    /\ source = "not called" /\ status = "not called"
    /\ calls = 0 /\ at = 0 /\ phase = "idle"
    /\ results = [s \in Sandis |-> Null]
    /\ values = [i \in DOMAIN rows |-> <<>>]
    /\ entries = [k \in Companies |-> SourceEntries]
    /\ saved = <<>>

-----------------------------------------------------------------------------
\* Two checks of the root element, of which no document passes both: what
\* follows them in the function is never run.
EvaluateSource ==
    /\ phase = "idle" /\ source = "not called"
    /\ source' = IF context = "incomplete" \/ root # Report \/ root # "worksheet_inherent"
                 THEN "error" ELSE "success"
    /\ UNCHANGED <<input, status, calls, at, phase, results, values, entries, saved>>

\* The command line consolidates after a successful source evaluation; a
\* program of its own, and a test, may do so at any time.
MayConsolidate ==
    /\ phase = "idle" /\ calls < MaxCalls
    /\ caller = "cli" => source = "success" /\ calls = 0

Reject ==
    /\ MayConsolidate
    /\ context = "incomplete" \/ root # Report
    /\ calls' = calls + 1
    /\ status' = "error"
    /\ UNCHANGED <<input, source, at, phase, results, values, entries, saved>>

Consolidate ==
    /\ MayConsolidate
    /\ context = "complete" /\ root = Report
    /\ calls' = calls + 1
    /\ status' = "running"
    /\ at' = 1
    /\ phase' = "collect"
    /\ results' = [s \in Sandis |-> Null]
    /\ UNCHANGED <<input, source, values, entries, saved>>

-----------------------------------------------------------------------------
(* One row.                                                                 *)

Current == rows[at]
HasSandi(r) == r.sandi # NoSandi
IsRun(r)    == HasSandi(r) /\ r.script # "absent"
Matches(r, k) ==
    \/ r.pic = "All LJK" /\ TypeOf[k] # "none"
    \/ r.pic = "Bank" /\ TypeOf[k] = "BANK"

\* Mutant of Collect: a sandiRevamp that is in the table is left there.
CollectKeeps ==
    /\ phase = "collect" /\ at <= Len(rows)
    /\ phase' = "evaluate"
    /\ UNCHANGED <<input, source, status, calls, at, results, values, entries, saved>>

\* The result of an earlier row with the same sandiRevamp is forgotten.
Collect ==
    /\ phase = "collect" /\ at <= Len(rows)
    /\ results' = IF HasSandi(Current) THEN [results EXCEPT ![Current.sandi] = Null] ELSE results
    /\ phase' = "evaluate"
    /\ UNCHANGED <<input, source, status, calls, at, values, entries, saved>>

\* Mutant of NoScript: the loop goes on with the next row half-way.
NoScriptContinues ==
    /\ phase = "evaluate" /\ ~IsRun(Current)
    /\ at' = at + 1
    /\ UNCHANGED <<input, source, status, calls, phase, results, values, entries, saved>>

NoScript ==
    /\ phase = "evaluate" /\ ~IsRun(Current)
    /\ phase' = "deliver"
    /\ UNCHANGED <<input, source, status, calls, at, results, values, entries, saved>>

\* Mutant of CompileFails: the row is passed over, as evaluate_src_inherent
\* does.
CompileFailsAndGoesOn ==
    /\ phase = "evaluate" /\ IsRun(Current) /\ Current.script = "broken"
    /\ phase' = "deliver"
    /\ UNCHANGED <<input, source, status, calls, at, results, values, entries, saved>>

\* The function returns at once; the rows before this one keep their results
\* in memory.
CompileFails ==
    /\ phase = "evaluate" /\ IsRun(Current) /\ Current.script = "broken"
    /\ status' = "error"
    /\ phase' = "idle"
    /\ UNCHANGED <<input, source, calls, at, results, values, entries, saved>>

ReadsClean(sandis) ==
    \A k \in Companies : \A e \in entries[k] : e.sandi \in sandis => e.from = 0

\* A second evaluation appends a second logicKonsolidasiResult.
Run ==
    /\ phase = "evaluate" /\ IsRun(Current) /\ Current.script = "runs"
    /\ LET r == [from |-> at, clean |-> ReadsClean(Current.reads)]
       IN  /\ results' = [results EXCEPT ![Current.sandi] = r]
           /\ values' = [values EXCEPT ![at] = Append(@, r.clean)]
    /\ phase' = "deliver"
    /\ UNCHANGED <<input, source, status, calls, at, entries, saved>>

Element(s) == [sandi |-> s, from |-> results[s].from, at |-> at, call |-> calls]

\* Mutant of Delivered: the key is the first sandiRevamp of the document.
DeliveredFirstKey(k) ==
    {Element(s) : s \in {s \in Sandis \cap {rows[1].sandi} :
                          Matches(Current, k) /\ results[s] # Null}}

Delivered(k) ==
    {Element(s) : s \in {s \in Sandis \cap {Current.sandi} :
                          Matches(Current, k) /\ results[s] # Null}}

\* The elements go into the company document that the next script reads.
Deliver ==
    /\ phase = "deliver"
    /\ entries' = [k \in Companies |-> entries[k] \cup Delivered(k)]
    /\ at' = at + 1
    /\ phase' = "collect"
    /\ UNCHANGED <<input, source, status, calls, results, values, saved>>

\* xmlSaveFile may fail: before it opened the file, while it wrote it, which
\* leaves no whole one, or when it closes it.  The results are in memory all
\* the same.
Save ==
    /\ phase = "collect" /\ at > Len(rows)
    /\ \/ status' = "success" /\ saved' = <<values>>
       \/ status' = "error" /\ saved' \in {saved, <<>>, <<values>>}
    /\ phase' = "idle"
    /\ UNCHANGED <<input, source, calls, at, results, values, entries>>

Next ==
    \/ EvaluateSource \/ Reject \/ Consolidate
    \/ Collect \/ NoScript \/ CompileFails \/ Run \/ Deliver \/ Save

Spec == Init /\ [][Next]_vars

-----------------------------------------------------------------------------
TypeOK ==
    /\ rows \in Seq(Row)
    /\ caller \in {"cli", "library"} /\ context \in {"complete", "incomplete"}
    /\ source \in {"not called", "success", "error"}
    /\ status \in {"not called", "running", "success", "error"}
    /\ calls \in 0..MaxCalls
    /\ at \in 0..Len(rows) + 1
    /\ phase \in {"idle", "collect", "evaluate", "deliver"}
    /\ phase \in {"evaluate", "deliver"} => at \in DOMAIN rows
    /\ results \in [Sandis -> Result]
    /\ values \in [DOMAIN rows -> Seq(BOOLEAN)]
    /\ entries \in [Companies -> SUBSET Entry]
    /\ saved \in Seq([DOMAIN rows -> Seq(BOOLEAN)])

(***************************************************************************)
(* An element that a row appends to a company carries the result of that    *)
(* row's own script, also where rows share a sandiRevamp and the later one  *)
(* has no script, or the report is evaluated again.                         *)
(***************************************************************************)
ResultsAreOwn ==
    \A k \in Companies : \A e \in entries[k] :
        e.from = e.at /\ (e.at # 0 => e.sandi = rows[e.at].sandi)

(***************************************************************************)
(* The documents agree whenever the function has returned: every result in  *)
(* a row is at every company the row is for, as often, and nowhere else,    *)
(* also when a later row did not compile.  A whole file is only written     *)
(* after every script was run: none is missing in it, and none was run more *)
(* often than another, also where it is left from an earlier call because a *)
(* later one failed.  After a success it is what the memory holds.          *)
(***************************************************************************)
CompaniesAgree ==
    \A i \in DOMAIN rows : \A k \in Companies :
        Cardinality({e \in entries[k] : e.at = i}) =
            IF Matches(rows[i], k) THEN Len(values[i]) ELSE 0

SavedIsComplete ==
    saved # <<>> =>
        \E n \in 1..MaxCalls : \A i \in DOMAIN rows :
            Len(saved[1][i]) = IF IsRun(rows[i]) THEN n ELSE 0

SavedIsCurrent == status = "success" => saved = <<values>>

DocumentsAgree == phase = "idle" => CompaniesAgree /\ SavedIsComplete /\ SavedIsCurrent

\* Nothing behind a script that does not compile is evaluated.
Delivers(j) ==
    /\ IsRun(rows[j]) /\ \E k \in Companies : Matches(rows[j], k)
    /\ \A h \in 1..j : IsRun(rows[h]) => rows[h].script = "runs"

(***************************************************************************)
(* Scripts read what consolidations append.  A result is free of it exactly *)
(* if no row before this one delivers under a sandiRevamp the script reads, *)
(* and for a second result if no row at all does: the order of the rows     *)
(* decides, and a second evaluation does not repeat the first.              *)
(***************************************************************************)
MixedExactlyIfReadBack ==
    \A i \in DOMAIN rows : \A n \in DOMAIN values[i] :
        values[i][n] = ~ \E j \in DOMAIN rows :
            Delivers(j) /\ rows[j].sandi \in rows[i].reads /\ (j < i \/ n > 1)

-----------------------------------------------------------------------------
(***************************************************************************)
(* ilf/src/eval.h:27, "evaluates ljk logic for each record in the           *)
(* sourceInherentRevampReport", and ilf/test/eval_test1.c:44,               *)
(* "g_assert_cmpint(st, ==, ILF_SUCCESS)": the source evaluation of a       *)
(* report, with pic_doc and memo set, succeeds.                             *)
(***************************************************************************)
SourceEvaluationsSucceed ==
    root = Report /\ context = "complete" => source # "error"
=============================================================================
