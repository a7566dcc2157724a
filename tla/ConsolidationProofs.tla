------------------------ MODULE ConsolidationProofs ------------------------
(***************************************************************************)
(* For every report and every set of companies: the elements that a row     *)
(* appends carry the result of its own script, and the documents agree      *)
(* whenever the evaluation has returned.                                    *)
(*                                                                         *)
(* ResultsAreOwn is not inductive: Deliver takes whatever the table holds   *)
(* under the sandiRevamp of the row.  TableInv says what that is: nothing   *)
(* when the script is about to run, and after that nothing or its result.   *)
(*                                                                         *)
(* DocumentsAgree holds between calls only: AgreeInv counts, within a call, *)
(* the one result that a row has and has not delivered yet (Owed), bounds   *)
(* what is delivered by the row and the call (CallInv), and says which rows *)
(* have run in this call (RanInv).                                          *)
(*                                                                         *)
(* MixedExactlyIfReadBack follows from those counts: the elements a script  *)
(* finds are those of the rows that have delivered when it runs.            *)
(***************************************************************************)
EXTENDS Consolidation, FiniteSetTheorems, TLAPS

TableInv ==
    /\ phase = "evaluate" /\ HasSandi(Current) => results[Current.sandi] = Null
    /\ phase = "deliver" /\ HasSandi(Current) =>
           results[Current.sandi] = Null \/ results[Current.sandi].from = at

ConsolidationInv == TypeOK /\ TableInv /\ ResultsAreOwn

\* The numbers that TypeOK is about.
LEMMA Numbers ==
    TypeOK => /\ rows \in Seq(Row) /\ Len(rows) \in Nat /\ DOMAIN rows = 1..Len(rows)
              /\ at \in Nat /\ at <= Len(rows) + 1
              /\ calls \in Nat /\ calls <= MaxCalls /\ MaxCalls \in Nat
<1> SUFFICES ASSUME TypeOK PROVE  /\ rows \in Seq(Row) /\ Len(rows) \in Nat /\ DOMAIN rows = 1..Len(rows)
                                   /\ at \in Nat /\ at <= Len(rows) + 1
                                   /\ calls \in Nat /\ calls <= MaxCalls /\ MaxCalls \in Nat
  OBVIOUS
<1>1. rows \in Seq(Row) /\ at \in 0..Len(rows) + 1 /\ calls \in 0..MaxCalls
  BY DEF TypeOK
<1> QED
  BY <1>1, ConsolidationAssumption

LEMMA InitInv == Init => ConsolidationInv
<1> SUFFICES ASSUME Init PROVE ConsolidationInv
  OBVIOUS
<1>1. rows \in Seq(Row)
  BY ConsolidationAssumption DEF Init
<1>2. results \in [Sandis -> Result]
  BY DEF Init, Null, Result
<1>3. \A e \in SourceEntries : e \in Entry /\ e.from = 0 /\ e.at = 0
  BY DEF SourceEntries, Entry
<1>3a. entries = [k \in Companies |-> SourceEntries]
  BY DEF Init
<1>4. entries \in [Companies -> SUBSET Entry]
  BY <1>3, <1>3a
<1>5. values \in [DOMAIN rows -> Seq(BOOLEAN)]
  <2>1. values = [i \in DOMAIN rows |-> <<>>]
    BY DEF Init
  <2>2. <<>> \in Seq(BOOLEAN)
    OBVIOUS
  <2> QED
    BY ONLY <2>1, <2>2
<1>6. calls \in 0..MaxCalls /\ at \in 0..Len(rows) + 1
  <2>1. calls = 0 /\ at = 0
    BY DEF Init
  <2>2. Len(rows) \in Nat
    BY <1>1
  <2> QED
    BY <2>1, <2>2, ConsolidationAssumption
<1>6a. saved \in Seq([DOMAIN rows -> Seq(BOOLEAN)])
  <2>1. saved = <<>>
    BY DEF Init
  <2> QED
    BY <2>1
<1>6b. /\ caller \in {"cli", "library"} /\ context \in {"complete", "incomplete"}
       /\ source = "not called" /\ status = "not called" /\ phase = "idle"
  BY DEF Init
<1>7. TypeOK
  BY <1>1, <1>2, <1>4, <1>5, <1>6, <1>6a, <1>6b DEF TypeOK
<1>8. TableInv
  BY <1>6b DEF TableInv
<1>9. ResultsAreOwn
  BY <1>3, <1>3a DEF ResultsAreOwn
<1> QED
  BY <1>7, <1>8, <1>9 DEF ConsolidationInv

(***************************************************************************)
(* In the middle of a row.                                                  *)
(***************************************************************************)
LEMMA AtARow ==
    ASSUME TypeOK, at <= Len(rows), at # 0
    PROVE  /\ at \in DOMAIN rows /\ Current \in Row
           /\ HasSandi(Current) => Current.sandi \in Sandis
<1>2. at \in DOMAIN rows
  BY Numbers
<1>3. Current \in Row
  BY <1>2, Numbers DEF Current
<1> QED
  BY <1>2, <1>3 DEF Row, HasSandi

LEMMA CollectInv == ConsolidationInv /\ at # 0 /\ Collect => ConsolidationInv'
<1> SUFFICES ASSUME ConsolidationInv, at # 0, Collect PROVE ConsolidationInv'
  OBVIOUS
<1> USE DEF ConsolidationInv, input
<1>1. /\ at <= Len(rows) /\ phase' = "evaluate"
      /\ results' = IF HasSandi(Current) THEN [results EXCEPT ![Current.sandi] = Null] ELSE results
      /\ UNCHANGED <<input, source, status, calls, at, values, entries, saved>>
  BY DEF Collect
<1>2. HasSandi(Current) => Current.sandi \in Sandis
  BY <1>1, AtARow
<1>3. Current' = Current
  BY <1>1 DEF Current
<1>4. TypeOK'
  BY <1>1, <1>2, AtARow DEF TypeOK, Null, Result
<1>5. TableInv'
  BY <1>1, <1>2, <1>3 DEF TableInv, HasSandi, TypeOK
<1>6. ResultsAreOwn'
  BY <1>1 DEF ResultsAreOwn
<1> QED
  BY <1>4, <1>5, <1>6

LEMMA RunInv == ConsolidationInv /\ at # 0 /\ Run => ConsolidationInv'
<1> SUFFICES ASSUME ConsolidationInv, at # 0, Run PROVE ConsolidationInv'
  OBVIOUS
<1> USE DEF ConsolidationInv, input
<1> DEFINE r == [from |-> at, clean |-> ReadsClean(Current.reads)]
<1>1. /\ phase = "evaluate" /\ phase' = "deliver" /\ HasSandi(Current)
      /\ results' = [results EXCEPT ![Current.sandi] = r]
      /\ values' = [values EXCEPT ![at] = Append(@, r.clean)]
      /\ UNCHANGED <<input, source, status, calls, at, entries, saved>>
  BY DEF Run, IsRun
<1>2. at \in DOMAIN rows /\ Current.sandi \in Sandis
  <2>1. at \in DOMAIN rows
    BY <1>1 DEF TypeOK
  <2> QED
    BY <1>1, <2>1, AtARow, Numbers
<1>3. r \in Result
  <2>1. ReadsClean(Current.reads) \in BOOLEAN
    BY DEF ReadsClean
  <2> QED
    BY <2>1, Numbers DEF Result
<1>4. Current' = Current
  BY <1>1 DEF Current
<1> HIDE DEF r
<1>5. r.clean \in BOOLEAN
  BY <1>3 DEF Result
<1>6. values' \in [DOMAIN rows -> Seq(BOOLEAN)]
  <2>1. values \in [DOMAIN rows -> Seq(BOOLEAN)]
    BY DEF TypeOK
  <2>2. values[at] \in Seq(BOOLEAN)
    BY <1>2, <2>1
  <2>3. Append(values[at], r.clean) \in Seq(BOOLEAN)
    BY <1>5, <2>2
  <2> QED
    BY <1>1, <1>2, <2>1, <2>3
<1>7. TypeOK'
  BY <1>1, <1>2, <1>3, <1>6 DEF TypeOK
<1>8. r.from = at
  BY DEF r
<1>9. TableInv'
  BY <1>1, <1>2, <1>4, <1>8 DEF TableInv, HasSandi, TypeOK
<1>10. ResultsAreOwn'
  BY <1>1 DEF ResultsAreOwn
<1> QED
  BY <1>7, <1>9, <1>10

LEMMA DeliverInv == ConsolidationInv /\ Deliver => ConsolidationInv'
<1> SUFFICES ASSUME ConsolidationInv, Deliver PROVE ConsolidationInv'
  OBVIOUS
<1> USE DEF ConsolidationInv, input
<1>1. /\ phase = "deliver" /\ phase' = "collect" /\ at' = at + 1
      /\ entries' = [k \in Companies |-> entries[k] \cup Delivered(k)]
      /\ UNCHANGED <<input, source, status, calls, results, values, saved>>
  BY DEF Deliver
<1>2. at \in DOMAIN rows
  BY <1>1 DEF TypeOK
\* What is delivered is the result of this row.
<1>3. ASSUME NEW k \in Companies, NEW e \in Delivered(k)
      PROVE  e \in Entry /\ e.from = e.at /\ e.at = at /\ e.sandi = rows[at].sandi
  <2>1. PICK s \in Sandis : s = Current.sandi /\ results[s] # Null /\ e = Element(s)
    BY <1>3 DEF Delivered
  <2>2. HasSandi(Current)
    BY <2>1, ConsolidationAssumption DEF HasSandi
  <2>3. results[s].from = at
    BY <1>1, <2>1, <2>2 DEF TableInv
  <2>4. at \in Nat /\ calls \in Nat
    BY Numbers
  <2> QED
    BY <2>1, <2>3, <2>4 DEF Element, Entry, Current
<1>4. TypeOK'
  <2>1. entries' \in [Companies -> SUBSET Entry]
    BY <1>1, <1>3 DEF TypeOK
  <2>2. at' \in 0..Len(rows) + 1
    BY <1>1, <1>2, Numbers
  <2> QED
    BY <1>1, <2>1, <2>2 DEF TypeOK
<1>5. ResultsAreOwn'
  <2> SUFFICES ASSUME NEW k \in Companies, NEW e \in entries[k] \cup Delivered(k)
               PROVE  e.from = e.at /\ (e.at # 0 => e.sandi = rows[e.at].sandi)
    BY <1>1 DEF ResultsAreOwn
  <2> QED
    BY <1>3 DEF ResultsAreOwn
<1>6. TableInv'
  BY <1>1 DEF TableInv
<1> QED
  BY <1>4, <1>5, <1>6

(***************************************************************************)
(* The other steps leave the table and the elements alone; AtInv is what    *)
(* they need of the row that is being evaluated.                            *)
(***************************************************************************)
AtInv == phase # "idle" => at # 0

LEMMA NextInv == ConsolidationInv /\ AtInv /\ [Next]_vars => ConsolidationInv' /\ AtInv'
<1> SUFFICES ASSUME ConsolidationInv, AtInv, [Next]_vars PROVE ConsolidationInv' /\ AtInv'
  OBVIOUS
<1>a. AtInv'
  <2>1. at \in Nat
    BY Numbers DEF ConsolidationInv
  <2>2. CASE Consolidate \/ Deliver
    BY <2>1, <2>2 DEF AtInv, Consolidate, Deliver
  <2>3. CASE EvaluateSource \/ Reject \/ Save \/ CompileFails
    BY <2>3 DEF AtInv, EvaluateSource, Reject, MayConsolidate, Save, CompileFails
  <2>4. CASE Collect \/ NoScript \/ Run
    BY <2>4 DEF AtInv, Collect, NoScript, Run
  <2>5. CASE UNCHANGED vars
    BY <2>5 DEF AtInv, vars
  <2> QED
    BY <2>2, <2>3, <2>4, <2>5 DEF Next
<1> USE DEF ConsolidationInv, input
<1>1. CASE EvaluateSource
  <2> USE <1>1 DEF EvaluateSource
  <2>1. TypeOK'
    BY DEF TypeOK
  <2> QED
    BY <2>1, <1>a DEF TableInv, ResultsAreOwn, Current
<1>2. CASE Reject
  <2> USE <1>2 DEF Reject, MayConsolidate
  <2>1. calls' \in 0..MaxCalls
    BY Numbers
  <2>2. TypeOK'
    BY <2>1 DEF TypeOK
  <2> QED
    BY <2>2, <1>a DEF TableInv, ResultsAreOwn, Current
<1>3. CASE Consolidate
  <2> USE <1>3 DEF Consolidate, MayConsolidate
  <2>1. calls' \in 0..MaxCalls
    BY Numbers
  <2>2. results' \in [Sandis -> Result] /\ at' \in 0..Len(rows) + 1
    BY Numbers DEF Null, Result
  <2>3. TypeOK'
    BY <2>1, <2>2 DEF TypeOK
  <2> QED
    BY <2>3, <1>a DEF TableInv, ResultsAreOwn
<1>4. CASE Collect
  BY <1>4, <1>a, CollectInv DEF AtInv, Collect
<1>5. CASE NoScript
  <2> USE <1>5 DEF NoScript
  <2>1. TypeOK'
    BY DEF TypeOK
  <2> QED
    BY <2>1, <1>a DEF TableInv, ResultsAreOwn, Current
<1>6. CASE CompileFails
  <2> USE <1>6 DEF CompileFails
  <2>1. TypeOK'
    BY DEF TypeOK
  <2> QED
    BY <2>1, <1>a DEF TableInv, ResultsAreOwn
<1>7. CASE Run
  BY <1>7, <1>a, RunInv DEF AtInv, Run
<1>8. CASE Deliver
  BY <1>8, <1>a, DeliverInv
<1>9. CASE Save
  <2> USE <1>9 DEF Save
  <2> DEFINE S == [DOMAIN rows -> Seq(BOOLEAN)]
  <2>0. values \in S /\ saved \in Seq(S)
    BY DEF TypeOK
  <2>a. saved' = <<values>> \/ saved' = saved \/ saved' = <<>>
    OBVIOUS
  <2>b. ASSUME NEW T, NEW v \in T PROVE <<v>> \in Seq(T)
    OBVIOUS
  <2> HIDE DEF S
  <2>c. <<values>> \in Seq(S)
    BY ONLY <2>0, <2>b
  <2>d. <<>> \in Seq(S)
    OBVIOUS
  <2>1. saved' \in Seq(S)
    BY ONLY <2>0, <2>a, <2>c, <2>d
  <2> USE DEF S
  <2>2. TypeOK'
    BY <2>1 DEF TypeOK
  <2> QED
    BY <2>2, <1>a DEF TableInv, ResultsAreOwn
<1>10. CASE UNCHANGED vars
  <2> USE <1>10 DEF vars
  <2>1. TypeOK'
    BY DEF TypeOK
  <2> QED
    BY <2>1, <1>a DEF TableInv, ResultsAreOwn, Current
<1> QED
  BY <1>1, <1>2, <1>3, <1>4, <1>5, <1>6, <1>7, <1>8, <1>9, <1>10 DEF Next

(***************************************************************************)
(* Type correctness, for every report.                                      *)
(***************************************************************************)
THEOREM ConsolidationTypeCorrect == Spec => []TypeOK
<1>1. Init => AtInv
  BY DEF Init, AtInv
<1>2. ConsolidationInv => TypeOK
  BY DEF ConsolidationInv
<1> QED
  BY <1>1, <1>2, InitInv, NextInv, PTL DEF Spec

(***************************************************************************)
(* Whatever the rows, their sandiRevamps, and the calls: no row appends the *)
(* result of another one.                                                   *)
(***************************************************************************)
THEOREM ResultsAreAlwaysOwn == Spec => []ResultsAreOwn
<1>1. Init => AtInv
  BY DEF Init, AtInv
<1>2. ConsolidationInv => ResultsAreOwn
  BY DEF ConsolidationInv
<1> QED
  BY <1>1, <1>2, InitInv, NextInv, PTL DEF Spec

-----------------------------------------------------------------------------
(* The documents agree.                                                     *)

\* What row i has delivered to company k, and whether it still owes a result.
Of(k, i) == {e \in entries[k] : e.at = i}
Owed(i)  == IF phase = "deliver" /\ i = at /\ IsRun(rows[i]) THEN 1 ELSE 0

CountInv ==
    \A i \in DOMAIN rows : \A k \in Companies :
        /\ IsFiniteSet(Of(k, i))
        /\ Cardinality(Of(k, i)) =
               IF Matches(rows[i], k) THEN Len(values[i]) - Owed(i) ELSE 0

\* A row delivers at most once in a call.
CallInv ==
    \A k \in Companies : \A e \in entries[k] :
        /\ e.call <= calls
        /\ e.call = calls /\ phase # "idle" /\ e.at # 0 => e.at < at

\* The table holds the result of the row if it has run, and nothing if not.
RowInv ==
    phase = "deliver" /\ HasSandi(Current) =>
        IF IsRun(Current) THEN results[Current.sandi].from = at
        ELSE results[Current.sandi] = Null

\* How often a row has run: once a call, if no script before it is broken.
Broken(i) == IsRun(rows[i]) /\ rows[i].script = "broken"
Ran(i)    == phase = "idle" \/ i < at \/ (i = at /\ phase = "deliver")
RanInv ==
    /\ phase # "idle" => /\ context = "complete" /\ root = Report /\ calls # 0
                         /\ \A i \in DOMAIN rows : Ran(i) => ~Broken(i)
    /\ \A i \in DOMAIN rows : ~IsRun(rows[i]) => Len(values[i]) = 0
    /\ context = "complete" /\ root = Report =>
           \A i \in DOMAIN rows :
               IsRun(rows[i]) /\ (\A h \in 1..i : ~Broken(h)) =>
                   Len(values[i]) = IF Ran(i) THEN calls ELSE calls - 1

\* What a success has written is not changed before the next call.
CurrentInv == phase = "idle" => SavedIsCurrent

AgreeInv == CountInv /\ CallInv /\ RowInv /\ RanInv /\ SavedIsComplete /\ CurrentInv

\* Before the first call.
LEMMA InitAgree == Init => AgreeInv
<1> SUFFICES ASSUME Init PROVE AgreeInv
  OBVIOUS
<1>1. /\ phase = "idle" /\ calls = 0 /\ saved = <<>>
      /\ values = [i \in DOMAIN rows |-> <<>>]
      /\ entries = [k \in Companies |-> SourceEntries]
  BY DEF Init
<1>2. rows \in Seq(Row)
  BY ConsolidationAssumption DEF Init
<1>3. CountInv
  <2> SUFFICES ASSUME NEW i \in DOMAIN rows, NEW k \in Companies
               PROVE  /\ IsFiniteSet(Of(k, i))
                      /\ Cardinality(Of(k, i)) =
                           IF Matches(rows[i], k) THEN Len(values[i]) - Owed(i) ELSE 0
    BY DEF CountInv
  <2>1. i # 0
    BY <1>2
  <2>2. Of(k, i) = {}
    BY <1>1, <2>1 DEF Of, SourceEntries
  <2>3. Len(values[i]) = 0 /\ Owed(i) = 0
    BY <1>1 DEF Owed
  <2> QED
    BY <2>2, <2>3, FS_EmptySet
<1>4. CallInv
  BY <1>1 DEF CallInv, SourceEntries
<1>5. RanInv
  BY <1>1 DEF RanInv, Ran
<1>6. CurrentInv
  BY DEF Init, CurrentInv, SavedIsCurrent
<1> QED
  BY <1>1, <1>3, <1>4, <1>5, <1>6 DEF AgreeInv, RowInv, SavedIsComplete

\* Steps that run and deliver nothing.
LEMMA QuietAgree ==
    ASSUME ConsolidationInv, AtInv, AgreeInv,
           \/ EvaluateSource \/ Reject \/ Consolidate \/ Collect \/ NoScript
           \/ CompileFails \/ Save \/ UNCHANGED vars
    PROVE  AgreeInv'
<1>1. UNCHANGED <<rows, root, context, entries, values>>
  BY DEF EvaluateSource, Reject, Consolidate, Collect, NoScript, CompileFails, Save, vars, input
<1>2. TypeOK /\ DOMAIN rows = 1..Len(rows) /\ Len(rows) \in Nat /\ at \in Nat /\ calls \in Nat
      /\ MaxCalls \in Nat /\ calls <= MaxCalls
  BY Numbers DEF ConsolidationInv
<1>3. \A i \in DOMAIN rows : Owed(i)' = Owed(i)
  <2>1. CASE NoScript
    BY <1>1, <2>1 DEF NoScript, Owed, Current, IsRun, HasSandi
  <2>2. CASE UNCHANGED vars
    BY <2>2 DEF vars, input, Owed, IsRun, HasSandi
  <2>3. CASE EvaluateSource \/ Reject \/ Consolidate \/ Collect \/ CompileFails \/ Save
    <3>1. phase # "deliver" /\ phase' # "deliver"
      BY <2>3 DEF EvaluateSource, Reject, Consolidate, MayConsolidate, Collect, CompileFails, Save
    <3> QED
      BY <3>1 DEF Owed
  <2> QED
    BY <2>1, <2>2, <2>3
<1>4. CountInv'
  BY <1>1, <1>3 DEF CountInv, Of, AgreeInv, Matches
<1>5. CallInv'
  <2> SUFFICES ASSUME NEW k \in Companies, NEW e \in entries[k]
               PROVE  /\ e.call <= calls'
                      /\ e.call = calls' /\ phase' # "idle" /\ e.at # 0 => e.at < at'
    BY <1>1 DEF CallInv
  <2>1. e \in Entry
    BY <1>2 DEF TypeOK
  <2>2. e.call \in Nat /\ e.at \in Nat
    BY <2>1 DEF Entry
  <2>3. e.call <= calls /\ (e.call = calls /\ phase # "idle" /\ e.at # 0 => e.at < at)
    BY DEF AgreeInv, CallInv
  <2>4. CASE Reject \/ Consolidate
    <3>1. calls' = calls + 1
      BY <2>4 DEF Reject, Consolidate
    <3> QED
      BY <1>2, <2>2, <2>3, <3>1
  <2>5. CASE \/ EvaluateSource \/ Collect \/ NoScript
             \/ CompileFails \/ Save \/ UNCHANGED vars
    <3>1. calls' = calls /\ (phase' # "idle" => phase # "idle" /\ at' = at)
      BY <2>5 DEF EvaluateSource, Collect, NoScript, CompileFails, Save, vars
    <3> QED
      BY <2>3, <3>1
  <2> QED
    BY <2>4, <2>5
<1>6. RowInv'
  <2>1. CASE NoScript
    <3>1. phase = "evaluate" /\ ~IsRun(Current) /\ results' = results /\ at' = at /\ rows' = rows
      BY <1>1, <2>1 DEF NoScript
    <3>2. HasSandi(Current) => results[Current.sandi] = Null
      BY <3>1 DEF ConsolidationInv, TableInv
    <3> QED
      BY <3>1, <3>2 DEF RowInv, Current, IsRun, HasSandi
  <2>2. CASE UNCHANGED vars
    BY <2>2 DEF vars, input, RowInv, AgreeInv, Current, IsRun, HasSandi
  <2>3. CASE EvaluateSource \/ Reject \/ Consolidate \/ Collect \/ CompileFails \/ Save
    <3>1. phase' # "deliver"
      BY <2>3 DEF EvaluateSource, Reject, Consolidate, MayConsolidate, Collect, CompileFails, Save
    <3> QED
      BY <3>1 DEF RowInv
  <2> QED
    BY <2>1, <2>2, <2>3
<1>7. RanInv'
  <2>0. RanInv /\ (\A i \in DOMAIN rows : i \in Nat)
    BY <1>2 DEF AgreeInv
  <2>a. \A i \in DOMAIN rows : Broken(i)' = Broken(i) /\ IsRun(rows[i])' = IsRun(rows[i])
    BY <1>1 DEF Broken, IsRun, HasSandi
  <2>b. \A i \in DOMAIN rows : \A h \in 1..i : h \in DOMAIN rows
    BY <1>2
  <2>1. CASE Consolidate
    <3>1. /\ phase = "idle" /\ phase' = "collect" /\ at' = 1 /\ calls' = calls + 1
          /\ context = "complete" /\ root = Report
      BY <2>1 DEF Consolidate, MayConsolidate
    <3>2. \A i \in DOMAIN rows : Ran(i) /\ ~Ran(i)'
      BY <1>1, <1>2, <3>1 DEF Ran
    <3> QED
      BY <1>1, <1>2, <2>0, <2>a, <2>b, <3>1, <3>2 DEF RanInv
  <2>2. CASE CompileFails
    <3>1. /\ phase = "evaluate" /\ phase' = "idle" /\ at' = at /\ calls' = calls
          /\ at \in DOMAIN rows /\ Broken(at)
      BY <1>2, <2>2 DEF CompileFails, Broken, Current, TypeOK
    <3>2. \A i \in DOMAIN rows : (\A h \in 1..i : ~Broken(h)) => Ran(i)
      BY <1>2, <3>1 DEF Ran
    <3>3. \A i \in DOMAIN rows : Ran(i)'
      BY <3>1 DEF Ran
    <3> QED
      BY <1>1, <1>2, <2>0, <2>a, <2>b, <3>1, <3>2, <3>3 DEF RanInv
  <2>3. CASE Save
    <3>1. /\ phase = "collect" /\ phase' = "idle" /\ at' = at /\ calls' = calls /\ at > Len(rows)
      BY <2>3 DEF Save
    <3>2. \A i \in DOMAIN rows : Ran(i) /\ Ran(i)'
      BY <1>2, <3>1 DEF Ran
    <3> QED
      BY <1>1, <1>2, <2>0, <2>a, <2>b, <3>1, <3>2 DEF RanInv
  <2>4. CASE Reject
    <3>1. /\ phase = "idle" /\ phase' = "idle" /\ at' = at
          /\ ~(context = "complete" /\ root = Report)
      BY <1>2, <2>4 DEF Reject, MayConsolidate, TypeOK
    <3> QED
      BY <1>1, <2>0, <2>a, <3>1 DEF RanInv
  <2>5. CASE NoScript
    <3>1. /\ phase = "evaluate" /\ phase' = "deliver" /\ at' = at /\ calls' = calls
          /\ ~IsRun(rows[at])
      BY <2>5 DEF NoScript, Current
    <3>2. ~Broken(at)
      BY <3>1 DEF Broken
    <3>3. \A i \in DOMAIN rows : i # at => Ran(i)' = Ran(i)
      BY <1>1, <3>1 DEF Ran
    <3> QED
      BY <1>1, <1>2, <2>0, <2>a, <2>b, <3>1, <3>2, <3>3 DEF RanInv
  <2>6. CASE EvaluateSource \/ Collect \/ UNCHANGED vars
    <3>1. /\ at' = at /\ calls' = calls
          /\ (phase' = "idle" <=> phase = "idle") /\ (phase' = "deliver" <=> phase = "deliver")
      BY <2>6 DEF EvaluateSource, Collect, vars
    <3>2. \A i \in DOMAIN rows : Ran(i)' = Ran(i)
      BY <1>1, <3>1 DEF Ran
    <3> QED
      BY <1>1, <1>2, <2>0, <2>a, <2>b, <3>1, <3>2 DEF RanInv
  <2> QED
    BY <2>1, <2>2, <2>3, <2>4, <2>5, <2>6
<1>8. SavedIsComplete'
  <2>1. CASE saved' = saved
    BY <1>1, <2>1 DEF AgreeInv, SavedIsComplete, IsRun, HasSandi
  <2>2. CASE Save /\ saved' = <<values>>
    <3>1. phase = "collect" /\ at > Len(rows)
      BY <2>2 DEF Save
    <3>2. \A i \in DOMAIN rows : Ran(i)
      BY <1>2, <3>1 DEF Ran
    <3>3. RanInv /\ calls \in 1..MaxCalls /\ context = "complete" /\ root = Report
      BY <1>2, <3>1 DEF AgreeInv, RanInv
    <3>4. \A i \in DOMAIN rows : ~Broken(i)
      BY <3>1, <3>2, <3>3 DEF RanInv
    <3>5. \A i \in DOMAIN rows : \A h \in 1..i : h \in DOMAIN rows
      BY <1>2
    <3>6. \A i \in DOMAIN rows : Len(values[i]) = IF IsRun(rows[i]) THEN calls ELSE 0
      BY <3>2, <3>3, <3>4, <3>5 DEF RanInv
    <3>7. saved'[1] = values
      BY <2>2
    <3> QED
      BY <1>1, <3>3, <3>6, <3>7 DEF SavedIsComplete, IsRun, HasSandi
  <2>3. CASE saved' = <<>>
    BY <2>3 DEF SavedIsComplete
  <2>4. saved' = saved \/ saved' = <<>> \/ (Save /\ saved' = <<values>>)
    BY DEF EvaluateSource, Reject, Consolidate, Collect, NoScript, CompileFails, Save, vars
  <2> QED
    BY <2>1, <2>2, <2>3, <2>4
<1>9. CurrentInv'
  <2>1. CASE EvaluateSource \/ UNCHANGED vars
    <3>1. UNCHANGED <<phase, status, saved, values>>
      BY <2>1 DEF EvaluateSource, vars
    <3> QED
      BY <3>1 DEF AgreeInv, CurrentInv, SavedIsCurrent
  <2>2. CASE Reject \/ CompileFails
    <3>1. status' = "error"
      BY <2>2 DEF Reject, CompileFails
    <3> QED
      BY <3>1 DEF CurrentInv, SavedIsCurrent
  <2>3. CASE Consolidate \/ Collect \/ NoScript
    <3>1. phase' # "idle"
      BY <2>3 DEF Consolidate, Collect, NoScript
    <3> QED
      BY <3>1 DEF CurrentInv
  <2>4. CASE Save
    <3>1. status' = "error" \/ saved' = <<values>>
      BY <2>4 DEF Save
    <3> QED
      BY <1>1, <3>1 DEF CurrentInv, SavedIsCurrent
  <2> QED
    BY <2>1, <2>2, <2>3, <2>4
<1> QED
  BY <1>4, <1>5, <1>6, <1>7, <1>8, <1>9 DEF AgreeInv

\* Lengths are numbers, and the row is one of the report where it is used.
LEMMA Lengths ==
    ASSUME TypeOK
    PROVE  /\ \A i \in DOMAIN rows : Len(values[i]) \in Nat /\ Owed(i) \in {0, 1}
           /\ \A k \in Companies : \A e \in entries[k] : e.at \in Nat /\ e.call \in Nat
           /\ phase \in {"evaluate", "deliver"} => at \in DOMAIN rows /\ at # 0
<1>1. values \in [DOMAIN rows -> Seq(BOOLEAN)] /\ entries \in [Companies -> SUBSET Entry]
  BY DEF TypeOK
<1>2. \A i \in DOMAIN rows : values[i] \in Seq(BOOLEAN)
  BY <1>1
<1>3. \A i \in DOMAIN rows : Len(values[i]) \in Nat
  BY <1>2
<1>4. \A k \in Companies : \A e \in entries[k] : e \in Entry
  BY <1>1
<1>5. \A k \in Companies : \A e \in entries[k] : e.at \in Nat /\ e.call \in Nat
  BY <1>4 DEF Entry
<1>6. phase \in {"evaluate", "deliver"} => at \in DOMAIN rows
  BY DEF TypeOK
<1>7. \A i \in DOMAIN rows : i # 0
  BY Numbers
<1> QED
  BY <1>3, <1>5, <1>6, <1>7 DEF Owed

\* A script that runs: the row owes its result to the companies.
LEMMA RunAgree ==
    ASSUME ConsolidationInv, AtInv, AgreeInv, Run
    PROVE  AgreeInv'
<1>1. UNCHANGED <<rows, root, context, entries, saved, at, calls>>
  BY DEF Run, input
<1>2. TypeOK /\ DOMAIN rows = 1..Len(rows) /\ Len(rows) \in Nat /\ at \in Nat /\ calls \in Nat
  BY Numbers DEF ConsolidationInv
<1>3. /\ phase = "evaluate" /\ phase' = "deliver" /\ IsRun(Current) /\ rows[at].script = "runs"
  BY DEF Run, Current
<1>4. at \in DOMAIN rows /\ HasSandi(Current) /\ Current.sandi \in Sandis
  <2>1. at \in DOMAIN rows /\ at <= Len(rows) /\ at # 0
    BY <1>2, <1>3, Lengths
  <2> QED
    BY <1>2, <1>3, <2>1, AtARow DEF IsRun
<1>5. /\ values' = [values EXCEPT ![at] = Append(@, ReadsClean(Current.reads))]
      /\ results' = [results EXCEPT ![Current.sandi] =
                        [from |-> at, clean |-> ReadsClean(Current.reads)]]
  BY DEF Run
<1>6. values \in [DOMAIN rows -> Seq(BOOLEAN)] /\ results \in [Sandis -> Result]
  BY <1>2 DEF TypeOK
<1>7. /\ \A i \in DOMAIN rows : Len(values[i]) \in Nat
      /\ Len(values'[at]) = Len(values[at]) + 1
      /\ \A i \in DOMAIN rows : i # at => values'[i] = values[i]
  BY <1>4, <1>5, <1>6 DEF ReadsClean
<1>8. /\ \A i \in DOMAIN rows : Owed(i) = 0
      /\ \A i \in DOMAIN rows : Owed(i)' = IF i = at THEN 1 ELSE 0
  BY <1>1, <1>3 DEF Owed, IsRun, HasSandi, Current
<1>9. CountInv'
  <2> SUFFICES ASSUME NEW i \in DOMAIN rows, NEW k \in Companies
               PROVE  /\ IsFiniteSet(Of(k, i))
                      /\ Cardinality(Of(k, i)) =
                           IF Matches(rows[i], k) THEN Len(values'[i]) - Owed(i)' ELSE 0
    BY <1>1 DEF CountInv, Of, Matches
  <2>1. /\ IsFiniteSet(Of(k, i))
        /\ Cardinality(Of(k, i)) =
             IF Matches(rows[i], k) THEN Len(values[i]) - Owed(i) ELSE 0
    BY DEF AgreeInv, CountInv
  <2>2. Len(values'[i]) - Owed(i)' = Len(values[i]) - Owed(i)
    <3>1. CASE i = at
      BY <1>4, <1>7, <1>8, <3>1
    <3>2. CASE i # at
      BY <1>7, <1>8, <3>2
    <3> QED
      BY <3>1, <3>2
  <2> QED
    BY <2>1, <2>2
<1>10. CallInv'
  BY <1>1, <1>3 DEF AgreeInv, CallInv
<1>11. RowInv'
  <2>1. results'[Current.sandi].from = at
    BY <1>4, <1>5, <1>6
  <2> QED
    BY <1>1, <1>3, <2>1 DEF RowInv, Current, IsRun, HasSandi
<1>12. RanInv'
  <2>0. RanInv /\ (\A i \in DOMAIN rows : i \in Nat)
    BY <1>2 DEF AgreeInv
  <2>1. \A i \in DOMAIN rows : Broken(i)' = Broken(i) /\ IsRun(rows[i])' = IsRun(rows[i])
    BY <1>1 DEF Broken, IsRun, HasSandi
  <2>2. ~Broken(at) /\ IsRun(rows[at])
    BY <1>3 DEF Broken, Current
  <2>3. /\ Ran(at)' /\ ~Ran(at)
        /\ \A i \in DOMAIN rows : i # at => Ran(i)' = Ran(i)
    BY <1>1, <1>2, <1>3 DEF Ran
  <2>4. \A i \in DOMAIN rows : \A h \in 1..i : h \in DOMAIN rows
    BY <1>2
  <2>5. \A i \in DOMAIN rows : Ran(i)' => ~Broken(i)
    BY <1>3, <2>0, <2>2, <2>3 DEF RanInv
  <2>6. \A i \in DOMAIN rows : ~IsRun(rows[i]) => Len(values'[i]) = 0
    BY <1>7, <2>0, <2>2 DEF RanInv
  <2>7. (\A h \in 1..at : ~Broken(h)) /\ context = "complete" /\ root = Report =>
            Len(values[at]) = calls - 1
    BY <1>4, <2>0, <2>2, <2>3 DEF RanInv
  <2>8. context = "complete" /\ root = Report =>
          \A i \in DOMAIN rows :
            IsRun(rows[i]) /\ (\A h \in 1..i : ~Broken(h)) =>
                Len(values'[i]) = IF Ran(i)' THEN calls ELSE calls - 1
    <3> SUFFICES ASSUME context = "complete", root = Report, NEW i \in DOMAIN rows,
                        IsRun(rows[i]), \A h \in 1..i : ~Broken(h)
                 PROVE  Len(values'[i]) = IF Ran(i)' THEN calls ELSE calls - 1
      OBVIOUS
    <3>1. CASE i = at
      <4>1. Len(values[at]) = calls - 1
        BY <2>7, <3>1
      <4>2. Len(values'[at]) = calls
        BY <1>2, <1>7, <4>1
      <4> QED
        BY <1>1, <2>3, <3>1, <4>2 DEF Ran
    <3>2. CASE i # at
      BY <1>7, <2>0, <2>3, <3>2 DEF RanInv
    <3> QED
      BY <3>1, <3>2
  <2>9. \A i \in DOMAIN rows : \A h \in 1..i : Broken(h)' = Broken(h)
    BY <2>1, <2>4
  <2> QED
    BY <1>1, <1>3, <2>0, <2>1, <2>5, <2>6, <2>8, <2>9 DEF RanInv
<1>13. SavedIsComplete'
  BY <1>1 DEF AgreeInv, SavedIsComplete, IsRun, HasSandi
<1>14. CurrentInv'
  BY <1>3 DEF CurrentInv
<1> QED
  BY <1>9, <1>10, <1>11, <1>12, <1>13, <1>14 DEF AgreeInv

\* What a row delivers: one element if it has run and is for the company.
LEMMA OneElement ==
    ASSUME ConsolidationInv, RowInv, phase = "deliver", at # 0, NEW k \in Companies
    PROVE  IF IsRun(Current) /\ Matches(Current, k)
           THEN Delivered(k) = {Element(Current.sandi)} ELSE Delivered(k) = {}
<1>1. TypeOK /\ at \in Nat /\ at \in DOMAIN rows /\ rows \in Seq(Row)
  BY Numbers DEF ConsolidationInv, TypeOK
<1>2. Current \in Row
  BY <1>1 DEF Current
<1>3. HasSandi(Current) => Current.sandi \in Sandis
  BY <1>2 DEF Row, HasSandi
<1>4. ~HasSandi(Current) => Sandis \cap {Current.sandi} = {}
  BY ConsolidationAssumption DEF HasSandi
<1>5. IsRun(Current) => HasSandi(Current) /\ results[Current.sandi] # Null
  BY <1>1 DEF RowInv, IsRun, Null
<1>6. HasSandi(Current) /\ ~IsRun(Current) => results[Current.sandi] = Null
  BY DEF RowInv
<1>7. CASE IsRun(Current) /\ Matches(Current, k)
  BY <1>3, <1>5, <1>7 DEF Delivered
<1>8. CASE ~(IsRun(Current) /\ Matches(Current, k))
  BY <1>4, <1>5, <1>6, <1>8 DEF Delivered
<1> QED
  BY <1>7, <1>8

\* The result is delivered: nothing is owed.
LEMMA DeliverAgree ==
    ASSUME ConsolidationInv, AtInv, AgreeInv, Deliver
    PROVE  AgreeInv'
<1>1. UNCHANGED <<rows, root, context, values, results, saved, calls>>
  BY DEF Deliver, input
<1>2. TypeOK /\ DOMAIN rows = 1..Len(rows) /\ Len(rows) \in Nat /\ at \in Nat /\ calls \in Nat
  BY Numbers DEF ConsolidationInv
<1>3. /\ phase = "deliver" /\ phase' = "collect" /\ at' = at + 1
      /\ entries' = [k \in Companies |-> entries[k] \cup Delivered(k)]
  BY DEF Deliver
<1>4. at \in DOMAIN rows /\ at # 0
  BY <1>2, <1>3, Lengths
<1>5. \A k \in Companies : IF IsRun(Current) /\ Matches(Current, k)
          THEN Delivered(k) = {Element(Current.sandi)} ELSE Delivered(k) = {}
  BY <1>3, <1>4, OneElement DEF AgreeInv
<1>6. \A k \in Companies : \A e \in Delivered(k) : e.at = at /\ e.call = calls
  BY DEF Delivered, Element
<1>7. Owed(at) = (IF IsRun(Current) THEN 1 ELSE 0) /\ \A i \in DOMAIN rows : i # at => Owed(i) = 0
  BY <1>3 DEF Owed, Current
<1>8. \A i \in DOMAIN rows : Owed(i)' = 0
  BY <1>3 DEF Owed
<1>9. CountInv'
  <2> SUFFICES ASSUME NEW i \in DOMAIN rows, NEW k \in Companies
               PROVE  /\ IsFiniteSet(Of(k, i)')
                      /\ Cardinality(Of(k, i)') =
                           IF Matches(rows[i], k) THEN Len(values[i]) ELSE 0
    <3>1. \A i \in DOMAIN rows : Len(values[i]) \in Nat
      BY <1>2, Lengths
    <3>2. rows' = rows /\ values' = values
      BY <1>1
    <3>3. (\A i \in DOMAIN rows : \A k \in Companies :
             /\ IsFiniteSet(Of(k, i)')
             /\ Cardinality(Of(k, i)') =
                  IF Matches(rows[i], k) THEN Len(values[i]) - Owed(i)' ELSE 0)
          => CountInv'
      BY <3>2 DEF CountInv, Matches
    <3> QED
      BY <1>8, <3>1, <3>3
  <2>0. /\ IsFiniteSet(Of(k, i))
        /\ Cardinality(Of(k, i)) = IF Matches(rows[i], k) THEN Len(values[i]) - Owed(i) ELSE 0
        /\ Len(values[i]) \in Nat
    BY <1>2, Lengths DEF AgreeInv, CountInv
  <2>1. Of(k, i)' = Of(k, i) \cup {e \in Delivered(k) : e.at = i}
    BY <1>3 DEF Of
  <2>2. CASE i # at
    <3>1. Of(k, i)' = Of(k, i)
      BY <1>6, <2>1, <2>2
    <3> QED
      BY <1>7, <2>0, <2>2, <3>1
  <2>3. CASE i = at /\ ~(IsRun(Current) /\ Matches(Current, k))
    <3>1. Of(k, i)' = Of(k, i)
      BY <1>5, <2>1, <2>3
    <3> QED
      BY <1>7, <2>0, <2>3, <3>1 DEF Current
  <2>4. CASE i = at /\ IsRun(Current) /\ Matches(Current, k)
    <3>1. Of(k, i)' = Of(k, i) \cup {Element(Current.sandi)}
      BY <1>5, <2>1, <2>4 DEF Element
    <3>2. Element(Current.sandi) \notin Of(k, i)
      <4>1. \A e \in Of(k, i) : e.call = calls => e.at < at
        BY <1>3, <1>4, <2>4 DEF AgreeInv, CallInv, Of
      <4> QED
        BY <1>2, <4>1 DEF Element
    <3>3. Cardinality(Of(k, i)') = Cardinality(Of(k, i)) + 1 /\ IsFiniteSet(Of(k, i)')
      BY <2>0, <3>1, <3>2, FS_AddElement
    <3> QED
      BY <1>7, <2>0, <2>4, <3>3 DEF Current
  <2> QED
    BY <2>2, <2>3, <2>4
<1>10. CallInv'
  <2> SUFFICES ASSUME NEW k \in Companies, NEW e \in entries[k] \cup Delivered(k)
               PROVE  /\ e.call <= calls
                      /\ e.call = calls /\ e.at # 0 => e.at < at + 1
    BY <1>1, <1>3 DEF CallInv
  <2>1. CASE e \in Delivered(k)
    BY <1>2, <1>6, <2>1
  <2>2. CASE e \in entries[k]
    <3>1. e.at \in Nat
      BY <1>2, <2>2, Lengths
    <3>2. e.call <= calls /\ (e.call = calls /\ e.at # 0 => e.at < at)
      BY <1>3, <2>2 DEF AgreeInv, CallInv
    <3> QED
      BY <1>2, <3>1, <3>2
  <2> QED
    BY <2>1, <2>2
<1>11. RowInv'
  BY <1>3 DEF RowInv
<1>12. RanInv'
  <2>0. RanInv /\ (\A i \in DOMAIN rows : i \in Nat)
    BY <1>2 DEF AgreeInv
  <2>1. \A i \in DOMAIN rows : Broken(i)' = Broken(i) /\ IsRun(rows[i])' = IsRun(rows[i])
    BY <1>1 DEF Broken, IsRun, HasSandi
  <2>2. \A i \in DOMAIN rows : Ran(i)' = Ran(i)
    BY <1>2, <1>3, <2>0 DEF Ran
  <2>3. \A i \in DOMAIN rows : \A h \in 1..i : h \in DOMAIN rows
    BY <1>2
  <2> QED
    BY <1>1, <1>3, <2>0, <2>1, <2>2, <2>3 DEF RanInv
<1>13. SavedIsComplete'
  BY <1>1 DEF AgreeInv, SavedIsComplete, IsRun, HasSandi
<1>14. CurrentInv'
  BY <1>3 DEF CurrentInv
<1> QED
  BY <1>9, <1>10, <1>11, <1>12, <1>13, <1>14 DEF AgreeInv

(***************************************************************************)
(* Whatever the report, the companies and the calls: when the evaluation    *)
(* has returned, each result of a row is at every company the row is for,   *)
(* once, and at no other, and a whole file has the results of every script, *)
(* as often of each, and after a success those in memory.                   *)
(***************************************************************************)
THEOREM DocumentsAlwaysAgree == Spec => []DocumentsAgree
<1>1. Init => AtInv
  BY DEF Init, AtInv
<1>2. ConsolidationInv /\ AtInv /\ AgreeInv /\ [Next]_vars => AgreeInv'
  BY QuietAgree, RunAgree, DeliverAgree DEF Next
<1>3. ConsolidationInv /\ AgreeInv => DocumentsAgree
  <2> SUFFICES ASSUME ConsolidationInv, AgreeInv, phase = "idle"
               PROVE  CompaniesAgree /\ SavedIsComplete /\ SavedIsCurrent
    BY DEF DocumentsAgree
  <2>1. \A i \in DOMAIN rows : Owed(i) = 0 /\ Len(values[i]) \in Nat
    BY Lengths DEF Owed, ConsolidationInv
  <2> QED
    BY <2>1 DEF AgreeInv, CurrentInv, CountInv, Of, CompaniesAgree
<1> QED
  BY <1>1, <1>2, <1>3, InitInv, NextInv, InitAgree, PTL DEF Spec

-----------------------------------------------------------------------------
(* What scripts read back.                                                  *)

\* Nothing behind a script that does not compile has run, and what is
\* delivered is a row's.
MixedInv ==
    /\ \A i \in DOMAIN rows : Len(values[i]) > 0 => \A h \in 1..i : ~Broken(h)
    /\ \A k \in Companies : \A e \in entries[k] : e.at \in 0..Len(rows)
    /\ MixedExactlyIfReadBack

\* Some row delivers what row i reads, in time for its nth result.
Mixed(i, n) ==
    \E j \in DOMAIN rows : Delivers(j) /\ rows[j].sandi \in rows[i].reads /\ (j < i \/ n > 1)

\* What is delivered depends on the report alone.
LEMMA MixedStays ==
    ASSUME UNCHANGED rows, NEW i, NEW n
    PROVE  Mixed(i, n)' = Mixed(i, n)
<1>1. rows' = rows
  OBVIOUS
<1>2. \A j : Delivers(j)' = Delivers(j)
  BY <1>1 DEF Delivers, Matches, IsRun, HasSandi
<1> QED
  BY <1>1, <1>2 DEF Mixed

\* The rows that have delivered something when the next script runs.
LEMMA DeliveredSoFar ==
    ASSUME ConsolidationInv, AtInv, AgreeInv, MixedInv, phase = "evaluate", NEW j \in DOMAIN rows
    PROVE  (\E k \in Companies : \E e \in entries[k] : e.at = j)
               <=> Delivers(j) /\ (j < at \/ calls > 1)
<1>1. /\ TypeOK /\ DOMAIN rows = 1..Len(rows) /\ Len(rows) \in Nat /\ at \in Nat /\ calls \in Nat
      /\ j \in Nat /\ rows \in Seq(Row)
  BY Numbers DEF ConsolidationInv
<1>2. Len(values[j]) \in Nat /\ Owed(j) = 0
  BY <1>1, Lengths DEF Owed
<1>3. /\ calls # 0 /\ (Ran(j) <=> j < at)
      /\ ~IsRun(rows[j]) => Len(values[j]) = 0
      /\ IsRun(rows[j]) /\ (\A h \in 1..j : ~Broken(h)) =>
             Len(values[j]) = IF j < at THEN calls ELSE calls - 1
  BY DEF AgreeInv, RanInv, Ran
<1>4. \A k \in Companies : /\ IsFiniteSet(Of(k, j))
                           /\ Cardinality(Of(k, j)) =
                                  IF Matches(rows[j], k) THEN Len(values[j]) ELSE 0
  BY <1>2 DEF AgreeInv, CountInv
<1>5. \A k \in Companies : Of(k, j) # {} <=> Matches(rows[j], k) /\ Len(values[j]) > 0
  <2> SUFFICES ASSUME NEW k \in Companies
               PROVE  Of(k, j) # {} <=> Matches(rows[j], k) /\ Len(values[j]) > 0
    OBVIOUS
  <2>1. Of(k, j) = {} <=> Cardinality(Of(k, j)) = 0
    BY <1>4, FS_EmptySet
  <2> QED
    BY <1>2, <1>4, <2>1
<1>6. (\E k \in Companies : \E e \in entries[k] : e.at = j)
          <=> Len(values[j]) > 0 /\ \E k \in Companies : Matches(rows[j], k)
  BY <1>5 DEF Of
<1>7. Delivers(j) <=> /\ IsRun(rows[j]) /\ \E k \in Companies : Matches(rows[j], k)
                      /\ \A h \in 1..j : ~Broken(h)
  <2>1. \A h \in 1..j : h \in DOMAIN rows
    BY <1>1
  <2>2. \A h \in 1..j : IsRun(rows[h]) => rows[h].script = "runs" \/ rows[h].script = "broken"
    <3>1. \A h \in DOMAIN rows : rows[h] \in Row
      BY <1>1
    <3> QED
      BY <2>1, <3>1 DEF IsRun, Row
  <2>3. (\A h \in 1..j : IsRun(rows[h]) => rows[h].script = "runs") <=> \A h \in 1..j : ~Broken(h)
    BY <2>2 DEF Broken
  <2> QED
    BY <2>3 DEF Delivers
<1>8. Len(values[j]) > 0 => IsRun(rows[j]) /\ \A h \in 1..j : ~Broken(h)
  BY <1>3 DEF MixedInv
<1> QED
  BY <1>1, <1>2, <1>3, <1>6, <1>7, <1>8

\* A script that runs: its result is clean exactly if no row has delivered
\* what it reads.
LEMMA RunMixed ==
    ASSUME ConsolidationInv, AtInv, AgreeInv, MixedInv, Run
    PROVE  MixedInv'
<1>1. UNCHANGED <<rows, entries>>
  BY DEF Run, input
<1>2. /\ TypeOK /\ DOMAIN rows = 1..Len(rows) /\ Len(rows) \in Nat /\ at \in Nat /\ calls \in Nat
  BY Numbers DEF ConsolidationInv
<1>3. /\ phase = "evaluate" /\ IsRun(rows[at]) /\ rows[at].script = "runs" /\ at \in DOMAIN rows
  BY <1>2, Lengths DEF Run, Current
<1> DEFINE clean == ReadsClean(rows[at].reads)
<1>4. values \in [DOMAIN rows -> Seq(BOOLEAN)] /\ clean \in BOOLEAN
  BY <1>2 DEF TypeOK, ReadsClean
<1>5. values' = [values EXCEPT ![at] = Append(@, clean)]
  BY DEF Run, Current
<1>6. \A h \in 1..at : ~Broken(h)
  <2>1. \A h \in 1..at : h = at \/ (h < at /\ h \in DOMAIN rows)
    BY <1>2, <1>3
  <2>2. ~Broken(at)
    BY <1>3 DEF Broken
  <2> QED
    BY <1>3, <2>1, <2>2 DEF AgreeInv, RanInv, Ran
<1>7. Len(values[at]) = calls - 1 /\ calls # 0
  BY <1>3, <1>6, <1>2 DEF AgreeInv, RanInv, Ran
<1>8. clean <=> ~ \E j \in DOMAIN rows :
                     Delivers(j) /\ rows[j].sandi \in rows[at].reads /\ (j < at \/ calls > 1)
  <2>1. \A k \in Companies : \A e \in entries[k] :
            /\ e.from = e.at /\ (e.at # 0 => e.sandi = rows[e.at].sandi)
            /\ e.at \in 0..Len(rows)
    BY DEF ConsolidationInv, ResultsAreOwn, MixedInv
  <2>2. clean <=> \A k \in Companies : \A e \in entries[k] :
                     e.at # 0 => rows[e.at].sandi \notin rows[at].reads
    BY <2>1 DEF ReadsClean
  <2>3. \A i \in 0..Len(rows) : i # 0 <=> i \in DOMAIN rows
    BY <1>2
  <2>4. clean <=> ~ \E j \in DOMAIN rows : /\ rows[j].sandi \in rows[at].reads
                                          /\ \E k \in Companies : \E e \in entries[k] : e.at = j
    <3> HIDE DEF clean
    <3> QED
      BY <2>1, <2>2, <2>3
  <2> HIDE DEF clean
  <2> QED
    BY <1>3, <2>4, DeliveredSoFar
<1> HIDE DEF clean
<1>9. /\ \A i \in DOMAIN rows \ {at} : values'[i] = values[i]
      /\ Len(values'[at]) = calls /\ values'[at][calls] = clean
      /\ \A n \in 1..calls - 1 : values'[at][n] = values[at][n]
      /\ DOMAIN values[at] = 1..calls - 1 /\ DOMAIN values'[at] = 1..calls
  <2>1. values'[at] = Append(values[at], clean) /\ values[at] \in Seq(BOOLEAN)
    BY <1>3, <1>4, <1>5
  <2> QED
    BY <1>2, <1>4, <1>5, <1>7, <2>1
<1>10. MixedExactlyIfReadBack'
  <2>1. \A i \in DOMAIN rows : \A n \in DOMAIN values[i] : values[i][n] = ~Mixed(i, n)
    BY DEF MixedInv, MixedExactlyIfReadBack, Mixed
  <2>2. clean = ~Mixed(at, calls)
    BY <1>4, <1>8 DEF Mixed
  <2>3. \A i \in DOMAIN rows : \A n \in DOMAIN values'[i] : values'[i][n] = ~Mixed(i, n)
    <3> SUFFICES ASSUME NEW i \in DOMAIN rows, NEW n \in DOMAIN values'[i]
                 PROVE  values'[i][n] = ~Mixed(i, n)
      OBVIOUS
    <3>1. CASE i # at
      BY <1>9, <2>1, <3>1
    <3>2. CASE i = at /\ n = calls
      BY <1>9, <2>2, <3>2
    <3>3. CASE i = at /\ n # calls
      <4>1. n \in 1..calls - 1
        BY <1>2, <1>9, <3>3
      <4> QED
        BY <1>3, <1>9, <2>1, <3>3, <4>1
    <3> QED
      BY <3>1, <3>2, <3>3
  <2>4. \A i \in DOMAIN rows : \A n \in DOMAIN values'[i] : values'[i][n] = ~Mixed(i, n)'
    BY <1>1, <2>3, MixedStays
  <2> QED
    BY <1>1, <2>4 DEF Mixed, MixedExactlyIfReadBack
<1>11. \A i \in DOMAIN rows : Len(values'[i]) > 0 => \A h \in 1..i : ~Broken(h)
  BY <1>6, <1>9 DEF MixedInv
<1> QED
  BY <1>1, <1>10, <1>11 DEF MixedInv, Broken, IsRun, HasSandi

\* The other steps change nothing of it.
LEMMA QuietMixed ==
    ASSUME MixedInv, UNCHANGED <<rows, values>>,
           \A k \in Companies : \A e \in entries'[k] : e.at \in 0..Len(rows)
    PROVE  MixedInv'
<1>1. rows' = rows /\ values' = values
  OBVIOUS
<1>2. \A h : Broken(h)' = Broken(h)
  BY <1>1 DEF Broken, IsRun, HasSandi
<1>3. (\A i \in DOMAIN rows : Len(values[i]) > 0 => \A h \in 1..i : ~Broken(h))'
  BY <1>1, <1>2 DEF MixedInv
<1>4. \A i \in DOMAIN rows : \A n \in DOMAIN values[i] : values[i][n] = ~Mixed(i, n)
  BY DEF MixedInv, MixedExactlyIfReadBack, Mixed
<1>5. \A i \in DOMAIN rows : \A n \in DOMAIN values[i] : values[i][n] = ~Mixed(i, n)'
  BY <1>1, <1>4, MixedStays
<1>6. MixedExactlyIfReadBack'
  BY <1>1, <1>5 DEF MixedExactlyIfReadBack, Mixed
<1> QED
  BY <1>1, <1>3, <1>6 DEF MixedInv

\* A delivery is of the row the evaluation is at.
LEMMA DeliverMixed ==
    ASSUME ConsolidationInv, MixedInv, Deliver
    PROVE  MixedInv'
<1>1. /\ rows' = rows /\ values' = values
      /\ entries' = [k \in Companies |-> entries[k] \cup Delivered(k)]
  BY DEF Deliver, input
<1>2. at \in 0..Len(rows)
  <2>1. phase = "deliver"
    BY DEF Deliver
  <2> QED
    BY <2>1, Lengths, Numbers DEF ConsolidationInv
<1>3. \A k \in Companies : \A e \in Delivered(k) : e.at = at
  BY DEF Delivered, Element
<1>4. \A k \in Companies : \A e \in entries'[k] : e.at \in 0..Len(rows)
  BY <1>1, <1>2, <1>3 DEF MixedInv
<1> QED
  BY <1>1, <1>4, QuietMixed

(***************************************************************************)
(* Whatever the report, the companies and the calls: a result depends on    *)
(* what a consolidation appended exactly if a row before it, or any row     *)
(* when the report is consolidated again, delivers what its script reads.   *)
(***************************************************************************)
THEOREM ResultsMixExactlyIfReadBack == Spec => []MixedExactlyIfReadBack
<1>1. Init => AtInv
  BY DEF Init, AtInv
<1>2. ConsolidationInv /\ AtInv /\ AgreeInv /\ [Next]_vars => AgreeInv'
  BY QuietAgree, RunAgree, DeliverAgree DEF Next
<1>3. Init => MixedInv
  <2> SUFFICES ASSUME Init PROVE MixedInv
    OBVIOUS
  <2>1. /\ values = [i \in DOMAIN rows |-> <<>>]
        /\ entries = [k \in Companies |-> SourceEntries]
    BY DEF Init
  <2>2. rows \in Seq(Row)
    BY ConsolidationAssumption DEF Init
  <2>3. \A i \in DOMAIN rows : Len(values[i]) = 0 /\ DOMAIN values[i] = {}
    BY <2>1
  <2>4. \A k \in Companies : \A e \in entries[k] : e.at \in 0..Len(rows)
    BY <2>1, <2>2 DEF SourceEntries
  <2> QED
    BY <2>3, <2>4 DEF MixedInv, MixedExactlyIfReadBack
<1>4. ConsolidationInv /\ AtInv /\ AgreeInv /\ MixedInv /\ [Next]_vars => MixedInv'
  <2> SUFFICES ASSUME ConsolidationInv, AtInv, AgreeInv, MixedInv, [Next]_vars PROVE MixedInv'
    OBVIOUS
  <2>1. CASE Run
    BY <2>1, RunMixed
  <2>2. CASE Deliver
    BY <2>2, DeliverMixed
  <2>3. CASE \/ EvaluateSource \/ Reject \/ Consolidate \/ Collect \/ NoScript
             \/ CompileFails \/ Save \/ UNCHANGED vars
    <3>1. UNCHANGED <<rows, values, entries>>
      BY <2>3 DEF EvaluateSource, Reject, Consolidate, Collect, NoScript, CompileFails, Save,
                  vars, input
    <3> QED
      BY <3>1, QuietMixed DEF MixedInv
  <2> QED
    BY <2>1, <2>2, <2>3 DEF Next
<1>5. MixedInv => MixedExactlyIfReadBack
  BY DEF MixedInv
<1> QED
  BY <1>1, <1>2, <1>3, <1>4, <1>5, InitInv, NextInv, InitAgree, PTL DEF Spec
=============================================================================
