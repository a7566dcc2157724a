------------------------ MODULE MCProfileEvaluation ------------------------
(***************************************************************************)
(* Documents for ProfileEvaluation.  The Profile_IDs have three segments:   *)
(* a top node, nodes one and two levels below it, one that skips a level,   *)
(* and one of another length.                                               *)
(***************************************************************************)
EXTENDS ProfileEvaluation

CONSTANT none

MCIds == {<<1, 0, 0>>, <<1, 1, 0>>, <<1, 2, 0>>, <<1, 1, 1>>, <<1, 1, 2>>, <<1, 0, 1>>, <<1, 0>>}

Plain(i) == [id |-> i, logic |-> "aggregates", threshold |-> "absent", rating |-> 0,
             results |-> <<>>, ratings |-> <<>>]

\* Every shape of tree on up to three elements, duplicates and elements without
\* a Profile_ID included, on four and five different Profile_IDs, and on a
\* chain of four levels.
Trees ==
    LET few  == UNION {[1..n -> MCIds \cup {none}] : n \in 0..3}
        many == {SetToSeq(S) : S \in {T \in SUBSET MCIds : Cardinality(T) = 4}}
        five == SetToSeq(MCIds \ {<<1, 0>>, <<1, 0, 1>>})
        chain == {<<1, 0, 0, 0>>, <<1, 1, 0, 0>>, <<1, 1, 1, 0>>, <<1, 1, 1, 1>>}
        deep == {SetToSeq(S) : S \in SUBSET chain}
    IN  {[e \in DOMAIN d |-> Plain(d[e])] : d \in few \cup many \cup deep \cup {five}}

\* Every combination of scripts on a parent and a child, and on a child that
\* is in the document twice; new documents, and outputs of an evaluation.
Scripted(i) ==
    {[id |-> i, logic |-> l, threshold |-> t[1], rating |-> t[2],
      results |-> b[1], ratings |-> b[2]] :
        l \in {"absent", "broken", "aggregates"},
        t \in ({"absent", "broken"} \X {0}) \cup ({"returns"} \X {9, 10, 29, 50, 51}),
        b \in { << <<>>, <<>> >>, << <<{}>>, <<20>> >> }}

Scripts ==
    (Scripted(<<1, 0, 0>>) \X Scripted(<<1, 1, 0>>))
        \cup (Scripted(<<1, 1, 0>>) \X Scripted(<<1, 1, 0>>))

MCDocuments == Trees \cup Scripts
=============================================================================
