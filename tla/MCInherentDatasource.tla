------------------------ MODULE MCInherentDatasource ------------------------
(***************************************************************************)
(* An instance of InherentDatasource: two items with code "A" and one with  *)
(* "B" between them, two companies, and a code "X" that no item has.  The   *)
(* rows of the second "A" are reached only by the helper that looks at      *)
(* every item, and only for the company the first one does not have.  The   *)
(* company n has no row.                                                    *)
(***************************************************************************)
EXTENDS InherentDatasource

CONSTANTS p, q, n

MCCodeOf == <<"A", "B", "A">>
MCRows   == << <<p, p>>, <<p, q>>, <<q>> >>

NoRule == [calls |-> <<>>, own |-> FALSE, ends |-> "absent"]
Number(calls) == [calls |-> calls, own |-> FALSE, ends |-> "number"]
Undefined(calls) == [calls |-> calls, own |-> FALSE, ends |-> "undefined"]
Throwing(calls) == [calls |-> calls, own |-> FALSE, ends |-> "throws"]
Either(calls) == [calls |-> calls, own |-> FALSE, ends |-> "either"]
Own == [calls |-> << <<"update", "A", "companyName">> >>, own |-> TRUE, ends |-> "number"]

OneA == <<"one", "A", "companyName">>
OneB == <<"one", "B", q>>
RowsA == <<"rows", "A">>
RowsB == <<"rows", "B">>
ConsA == <<"consolidation", "A">>
ConsB == <<"consolidation", "B">>
ConsX == <<"consolidation", "X">>
UpdateOwn == <<"update", "B", "companyName">>
UpdateP == <<"update", "A", p>>
UpdateN == <<"update", "X", n>>

Table(f, c) == [i \in 1..3 |-> [fsi |-> f[i], consolidation |-> c[i]]]

\* Every combination of rules of rows, with consolidation rules that read
\* rows, set inputs, or fail.
RowRules ==
    {NoRule, Own, Number(<<OneA>>), Number(<<RowsB, UpdateP>>), Number(<<ConsA, UpdateN>>),
     Undefined(<<ConsB>>), Either(<<UpdateOwn>>)}
FewConsolidations ==
    { <<Number(<<RowsA, RowsB, UpdateP>>), NoRule, Number(<<ConsA>>)>>,
      <<Number(<<UpdateN, ConsB>>), Number(<<OneB>>), Throwing(<<>>)>> }
RowTables == {Table(f, c) : f \in [1..3 -> RowRules], c \in FewConsolidations}

\* Every combination of consolidation rules, circular ones included.
ConsolidationRules ==
    {NoRule, Number(<<RowsA>>), Number(<<UpdateP, ConsA, UpdateN>>), Number(<<ConsB, RowsA>>),
     Undefined(<<UpdateP, ConsB, ConsX>>), Throwing(<<OneB, ConsA>>)}
FewRows ==
    { <<NoRule, Number(<<RowsA>>), NoRule>>,
      <<Number(<<ConsB, UpdateN>>), Own, Number(<<OneA>>)>>,
      <<Own, Either(<<ConsB>>), NoRule>> }
ConsolidationTables ==
    {Table(f, c) : f \in FewRows, c \in [1..3 -> ConsolidationRules]}

MCTables == RowTables \cup ConsolidationTables
=============================================================================
