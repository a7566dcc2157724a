-------------------------- MODULE MCConsolidation --------------------------
(***************************************************************************)
(* An instance of Consolidation: reports of up to three rows with two       *)
(* sandiRevamps, and a bank, an insurer and a company without a type.       *)
(***************************************************************************)
EXTENDS Consolidation

CONSTANTS a, b, bank, insurer, typeless

MCTypeOf == [k \in {bank, insurer, typeless} |->
                CASE k = bank -> "BANK" [] k = insurer -> "other" [] k = typeless -> "none"]

R(sandi, pic, script, reads) ==
    [sandi |-> sandi, pic |-> pic, script |-> script, reads |-> reads]

\* Everything a first or last row can be, but for symmetry of the two
\* sandiRevamps, and a choice of those between.
Outer == {R(a, p, "runs", c) : p \in {"All LJK", "Bank", "other"}, c \in SUBSET {a, b}}
           \cup {R(a, p, c, {}) : p \in {"All LJK", "Bank", "other"},
                                 c \in {"absent", "broken"}}
           \cup {R(NoSandi, "Bank", "runs", {}), R(NoSandi, "All LJK", "broken", {})}
Inner == {R(a, "Bank", "absent", {}), R(b, "All LJK", "absent", {}),
          R(b, "All LJK", "runs", {a}), R(b, "Bank", "runs", {b}), R(a, "other", "runs", {b}),
          R(b, "Bank", "broken", {})}
Reports == {<<>>} \cup {<<r>> : r \in Outer}
             \cup {<<r, s, t>> : r \in Outer, s \in Inner, t \in Outer \cup Inner}
MCDocuments ==
    {[root |-> Report, rows |-> r] : r \in Reports}
        \cup {[root |-> x, rows |-> <<r>>] : x \in {"worksheet_inherent", "another"}, r \in Outer}
=============================================================================
