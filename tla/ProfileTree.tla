---------------------------- MODULE ProfileTree ----------------------------
(***************************************************************************)
(* Profile_IDs and their hierarchy: ilf/src/risk_profile_tree.c.            *)
(*                                                                         *)
(* A Profile_ID is the sequence of its two-character segments; only         *)
(* equality of segments and the segment "00" matter to the code, so a       *)
(* segment is a number and "00" is 0.  A Profile_ID of odd length has no    *)
(* relations at all and is left out.                                        *)
(***************************************************************************)
EXTENDS Integers, Sequences

Id == Seq(Nat)

\* The loop over first_diff_segment: only asked of two different
\* Profile_IDs of one length.
FirstDiff(p, c) ==
    CHOOSE i \in 1..Len(p) : p[i] # c[i] /\ \A j \in 1..i-1 : p[j] = c[j]

\* Mutant of is_parent_child_relation: what the parent has at the difference
\* is not looked at.
is_parent_child_relation_any(p, c) ==
    /\ Len(p) = Len(c)
    /\ Len(p) >= 2
    /\ p # c
    /\ LET d == FirstDiff(p, c)
       IN  c[d] # 0 /\ \A i \in d+2..Len(c) : c[i] = 0

\* Mutant of is_parent_child_relation: the child's tail is not looked at.
is_parent_child_relation_far(p, c) ==
    /\ Len(p) = Len(c)
    /\ Len(p) >= 2
    /\ p # c
    /\ LET d == FirstDiff(p, c)
       IN  p[d] = 0 /\ c[d] # 0 /\ \A i \in d+1..Len(p) : p[i] = 0

is_parent_child_relation(p, c) ==
    /\ Len(p) = Len(c)
    /\ Len(p) >= 2
    /\ p # c
    /\ LET d == FirstDiff(p, c)
       IN  /\ p[d] = 0
           /\ c[d] # 0
           /\ \A i \in d+1..Len(p) : p[i] = 0
           /\ \A i \in d+2..Len(c) : c[i] = 0

-----------------------------------------------------------------------------
(***************************************************************************)
(* What the relation is, and what it is documented to be.                   *)
(***************************************************************************)

\* The documented rule: exactly one segment differs, "00" in the parent only.
OneSegmentUp(p, c) ==
    /\ Len(p) = Len(c)
    /\ \E d \in 1..Len(p) : /\ p[d] = 0
                            /\ c[d] # 0
                            /\ \A i \in 1..Len(p) \ {d} : p[i] = c[i]

\* The level of a Profile_ID: no segment behind it is in use.
Level(c, k) ==
    /\ k \in 1..Len(c)
    /\ c[k] # 0
    /\ \A i \in k+1..Len(c) : c[i] = 0

\* A Profile_ID with only its first k segments kept.
Cut(c, k) == [i \in 1..Len(c) |-> IF i <= k THEN c[i] ELSE 0]

\* What the code accepts as a parent: c without its last segment in use, or
\* without its last two.
OneOrTwoLevelsUp(p, c) ==
    \E k \in 1..Len(c) :
        Level(c, k) /\ p # c /\ p \in {Cut(c, k-1), Cut(c, k-2)}
=============================================================================
