------------------------ MODULE KpmrEvaluationProofs ------------------------
(***************************************************************************)
(* What holds of KpmrEvaluation for every tree and every rule table.        *)
(*                                                                         *)
(* KpmrInv relates the call stack to computing_ and to the walk; CircleInv  *)
(* says that the scores of a circle stay absent, in the elements and in the *)
(* cache, because every script that needs one of them still has to ask.     *)
(*                                                                         *)
(* RightInv is about results: scripts that get only to what is done, or to  *)
(* what cannot be wrong, compute what they should, whatever the others do.  *)
(***************************************************************************)
EXTENDS KpmrEvaluation, SequenceTheorems, WellFoundedInduction, TLAPS

-----------------------------------------------------------------------------
(* The index, the walk and the call stack.                                  *)

\* A bounded, non-empty set of naturals has a largest element.
LEMMA LargestOfBounded ==
    ASSUME NEW S \in SUBSET Nat, S # {}, NEW n \in Nat, \A i \in S : i <= n
    PROVE  \E m \in S : \A j \in S : j <= m
<1> DEFINE R == OpToRel(<, Nat)
           T == {n - i : i \in S}
<1>1. IsWellFoundedOn(R, Nat)
  BY NatLessThanWellFounded
<1>2. T \subseteq Nat
  BY SMT
<1>2a. T # {}
  <2> PICK i \in S : TRUE
    OBVIOUS
  <2> n - i \in T
    OBVIOUS
  <2> QED OBVIOUS
<1>3. PICK x \in T : \A y \in T : <<y, x>> \notin R
  <2> HIDE DEF R, T
  <2> QED BY <1>1, <1>2, <1>2a, WFMin
<1>4. \A y \in T : ~ y < x
  BY <1>2, <1>3 DEF OpToRel
<1>5. PICK m \in S : x = n - m
  OBVIOUS
<1>6. \A j \in S : n - j \in T
  OBVIOUS
<1>7. \A j \in S : j <= m
  <2> HIDE DEF T
  <2> QED BY <1>4, <1>5, <1>6
<1> QED BY <1>7

\* The index by Profile_ID finds an element that has that Profile_ID.
LEMMA NodeOfCode ==
    ASSUME NEW c \in Codes, Known(c)
    PROVE  NodeOf(c) \in Nodes /\ CodeOf[NodeOf(c)] = c
<1>1. Preorder \in Seq(Nodes)
  BY TreeAssumption
<1>2. /\ Indexed(c) \in SUBSET Nat
      /\ Indexed(c) # {}
      /\ Len(Preorder) \in Nat
      /\ \A i \in Indexed(c) : i <= Len(Preorder)
  BY <1>1, LenProperties DEF Indexed, Known
<1>3. \E m \in Indexed(c) : \A j \in Indexed(c) : j <= m
  BY <1>2, LargestOfBounded
<1> DEFINE last == CHOOSE m \in Indexed(c) : \A j \in Indexed(c) : j <= m
<1>4. last \in Indexed(c)
  BY <1>3
<1>5. last \in 1..Len(Preorder) /\ CodeOf[Preorder[last]] = c
  BY <1>4 DEF Indexed
<1>6. Preorder[last] \in Nodes
  BY <1>1, <1>5, ElementOfSeq
<1> QED BY <1>5, <1>6 DEF NodeOf

\* The walk has a place for both rules of every element.
LEMMA WalkPlaces ==
    /\ Len(WalkOrder) \in Nat /\ Len(WalkOrder) = 2 * Len(Postorder)
    /\ \A p \in 1..Len(WalkOrder) :
          /\ WalkOrder[p][1] \in Nodes /\ WalkOrder[p][2] \in {"rating", "score"}
          /\ WalkOrder[p] = <<WalkOrder[p][1], WalkOrder[p][2]>>
    /\ \A n \in Nodes : \A k \in {"rating", "score"} :
          \E p \in 1..Len(WalkOrder) : WalkOrder[p] = <<n, k>>
<1>1. Postorder \in Seq(Nodes) /\ Len(Postorder) \in Nat
  BY TreeAssumption, LenProperties
<1> DEFINE m == 2 * Len(Postorder)
<1>2. m \in Nat
  BY <1>1
<1>3. ASSUME NEW p \in 1..m
      PROVE  (p + 1) \div 2 \in 1..Len(Postorder) /\ Postorder[(p + 1) \div 2] \in Nodes
  <2>1. (p + 1) \div 2 \in 1..Len(Postorder)
    BY <1>1
  <2> QED BY <1>1, <2>1, ElementOfSeq
<1>4. WalkOrder \in [1..m -> Nodes \X {"rating", "score"}]
  BY <1>3 DEF WalkOrder
<1>5. WalkOrder \in Seq(Nodes \X {"rating", "score"}) /\ Len(WalkOrder) = m
  <2> HIDE DEF m
  <2>1. WalkOrder \in Seq(Nodes \X {"rating", "score"})
    BY <1>2, <1>4, SeqDef
  <2>2. DOMAIN WalkOrder = 1..m
    BY <1>4
  <2> QED BY <1>2, <2>1, <2>2, LenProperties
<1>6. \A p \in 1..m : WalkOrder[p] \in Nodes \X {"rating", "score"}
  BY <1>4
<1>7. ASSUME NEW n \in Nodes, NEW k \in {"rating", "score"}
      PROVE  \E p \in 1..m : WalkOrder[p] = <<n, k>>
  <2>1. PICK i \in 1..Len(Postorder) : Postorder[i] = n
    BY TreeAssumption
  <2>2. CASE k = "rating"
    <3>1. /\ 2 * i - 1 \in 1..m /\ (2 * i - 1) % 2 = 1 /\ ((2 * i - 1) + 1) \div 2 = i
      BY <1>1
    <3>2. WalkOrder[2 * i - 1] = <<n, k>>
      BY <2>1, <2>2, <3>1 DEF WalkOrder
    <3> QED BY <3>1, <3>2
  <2>3. CASE k = "score"
    <3>1. /\ 2 * i \in 1..m /\ (2 * i) % 2 = 0 /\ (2 * i + 1) \div 2 = i
      BY <1>1
    <3>2. WalkOrder[2 * i] = <<n, k>>
      BY <2>1, <2>3, <3>1 DEF WalkOrder
    <3> QED BY <3>1, <3>2
  <2> QED BY <2>2, <2>3
<1>8. ASSUME NEW p \in 1..m
      PROVE  /\ WalkOrder[p][1] \in Nodes /\ WalkOrder[p][2] \in {"rating", "score"}
             /\ WalkOrder[p] = <<WalkOrder[p][1], WalkOrder[p][2]>>
  BY <1>6
<1> HIDE DEF m
<1> QED BY <1>2, <1>5, <1>7, <1>8 DEF m

\* What Pop returns.
LEMMA PopProperties ==
    ASSUME NEW S, NEW s \in Seq(S), s # <<>>
    PROVE  /\ Pop(s) \in Seq(S)
           /\ Len(Pop(s)) = Len(s) - 1
           /\ \A i \in 1..Len(s) - 1 : Pop(s)[i] = s[i]
<1>1. Len(s) \in Nat \ {0}
  BY EmptySeq
<1>2. \A i \in 1..Len(s) - 1 : s[i] \in S
  BY <1>1, ElementOfSeq
<1> DEFINE m == Len(s) - 1
<1>3. m \in Nat
  BY <1>1
<1>4. /\ SubSeq(s, 1, m) \in Seq(S)
      /\ Len(SubSeq(s, 1, m)) = IF 1 <= m THEN m - 1 + 1 ELSE 0
      /\ \A i \in 1..m - 1 + 1 : SubSeq(s, 1, m)[i] = s[1 + i - 1]
  <2> HIDE DEF m
  <2> QED BY <1>2, <1>3, SubSeqProperties DEF m
<1>5. Len(SubSeq(s, 1, m)) = m
  <2> HIDE DEF m
  <2> QED BY <1>3, <1>4
<1>6. ASSUME NEW i \in 1..m
      PROVE  SubSeq(s, 1, m)[i] = s[i]
  <2> HIDE DEF m
  <2>1. i \in 1..m - 1 + 1 /\ 1 + i - 1 = i
    BY <1>3
  <2> QED BY <1>4, <2>1
<1> QED BY <1>4, <1>5, <1>6 DEF Pop

\* A non-empty stack has a top, and holds frames.
LEMMA StackElement ==
    ASSUME NEW s \in Seq(Frame), s # <<>>
    PROVE  /\ Len(s) \in Nat \ {0} /\ Len(s) \in 1..Len(s)
           /\ \A i \in 1..Len(s) : s[i] \in Frame
<1>1. Len(s) \in Nat \ {0}
  BY EmptySeq
<1> QED BY <1>1, ElementOfSeq

\* What Answered returns: only todo and right of the top frame change.
LEMMA AnsweredProperties ==
    ASSUME NEW s \in Seq(Frame), s # <<>>, s[Len(s)].todo # <<>>, NEW grade
    PROVE  /\ Answered(s, grade) \in Seq(Frame)
           /\ Len(Answered(s, grade)) = Len(s)
           /\ \A i \in 1..Len(s) :
                 /\ Answered(s, grade)[i].op = s[i].op
                 /\ Answered(s, grade)[i].node = s[i].node
                 /\ Answered(s, grade)[i].fld = s[i].fld
                 /\ Answered(s, grade)[i].ends = s[i].ends
                 /\ Answered(s, grade)[i].todo =
                       IF i = Len(s) THEN Tail(s[i].todo) ELSE s[i].todo
                 /\ Answered(s, grade)[i].right <=>
                       s[i].right /\ (i = Len(s) => grade = "right")
<1> DEFINE f == s[Len(s)]
           g == [f EXCEPT !.todo = Tail(@), !.right = @ /\ grade = "right"]
<1>1. Len(s) \in Nat \ {0} /\ Len(s) \in 1..Len(s) /\ f \in Frame
  BY StackElement
<1>2. Tail(f.todo) \in Seq(Codes)
  BY <1>1, HeadTailProperties DEF Frame
<1>3. (f.right /\ grade = "right") \in BOOLEAN
  OBVIOUS
<1>4. g \in Frame
  BY <1>1, <1>2, <1>3 DEF Frame
<1>5. Answered(s, grade) = [s EXCEPT ![Len(s)] = g]
  BY <1>1 DEF Answered, Frame
<1>6. /\ g.op = f.op /\ g.node = f.node /\ g.fld = f.fld /\ g.ends = f.ends
      /\ g.todo = Tail(f.todo)
      /\ g.right <=> f.right /\ grade = "right"
  BY <1>1 DEF Frame
<1> HIDE DEF g, f
<1>7. /\ Answered(s, grade) \in Seq(Frame)
      /\ Len(Answered(s, grade)) = Len(s)
      /\ \A i \in 1..Len(s) : Answered(s, grade)[i] = IF i = Len(s) THEN g ELSE s[i]
  BY <1>1, <1>4, <1>5, ExceptSeq
<1> QED BY <1>6, <1>7 DEF f

\* The codes of a script's calls.
LEMMA CallCodes ==
    ASSUME NEW t \in RuleTables, NEW n \in Nodes, NEW k \in Kinds
    PROVE  LET r == RuleOf(t, n, k)
           IN  /\ r.ends \in {"absent", "malformed", "throws", "returns"}
               /\ Len(r.calls) \in Nat
               /\ \A i \in 1..Len(r.calls) : r.calls[i][2] \in Codes
               /\ [i \in 1..Len(r.calls) |-> r.calls[i][2]] \in Seq(Codes)
               /\ Len([i \in 1..Len(r.calls) |-> r.calls[i][2]]) = Len(r.calls)
<1> DEFINE r == RuleOf(t, n, k)
           codes == [i \in 1..Len(r.calls) |-> r.calls[i][2]]
<1>1. r \in Rule
  BY RuleAssumption DEF RuleOf, Kinds
<1>2. r.calls \in Seq(Key) /\ r.ends \in {"absent", "malformed", "throws", "returns"}
  BY <1>1 DEF Rule
<1> HIDE DEF r
<1>3. Len(r.calls) \in Nat /\ \A i \in 1..Len(r.calls) : r.calls[i] \in Key
  BY <1>2, LenProperties, ElementOfSeq
<1>4. \A i \in 1..Len(r.calls) : r.calls[i][2] \in Codes
  BY <1>3 DEF Key
<1>5. codes \in [1..Len(r.calls) -> Codes] /\ DOMAIN codes = 1..Len(r.calls)
  BY <1>4
<1> HIDE DEF codes
<1>6. codes \in Seq(Codes)
  BY <1>3, <1>5, SeqDef
<1>7. Len(codes) = Len(r.calls)
  BY <1>3, <1>5, <1>6, LenProperties
<1> QED BY <1>2, <1>3, <1>4, <1>6, <1>7 DEF r, codes

\* A rule that is there is entered with a frame of the right type.
LEMMA EnterType ==
    ASSUME TypeOK, NEW n \in Nodes, NEW f \in {"rating", "score"}, HasRule(rules, n, f),
           NEW op \in {"process", "memo"}
    PROVE  /\ Enter(op, n, f) \in Frame
           /\ Enter(op, n, f).op = op /\ Enter(op, n, f).node = n /\ Enter(op, n, f).fld = f
<1>1. rules \in RuleTables /\ f \in Kinds
  BY DEF TypeOK, Kinds
<1>2. /\ RuleOf(rules, n, f).ends \in {"malformed", "throws", "returns"}
      /\ [i \in 1..Len(RuleOf(rules, n, f).calls) |-> RuleOf(rules, n, f).calls[i][2]] \in Seq(Codes)
  BY <1>1, CallCodes DEF HasRule
<1>3. (f = "rating" \/ RatingIsRight(n)) \in BOOLEAN
  BY DEF RatingIsRight, HasRule
<1>4. <<>> \in Seq(Codes)
  BY EmptySeq
<1> QED BY <1>2, <1>3, <1>4 DEF Enter, Frame

-----------------------------------------------------------------------------
(* The call stack, computing_ and the walk.                                 *)

\* A helper runs the score rule of the indexed element.
FrameOK(f) ==
    f.op = "memo" => /\ f.fld = "score"
                     /\ Known(CodeOf[f.node])
                     /\ f.node = NodeOf(CodeOf[f.node])

\* One frame of the walk at the bottom, helpers above it, each asked for by the
\* frame below.
StackOK(s) ==
    /\ \A i \in 1..Len(s) : FrameOK(s[i]) /\ (s[i].op = "process" <=> i = 1)
    /\ \A i \in 1..Len(s) - 1 : s[i].todo # <<>> /\ Head(s[i].todo) = CodeOf[s[i + 1].node]

\* S names the helpers on s, as computing_ should.
Tracks(s, S) ==
    /\ S = {CodeOf[s[i].node] : i \in 2..Len(s)}
    /\ \A i, j \in 2..Len(s) : s[i].node = s[j].node => i = j

WalkInv ==
    /\ stack # <<>> => /\ pos \in 1..Len(WalkOrder)
                       /\ WalkOrder[pos] = <<stack[1].node, stack[1].fld>>
    /\ mode \in {"done", "failed"} => stack = <<>>
    /\ mode = "done" => pos > Len(WalkOrder)

KpmrInv == TypeOK /\ StackOK(stack) /\ Tracks(stack, computing) /\ WalkInv

LEMMA AnsweredShape ==
    ASSUME NEW s \in Seq(Frame), s # <<>>, s[Len(s)].todo # <<>>, NEW grade, NEW S,
           StackOK(s), Tracks(s, S)
    PROVE  /\ StackOK(Answered(s, grade)) /\ Tracks(Answered(s, grade), S)
           /\ Answered(s, grade) # <<>>
           /\ Answered(s, grade)[1].node = s[1].node /\ Answered(s, grade)[1].fld = s[1].fld
<1> DEFINE a == Answered(s, grade)
           n == Len(s)
<1>1. n \in Nat \ {0} /\ 1 \in 1..n
  BY StackElement
<1>2. /\ a \in Seq(Frame) /\ Len(a) = n
      /\ \A i \in 1..n : /\ a[i].op = s[i].op /\ a[i].node = s[i].node /\ a[i].fld = s[i].fld
                         /\ a[i].todo = IF i = n THEN Tail(s[i].todo) ELSE s[i].todo
  BY AnsweredProperties
<1>3. a # <<>>
  BY <1>1, <1>2
<1> HIDE DEF a
<1>4. \A i \in 1..n : FrameOK(a[i]) /\ (a[i].op = "process" <=> i = 1)
  BY <1>2 DEF StackOK, FrameOK
<1>5. ASSUME NEW i \in 1..n - 1
      PROVE  a[i].todo # <<>> /\ Head(a[i].todo) = CodeOf[a[i + 1].node]
  <2>1. i \in 1..n /\ i + 1 \in 1..n /\ i # n
    BY <1>1
  <2> QED BY <1>2, <2>1 DEF StackOK
<1>6. Tracks(a, S)
  <2>1. \A i \in 2..n : i \in 1..n
    BY <1>1
  <2>2. \A i \in 2..n : a[i].node = s[i].node
    BY <1>2, <2>1
  <2> QED BY <1>2, <2>2 DEF Tracks
<1>7. StackOK(a)
  BY <1>2, <1>4, <1>5 DEF StackOK
<1> QED BY <1>1, <1>2, <1>3, <1>6, <1>7 DEF a

\* A helper that is left takes its key along; its caller waits for it.
LEMMA PoppedShape ==
    ASSUME NEW s \in Seq(Frame), s # <<>>, s[Len(s)].op = "memo", NEW S,
           StackOK(s), Tracks(s, S)
    PROVE  /\ Pop(s) \in Seq(Frame) /\ Pop(s) # <<>> /\ Len(Pop(s)) = Len(s) - 1
           /\ \A i \in 1..Len(s) - 1 : Pop(s)[i] = s[i]
           /\ Pop(s)[Len(Pop(s))].todo # <<>>
           /\ Head(Pop(s)[Len(Pop(s))].todo) = CodeOf[s[Len(s)].node]
           /\ Pop(s)[1] = s[1]
           /\ StackOK(Pop(s)) /\ Tracks(Pop(s), S \ {CodeOf[s[Len(s)].node]})
<1> DEFINE p == Pop(s)
           n == Len(s)
<1>1. n \in Nat \ {0} /\ n \in 1..n
  BY StackElement
<1>2. n # 1
  BY <1>1 DEF StackOK
<1>3. p \in Seq(Frame) /\ Len(p) = n - 1 /\ \A i \in 1..n - 1 : p[i] = s[i]
  BY PopProperties
<1> HIDE DEF p, n
<1>4. p # <<>>
  BY <1>1, <1>2, <1>3
<1>5. /\ n - 1 \in 1..n - 1 /\ (n - 1) + 1 = n /\ 1 \in 1..n - 1
      /\ \A i \in 1..n - 1 : i \in 1..n
      /\ \A i \in 1..(n - 1) - 1 : i \in 1..n - 1 /\ i + 1 \in 1..n - 1
      /\ \A i \in 2..n - 1 : i \in 2..n /\ i \in 1..n - 1 /\ i # n
      /\ \A i \in 2..n : i = n \/ i \in 2..n - 1
      /\ n \in 2..n
  BY <1>1, <1>2
<1>6. /\ \A i \in 1..n : FrameOK(s[i]) /\ (s[i].op = "process" <=> i = 1)
      /\ \A i \in 1..n - 1 : s[i].todo # <<>> /\ Head(s[i].todo) = CodeOf[s[i + 1].node]
  BY DEF StackOK, n
<1>7. s[n - 1].todo # <<>> /\ Head(s[n - 1].todo) = CodeOf[s[n].node]
  BY <1>5, <1>6
<1>8. StackOK(p)
  BY <1>3, <1>5, <1>6 DEF StackOK
<1>9. /\ S = {CodeOf[s[i].node] : i \in 2..n}
      /\ \A i, j \in 2..n : s[i].node = s[j].node => i = j
  BY DEF Tracks, n
<1>10. \A i \in 2..n : s[i].node = NodeOf(CodeOf[s[i].node])
  <2>1. \A i \in 2..n : i \in 1..n /\ i # 1
    BY <1>1
  <2>2. \A i \in 1..n : s[i] \in Frame
    BY StackElement DEF n
  <2>3. \A i \in 2..n : s[i].op = "memo"
    BY <1>6, <2>1, <2>2 DEF Frame
  <2> QED BY <1>6, <2>1, <2>3 DEF FrameOK
<1>11. \A i \in 2..n - 1 : CodeOf[s[i].node] # CodeOf[s[n].node]
  BY <1>5, <1>9, <1>10
<1>12. S \ {CodeOf[s[n].node]} = {CodeOf[s[i].node] : i \in 2..n - 1}
  BY <1>5, <1>9, <1>11
<1>13. \A i \in 2..n - 1 : p[i] = s[i]
  BY <1>3, <1>5
<1>14. Tracks(p, S \ {CodeOf[s[n].node]})
  <2>1. {CodeOf[s[i].node] : i \in 2..n - 1} = {CodeOf[p[i].node] : i \in 2..n - 1}
    BY <1>13
  <2>2. \A i, j \in 2..n - 1 : p[i].node = p[j].node => i = j
    BY <1>5, <1>9, <1>13
  <2> QED BY <1>3, <1>12, <2>1, <2>2 DEF Tracks
<1> QED BY <1>3, <1>4, <1>5, <1>7, <1>8, <1>14 DEF p, n

\* A helper that is entered is the one its caller asks for, and adds its key.
LEMMA PushedShape ==
    ASSUME NEW s \in Seq(Frame), s # <<>>, NEW S, StackOK(s), Tracks(s, S),
           NEW f \in Frame, FrameOK(f), f.op = "memo", CodeOf[f.node] \notin S,
           s[Len(s)].todo # <<>>, Head(s[Len(s)].todo) = CodeOf[f.node]
    PROVE  /\ Append(s, f) \in Seq(Frame) /\ Append(s, f) # <<>>
           /\ Append(s, f)[1] = s[1]
           /\ StackOK(Append(s, f)) /\ Tracks(Append(s, f), S \cup {CodeOf[f.node]})
<1> DEFINE a == Append(s, f)
           n == Len(s)
<1>1. n \in Nat \ {0} /\ n \in 1..n /\ 1 \in 1..n
  BY StackElement
<1>2. /\ a \in Seq(Frame) /\ Len(a) = n + 1
      /\ \A i \in 1..n : a[i] = s[i]
      /\ a[n + 1] = f
  BY AppendProperties
<1>3. /\ \A i \in 1..n : FrameOK(s[i]) /\ (s[i].op = "process" <=> i = 1)
      /\ \A i \in 1..n - 1 : s[i].todo # <<>> /\ Head(s[i].todo) = CodeOf[s[i + 1].node]
      /\ s[n].todo # <<>> /\ Head(s[n].todo) = CodeOf[f.node]
  BY DEF StackOK
<1>4. /\ S = {CodeOf[s[i].node] : i \in 2..n}
      /\ \A i, j \in 2..n : s[i].node = s[j].node => i = j
  BY DEF Tracks
<1>5. a # <<>>
  BY <1>1, <1>2
<1> HIDE DEF a, n
<1>6. /\ \A i \in 1..n + 1 : i = n + 1 \/ i \in 1..n
      /\ \A i \in 1..n : i = n \/ (i \in 1..n - 1 /\ i + 1 \in 1..n)
      /\ \A i \in 2..n + 1 : i = n + 1 \/ i \in 2..n
      /\ \A i \in 2..n : i \in 2..n + 1 /\ i \in 1..n
      /\ n + 1 # 1 /\ n + 1 \in 2..n + 1 /\ (n + 1) - 1 = n
  BY <1>1
<1>7. \A i \in 1..n + 1 : FrameOK(a[i]) /\ (a[i].op = "process" <=> i = 1)
  BY <1>2, <1>3, <1>6
<1>8. \A i \in 1..n : a[i].todo # <<>> /\ Head(a[i].todo) = CodeOf[a[i + 1].node]
  BY <1>2, <1>3, <1>6
<1>9. StackOK(a)
  BY <1>2, <1>6, <1>7, <1>8 DEF StackOK
<1>10. S \cup {CodeOf[f.node]} = {CodeOf[a[i].node] : i \in 2..n + 1}
  BY <1>2, <1>4, <1>6
<1>11. \A i \in 2..n : a[i].node # f.node
  BY <1>2, <1>4, <1>6
<1>12. \A i, j \in 2..n + 1 : a[i].node = a[j].node => i = j
  BY <1>2, <1>4, <1>6, <1>11
<1> QED BY <1>1, <1>2, <1>5, <1>9, <1>10, <1>12 DEF Tracks, a, n

-----------------------------------------------------------------------------
(* One lemma per kind of step.                                              *)

\* What the frame on top looks like, and what it asks for.
LEMMA TopFrame ==
    ASSUME KpmrInv, stack # <<>>
    PROVE  /\ stack \in Seq(Frame) /\ Len(stack) \in Nat \ {0}
           /\ Len(stack) \in 1..Len(stack) /\ 1 \in 1..Len(stack)
           /\ Top = stack[Len(stack)] /\ Top \in Frame /\ FrameOK(Top)
           /\ Top.op = "process" <=> Len(stack) = 1
           /\ Top.todo # <<>> => Wanted \in Codes
<1>1. stack \in Seq(Frame)
  BY DEF KpmrInv, TypeOK
<1>2. /\ Len(stack) \in Nat \ {0} /\ Len(stack) \in 1..Len(stack)
      /\ \A i \in 1..Len(stack) : stack[i] \in Frame
  BY <1>1, StackElement
<1>3. Top = stack[Len(stack)] /\ Top \in Frame
  BY <1>2 DEF Top
<1>4. FrameOK(Top) /\ (Top.op = "process" <=> Len(stack) = 1)
  BY <1>2, <1>3 DEF KpmrInv, StackOK
<1>5. Top.todo # <<>> => Wanted \in Codes
  <2>1. Top.todo \in Seq(Codes)
    BY <1>3 DEF Frame
  <2> QED BY <2>1, HeadTailProperties DEF Wanted
<1> QED BY <1>1, <1>2, <1>3, <1>4, <1>5

LEMMA LookupType ==
    ASSUME TypeOK, NEW c \in Codes
    PROVE  /\ Lookup(c) \in Grade
           /\ Lookup(c) = "none" =>
                 /\ Known(c) /\ NodeOf(c) \in Nodes /\ CodeOf[NodeOf(c)] = c
                 /\ cache[c] = "none"
<1>1. cache[c] \in Grade
  BY DEF TypeOK
<1>2. CASE ~Known(c)
  BY <1>2 DEF Lookup, Grade
<1>3. CASE Known(c)
  <2>1. NodeOf(c) \in Nodes /\ CodeOf[NodeOf(c)] = c
    BY <1>3, NodeOfCode
  <2>2. field[NodeOf(c)]["weighted"] \in Grade
    BY <2>1 DEF TypeOK, KpmrFields
  <2> QED BY <1>1, <1>3, <2>1, <2>2 DEF Lookup
<1> QED BY <1>2, <1>3

LEMMA GradeType == \A b \in BOOLEAN : ToGrade(b) \in Grade
BY DEF ToGrade, Grade

\* Steps that leave the stack and the memory alone.
LEMMA QuietStep ==
    ASSUME KpmrInv,
           ProcessSkip \/ CallCycle \/ RuleThrows \/ Fail \/ Finish \/ EvaluateAgain
    PROVE  KpmrInv'
<1>1. UNCHANGED <<rules, given, field, cache, computing, stack>>
  BY DEF ProcessSkip, CallCycle, RuleThrows, Fail, Finish, EvaluateAgain, tree, memory
<1>2. /\ pos \in 1..Len(WalkOrder) + 1 /\ Len(WalkOrder) \in Nat
      /\ mode \in {"running", "throwing", "done", "failed"}
      /\ evaluations \in 1..MaxEvaluations /\ MaxEvaluations \in Nat
  BY WalkPlaces, KpmrAssumption DEF KpmrInv, TypeOK
<1>3. WalkInv
  BY DEF KpmrInv
<1>4. /\ pos' \in 1..Len(WalkOrder) + 1
      /\ mode' \in {"running", "throwing", "done", "failed"}
      /\ evaluations' \in 1..MaxEvaluations
      /\ stack # <<>> => pos' = pos
      /\ mode' \in {"done", "failed"} => stack = <<>>
      /\ mode' = "done" => pos' > Len(WalkOrder)
  <2>1. CASE ProcessSkip
    BY <1>2, <2>1 DEF ProcessSkip, AtRule
  <2>2. CASE CallCycle \/ RuleThrows
    BY <1>2, <2>2 DEF CallCycle, RuleThrows
  <2>3. CASE Fail \/ Finish
    BY <1>2, <2>3 DEF Fail, Finish
  <2>4. CASE EvaluateAgain
    BY <1>2, <1>3, <2>4 DEF EvaluateAgain, WalkInv
  <2> QED BY <2>1, <2>2, <2>3, <2>4
<1>5. TypeOK'
  BY <1>1, <1>4 DEF KpmrInv, TypeOK, WalkOrder
<1>6. WalkInv'
  BY <1>1, <1>3, <1>4 DEF WalkInv, WalkOrder
<1>7. StackOK(stack') /\ Tracks(stack', computing')
  BY <1>1 DEF KpmrInv
<1> QED BY <1>5, <1>6, <1>7 DEF KpmrInv

LEMMA ProcessRuleStep ==
    ASSUME KpmrInv, ProcessRule
    PROVE  KpmrInv'
<1> DEFINE n == WalkOrder[pos][1]
           k == WalkOrder[pos][2]
           f == Enter("process", n, k)
<1>1. /\ mode = "running" /\ stack = <<>> /\ HasRule(rules, n, k) /\ stack' = <<f>>
      /\ UNCHANGED <<rules, given, field, cache, computing, pos, mode, evaluations>>
  BY DEF ProcessRule, AtRule, Runs, tree, memory
<1>2. /\ pos \in 1..Len(WalkOrder) /\ n \in Nodes /\ k \in {"rating", "score"}
      /\ WalkOrder[pos] = <<n, k>>
  <2>1. pos \in 1..Len(WalkOrder)
    BY WalkPlaces DEF ProcessRule, AtRule, KpmrInv, TypeOK
  <2> QED BY <2>1, WalkPlaces
<1>3. f \in Frame /\ f.op = "process" /\ f.node = n /\ f.fld = k
  BY <1>1, <1>2, EnterType DEF KpmrInv
<1> HIDE DEF f, n, k
<1>4. /\ stack' \in Seq(Frame) /\ Len(stack') = 1 /\ stack'[1] = f /\ stack' # <<>>
  BY <1>1, <1>3
<1>5. StackOK(stack')
  BY <1>3, <1>4 DEF StackOK, FrameOK
<1>6. Tracks(stack', computing')
  <2>1. Len(stack) = 0
    BY <1>1
  <2>2. computing = {}
    BY <2>1 DEF KpmrInv, Tracks
  <2> QED BY <1>1, <1>4, <2>2 DEF Tracks
<1>7. TypeOK'
  BY <1>1, <1>4 DEF KpmrInv, TypeOK, WalkOrder
<1>8. WalkInv'
  BY <1>1, <1>2, <1>3, <1>4 DEF WalkInv, WalkOrder, f
<1> QED BY <1>5, <1>6, <1>7, <1>8 DEF KpmrInv

\* The stack is empty again.
LEMMA FinishProcessStep ==
    ASSUME KpmrInv, FinishProcess
    PROVE  KpmrInv'
<1>1. /\ stack # <<>> /\ Top.op = "process" /\ stack' = <<>> /\ pos' = pos + 1
      /\ mode = "running"
      /\ field' = [field EXCEPT ![Top.node] = [g \in KpmrFields |->
                     IF g = Top.fld \/ (Top.fld = "score" /\ g = "weighted")
                     THEN ToGrade(Top.right) ELSE @[g]]]
      /\ UNCHANGED <<rules, given, cache, computing, mode, evaluations>>
  BY DEF FinishProcess, Returning, tree
<1>2. Top \in Frame /\ Len(stack) = 1
  BY <1>1, TopFrame
<1>3. field' \in [Nodes -> [KpmrFields -> Grade]]
  <2>1. ToGrade(Top.right) \in Grade /\ Top.node \in Nodes
    BY <1>2, GradeType DEF Frame
  <2>2. field \in [Nodes -> [KpmrFields -> Grade]]
    BY DEF KpmrInv, TypeOK
  <2> QED BY <1>1, <2>1, <2>2
<1>4. computing = {}
  BY <1>2 DEF KpmrInv, Tracks
<1>5. StackOK(stack') /\ Tracks(stack', computing')
  <2>1. Len(stack') = 0
    BY <1>1
  <2> QED BY <1>1, <1>4, <2>1 DEF StackOK, Tracks
<1>6. pos' \in 1..Len(WalkOrder) + 1
  BY <1>1, WalkPlaces DEF KpmrInv, WalkInv
<1>7. stack' \in Seq(Frame)
  BY <1>1
<1>8. TypeOK'
  BY <1>1, <1>3, <1>6, <1>7 DEF KpmrInv, TypeOK, WalkOrder
<1>9. WalkInv'
  BY <1>1 DEF WalkInv
<1> QED BY <1>5, <1>8, <1>9 DEF KpmrInv

\* A call that is answered at once.
LEMMA AnswerStep ==
    ASSUME KpmrInv, CallAnswered \/ CallRuleless
    PROVE  KpmrInv'
<1>1. /\ mode = "running" /\ stack # <<>> /\ Top.todo # <<>>
      /\ \E g : stack' = Answered(stack, g)
      /\ UNCHANGED <<rules, given, field, computing, pos, mode, evaluations>>
      /\ cache' = cache \/ cache' = [cache EXCEPT ![Wanted] = "right"]
  BY DEF CallAnswered, CallRuleless, Calling, tree, memory
<1>2. stack \in Seq(Frame) /\ stack[Len(stack)].todo # <<>> /\ Wanted \in Codes
  BY <1>1, TopFrame
<1>3. /\ stack' \in Seq(Frame) /\ StackOK(stack') /\ Tracks(stack', computing)
      /\ stack' # <<>> /\ stack'[1].node = stack[1].node /\ stack'[1].fld = stack[1].fld
  <2>1. PICK g : stack' = Answered(stack, g)
    BY <1>1
  <2>2. StackOK(stack) /\ Tracks(stack, computing)
    BY DEF KpmrInv
  <2>3. Answered(stack, g) \in Seq(Frame)
    BY <1>1, <1>2, AnsweredProperties
  <2> QED BY <1>1, <1>2, <2>1, <2>2, <2>3, AnsweredShape
<1>4. cache' \in [Codes -> Grade]
  <2>1. cache \in [Codes -> Grade] /\ "right" \in Grade
    BY DEF KpmrInv, TypeOK, Grade
  <2> QED BY <1>1, <2>1
<1>5. TypeOK'
  BY <1>1, <1>3, <1>4 DEF KpmrInv, TypeOK, WalkOrder
<1>6. WalkInv'
  BY <1>1, <1>3 DEF KpmrInv, WalkInv, WalkOrder
<1> QED BY <1>1, <1>3, <1>5, <1>6 DEF KpmrInv

LEMMA ComputeStep ==
    ASSUME KpmrInv, CallCompute
    PROVE  KpmrInv'
<1> DEFINE f == Enter("memo", NodeOf(Wanted), "score")
<1>1. /\ mode = "running" /\ stack # <<>> /\ Top.todo # <<>> /\ Lookup(Wanted) = "none"
      /\ Wanted \notin computing /\ HasRule(rules, NodeOf(Wanted), "score")
      /\ computing' = computing \cup {Wanted} /\ stack' = Append(stack, f)
      /\ UNCHANGED <<rules, given, field, cache, pos, mode, evaluations>>
  BY DEF CallCompute, Calling, tree
<1>2. /\ stack \in Seq(Frame) /\ Wanted \in Codes
      /\ stack[Len(stack)].todo # <<>> /\ Head(stack[Len(stack)].todo) = Wanted
  BY <1>1, TopFrame DEF Wanted
<1>3. Known(Wanted) /\ NodeOf(Wanted) \in Nodes /\ CodeOf[NodeOf(Wanted)] = Wanted
  BY <1>1, <1>2, LookupType DEF KpmrInv
<1>4. f \in Frame /\ f.op = "memo" /\ f.node = NodeOf(Wanted) /\ f.fld = "score"
  BY <1>1, <1>3, EnterType DEF KpmrInv
<1> HIDE DEF f
<1>5. FrameOK(f)
  BY <1>3, <1>4 DEF FrameOK
<1>6. CodeOf[f.node] = Wanted
  BY <1>3, <1>4
<1>7. /\ stack' \in Seq(Frame) /\ stack' # <<>> /\ stack'[1] = stack[1]
      /\ StackOK(stack') /\ Tracks(stack', computing')
  BY <1>1, <1>2, <1>4, <1>5, <1>6, PushedShape DEF KpmrInv
<1>8. computing' \subseteq Codes
  BY <1>1, <1>2 DEF KpmrInv, TypeOK
<1>9. TypeOK'
  BY <1>1, <1>7, <1>8 DEF KpmrInv, TypeOK, WalkOrder
<1>10. WalkInv'
  BY <1>1, <1>7 DEF KpmrInv, WalkInv, WalkOrder
<1> QED BY <1>7, <1>9, <1>10 DEF KpmrInv

LEMMA FinishMemoStep ==
    ASSUME KpmrInv, FinishMemo
    PROVE  KpmrInv'
<1>1. /\ mode = "running" /\ stack # <<>> /\ Top.op = "memo"
      /\ cache' = [cache EXCEPT ![CodeOf[Top.node]] = ToGrade(Top.right)]
      /\ computing' = computing \ {CodeOf[Top.node]}
      /\ stack' = Answered(Pop(stack), ToGrade(Top.right))
      /\ UNCHANGED <<rules, given, field, pos, mode, evaluations>>
  BY DEF FinishMemo, Returning, tree
<1>2. stack \in Seq(Frame) /\ Top = stack[Len(stack)] /\ Top \in Frame
  BY <1>1, TopFrame
<1>3. /\ Pop(stack) \in Seq(Frame) /\ Pop(stack) # <<>>
      /\ Pop(stack)[Len(Pop(stack))].todo # <<>>
      /\ Pop(stack)[1] = stack[1]
      /\ StackOK(Pop(stack)) /\ Tracks(Pop(stack), computing \ {CodeOf[Top.node]})
  BY <1>1, <1>2, PoppedShape DEF KpmrInv
<1>4. /\ stack' \in Seq(Frame) /\ StackOK(stack') /\ Tracks(stack', computing')
      /\ stack' # <<>> /\ stack'[1].node = stack[1].node /\ stack'[1].fld = stack[1].fld
  BY <1>1, <1>3, AnsweredShape, AnsweredProperties
<1>5. cache' \in [Codes -> Grade] /\ computing' \subseteq Codes
  <2>1. ToGrade(Top.right) \in Grade
    BY <1>2, GradeType DEF Frame
  <2> QED BY <1>1, <2>1 DEF KpmrInv, TypeOK
<1>6. TypeOK'
  BY <1>1, <1>4, <1>5 DEF KpmrInv, TypeOK, WalkOrder
<1>7. WalkInv'
  BY <1>1, <1>4 DEF KpmrInv, WalkInv, WalkOrder
<1> QED BY <1>4, <1>6, <1>7 DEF KpmrInv

LEMMA UnwindStep ==
    ASSUME KpmrInv, Unwind
    PROVE  KpmrInv'
<1>1. /\ mode = "throwing" /\ stack # <<>> /\ stack' = Pop(stack)
      /\ computing' = IF Top.op = "memo" THEN computing \ {CodeOf[Top.node]} ELSE computing
      /\ UNCHANGED <<rules, given, field, cache, pos, mode, evaluations>>
  BY DEF Unwind, tree
<1>2. /\ stack \in Seq(Frame) /\ Top = stack[Len(stack)] /\ Top \in Frame
      /\ Top.op = "process" <=> Len(stack) = 1
  BY <1>1, TopFrame
<1>3. stack' \in Seq(Frame) /\ Len(stack') = Len(stack) - 1
  BY <1>1, <1>2, PopProperties
<1>4. /\ StackOK(stack') /\ Tracks(stack', computing')
      /\ stack' # <<>> => stack'[1] = stack[1]
  <2>1. CASE Top.op = "memo"
    BY <1>1, <1>2, <2>1, PoppedShape DEF KpmrInv
  <2>2. CASE Top.op # "memo"
    <3>1. Len(stack) = 1
      BY <1>2, <2>2 DEF Frame
    <3>2. computing = {} /\ computing' = {}
      BY <1>1, <2>2, <3>1 DEF KpmrInv, Tracks
    <3>3. Len(stack') = 0 /\ stack' = <<>>
      BY <1>3, <3>1, EmptySeq
    <3> QED BY <3>2, <3>3 DEF StackOK, Tracks
  <2> QED BY <2>1, <2>2
<1>5. computing' \subseteq Codes
  BY <1>1 DEF KpmrInv, TypeOK
<1>6. TypeOK'
  BY <1>1, <1>3, <1>5 DEF KpmrInv, TypeOK, WalkOrder
<1>7. WalkInv'
  BY <1>1, <1>4 DEF KpmrInv, WalkInv, WalkOrder
<1> QED BY <1>4, <1>6, <1>7 DEF KpmrInv

LEMMA InitKpmrInv == ASSUME Init PROVE KpmrInv
<1>1. /\ stack = <<>> /\ Len(stack) = 0 /\ computing = {} /\ pos = 1 /\ mode = "running"
      /\ evaluations = 1 /\ rules \in RuleTables /\ given \in Prefilled
      /\ cache = [c \in Codes |-> "none"]
      /\ field = [n \in Nodes |-> [f \in KpmrFields |->
                    IF <<n, f>> \notin given THEN "none" ELSE ToGrade(~HasRule(rules, n, f))]]
  BY DEF Init
<1>2. field \in [Nodes -> [KpmrFields -> Grade]] /\ cache \in [Codes -> Grade]
  BY <1>1 DEF ToGrade, Grade
<1>3. TypeOK
  BY <1>1, <1>2, WalkPlaces, KpmrAssumption DEF TypeOK
<1>4. StackOK(stack) /\ Tracks(stack, computing)
  BY <1>1 DEF StackOK, Tracks
<1>5. WalkInv
  BY <1>1 DEF WalkInv
<1> QED BY <1>3, <1>4, <1>5 DEF KpmrInv

LEMMA StepKpmrInv ==
    ASSUME KpmrInv, [Next]_vars
    PROVE  KpmrInv'
<1>1. CASE UNCHANGED vars
  BY <1>1 DEF vars, KpmrInv, TypeOK, WalkInv, WalkOrder
<1>2. CASE Next
  BY <1>2, QuietStep, ProcessRuleStep, FinishProcessStep, AnswerStep, ComputeStep,
     FinishMemoStep, UnwindStep DEF Next
<1> QED BY <1>1, <1>2

THEOREM KpmrInvAlways == Spec => []KpmrInv
BY InitKpmrInv, StepKpmrInv, PTL DEF Spec

(***************************************************************************)
(* Every variable of the evaluator keeps its type.                          *)
(***************************************************************************)
THEOREM KpmrTypeCorrect == Spec => []TypeOK
BY KpmrInvAlways, PTL DEF KpmrInv

(***************************************************************************)
(* computing_ names the helpers in progress, each once, on the normal and   *)
(* on the exception path.                                                   *)
(***************************************************************************)
THEOREM KpmrStackCorrect == Spec => []ComputingIsTheCallStack
<1>1. KpmrInv => ComputingIsTheCallStack
  BY DEF KpmrInv, Tracks, ComputingIsTheCallStack
<1> QED BY <1>1, KpmrInvAlways, PTL

-----------------------------------------------------------------------------
(* Circles.                                                                 *)

LeadsTo(c, S) == Known(c) /\ NodeOf(c) \in S

\* A script that needs something of S still has a call to make that goes there.
Waits(f, S) ==
    Asks(f.node, f.fld) \cap S # {} =>
        f.ends = "malformed" \/ \E i \in 1..Len(f.todo) : LeadsTo(f.todo[i], S)

Untouched(S) ==
    /\ \A n \in S : field[n]["weighted"] = "none"
    /\ \A c \in Codes : LeadsTo(c, S) => cache[c] = "none"
    /\ \A i \in 1..Len(stack) : Waits(stack[i], S)
    /\ \A p \in 1..Len(WalkOrder) :
          p < pos /\ Runs(WalkOrder[p][1], WalkOrder[p][2]) =>
              Asks(WalkOrder[p][1], WalkOrder[p][2]) \cap S = {}

CircleInv == \A S \in SUBSET Nodes : Circle(S) => Untouched(S)

LEMMA CircleKept ==
    ASSUME NEW S \in SUBSET Nodes, Untouched(S), rules' = rules,
           \A n \in S : field'[n]["weighted"] = field[n]["weighted"],
           \A c \in Codes : LeadsTo(c, S) => cache'[c] = cache[c],
           \A i \in 1..Len(stack') : Waits(stack'[i], S),
           \A p \in 1..Len(WalkOrder) :
               p < pos' => \/ p < pos
                           \/ ~ Runs(WalkOrder[p][1], WalkOrder[p][2])
                           \/ Asks(WalkOrder[p][1], WalkOrder[p][2]) \cap S = {}
    PROVE  Untouched(S)'
<1>1. ASSUME NEW n, NEW k
      PROVE  /\ Asks(n, k)' = Asks(n, k)
             /\ Runs(n, k)' <=> Runs(n, k)
  <2>1. RuleOf(rules, n, k)' = RuleOf(rules, n, k)
    BY DEF RuleOf
  <2>2. CalledInputs(rules, n, k)' = CalledInputs(rules, n, k)
    BY <2>1 DEF CalledInputs
  <2> QED BY <2>1, <2>2 DEF Asks, Runs, HasRule
<1>2. WalkOrder' = WalkOrder
  BY DEF WalkOrder
<1>3. \A p \in 1..Len(WalkOrder) :
          p < pos' /\ Runs(WalkOrder[p][1], WalkOrder[p][2]) =>
              Asks(WalkOrder[p][1], WalkOrder[p][2]) \cap S = {}
  BY DEF Untouched
<1>4. (\A p \in 1..Len(WalkOrder) :
          p < pos /\ Runs(WalkOrder[p][1], WalkOrder[p][2]) =>
              Asks(WalkOrder[p][1], WalkOrder[p][2]) \cap S = {})'
  BY <1>1, <1>2, <1>3
<1>5. (\A i \in 1..Len(stack) : Waits(stack[i], S))'
  BY <1>1 DEF Waits, LeadsTo
<1>6. /\ (\A n \in S : field[n]["weighted"] = "none")'
      /\ (\A c \in Codes : LeadsTo(c, S) => cache[c] = "none")'
  BY DEF Untouched, LeadsTo
<1> QED BY <1>4, <1>5, <1>6 DEF Untouched

\* A script starts with all its calls before it.
LEMMA EnterWaits ==
    ASSUME TypeOK, NEW n \in Nodes, NEW k \in {"rating", "score"}, NEW op, NEW S
    PROVE  Waits(Enter(op, n, k), S)
<1> DEFINE r == RuleOf(rules, n, k)
           codes == [i \in 1..Len(r.calls) |-> r.calls[i][2]]
           f == Enter(op, n, k)
<1>1. f.node = n /\ f.fld = k /\ f.ends = r.ends
      /\ f.todo = IF r.ends = "malformed" THEN <<>> ELSE codes
  BY DEF Enter
<1>2. /\ codes \in Seq(Codes) /\ Len(codes) = Len(r.calls)
      /\ \A i \in 1..Len(r.calls) : codes[i] = r.calls[i][2]
  BY CallCodes DEF TypeOK, Kinds
<1> HIDE DEF f, codes
<1>3. ASSUME Asks(n, k) \cap S # {}, r.ends # "malformed"
      PROVE  \E i \in 1..Len(codes) : LeadsTo(codes[i], S)
  <2>1. PICK x \in CalledInputs(rules, n, k) : x[1] \in S
    BY <1>3 DEF Asks
  <2>2. PICK i \in 1..Len(r.calls) : Known(r.calls[i][2]) /\ x[1] = NodeOf(r.calls[i][2])
    BY <2>1 DEF CalledInputs
  <2> QED BY <1>2, <2>1, <2>2 DEF LeadsTo
<1> QED BY <1>1, <1>3 DEF Waits, f

\* Answering a call that does not go to S keeps the frames waiting.
LEMMA AnsweredWaits ==
    ASSUME NEW s \in Seq(Frame), s # <<>>, s[Len(s)].todo # <<>>, NEW grade, NEW S,
           \A i \in 1..Len(s) : Waits(s[i], S), ~ LeadsTo(Head(s[Len(s)].todo), S)
    PROVE  \A i \in 1..Len(Answered(s, grade)) : Waits(Answered(s, grade)[i], S)
<1> DEFINE a == Answered(s, grade)
           n == Len(s)
           todo == s[n].todo
<1>1. n \in Nat \ {0} /\ n \in 1..n /\ s[n] \in Frame
  BY StackElement
<1>2. /\ Len(a) = n
      /\ \A i \in 1..n : /\ a[i].node = s[i].node /\ a[i].fld = s[i].fld
                         /\ a[i].ends = s[i].ends
                         /\ a[i].todo = IF i = n THEN Tail(s[i].todo) ELSE s[i].todo
  BY AnsweredProperties
<1>3. todo \in Seq(Codes) /\ todo # <<>>
  BY <1>1 DEF Frame
<1>4. /\ Len(todo) \in Nat /\ Len(Tail(todo)) = Len(todo) - 1 /\ Head(todo) = todo[1]
      /\ \A i \in 1..Len(Tail(todo)) : Tail(todo)[i] = todo[i + 1]
  BY <1>3, HeadTailProperties, LenProperties
<1>5. a[n].todo = Tail(todo) /\ ~ LeadsTo(todo[1], S)
  BY <1>1, <1>2, <1>4
<1> HIDE DEF a, n, todo
<1>6. ASSUME NEW i \in 1..Len(todo), LeadsTo(todo[i], S)
      PROVE  \E j \in 1..Len(Tail(todo)) : LeadsTo(Tail(todo)[j], S)
  <2>1. i # 1
    BY <1>5, <1>6
  <2>2. i - 1 \in 1..Len(Tail(todo)) /\ (i - 1) + 1 = i
    BY <1>4, <2>1
  <2>3. Tail(todo)[i - 1] = todo[i]
    BY <1>4, <2>2
  <2> QED BY <1>6, <2>2, <2>3
<1>7. Waits(s[n], S)
  BY <1>1 DEF n
<1>8. Waits(a[n], S)
  BY <1>1, <1>2, <1>5, <1>6, <1>7 DEF Waits, todo
<1>9. ASSUME NEW i \in 1..n, i # n PROVE Waits(a[i], S)
  BY <1>2, <1>9 DEF Waits, n
<1> QED BY <1>2, <1>8, <1>9 DEF a, n

\* Of a circle's scripts none is done.
LEMMA CircleScript ==
    ASSUME NEW S \in SUBSET Nodes, Circle(S), NEW f, Waits(f, S),
           f.todo = <<>>, f.ends = "returns"
    PROVE  /\ Asks(f.node, f.fld) \cap S = {}
           /\ f.fld = "score" => f.node \notin S
<1>1. Asks(f.node, f.fld) \cap S = {}
  BY DEF Waits
<1> QED BY <1>1 DEF Circle

-----------------------------------------------------------------------------
(* The steps, one group at a time.                                          *)

LEMMA CircleQuiet ==
    ASSUME KpmrInv, NEW S \in SUBSET Nodes, Untouched(S),
           ProcessSkip \/ CallCycle \/ RuleThrows \/ Fail \/ Finish \/ EvaluateAgain
    PROVE  Untouched(S)'
<1>1. UNCHANGED <<rules, field, cache, stack>>
  BY DEF ProcessSkip, CallCycle, RuleThrows, Fail, Finish, EvaluateAgain, tree, memory
<1>2. pos \in 1..Len(WalkOrder) + 1 /\ Len(WalkOrder) \in Nat
  BY WalkPlaces DEF KpmrInv, TypeOK
<1>3. ASSUME NEW p \in 1..Len(WalkOrder), p < pos'
      PROVE  p < pos \/ ~ Runs(WalkOrder[p][1], WalkOrder[p][2])
  <2>1. CASE ProcessSkip
    <3>1. pos' = pos + 1 /\ ~ Runs(WalkOrder[pos][1], WalkOrder[pos][2])
      BY <2>1 DEF ProcessSkip
    <3>2. p < pos \/ p = pos
      BY <1>2, <1>3, <3>1
    <3> QED BY <3>1, <3>2
  <2>2. CASE EvaluateAgain
    <3>1. pos' = 1
      BY <2>2 DEF EvaluateAgain
    <3> QED BY <1>2, <1>3, <3>1
  <2>3. CASE CallCycle \/ RuleThrows \/ Fail \/ Finish
    BY <1>3, <2>3 DEF CallCycle, RuleThrows, Fail, Finish
  <2> QED BY <2>1, <2>2, <2>3
<1>4. \A i \in 1..Len(stack') : Waits(stack'[i], S)
  BY <1>1 DEF Untouched
<1> QED BY <1>1, <1>3, <1>4, CircleKept

\* What is known at once, or has no rule, is not on the circle.
LEMMA CircleAnswer ==
    ASSUME KpmrInv, NEW S \in SUBSET Nodes, Circle(S), Untouched(S),
           CallAnswered \/ CallRuleless
    PROVE  Untouched(S)'
<1>1. /\ stack # <<>> /\ Top.todo # <<>>
      /\ \E g : stack' = Answered(stack, g)
      /\ UNCHANGED <<rules, field, pos>>
      /\ cache' = cache \/ cache' = [cache EXCEPT ![Wanted] = "right"]
  BY DEF CallAnswered, CallRuleless, Calling, tree, memory
<1>2. /\ stack \in Seq(Frame) /\ Wanted \in Codes
      /\ stack[Len(stack)].todo # <<>> /\ Head(stack[Len(stack)].todo) = Wanted
  BY <1>1, TopFrame DEF Wanted
<1>3. ~ LeadsTo(Wanted, S)
  <2>1. CASE CallAnswered
    BY <1>2, <2>1 DEF CallAnswered, Lookup, LeadsTo, Untouched
  <2>2. CASE CallRuleless
    BY <2>2 DEF CallRuleless, LeadsTo, Circle
  <2> QED BY <2>1, <2>2
<1>4. \A c \in Codes : LeadsTo(c, S) => cache'[c] = cache[c]
  BY <1>1, <1>3 DEF KpmrInv, TypeOK
<1>5. \A i \in 1..Len(stack') : Waits(stack'[i], S)
  <2>1. PICK g : stack' = Answered(stack, g)
    BY <1>1
  <2>2. \A i \in 1..Len(stack) : Waits(stack[i], S)
    BY DEF Untouched
  <2> QED BY <1>1, <1>2, <1>3, <2>1, <2>2, AnsweredWaits
<1> QED BY <1>1, <1>4, <1>5, CircleKept

LEMMA CircleProcessRule ==
    ASSUME KpmrInv, NEW S \in SUBSET Nodes, Untouched(S), ProcessRule
    PROVE  Untouched(S)'
<1> DEFINE n == WalkOrder[pos][1]
           k == WalkOrder[pos][2]
<1>1. stack' = <<Enter("process", n, k)>> /\ UNCHANGED <<rules, field, cache, pos>>
  BY DEF ProcessRule, tree, memory
<1>2. n \in Nodes /\ k \in {"rating", "score"}
  BY WalkPlaces DEF ProcessRule, AtRule, KpmrInv, TypeOK
<1>3. Waits(Enter("process", n, k), S)
  BY <1>2, EnterWaits DEF KpmrInv
<1>4. \A i \in 1..Len(stack') : Waits(stack'[i], S)
  BY <1>1, <1>3
<1> QED BY <1>1, <1>4, CircleKept

\* A rule that returns has asked for nothing on the circle, so it is none of
\* the circle's and sets no field of it.
LEMMA CircleFinishProcess ==
    ASSUME KpmrInv, NEW S \in SUBSET Nodes, Circle(S), Untouched(S), FinishProcess
    PROVE  Untouched(S)'
<1>1. /\ stack # <<>> /\ Top.todo = <<>> /\ Top.ends = "returns"
      /\ Top.op = "process" /\ stack' = <<>> /\ pos' = pos + 1
      /\ field' = [field EXCEPT ![Top.node] = [g \in KpmrFields |->
                     IF g = Top.fld \/ (Top.fld = "score" /\ g = "weighted")
                     THEN ToGrade(Top.right) ELSE @[g]]]
      /\ UNCHANGED <<rules, cache>>
  BY DEF FinishProcess, Returning, tree
<1>2. Top \in Frame /\ Top = stack[1] /\ 1 \in 1..Len(stack)
  BY <1>1, TopFrame
<1>3. /\ Asks(Top.node, Top.fld) \cap S = {}
      /\ Top.fld = "score" => Top.node \notin S
  <2>1. Waits(Top, S)
    BY <1>2 DEF Untouched
  <2> QED BY <1>1, <2>1, CircleScript
<1>4. ASSUME NEW n \in S PROVE field'[n]["weighted"] = field[n]["weighted"]
  <2>1. /\ field \in [Nodes -> [KpmrFields -> Grade]] /\ n \in Nodes
        /\ "weighted" \in KpmrFields /\ Top.fld # "weighted"
    BY <1>2 DEF KpmrInv, TypeOK, KpmrFields, Frame
  <2> QED BY <1>1, <1>3, <2>1
<1>5. WalkOrder[pos] = <<Top.node, Top.fld>> /\ pos \in 1..Len(WalkOrder)
  BY <1>1, <1>2 DEF KpmrInv, WalkInv
<1>6. ASSUME NEW p \in 1..Len(WalkOrder), p < pos'
      PROVE  p < pos \/ Asks(WalkOrder[p][1], WalkOrder[p][2]) \cap S = {}
  <2>1. p < pos \/ p = pos
    BY <1>1, <1>5, <1>6, WalkPlaces
  <2> QED BY <1>3, <1>5, <2>1
<1>7. \A i \in 1..Len(stack') : Waits(stack'[i], S)
  BY <1>1
<1> QED BY <1>1, <1>4, <1>6, <1>7, CircleKept

LEMMA CircleCompute ==
    ASSUME KpmrInv, NEW S \in SUBSET Nodes, Untouched(S), CallCompute
    PROVE  Untouched(S)'
<1> DEFINE f == Enter("memo", NodeOf(Wanted), "score")
<1>1. /\ stack # <<>> /\ Top.todo # <<>> /\ Lookup(Wanted) = "none"
      /\ HasRule(rules, NodeOf(Wanted), "score") /\ stack' = Append(stack, f)
      /\ UNCHANGED <<rules, field, cache, pos>>
  BY DEF CallCompute, Calling, tree
<1>2. stack \in Seq(Frame) /\ Len(stack) \in Nat \ {0} /\ Wanted \in Codes
  BY <1>1, TopFrame
<1>3. NodeOf(Wanted) \in Nodes
  BY <1>1, <1>2, LookupType DEF KpmrInv
<1>4. f \in Frame /\ Waits(f, S)
  BY <1>1, <1>3, EnterType, EnterWaits DEF KpmrInv
<1> HIDE DEF f
<1>5. /\ Len(stack') = Len(stack) + 1
      /\ \A i \in 1..Len(stack) : stack'[i] = stack[i]
      /\ stack'[Len(stack) + 1] = f
  BY <1>1, <1>2, <1>4, AppendProperties
<1>6. \A i \in 1..Len(stack') : i \in 1..Len(stack) \/ i = Len(stack) + 1
  BY <1>2, <1>5
<1>7. \A i \in 1..Len(stack') : Waits(stack'[i], S)
  BY <1>4, <1>5, <1>6 DEF Untouched
<1> QED BY <1>1, <1>7, CircleKept

\* Neither is a helper that has its result, nor the call it answers.
LEMMA CircleFinishMemo ==
    ASSUME KpmrInv, NEW S \in SUBSET Nodes, Circle(S), Untouched(S), FinishMemo
    PROVE  Untouched(S)'
<1>1. /\ stack # <<>> /\ Top.todo = <<>> /\ Top.ends = "returns" /\ Top.op = "memo"
      /\ cache' = [cache EXCEPT ![CodeOf[Top.node]] = ToGrade(Top.right)]
      /\ stack' = Answered(Pop(stack), ToGrade(Top.right))
      /\ UNCHANGED <<rules, field, pos>>
  BY DEF FinishMemo, Returning, tree
<1>2. /\ stack \in Seq(Frame) /\ Top = stack[Len(stack)] /\ FrameOK(Top)
      /\ Len(stack) \in 1..Len(stack) /\ Len(stack) \in Nat
  BY <1>1, TopFrame
<1>3. Top.node \notin S
  <2>1. Waits(Top, S)
    BY <1>2 DEF Untouched
  <2> QED BY <1>1, <1>2, <2>1, CircleScript DEF FrameOK
<1>4. ~ LeadsTo(CodeOf[Top.node], S)
  BY <1>1, <1>2, <1>3 DEF FrameOK, LeadsTo
<1>5. \A c \in Codes : LeadsTo(c, S) => cache'[c] = cache[c]
  BY <1>1, <1>4 DEF KpmrInv, TypeOK
<1>6. /\ Pop(stack) \in Seq(Frame) /\ Pop(stack) # <<>> /\ Len(Pop(stack)) = Len(stack) - 1
      /\ \A i \in 1..Len(stack) - 1 : Pop(stack)[i] = stack[i]
      /\ Pop(stack)[Len(Pop(stack))].todo # <<>>
      /\ Head(Pop(stack)[Len(Pop(stack))].todo) = CodeOf[Top.node]
  BY <1>1, <1>2, PoppedShape DEF KpmrInv
<1>7. \A i \in 1..Len(Pop(stack)) : Waits(Pop(stack)[i], S)
  BY <1>2, <1>6 DEF Untouched
<1>8. ~ LeadsTo(Head(Pop(stack)[Len(Pop(stack))].todo), S)
  BY <1>4, <1>6
<1>9. \A i \in 1..Len(stack') : Waits(stack'[i], S)
  BY <1>1, <1>6, <1>7, <1>8, AnsweredWaits
<1> QED BY <1>1, <1>5, <1>9, CircleKept

LEMMA CircleUnwind ==
    ASSUME KpmrInv, NEW S \in SUBSET Nodes, Untouched(S), Unwind
    PROVE  Untouched(S)'
<1>1. stack # <<>> /\ stack' = Pop(stack) /\ UNCHANGED <<rules, field, cache, pos>>
  BY DEF Unwind, tree
<1>2. stack \in Seq(Frame) /\ Len(stack) \in Nat \ {0}
  BY <1>1, TopFrame
<1>3. Len(stack') = Len(stack) - 1 /\ \A i \in 1..Len(stack) - 1 : stack'[i] = stack[i]
  BY <1>1, <1>2, PopProperties
<1>4. \A i \in 1..Len(stack') : Waits(stack'[i], S)
  BY <1>2, <1>3 DEF Untouched
<1> QED BY <1>1, <1>4, CircleKept

LEMMA CircleStep ==
    ASSUME KpmrInv, CircleInv, [Next]_vars
    PROVE  CircleInv'
<1>1. UNCHANGED <<rules, given>>
  BY DEF vars, tree, memory, Next, ProcessSkip, ProcessRule, FinishProcess, CallAnswered,
     CallCycle, CallRuleless, CallCompute, FinishMemo, RuleThrows, Unwind, Fail, Finish,
     EvaluateAgain
<1>2. \A S : Circle(S)' = Circle(S)
  BY <1>1 DEF Circle, Asks, HasRule, RuleOf, CalledInputs
<1> SUFFICES ASSUME NEW S \in SUBSET Nodes, Circle(S)'
             PROVE  Untouched(S)'
  BY DEF CircleInv
<1>3. Circle(S) /\ Untouched(S)
  BY <1>2 DEF CircleInv
<1>4. CASE UNCHANGED vars
  <2>1. UNCHANGED <<rules, field, cache, stack, pos>>
    BY <1>4 DEF vars
  <2>2. \A i \in 1..Len(stack') : Waits(stack'[i], S)
    BY <1>3, <2>1 DEF Untouched
  <2> QED BY <1>3, <2>1, <2>2, CircleKept
<1>5. CASE Next
  BY <1>3, <1>5, CircleQuiet, CircleAnswer, CircleProcessRule, CircleFinishProcess,
     CircleCompute, CircleFinishMemo, CircleUnwind DEF Next
<1> QED BY <1>4, <1>5

LEMMA CircleInit == ASSUME Init PROVE CircleInv
<1> SUFFICES ASSUME NEW S \in SUBSET Nodes, Circle(S)
             PROVE  Untouched(S)
  BY DEF CircleInv
<1>1. /\ stack = <<>> /\ pos = 1 /\ cache = [c \in Codes |-> "none"]
      /\ field = [n \in Nodes |-> [f \in KpmrFields |->
                    IF <<n, f>> \notin given THEN "none" ELSE ToGrade(~HasRule(rules, n, f))]]
  BY DEF Init
<1>2. \A n \in S : field[n]["weighted"] = "none"
  BY <1>1 DEF Circle, KpmrFields
<1>3. \A p \in 1..Len(WalkOrder) : ~ p < 1
  BY WalkPlaces
<1>4. \A i \in 1..Len(stack) : FALSE
  BY <1>1
<1> QED BY <1>1, <1>2, <1>3, <1>4 DEF Untouched

\* Behind the last rule none is left that asks for the circle.
LEMMA DoneWithoutCircle ==
    ASSUME KpmrInv, CircleInv
    PROVE  CirclesNeverSucceed
<1> SUFFICES ASSUME mode = "done", NEW S \in SUBSET Nodes, Circle(S),
                    NEW n \in Walked, n \in S \/ AsksFor(n) \cap S # {}
             PROVE  FALSE
  BY DEF CirclesNeverSucceed
<1>1. Untouched(S) /\ pos > Len(WalkOrder) /\ n \in Nodes /\ n \notin TopLevel
  BY DEF CircleInv, KpmrInv, WalkInv, Walked
<1>2. PICK k \in {"rating", "score"} : Asks(n, k) \cap S # {}
  BY DEF AsksFor, Circle
<1>3. Runs(n, k)
  BY <1>1, <1>2 DEF Runs, Asks
<1>4. PICK p \in 1..Len(WalkOrder) : WalkOrder[p] = <<n, k>>
  BY <1>1, WalkPlaces
<1>5. p < pos
  BY <1>1, <1>4, WalkPlaces DEF KpmrInv, TypeOK
<1>6. WalkOrder[p][1] = n /\ WalkOrder[p][2] = k
  BY <1>4
<1> QED BY <1>1, <1>2, <1>3, <1>5, <1>6 DEF Untouched

(***************************************************************************)
(* Scores that depend on each other in a circle the walk gets to are never  *)
(* evaluated with success, for every tree, rule table and input file.       *)
(***************************************************************************)
THEOREM CirclesAreNeverMissed == Spec => []CirclesNeverSucceed
<1>1. Init => CircleInv
  BY CircleInit
<1>2. KpmrInv /\ CircleInv /\ [Next]_vars => CircleInv'
  BY CircleStep
<1>3. KpmrInv /\ CircleInv => CirclesNeverSucceed
  BY DoneWithoutCircle
<1> QED BY <1>1, <1>2, <1>3, KpmrInvAlways, PTL DEF Spec

-----------------------------------------------------------------------------
(* Results that are what the rules define.                                  *)

\* What a script still asks for is among what its rule calls.
Scripted(f) ==
    /\ HasRule(rules, f.node, f.fld)
    /\ \A i \in 1..Len(f.todo) : Known(f.todo[i]) => NodeOf(f.todo[i]) \in Asks(f.node, f.fld)

\* Where there is no rule, nothing is wrong.
ScriptInv ==
    /\ \A i \in 1..Len(stack) : Scripted(stack[i])
    /\ stack # <<>> => stack[1].node \in Walked
    /\ \A n \in Nodes : ~HasRule(rules, n, "rating") => field[n]["rating"] # "wrong"
    /\ \A n \in Nodes : ~HasRule(rules, n, "score") => field[n]["weighted"] # "wrong"
    /\ \A c \in Codes : Known(c) /\ ~HasRule(rules, NodeOf(c), "score") => cache[c] # "wrong"

\* The scripts of the elements of G get to R[n] only, and there to elements of
\* G that come before, or to elements of F.  Where other scripts could leave a
\* wrong result in F, F is empty.
Sound(G, F, R) ==
    /\ G \subseteq Walked
    /\ F # {} => G = Walked
    /\ \A m \in F : ~HasRule(rules, m, "rating") /\ <<m, "weighted">> \notin given
    /\ \A n \in G : /\ AsksFor(n) \subseteq R[n]
                    /\ \A m \in R[n] : \/ m \in G /\ Before(m, n)
                                       \/ m \in F /\ Asks(m, "score") \subseteq R[n]

IsSet(n, k) ==
    HasRule(rules, n, k) =>
        field[n][k] = "right" /\ (k = "score" => field[n]["weighted"] = "right")

\* Of a helper at work for an element of G: it is of F.
RightFrame(f, i, F, reach) ==
    f.right /\ (i # 1 => f.node \in F /\ Asks(f.node, "score") \subseteq reach)

Keeps(G, F, R) ==
    /\ \A p \in 1..Len(WalkOrder) :
          p < pos /\ WalkOrder[p][1] \in G => IsSet(WalkOrder[p][1], WalkOrder[p][2])
    /\ \A n \in F : field[n]["weighted"] # "wrong"
    /\ \A c \in Codes : Known(c) /\ NodeOf(c) \in F => cache[c] # "wrong"
    /\ stack # <<>> /\ stack[1].node \in G =>
          \A i \in 1..Len(stack) : RightFrame(stack[i], i, F, R[stack[1].node])

RightInv ==
    \A G, F \in SUBSET Nodes : \A R \in [Nodes -> SUBSET Nodes] :
        Sound(G, F, R) => Keeps(G, F, R)

\* The rules of a tree do not change, nor what depends on them alone.
LEMMA RulesStay ==
    ASSUME UNCHANGED tree
    PROVE  /\ \A n, k : HasRule(rules, n, k)' = HasRule(rules, n, k)
           /\ \A n, k : Asks(n, k)' = Asks(n, k)
           /\ \A n : AsksFor(n)' = AsksFor(n)
           /\ WalkOrder' = WalkOrder
           /\ \A G, F, R : Sound(G, F, R)' = Sound(G, F, R)
<1>1. rules' = rules /\ given' = given
  BY DEF tree
<1>2. ASSUME NEW n, NEW k
      PROVE  /\ HasRule(rules, n, k)' = HasRule(rules, n, k)
             /\ Asks(n, k)' = Asks(n, k)
  <2>1. RuleOf(rules, n, k)' = RuleOf(rules, n, k)
    BY <1>1 DEF RuleOf
  <2>2. CalledInputs(rules, n, k)' = CalledInputs(rules, n, k)
    BY <1>1, <2>1 DEF CalledInputs
  <2> QED BY <2>1, <2>2 DEF Asks, HasRule
<1>3. \A n : AsksFor(n)' = AsksFor(n)
  BY <1>2 DEF AsksFor
<1>4. WalkOrder' = WalkOrder
  BY DEF WalkOrder
<1>5. \A G, F, R : Sound(G, F, R)' = Sound(G, F, R)
  <2> SUFFICES ASSUME NEW G, NEW F, NEW R PROVE Sound(G, F, R)' = Sound(G, F, R)
    OBVIOUS
  <2>1. \A m, n : Before(m, n)' = Before(m, n)
    BY DEF Before, Walked, Place
  <2>2. \A n : (\A m \in R[n] : \/ m \in G /\ Before(m, n)
                                \/ m \in F /\ Asks(m, "score") \subseteq R[n])'
             = (\A m \in R[n] : \/ m \in G /\ Before(m, n)
                                \/ m \in F /\ Asks(m, "score") \subseteq R[n])
    BY <1>2, <2>1
  <2>3. (\A m \in F : ~HasRule(rules, m, "rating") /\ <<m, "weighted">> \notin given)'
          = (\A m \in F : ~HasRule(rules, m, "rating") /\ <<m, "weighted">> \notin given)
    BY <1>1, <1>2
  <2>4. \A n : (AsksFor(n) \subseteq R[n])' = (AsksFor(n) \subseteq R[n])
    BY <1>3
  <2> QED BY <2>2, <2>3, <2>4 DEF Sound, Walked
<1> QED BY <1>2, <1>3, <1>4, <1>5

\* What a script asks for are elements.
LEMMA AsksType ==
    ASSUME TypeOK, NEW n \in Nodes, NEW k \in {"rating", "score"}
    PROVE  Asks(n, k) \subseteq Nodes
<1>1. rules \in RuleTables /\ k \in Kinds
  BY DEF TypeOK, Kinds
<1>2. \A i \in 1..Len(RuleOf(rules, n, k).calls) : RuleOf(rules, n, k).calls[i][2] \in Codes
  BY <1>1, CallCodes
<1>3. \A x \in CalledInputs(rules, n, k) : x[1] \in Nodes
  BY <1>2, NodeOfCode DEF CalledInputs
<1> QED BY <1>3 DEF Asks

\* The two rules of an element stand next to each other, each once, behind
\* those of the elements before it.
LEMMA WalkOrderShape ==
    /\ \A p, q \in 1..Len(WalkOrder) : WalkOrder[p] = WalkOrder[q] => p = q
    /\ \A p \in 1..Len(WalkOrder) : WalkOrder[p][2] = "score" =>
          /\ p - 1 \in 1..Len(WalkOrder)
          /\ WalkOrder[p - 1] = <<WalkOrder[p][1], "rating">>
    /\ \A p, q \in 1..Len(WalkOrder) :
          Place(WalkOrder[q][1]) < Place(WalkOrder[p][1]) => q < p
<1> DEFINE m == Len(Postorder)
           half(p) == (p + 1) \div 2
<1>1. m \in Nat /\ Len(WalkOrder) = 2 * m
  BY TreeAssumption, LenProperties, WalkPlaces
<1>2. \A i, j \in 1..m : Postorder[i] = Postorder[j] => i = j
  BY TreeAssumption
<1>3. \A i \in 1..m : Place(Postorder[i]) = i
  BY <1>2 DEF Place
<1>4. \A p \in 1..2 * m : half(p) \in 1..m
  BY <1>1
<1>5. \A p \in 1..2 * m : /\ WalkOrder[p][1] = Postorder[half(p)]
                          /\ WalkOrder[p][2] = IF p % 2 = 1 THEN "rating" ELSE "score"
                          /\ WalkOrder[p] = <<WalkOrder[p][1], WalkOrder[p][2]>>
  BY DEF WalkOrder
<1>6. ASSUME NEW p \in 1..2 * m, NEW q \in 1..2 * m, WalkOrder[p] = WalkOrder[q]
      PROVE  p = q
  <2>1. half(p) = half(q)
    BY <1>2, <1>4, <1>5, <1>6
  <2>2. p % 2 = 1 <=> q % 2 = 1
    BY <1>5, <1>6
  <2>3. p \in Nat /\ q \in Nat
    BY <1>1
  <2> QED BY <2>1, <2>2, <2>3
<1>7. ASSUME NEW p \in 1..2 * m, WalkOrder[p][2] = "score"
      PROVE  p - 1 \in 1..2 * m /\ WalkOrder[p - 1] = <<WalkOrder[p][1], "rating">>
  <2>1. p % 2 # 1
    BY <1>5, <1>7
  <2>2. p - 1 \in 1..2 * m /\ (p - 1) % 2 = 1 /\ half(p - 1) = half(p)
    BY <1>1, <2>1
  <2> QED BY <1>5, <2>2
<1>8. ASSUME NEW p \in 1..2 * m, NEW q \in 1..2 * m,
             Place(WalkOrder[q][1]) < Place(WalkOrder[p][1])
      PROVE  q < p
  <2>1. half(q) < half(p)
    BY <1>3, <1>4, <1>5, <1>8
  <2> QED BY <1>1, <2>1
<1> QED BY <1>1, <1>6, <1>7, <1>8

\* Entering a script.
LEMMA EnterScripted ==
    ASSUME TypeOK, NEW n \in Nodes, NEW k \in {"rating", "score"}, HasRule(rules, n, k), NEW op
    PROVE  /\ Scripted(Enter(op, n, k))
           /\ Enter(op, n, k).right <=> k = "rating" \/ RatingIsRight(n)
<1> DEFINE r == RuleOf(rules, n, k)
           codes == [i \in 1..Len(r.calls) |-> r.calls[i][2]]
           f == Enter(op, n, k)
<1>1. f.node = n /\ f.fld = k /\ f.todo = IF r.ends = "malformed" THEN <<>> ELSE codes
  BY DEF Enter
<1>2. f.right <=> k = "rating" \/ RatingIsRight(n)
  BY DEF Enter
<1>3. /\ codes \in Seq(Codes) /\ Len(codes) = Len(r.calls) /\ Len(r.calls) \in Nat
      /\ \A i \in 1..Len(r.calls) : codes[i] = r.calls[i][2]
  BY CallCodes DEF TypeOK, Kinds
<1> HIDE DEF f, codes
<1>4. ASSUME NEW i \in 1..Len(f.todo), Known(f.todo[i])
      PROVE  NodeOf(f.todo[i]) \in Asks(n, k)
  <2>1. f.todo = codes
    <3>1. f.todo = <<>> => Len(f.todo) = 0
      BY EmptySeq
    <3> QED BY <1>1, <3>1
  <2>2. i \in 1..Len(r.calls) /\ f.todo[i] = r.calls[i][2]
    BY <1>3, <2>1
  <2>3. <<NodeOf(r.calls[i][2]), r.calls[i][1]>> \in CalledInputs(rules, n, k)
    BY <1>4, <2>2 DEF CalledInputs
  <2>4. \E x \in CalledInputs(rules, n, k) : x[1] = NodeOf(f.todo[i])
    BY <2>2, <2>3
  <2> QED BY <2>4 DEF Asks
<1> QED BY <1>1, <1>2, <1>4 DEF Scripted, f

\* A frame that has one answer more asks for no more.
LEMMA AnsweredScripted ==
    ASSUME NEW s \in Seq(Frame), s # <<>>, s[Len(s)].todo # <<>>, NEW grade,
           \A i \in 1..Len(s) : Scripted(s[i])
    PROVE  \A i \in 1..Len(Answered(s, grade)) : Scripted(Answered(s, grade)[i])
<1> DEFINE a == Answered(s, grade)
           n == Len(s)
           todo == s[n].todo
<1>1. n \in Nat \ {0} /\ n \in 1..n /\ s[n] \in Frame
  BY StackElement
<1>2. /\ Len(a) = n
      /\ \A i \in 1..n : /\ a[i].node = s[i].node /\ a[i].fld = s[i].fld
                         /\ a[i].todo = IF i = n THEN Tail(s[i].todo) ELSE s[i].todo
  BY AnsweredProperties
<1>3. todo \in Seq(Codes) /\ todo # <<>>
  BY <1>1 DEF Frame
<1>4. /\ Len(todo) \in Nat /\ Len(Tail(todo)) = Len(todo) - 1
      /\ \A i \in 1..Len(Tail(todo)) : Tail(todo)[i] = todo[i + 1]
  BY <1>3, HeadTailProperties, LenProperties
<1>5. a[n].todo = Tail(todo)
  BY <1>1, <1>2
<1> HIDE DEF a, n, todo
<1>6. Scripted(s[n])
  BY <1>1 DEF n
<1>7. ASSUME NEW i \in 1..Len(Tail(todo)), Known(Tail(todo)[i])
      PROVE  NodeOf(Tail(todo)[i]) \in Asks(s[n].node, s[n].fld)
  <2>1. i + 1 \in 1..Len(todo) /\ Tail(todo)[i] = todo[i + 1]
    BY <1>4
  <2> QED BY <1>6, <1>7, <2>1 DEF Scripted, todo
<1>8. Scripted(a[n])
  BY <1>1, <1>2, <1>5, <1>6, <1>7 DEF Scripted
<1>9. ASSUME NEW i \in 1..n, i # n PROVE Scripted(a[i])
  BY <1>2, <1>9 DEF Scripted, n
<1> QED BY <1>2, <1>8, <1>9 DEF a, n

\* What a step has to leave in order.
LEMMA ScriptKept ==
    ASSUME UNCHANGED tree,
           \A i \in 1..Len(stack') : Scripted(stack'[i]),
           stack' # <<>> => stack'[1].node \in Walked,
           \A n \in Nodes : ~HasRule(rules, n, "rating") => field'[n]["rating"] # "wrong",
           \A n \in Nodes : ~HasRule(rules, n, "score") => field'[n]["weighted"] # "wrong",
           \A c \in Codes : Known(c) /\ ~HasRule(rules, NodeOf(c), "score") => cache'[c] # "wrong"
    PROVE  ScriptInv'
<1>1. /\ \A n, k : HasRule(rules, n, k)' = HasRule(rules, n, k)
      /\ \A n, k : Asks(n, k)' = Asks(n, k)
  BY RulesStay
<1>2. (\A i \in 1..Len(stack) : Scripted(stack[i]))'
  BY <1>1 DEF Scripted
<1>3. (stack # <<>> => stack[1].node \in Walked)'
  BY DEF Walked
<1>4. /\ (\A n \in Nodes : ~HasRule(rules, n, "rating") => field[n]["rating"] # "wrong")'
      /\ (\A n \in Nodes : ~HasRule(rules, n, "score") => field[n]["weighted"] # "wrong")'
  BY <1>1
<1>5. (\A c \in Codes : Known(c) /\ ~HasRule(rules, NodeOf(c), "score") => cache[c] # "wrong")'
  BY <1>1
<1> QED BY <1>2, <1>3, <1>4, <1>5 DEF ScriptInv

LEMMA ScriptQuiet ==
    ASSUME KpmrInv, ScriptInv, UNCHANGED <<rules, given, field, cache>>,
           UNCHANGED stack \/ Unwind
    PROVE  ScriptInv'
<1>1. UNCHANGED tree
  BY DEF tree
<1>2. /\ \A i \in 1..Len(stack') : Scripted(stack'[i])
      /\ stack' # <<>> => stack'[1].node \in Walked
  <2>1. CASE UNCHANGED stack
    BY <2>1 DEF ScriptInv
  <2>2. CASE Unwind
    <3>1. stack # <<>> /\ stack' = Pop(stack)
      BY <2>2 DEF Unwind
    <3>2. stack \in Seq(Frame) /\ Len(stack) \in Nat \ {0}
      BY <3>1, TopFrame
    <3>3. /\ Len(stack') = Len(stack) - 1 /\ stack' \in Seq(Frame)
          /\ \A i \in 1..Len(stack) - 1 : stack'[i] = stack[i]
      BY <3>1, <3>2, PopProperties
    <3>4. stack' # <<>> => 1 \in 1..Len(stack) - 1
      BY <3>2, <3>3, EmptySeq
    <3> QED BY <3>1, <3>2, <3>3, <3>4 DEF ScriptInv
  <2> QED BY <2>1, <2>2
<1> QED BY <1>1, <1>2, ScriptKept DEF ScriptInv

LEMMA ScriptAnswer ==
    ASSUME KpmrInv, ScriptInv, CallAnswered \/ CallRuleless
    PROVE  ScriptInv'
<1>1. /\ stack # <<>> /\ Top.todo # <<>>
      /\ \E g : stack' = Answered(stack, g)
      /\ UNCHANGED tree /\ UNCHANGED field
      /\ cache' = cache \/ cache' = [cache EXCEPT ![Wanted] = "right"]
  BY DEF CallAnswered, CallRuleless, Calling, tree, memory
<1>2. /\ stack \in Seq(Frame) /\ Wanted \in Codes /\ Len(stack) \in Nat \ {0}
      /\ stack[Len(stack)].todo # <<>> /\ 1 \in 1..Len(stack)
  BY <1>1, TopFrame
<1>3. PICK g : stack' = Answered(stack, g)
  BY <1>1
<1>4. \A i \in 1..Len(stack') : Scripted(stack'[i])
  BY <1>1, <1>2, <1>3, AnsweredScripted DEF ScriptInv
<1>5. stack'[1].node = stack[1].node
  BY <1>1, <1>2, <1>3, AnsweredProperties
<1>6. \A c \in Codes : Known(c) /\ ~HasRule(rules, NodeOf(c), "score") => cache'[c] # "wrong"
  BY <1>1 DEF KpmrInv, TypeOK, ScriptInv
<1> QED BY <1>1, <1>4, <1>5, <1>6, ScriptKept DEF ScriptInv

LEMMA ScriptProcessRule ==
    ASSUME KpmrInv, ScriptInv, ProcessRule
    PROVE  ScriptInv'
<1> DEFINE n == WalkOrder[pos][1]
           k == WalkOrder[pos][2]
           f == Enter("process", n, k)
<1>1. /\ stack' = <<f>> /\ UNCHANGED tree /\ UNCHANGED <<field, cache>>
      /\ HasRule(rules, n, k) /\ n \notin TopLevel
  BY DEF ProcessRule, Runs, memory
<1>2. n \in Nodes /\ k \in {"rating", "score"}
  BY WalkPlaces DEF ProcessRule, AtRule, KpmrInv, TypeOK
<1>3. Scripted(f) /\ f.node = n
  BY <1>1, <1>2, EnterScripted DEF KpmrInv, Enter
<1>4. n \in Walked
  BY <1>1, <1>2 DEF Walked
<1> HIDE DEF f, n, k
<1>5. Len(stack') = 1 /\ stack'[1] = f
  BY <1>1
<1> QED BY <1>1, <1>3, <1>4, <1>5, ScriptKept DEF ScriptInv

LEMMA ScriptFinishProcess ==
    ASSUME KpmrInv, ScriptInv, FinishProcess
    PROVE  ScriptInv'
<1>1. /\ stack # <<>> /\ stack' = <<>> /\ Len(stack') = 0
      /\ field' = [field EXCEPT ![Top.node] = [g \in KpmrFields |->
                     IF g = Top.fld \/ (Top.fld = "score" /\ g = "weighted")
                     THEN ToGrade(Top.right) ELSE @[g]]]
      /\ UNCHANGED tree /\ UNCHANGED cache
  BY DEF FinishProcess, Returning
<1>2. Top \in Frame /\ Top = stack[1] /\ 1 \in 1..Len(stack)
  BY <1>1, TopFrame DEF FinishProcess
<1>3. HasRule(rules, Top.node, Top.fld)
  BY <1>2 DEF ScriptInv, Scripted
<1>4. /\ field \in [Nodes -> [KpmrFields -> Grade]] /\ Top.node \in Nodes
      /\ Top.fld \in {"rating", "score"} /\ "rating" \in KpmrFields /\ "weighted" \in KpmrFields
  BY <1>2 DEF KpmrInv, TypeOK, KpmrFields, Frame
<1>5. ASSUME NEW n \in Nodes, ~HasRule(rules, n, "rating") PROVE field'[n]["rating"] # "wrong"
  <2>1. field'[n]["rating"] = field[n]["rating"]
    BY <1>1, <1>3, <1>4, <1>5
  <2> QED BY <1>5, <2>1 DEF ScriptInv
<1>6. ASSUME NEW n \in Nodes, ~HasRule(rules, n, "score") PROVE field'[n]["weighted"] # "wrong"
  <2>1. field'[n]["weighted"] = field[n]["weighted"]
    BY <1>1, <1>3, <1>4, <1>6
  <2> QED BY <1>6, <2>1 DEF ScriptInv
<1> QED BY <1>1, <1>5, <1>6, ScriptKept DEF ScriptInv

LEMMA ScriptCompute ==
    ASSUME KpmrInv, ScriptInv, CallCompute
    PROVE  ScriptInv'
<1> DEFINE f == Enter("memo", NodeOf(Wanted), "score")
<1>1. /\ stack # <<>> /\ Top.todo # <<>> /\ Lookup(Wanted) = "none"
      /\ HasRule(rules, NodeOf(Wanted), "score") /\ stack' = Append(stack, f)
      /\ UNCHANGED tree /\ UNCHANGED <<field, cache>>
  BY DEF CallCompute, Calling
<1>2. stack \in Seq(Frame) /\ Len(stack) \in Nat \ {0} /\ Wanted \in Codes
  BY <1>1, TopFrame
<1>3. NodeOf(Wanted) \in Nodes
  BY <1>1, <1>2, LookupType DEF KpmrInv
<1>4. f \in Frame /\ Scripted(f)
  BY <1>1, <1>3, EnterType, EnterScripted DEF KpmrInv
<1> HIDE DEF f
<1>5. /\ Len(stack') = Len(stack) + 1
      /\ \A i \in 1..Len(stack) : stack'[i] = stack[i]
      /\ stack'[Len(stack) + 1] = f
  BY <1>1, <1>2, <1>4, AppendProperties
<1>6. /\ \A i \in 1..Len(stack') : i \in 1..Len(stack) \/ i = Len(stack) + 1
      /\ 1 \in 1..Len(stack)
  BY <1>2, <1>5
<1>7. \A i \in 1..Len(stack') : Scripted(stack'[i])
  BY <1>4, <1>5, <1>6 DEF ScriptInv
<1> QED BY <1>1, <1>5, <1>6, <1>7, ScriptKept DEF ScriptInv

LEMMA ScriptFinishMemo ==
    ASSUME KpmrInv, ScriptInv, FinishMemo
    PROVE  ScriptInv'
<1>1. /\ stack # <<>> /\ Top.op = "memo"
      /\ cache' = [cache EXCEPT ![CodeOf[Top.node]] = ToGrade(Top.right)]
      /\ stack' = Answered(Pop(stack), ToGrade(Top.right))
      /\ UNCHANGED tree /\ UNCHANGED field
  BY DEF FinishMemo, Returning
<1>2. /\ stack \in Seq(Frame) /\ Top = stack[Len(stack)] /\ FrameOK(Top)
      /\ Len(stack) \in 1..Len(stack) /\ Len(stack) \in Nat
  BY <1>1, TopFrame
<1>3. /\ Pop(stack) \in Seq(Frame) /\ Pop(stack) # <<>> /\ Len(Pop(stack)) = Len(stack) - 1
      /\ \A i \in 1..Len(stack) - 1 : Pop(stack)[i] = stack[i]
      /\ Pop(stack)[Len(Pop(stack))].todo # <<>> /\ Pop(stack)[1] = stack[1]
  BY <1>1, <1>2, PoppedShape DEF KpmrInv
<1>4. \A i \in 1..Len(Pop(stack)) : Scripted(Pop(stack)[i])
  BY <1>2, <1>3 DEF ScriptInv
<1>5. \A i \in 1..Len(stack') : Scripted(stack'[i])
  BY <1>1, <1>3, <1>4, AnsweredScripted
<1>6. stack'[1].node = stack[1].node
  <2>1. 1 \in 1..Len(Pop(stack))
    BY <1>3, StackElement
  <2> QED BY <1>1, <1>3, <2>1, AnsweredProperties
<1>7. HasRule(rules, Top.node, "score") /\ Top.node = NodeOf(CodeOf[Top.node])
  BY <1>1, <1>2 DEF ScriptInv, Scripted, FrameOK
<1>8. \A c \in Codes : Known(c) /\ ~HasRule(rules, NodeOf(c), "score") => cache'[c] # "wrong"
  BY <1>1, <1>7 DEF KpmrInv, TypeOK, ScriptInv
<1> QED BY <1>1, <1>5, <1>6, <1>8, ScriptKept DEF ScriptInv

LEMMA ScriptStep ==
    ASSUME KpmrInv, ScriptInv, [Next]_vars
    PROVE  ScriptInv'
<1>1. CASE \/ ProcessSkip \/ CallCycle \/ RuleThrows \/ Fail \/ Finish \/ EvaluateAgain
           \/ Unwind \/ UNCHANGED vars
  <2>1. UNCHANGED <<rules, given, field, cache>> /\ (UNCHANGED stack \/ Unwind)
    BY <1>1 DEF ProcessSkip, CallCycle, RuleThrows, Fail, Finish, EvaluateAgain, Unwind, vars,
                tree, memory
  <2> QED BY <2>1, ScriptQuiet
<1>2. CASE ProcessRule \/ FinishProcess \/ CallAnswered \/ CallRuleless \/ CallCompute \/ FinishMemo
  BY <1>2, ScriptAnswer, ScriptProcessRule, ScriptFinishProcess, ScriptCompute, ScriptFinishMemo
<1> QED BY <1>1, <1>2 DEF Next

LEMMA ScriptInit == ASSUME Init PROVE ScriptInv
<1>1. /\ stack = <<>> /\ Len(stack) = 0 /\ cache = [c \in Codes |-> "none"]
      /\ field = [n \in Nodes |-> [f \in KpmrFields |->
                    IF <<n, f>> \notin given THEN "none" ELSE ToGrade(~HasRule(rules, n, f))]]
  BY DEF Init
<1>2. "rating" \in KpmrFields /\ "weighted" \in KpmrFields
  BY DEF KpmrFields
<1>3. ASSUME NEW n \in Nodes, ~HasRule(rules, n, "rating") PROVE field[n]["rating"] # "wrong"
  BY <1>1, <1>2, <1>3 DEF ToGrade
<1>4. ASSUME NEW n \in Nodes, ~HasRule(rules, n, "score") PROVE field[n]["weighted"] # "wrong"
  <2>1. ~HasRule(rules, n, "weighted")
    BY <1>4 DEF HasRule, RuleOf
  <2> QED BY <1>1, <1>2, <2>1 DEF ToGrade
<1> QED BY <1>1, <1>3, <1>4 DEF ScriptInv

\* What a step has to leave of G and F.
LEMMA KeepsKept ==
    ASSUME NEW G \in SUBSET Nodes, NEW F \in SUBSET Nodes, NEW R, UNCHANGED tree,
           \A p \in 1..Len(WalkOrder) : p < pos' /\ WalkOrder[p][1] \in G =>
               (HasRule(rules, WalkOrder[p][1], WalkOrder[p][2]) =>
                   /\ field'[WalkOrder[p][1]][WalkOrder[p][2]] = "right"
                   /\ WalkOrder[p][2] = "score" => field'[WalkOrder[p][1]]["weighted"] = "right"),
           \A n \in F : field'[n]["weighted"] # "wrong",
           \A c \in Codes : Known(c) /\ NodeOf(c) \in F => cache'[c] # "wrong",
           stack' # <<>> /\ stack'[1].node \in G =>
               \A i \in 1..Len(stack') : RightFrame(stack'[i], i, F, R[stack'[1].node])
    PROVE  Keeps(G, F, R)'
<1>1. /\ \A n, k : HasRule(rules, n, k)' = HasRule(rules, n, k)
      /\ \A n, k : Asks(n, k)' = Asks(n, k)
      /\ WalkOrder' = WalkOrder
  BY RulesStay
<1>2. (\A p \in 1..Len(WalkOrder) :
          p < pos /\ WalkOrder[p][1] \in G => IsSet(WalkOrder[p][1], WalkOrder[p][2]))'
  BY <1>1 DEF IsSet
<1>3. /\ (\A n \in F : field[n]["weighted"] # "wrong")'
      /\ (\A c \in Codes : Known(c) /\ NodeOf(c) \in F => cache[c] # "wrong")'
  OBVIOUS
<1>4. (stack # <<>> /\ stack[1].node \in G =>
          \A i \in 1..Len(stack) : RightFrame(stack[i], i, F, R[stack[1].node]))'
  BY <1>1 DEF RightFrame
<1> QED BY <1>2, <1>3, <1>4 DEF Keeps

\* What comes before an element is done when the walk is at it.
LEMMA DoneBefore ==
    ASSUME KpmrInv, NEW G \in SUBSET Nodes, NEW F, NEW R, Keeps(G, F, R),
           NEW n, pos \in 1..Len(WalkOrder), WalkOrder[pos][1] = n,
           NEW m \in G, Before(m, n), NEW k \in {"rating", "score"}
    PROVE  IsSet(m, k)
<1>1. PICK p \in 1..Len(WalkOrder) : WalkOrder[p] = <<m, k>>
  BY WalkPlaces
<1>2. WalkOrder[p][1] = m /\ WalkOrder[p][2] = k
  BY <1>1
<1>3. p < pos
  BY <1>2, WalkOrderShape DEF Before
<1> QED BY <1>2, <1>3 DEF Keeps

\* What a script at work for an element of G is told is right, or it is told
\* to have an element of F computed.
LEMMA LookupRight ==
    ASSUME KpmrInv, ScriptInv, NEW G \in SUBSET Nodes, NEW F \in SUBSET Nodes,
           NEW R, Sound(G, F, R), Keeps(G, F, R),
           stack # <<>>, stack[1].node \in G, Top.todo # <<>>
    PROVE  /\ Lookup(Wanted) # "wrong"
           /\ Lookup(Wanted) = "none" /\ HasRule(rules, NodeOf(Wanted), "score") =>
                  /\ NodeOf(Wanted) \in F /\ RatingIsRight(NodeOf(Wanted))
                  /\ Asks(NodeOf(Wanted), "score") \subseteq R[stack[1].node]
<1>1. CASE ~Known(Wanted)
  BY <1>1 DEF Lookup
<1>2. CASE Known(Wanted)
  <2> DEFINE n == stack[1].node
             m == NodeOf(Wanted)
  <2>1. /\ stack \in Seq(Frame) /\ Len(stack) \in 1..Len(stack) /\ 1 \in 1..Len(stack)
        /\ Top = stack[Len(stack)] /\ Top \in Frame /\ FrameOK(Top)
        /\ Top.op = "process" <=> Len(stack) = 1
        /\ Wanted \in Codes
    BY TopFrame
  <2>2. m \in Nodes
    BY <1>2, <2>1, NodeOfCode
  <2>3. m \in Asks(Top.node, Top.fld)
    <3>1. Top.todo \in Seq(Codes) /\ Top.todo # <<>>
      BY <2>1 DEF Frame
    <3>2. 1 \in 1..Len(Top.todo) /\ Wanted = Top.todo[1]
      BY <3>1, EmptySeq, HeadTailProperties, LenProperties DEF Wanted
    <3>3. Scripted(Top)
      BY <2>1 DEF ScriptInv
    <3> QED BY <1>2, <3>2, <3>3 DEF Scripted
  <2>4. m \in R[n]
    <3>1. CASE Len(stack) = 1
      <4>1. Top = stack[1] /\ Top.fld \in {"rating", "score"}
        BY <2>1, <3>1 DEF Frame
      <4>2. m \in AsksFor(n)
        BY <2>3, <4>1 DEF AsksFor
      <4> QED BY <4>2 DEF Sound
    <3>2. CASE Len(stack) # 1
      <4>1. Top.fld = "score"
        BY <2>1, <3>2 DEF Frame, FrameOK
      <4>2. Asks(Top.node, "score") \subseteq R[n]
        BY <2>1, <3>2 DEF Keeps, RightFrame
      <4> QED BY <2>3, <4>1, <4>2
    <3> QED BY <3>1, <3>2
  <2>5. field[m]["weighted"] \in Grade /\ field[m]["rating"] \in Grade /\ cache[Wanted] \in Grade
    BY <2>1, <2>2 DEF KpmrInv, TypeOK, KpmrFields
  <2>6. Lookup(Wanted) = IF field[m]["weighted"] # "none" THEN field[m]["weighted"]
                         ELSE cache[Wanted]
    BY <1>2 DEF Lookup
  <2>7. CASE m \in G /\ Before(m, n)
    <3>1. pos \in 1..Len(WalkOrder) /\ WalkOrder[pos][1] = n
      BY DEF KpmrInv, WalkInv
    <3>2. IsSet(m, "score")
      BY <2>7, <3>1, DoneBefore
    <3>3. CASE HasRule(rules, m, "score")
      <4>1. field[m]["weighted"] = "right"
        BY <3>2, <3>3 DEF IsSet
      <4> QED BY <2>6, <4>1
    <3>4. CASE ~HasRule(rules, m, "score")
      <4>1. field[m]["weighted"] # "wrong" /\ cache[Wanted] # "wrong"
        BY <1>2, <2>1, <2>2, <3>4 DEF ScriptInv
      <4> QED BY <2>6, <3>4, <4>1
    <3> QED BY <3>3, <3>4
  <2>8. CASE m \in F /\ Asks(m, "score") \subseteq R[n]
    <3>1. field[m]["weighted"] # "wrong" /\ cache[Wanted] # "wrong"
      BY <1>2, <2>1, <2>8 DEF Keeps
    <3>2. ~HasRule(rules, m, "rating")
      BY <2>8 DEF Sound
    <3>3. field[m]["rating"] # "wrong"
      BY <2>2, <3>2 DEF ScriptInv
    <3>4. RatingIsRight(m)
      BY <2>5, <3>2, <3>3 DEF RatingIsRight, Grade
    <3> QED BY <2>6, <2>8, <3>1, <3>4
  <2>9. \/ m \in G /\ Before(m, n)
        \/ m \in F /\ Asks(m, "score") \subseteq R[n]
    BY <2>4 DEF Sound
  <2> QED BY <2>7, <2>8, <2>9
<1> QED BY <1>1, <1>2

LEMMA KeepsQuiet ==
    ASSUME KpmrInv, NEW G \in SUBSET Nodes, NEW F \in SUBSET Nodes, NEW R,
           Sound(G, F, R), Keeps(G, F, R),
           \/ ProcessSkip \/ CallCycle \/ RuleThrows \/ Fail \/ Finish \/ EvaluateAgain
           \/ UNCHANGED vars
    PROVE  Keeps(G, F, R)'
<1>1. UNCHANGED tree /\ UNCHANGED <<field, cache, stack>>
  BY DEF ProcessSkip, CallCycle, RuleThrows, Fail, Finish, EvaluateAgain, tree, memory, vars
<1>2. pos \in 1..Len(WalkOrder) + 1 /\ Len(WalkOrder) \in Nat
  BY WalkPlaces DEF KpmrInv, TypeOK
<1>3. ASSUME NEW p \in 1..Len(WalkOrder), p < pos'
      PROVE  p < pos \/ ~ Runs(WalkOrder[p][1], WalkOrder[p][2])
  <2>1. CASE ProcessSkip
    <3>1. pos' = pos + 1 /\ ~ Runs(WalkOrder[pos][1], WalkOrder[pos][2])
      BY <2>1 DEF ProcessSkip
    <3>2. p < pos \/ p = pos
      BY <1>2, <1>3, <3>1
    <3> QED BY <3>1, <3>2
  <2>2. CASE EvaluateAgain
    <3>1. pos' = 1
      BY <2>2 DEF EvaluateAgain
    <3> QED BY <1>2, <1>3, <3>1
  <2>3. CASE CallCycle \/ RuleThrows \/ Fail \/ Finish \/ UNCHANGED vars
    BY <1>3, <2>3 DEF CallCycle, RuleThrows, Fail, Finish, vars
  <2> QED BY <2>1, <2>2, <2>3
<1>4. \A n \in G : n \notin TopLevel
  BY DEF Sound, Walked
<1>5. \A p \in 1..Len(WalkOrder) : p < pos' /\ WalkOrder[p][1] \in G =>
          IsSet(WalkOrder[p][1], WalkOrder[p][2])
  BY <1>3, <1>4 DEF Keeps, Runs, IsSet
<1>6. \A p \in 1..Len(WalkOrder) : p < pos' /\ WalkOrder[p][1] \in G =>
          (HasRule(rules, WalkOrder[p][1], WalkOrder[p][2]) =>
              /\ field'[WalkOrder[p][1]][WalkOrder[p][2]] = "right"
              /\ WalkOrder[p][2] = "score" => field'[WalkOrder[p][1]]["weighted"] = "right")
  BY <1>1, <1>5 DEF IsSet
<1>7. /\ \A n \in F : field'[n]["weighted"] # "wrong"
      /\ \A c \in Codes : Known(c) /\ NodeOf(c) \in F => cache'[c] # "wrong"
      /\ stack' # <<>> /\ stack'[1].node \in G =>
            \A i \in 1..Len(stack') : RightFrame(stack'[i], i, F, R[stack'[1].node])
  BY <1>1 DEF Keeps
<1> QED BY <1>1, <1>6, <1>7, KeepsKept

LEMMA KeepsAnswer ==
    ASSUME KpmrInv, ScriptInv, NEW G \in SUBSET Nodes, NEW F \in SUBSET Nodes, NEW R,
           Sound(G, F, R), Keeps(G, F, R), CallAnswered \/ CallRuleless
    PROVE  Keeps(G, F, R)'
<1>1. /\ stack # <<>> /\ Top.todo # <<>> /\ UNCHANGED tree /\ UNCHANGED <<field, pos>>
      /\ \/ cache' = cache /\ Lookup(Wanted) # "none" /\ stack' = Answered(stack, Lookup(Wanted))
         \/ cache' = [cache EXCEPT ![Wanted] = "right"] /\ stack' = Answered(stack, "right")
  BY DEF CallAnswered, CallRuleless, Calling, memory
<1>2. /\ stack \in Seq(Frame) /\ Wanted \in Codes /\ 1 \in 1..Len(stack)
      /\ stack[Len(stack)].todo # <<>>
  BY <1>1, TopFrame
<1>3. PICK g : stack' = Answered(stack, g) /\ (g = "right" \/ (g = Lookup(Wanted) /\ g # "none"))
  BY <1>1
<1>4. stack[1].node \in G => g = "right"
  <2> SUFFICES ASSUME stack[1].node \in G, g = Lookup(Wanted), g # "none" PROVE g = "right"
    BY <1>3
  <2>1. Lookup(Wanted) \in Grade
    BY <1>2, LookupType DEF KpmrInv
  <2>2. Lookup(Wanted) # "wrong"
    BY <1>1, LookupRight
  <2> QED BY <2>1, <2>2 DEF Grade
<1>5. /\ Len(stack') = Len(stack)
      /\ \A i \in 1..Len(stack) : /\ stack'[i].node = stack[i].node
                                  /\ stack'[i].right <=>
                                        stack[i].right /\ (i = Len(stack) => g = "right")
  BY <1>1, <1>2, <1>3, AnsweredProperties
<1>6. stack' # <<>> /\ stack'[1].node \in G =>
          \A i \in 1..Len(stack') : RightFrame(stack'[i], i, F, R[stack'[1].node])
  BY <1>1, <1>2, <1>4, <1>5 DEF Keeps, RightFrame
<1>7. \A c \in Codes : Known(c) /\ NodeOf(c) \in F => cache'[c] # "wrong"
  BY <1>1 DEF Keeps, KpmrInv, TypeOK
<1> QED BY <1>1, <1>6, <1>7, KeepsKept DEF Keeps, IsSet

LEMMA KeepsProcessRule ==
    ASSUME KpmrInv, ScriptInv, NEW G \in SUBSET Nodes, NEW F \in SUBSET Nodes, NEW R,
           Sound(G, F, R), Keeps(G, F, R), ProcessRule
    PROVE  Keeps(G, F, R)'
<1> DEFINE n == WalkOrder[pos][1]
           k == WalkOrder[pos][2]
           f == Enter("process", n, k)
<1>1. /\ stack' = <<f>> /\ UNCHANGED tree /\ UNCHANGED <<field, cache, pos>>
      /\ HasRule(rules, n, k)
  BY DEF ProcessRule, Runs, memory
<1>2. n \in Nodes /\ k \in {"rating", "score"} /\ pos \in 1..Len(WalkOrder)
  BY WalkPlaces DEF ProcessRule, AtRule, KpmrInv, TypeOK
<1>3. f.node = n /\ (f.right <=> k = "rating" \/ RatingIsRight(n))
  BY <1>1, <1>2, EnterScripted DEF KpmrInv, Enter
<1>4. ASSUME n \in G PROVE f.right
  <2>1. CASE k = "rating"
    BY <1>3, <2>1
  <2>2. CASE k = "score"
    <3>1. pos - 1 \in 1..Len(WalkOrder) /\ WalkOrder[pos - 1] = <<n, "rating">>
      BY <1>2, <2>2, WalkOrderShape
    <3>2. pos - 1 < pos
      BY <1>2, WalkPlaces
    <3>3. WalkOrder[pos - 1][1] = n /\ WalkOrder[pos - 1][2] = "rating"
      BY <3>1
    <3>4. IsSet(n, "rating")
      BY <1>4, <3>1, <3>2, <3>3 DEF Keeps
    <3>5. field[n]["rating"] \in Grade
      BY <1>2 DEF KpmrInv, TypeOK, KpmrFields
    <3>6. ~HasRule(rules, n, "rating") => field[n]["rating"] # "wrong"
      BY <1>2 DEF ScriptInv
    <3>7. RatingIsRight(n)
      BY <3>4, <3>5, <3>6 DEF RatingIsRight, Grade, IsSet
    <3> QED BY <1>3, <3>7
  <2> QED BY <1>2, <2>1, <2>2
<1> HIDE DEF f, n, k
<1>5. Len(stack') = 1 /\ stack'[1] = f
  BY <1>1
<1>6. stack' # <<>> /\ stack'[1].node \in G =>
          \A i \in 1..Len(stack') : RightFrame(stack'[i], i, F, R[stack'[1].node])
  BY <1>3, <1>4, <1>5 DEF RightFrame
<1> QED BY <1>1, <1>6, KeepsKept DEF Keeps, IsSet

LEMMA KeepsFinishProcess ==
    ASSUME KpmrInv, ScriptInv, NEW G \in SUBSET Nodes, NEW F \in SUBSET Nodes, NEW R,
           Sound(G, F, R), Keeps(G, F, R), FinishProcess
    PROVE  Keeps(G, F, R)'
<1> DEFINE b == Top.node
           h == Top.fld
<1>1. /\ stack # <<>> /\ stack' = <<>> /\ Top.op = "process" /\ pos' = pos + 1
      /\ field' = [field EXCEPT ![b] = [g \in KpmrFields |->
                     IF g = h \/ (h = "score" /\ g = "weighted")
                     THEN ToGrade(Top.right) ELSE @[g]]]
      /\ UNCHANGED tree /\ UNCHANGED cache
  BY DEF FinishProcess, Returning
<1>2. Top \in Frame /\ Top = stack[1] /\ 1 \in 1..Len(stack)
  BY <1>1, TopFrame
<1>3. /\ b \in Nodes /\ h \in {"rating", "score"} /\ b \in Walked
      /\ field \in [Nodes -> [KpmrFields -> Grade]]
      /\ WalkOrder[pos] = <<b, h>> /\ pos \in 1..Len(WalkOrder) /\ Len(WalkOrder) \in Nat
  BY <1>1, <1>2, WalkPlaces DEF Frame, KpmrInv, TypeOK, ScriptInv, WalkInv
<1>4. b \in G => ToGrade(Top.right) = "right"
  BY <1>1, <1>2 DEF Keeps, RightFrame, ToGrade
<1> DEFINE v == ToGrade(Top.right)
<1> HIDE DEF b, h, v
<1>5. \A n \in Nodes : \A g \in KpmrFields :
          field'[n][g] = IF n = b /\ (g = h \/ (h = "score" /\ g = "weighted"))
                         THEN v ELSE field[n][g]
  BY <1>1, <1>3 DEF v
<1>6. ASSUME NEW p \in 1..Len(WalkOrder), p < pos', WalkOrder[p][1] \in G,
             HasRule(rules, WalkOrder[p][1], WalkOrder[p][2])
      PROVE  /\ field'[WalkOrder[p][1]][WalkOrder[p][2]] = "right"
             /\ WalkOrder[p][2] = "score" => field'[WalkOrder[p][1]]["weighted"] = "right"
  <2> DEFINE n == WalkOrder[p][1]
             k == WalkOrder[p][2]
  <2>1. n \in Nodes /\ k \in {"rating", "score"} /\ WalkOrder[p] = <<n, k>>
    BY WalkPlaces
  <2>2. k \in KpmrFields /\ "weighted" \in KpmrFields /\ k # "weighted"
    BY <2>1 DEF KpmrFields
  <2>3. CASE p = pos
    <3>1. n = b /\ k = h /\ v = "right"
      BY <1>3, <1>4, <1>6, <2>1, <2>3 DEF v
    <3> HIDE DEF n, k
    <3> QED BY <1>5, <2>1, <2>2, <3>1 DEF n, k
  <2>4. CASE p # pos
    <3>1. p < pos
      BY <1>1, <1>3, <1>6, <2>4
    <3>2. field[n][k] = "right" /\ (k = "score" => field[n]["weighted"] = "right")
      BY <1>6, <3>1 DEF Keeps, IsSet
    <3>3. n = b => v = "right"
      BY <1>4, <1>6 DEF v
    <3> HIDE DEF n, k
    <3> QED BY <1>5, <2>1, <2>2, <3>2, <3>3 DEF n, k
  <2> QED BY <2>3, <2>4
<1>7. ASSUME NEW n \in F PROVE field'[n]["weighted"] # "wrong"
  <2>1. n \in Nodes /\ "weighted" \in KpmrFields /\ field[n]["weighted"] # "wrong"
    BY DEF KpmrFields, Keeps
  <2>2. b \in G
    BY <1>3 DEF Sound
  <2> QED BY <1>4, <1>5, <2>1, <2>2 DEF v
<1> QED BY <1>1, <1>6, <1>7, KeepsKept DEF Keeps

LEMMA KeepsCompute ==
    ASSUME KpmrInv, ScriptInv, NEW G \in SUBSET Nodes, NEW F \in SUBSET Nodes, NEW R,
           Sound(G, F, R), Keeps(G, F, R), CallCompute
    PROVE  Keeps(G, F, R)'
<1> DEFINE m == NodeOf(Wanted)
           f == Enter("memo", m, "score")
<1>1. /\ stack # <<>> /\ Top.todo # <<>> /\ Lookup(Wanted) = "none"
      /\ HasRule(rules, m, "score") /\ stack' = Append(stack, f)
      /\ UNCHANGED tree /\ UNCHANGED <<field, cache, pos>>
  BY DEF CallCompute, Calling
<1>2. stack \in Seq(Frame) /\ Len(stack) \in Nat \ {0} /\ Wanted \in Codes
  BY <1>1, TopFrame
<1>3. m \in Nodes
  BY <1>1, <1>2, LookupType DEF KpmrInv
<1>4. f \in Frame /\ f.node = m /\ (f.right <=> RatingIsRight(m))
  BY <1>1, <1>3, EnterType, EnterScripted DEF KpmrInv
<1>5. stack[1].node \in G => /\ m \in F /\ RatingIsRight(m)
                             /\ Asks(m, "score") \subseteq R[stack[1].node]
  BY <1>1, LookupRight
<1> HIDE DEF f, m
<1>6. /\ Len(stack') = Len(stack) + 1
      /\ \A i \in 1..Len(stack) : stack'[i] = stack[i]
      /\ stack'[Len(stack) + 1] = f
  BY <1>1, <1>2, <1>4, AppendProperties
<1>7. /\ \A i \in 1..Len(stack') : i \in 1..Len(stack) \/ i = Len(stack) + 1
      /\ 1 \in 1..Len(stack)
  BY <1>2, <1>6
<1>8. stack' # <<>> /\ stack'[1].node \in G =>
          \A i \in 1..Len(stack') : RightFrame(stack'[i], i, F, R[stack'[1].node])
  BY <1>1, <1>4, <1>5, <1>6, <1>7 DEF Keeps, RightFrame
<1> QED BY <1>1, <1>8, KeepsKept DEF Keeps, IsSet

LEMMA KeepsFinishMemo ==
    ASSUME KpmrInv, ScriptInv, NEW G \in SUBSET Nodes, NEW F \in SUBSET Nodes, NEW R,
           Sound(G, F, R), Keeps(G, F, R), FinishMemo
    PROVE  Keeps(G, F, R)'
<1>1. /\ stack # <<>> /\ Top.op = "memo"
      /\ cache' = [cache EXCEPT ![CodeOf[Top.node]] = ToGrade(Top.right)]
      /\ stack' = Answered(Pop(stack), ToGrade(Top.right))
      /\ UNCHANGED tree /\ UNCHANGED <<field, pos>>
  BY DEF FinishMemo, Returning
<1>2. /\ stack \in Seq(Frame) /\ Top = stack[Len(stack)]
      /\ Len(stack) \in 1..Len(stack) /\ Len(stack) \in Nat
  BY <1>1, TopFrame
<1>3. /\ Pop(stack) \in Seq(Frame) /\ Pop(stack) # <<>> /\ Len(Pop(stack)) = Len(stack) - 1
      /\ \A i \in 1..Len(stack) - 1 : Pop(stack)[i] = stack[i]
      /\ Pop(stack)[Len(Pop(stack))].todo # <<>> /\ Pop(stack)[1] = stack[1]
  BY <1>1, <1>2, PoppedShape DEF KpmrInv
<1>4. stack[1].node \in G => ToGrade(Top.right) = "right"
  BY <1>1, <1>2 DEF Keeps, RightFrame, ToGrade
<1>5. /\ Len(stack') = Len(stack) - 1 /\ stack'[1].node = stack[1].node
      /\ \A i \in 1..Len(stack) - 1 :
            /\ stack'[i].node = stack[i].node
            /\ stack'[i].right <=>
                  stack[i].right /\ (i = Len(stack) - 1 => ToGrade(Top.right) = "right")
  <2>1. 1 \in 1..Len(stack) - 1
    BY <1>3, StackElement
  <2>2. /\ Len(stack') = Len(Pop(stack))
        /\ \A i \in 1..Len(Pop(stack)) :
              /\ stack'[i].node = Pop(stack)[i].node
              /\ stack'[i].right <=>
                    Pop(stack)[i].right /\ (i = Len(Pop(stack)) => ToGrade(Top.right) = "right")
    <3> DEFINE s == Pop(stack)
               g == ToGrade(Top.right)
    <3>1. /\ s \in Seq(Frame) /\ s # <<>> /\ s[Len(s)].todo # <<>>
          /\ stack' = Answered(s, g)
      BY <1>1, <1>3
    <3> HIDE DEF s, g
    <3>2. /\ Len(stack') = Len(s)
          /\ \A i \in 1..Len(s) : /\ stack'[i].node = s[i].node
                                  /\ stack'[i].right <=> s[i].right /\ (i = Len(s) => g = "right")
      BY <3>1, AnsweredProperties
    <3> QED BY <3>2 DEF s, g
  <2> QED BY <1>3, <2>1, <2>2
<1>6. stack' # <<>> /\ stack'[1].node \in G =>
          \A i \in 1..Len(stack') : RightFrame(stack'[i], i, F, R[stack'[1].node])
  BY <1>1, <1>2, <1>4, <1>5 DEF Keeps, RightFrame
<1>7. ASSUME NEW c \in Codes, Known(c), NodeOf(c) \in F PROVE cache'[c] # "wrong"
  <2>1. cache[c] # "wrong" /\ cache \in [Codes -> Grade]
    BY <1>7 DEF Keeps, KpmrInv, TypeOK
  <2>2. stack[1].node \in G
    BY <1>1, <1>7 DEF Sound, ScriptInv
  <2> QED BY <1>1, <1>4, <2>1, <2>2
<1> QED BY <1>1, <1>6, <1>7, KeepsKept DEF Keeps, IsSet

LEMMA KeepsUnwind ==
    ASSUME KpmrInv, NEW G \in SUBSET Nodes, NEW F \in SUBSET Nodes, NEW R,
           Sound(G, F, R), Keeps(G, F, R), Unwind
    PROVE  Keeps(G, F, R)'
<1>1. /\ stack # <<>> /\ stack' = Pop(stack)
      /\ UNCHANGED tree /\ UNCHANGED <<field, cache, pos>>
  BY DEF Unwind
<1>2. stack \in Seq(Frame) /\ Len(stack) \in Nat \ {0}
  BY <1>1, TopFrame
<1>3. /\ Len(stack') = Len(stack) - 1 /\ stack' \in Seq(Frame)
      /\ \A i \in 1..Len(stack) - 1 : stack'[i] = stack[i]
  BY <1>1, <1>2, PopProperties
<1>4. stack' # <<>> => 1 \in 1..Len(stack) - 1
  BY <1>2, <1>3, EmptySeq
<1>5. stack' # <<>> /\ stack'[1].node \in G =>
          \A i \in 1..Len(stack') : RightFrame(stack'[i], i, F, R[stack'[1].node])
  BY <1>1, <1>2, <1>3, <1>4 DEF Keeps
<1> QED BY <1>1, <1>5, KeepsKept DEF Keeps, IsSet

LEMMA RightStep ==
    ASSUME KpmrInv, ScriptInv, RightInv, [Next]_vars
    PROVE  RightInv'
<1>1. UNCHANGED tree
  BY DEF vars, tree, Next, ProcessSkip, ProcessRule, FinishProcess, CallAnswered,
     CallCycle, CallRuleless, CallCompute, FinishMemo, RuleThrows, Unwind, Fail, Finish,
     EvaluateAgain
<1> SUFFICES ASSUME NEW G \in SUBSET Nodes, NEW F \in SUBSET Nodes,
                    NEW R \in [Nodes -> SUBSET Nodes], Sound(G, F, R)'
             PROVE  Keeps(G, F, R)'
  BY DEF RightInv
<1>2. Sound(G, F, R) /\ Keeps(G, F, R)
  BY <1>1, RulesStay DEF RightInv
<1> QED BY <1>2, KeepsQuiet, KeepsAnswer, KeepsProcessRule, KeepsFinishProcess, KeepsCompute,
           KeepsFinishMemo, KeepsUnwind DEF Next

LEMMA RightInit == ASSUME Init PROVE RightInv
<1> SUFFICES ASSUME NEW G \in SUBSET Nodes, NEW F \in SUBSET Nodes,
                    NEW R \in [Nodes -> SUBSET Nodes], Sound(G, F, R)
             PROVE  Keeps(G, F, R)
  BY DEF RightInv
<1>1. /\ stack = <<>> /\ pos = 1 /\ cache = [c \in Codes |-> "none"]
      /\ field = [n \in Nodes |-> [f \in KpmrFields |->
                    IF <<n, f>> \notin given THEN "none" ELSE ToGrade(~HasRule(rules, n, f))]]
  BY DEF Init
<1>2. \A n \in F : field[n]["weighted"] = "none"
  BY <1>1 DEF Sound, KpmrFields
<1>3. \A p \in 1..Len(WalkOrder) : ~ p < 1
  BY WalkPlaces
<1> QED BY <1>1, <1>2, <1>3 DEF Keeps

\* Behind the walk, every element of G has what its rules define.
LEMMA DoneMeansRight ==
    ASSUME KpmrInv, RightInv, mode = "done", NEW G \in SUBSET Nodes, NEW F \in SUBSET Nodes,
           NEW R \in [Nodes -> SUBSET Nodes], Sound(G, F, R), NEW n \in G
    PROVE  IsRight(n)
<1>1. Keeps(G, F, R) /\ pos > Len(WalkOrder) /\ pos \in 1..Len(WalkOrder) + 1
  BY DEF RightInv, KpmrInv, WalkInv, TypeOK
<1>2. ASSUME NEW k \in {"rating", "score"} PROVE IsSet(n, k)
  <2>1. PICK p \in 1..Len(WalkOrder) : WalkOrder[p] = <<n, k>>
    BY WalkPlaces
  <2>2. p < pos /\ WalkOrder[p][1] = n /\ WalkOrder[p][2] = k
    BY <1>1, <2>1, WalkPlaces
  <2> QED BY <1>1, <2>2 DEF Keeps
<1>3. HasRule(rules, n, "weighted") = HasRule(rules, n, "score")
  BY DEF HasRule, RuleOf
<1> QED BY <1>2, <1>3 DEF IsRight, IsSet, KpmrFields

-----------------------------------------------------------------------------
(* The two cases.                                                           *)

\* An element whose scripts look back at Orderly elements is Orderly, and no
\* other is.
LEMMA OrderlyLooksBack ==
    ASSUME NEW n \in Orderly
    PROVE  n \in Walked /\ AsksFor(n) \subseteq {x \in Orderly : Before(x, n)}
<1> DEFINE Closed(S) == \A m \in Walked : AsksFor(m) \subseteq {x \in S : Before(x, m)} => m \in S
<1>1. Orderly \subseteq Nodes /\ \A x \in Orderly : \A S \in SUBSET Nodes : Closed(S) => x \in S
  BY DEF Orderly
<1>2. \A x \in Nodes : (\A S \in SUBSET Nodes : Closed(S) => x \in S) => x \in Orderly
  BY DEF Orderly
<1>3. ASSUME NEW m \in Walked, AsksFor(m) \subseteq {x \in Orderly : Before(x, m)}
      PROVE  m \in Orderly
  <2>1. ASSUME NEW S \in SUBSET Nodes, Closed(S) PROVE m \in S
    <3>1. AsksFor(m) \subseteq {x \in S : Before(x, m)}
      BY <1>1, <1>3, <2>1
    <3> QED BY <2>1, <3>1
  <2>2. m \in Nodes
    BY DEF Walked
  <2> QED BY <1>2, <2>1, <2>2
<1>4. ASSUME ~(n \in Walked /\ AsksFor(n) \subseteq {x \in Orderly : Before(x, n)})
      PROVE  FALSE
  <2> DEFINE S == Orderly \ {n}
  <2>1. Closed(S)
    <3> SUFFICES ASSUME NEW m \in Walked, AsksFor(m) \subseteq {x \in S : Before(x, m)}
                 PROVE  m \in S
      OBVIOUS
    <3>1. AsksFor(m) \subseteq {x \in Orderly : Before(x, m)}
      OBVIOUS
    <3>2. m \in Orderly /\ m # n
      BY <1>3, <1>4, <3>1
    <3> QED BY <3>2
  <2>2. S \in SUBSET Nodes /\ n \notin S
    BY <1>1
  <2> HIDE DEF S, Closed
  <2> QED BY <1>1, <2>1, <2>2
<1> QED BY <1>4

LEMMA OrderlyIsSound ==
    ASSUME TypeOK
    PROVE  Sound(Orderly, {}, [n \in Nodes |-> AsksFor(n)])
<1>1. Orderly \subseteq Nodes
  BY DEF Orderly
<1> QED BY <1>1, OrderlyLooksBack DEF Sound

\* What is reached is closed under asking.
LEMMA ReachedIsClosed ==
    ASSUME TypeOK, NEW n \in Nodes
    PROVE  /\ ReachedFrom(n) \subseteq Nodes
           /\ AsksFor(n) \subseteq ReachedFrom(n)
           /\ \A m \in ReachedFrom(n) : Asks(m, "score") \subseteq ReachedFrom(n)
<1>1. AsksFor(n) \subseteq Nodes /\ \A m \in Nodes : Asks(m, "score") \subseteq Nodes
  BY AsksType DEF AsksFor
<1>2. ReachedFrom(n) \subseteq Nodes
  BY DEF ReachedFrom
<1>3. AsksFor(n) \subseteq ReachedFrom(n)
  BY <1>1 DEF ReachedFrom
<1>4. ASSUME NEW m \in ReachedFrom(n), NEW x \in Asks(m, "score") PROVE x \in ReachedFrom(n)
  <2>1. x \in Nodes
    BY <1>1, <1>2
  <2>2. ASSUME NEW S \in SUBSET Nodes, AsksFor(n) \subseteq S,
               \A y \in S : Asks(y, "score") \subseteq S
        PROVE  x \in S
    <3>1. m \in S
      BY <2>2 DEF ReachedFrom
    <3> QED BY <2>2, <3>1
  <2> QED BY <2>1, <2>2 DEF ReachedFrom
<1> QED BY <1>2, <1>3, <1>4

LEMMA LookAheadIsSound ==
    ASSUME TypeOK, LookAheadIsSafe
    PROVE  Sound(Walked,
                 {m \in Nodes : ~HasRule(rules, m, "rating") /\ <<m, "weighted">> \notin given},
                 [n \in Nodes |-> ReachedFrom(n)])
<1> DEFINE F == {m \in Nodes : ~HasRule(rules, m, "rating") /\ <<m, "weighted">> \notin given}
           R == [n \in Nodes |-> ReachedFrom(n)]
<1>1. Walked \subseteq Nodes
  BY DEF Walked
<1>2. ASSUME NEW n \in Walked
      PROVE  /\ AsksFor(n) \subseteq R[n]
             /\ \A m \in R[n] : \/ m \in Walked /\ Before(m, n)
                                \/ m \in F /\ Asks(m, "score") \subseteq R[n]
  <2>1. R[n] = ReachedFrom(n) /\ n \in Nodes
    BY <1>1
  <2>2. \A m \in ReachedFrom(n) : \/ Before(m, n)
                                  \/ ~HasRule(rules, m, "rating") /\ <<m, "weighted">> \notin given
    BY DEF LookAheadIsSafe
  <2> HIDE DEF R
  <2> QED BY <2>1, <2>2, ReachedIsClosed DEF Before
<1> QED BY <1>1, <1>2 DEF Sound

LEMMA RightInvAlways == Spec => [](KpmrInv /\ ScriptInv /\ RightInv)
<1>1. Init => KpmrInv /\ ScriptInv /\ RightInv
  BY InitKpmrInv, ScriptInit, RightInit
<1>2. (KpmrInv /\ ScriptInv /\ RightInv) /\ [Next]_vars => (KpmrInv /\ ScriptInv /\ RightInv)'
  BY StepKpmrInv, ScriptStep, RightStep
<1> QED BY <1>1, <1>2, PTL DEF Spec

(***************************************************************************)
(* If the scripts look ahead of the walk only at elements without a rating  *)
(* rule and without an old result, an evaluation that succeeds, the first   *)
(* or a later one, leaves every element with what its rules define.         *)
(***************************************************************************)
THEOREM SafeLookAheadIsRight == Spec => []DoneIsRight
<1>1. KpmrInv /\ ScriptInv /\ RightInv => DoneIsRight
  <2> SUFFICES ASSUME KpmrInv, RightInv, mode = "done", LookAheadIsSafe, NEW n \in Walked
               PROVE  IsRight(n)
    BY DEF DoneIsRight
  <2> DEFINE F == {m \in Nodes : ~HasRule(rules, m, "rating") /\ <<m, "weighted">> \notin given}
             R == [m \in Nodes |-> ReachedFrom(m)]
  <2>1. Sound(Walked, F, R)
    BY LookAheadIsSound DEF KpmrInv
  <2>2. Walked \in SUBSET Nodes /\ F \in SUBSET Nodes
    BY DEF Walked
  <2>3. R \in [Nodes -> SUBSET Nodes]
    BY ReachedIsClosed DEF KpmrInv
  <2> HIDE DEF F, R
  <2> QED BY <2>1, <2>2, <2>3, DoneMeansRight
<1> QED BY <1>1, RightInvAlways, PTL

(***************************************************************************)
(* Whatever the other scripts asked for too early: an element whose scripts *)
(* look back, at such elements only, gets what its rules define.            *)
(***************************************************************************)
THEOREM OrderlyElementsAreRight == Spec => []EarlyResultsDoNotSpread
<1>1. KpmrInv /\ ScriptInv /\ RightInv => EarlyResultsDoNotSpread
  <2> SUFFICES ASSUME KpmrInv, RightInv, mode = "done", NEW n \in Orderly
               PROVE  IsRight(n)
    BY DEF EarlyResultsDoNotSpread
  <2> DEFINE R == [m \in Nodes |-> AsksFor(m)]
  <2>1. Sound(Orderly, {}, R)
    BY OrderlyIsSound DEF KpmrInv
  <2>2. Orderly \in SUBSET Nodes /\ {} \in SUBSET Nodes
    BY DEF Orderly
  <2>3. R \in [Nodes -> SUBSET Nodes]
    BY AsksType DEF KpmrInv, AsksFor
  <2> HIDE DEF R
  <2> QED BY <2>1, <2>2, <2>3, DoneMeansRight
<1> QED BY <1>1, RightInvAlways, PTL
=============================================================================
