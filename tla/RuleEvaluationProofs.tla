----------------------- MODULE RuleEvaluationProofs ------------------------
(***************************************************************************)
(* What holds of RuleEvaluation for every tree and every rule table.        *)
(*                                                                         *)
(* Three invariants carry the proofs: CallInv relates the C++ call stack to *)
(* computing_ and dependency_stack_; WalkInv ties the frame at its bottom   *)
(* to the walk; SoundInv says which results are right at every moment.      *)
(***************************************************************************)
EXTENDS RuleEvaluation, SequenceTheorems, WellFoundedInduction, TLAPS

-----------------------------------------------------------------------------
(* Indexes and agenda. *)

\* A bounded, non-empty set of naturals has a largest element.
LEMMA LargestOfBounded ==
    ASSUME NEW S \in SUBSET Nat, S # {}, NEW n \in Nat, \A i \in S : i <= n
    PROVE  \E m \in S : \A j \in S : j <= m
<1> DEFINE R == OpToRel(<, Nat)
           T == {n - i : i \in S}
<1>1. IsWellFoundedOn(R, Nat)
  BY NatLessThanWellFounded
<1>2. T \subseteq Nat
  BY SMT
<1>2a. T # {}
  <2> PICK i \in S : TRUE
    OBVIOUS
  <2> n - i \in T
    OBVIOUS
  <2> QED OBVIOUS
<1>3. PICK x \in T : \A y \in T : <<y, x>> \notin R
  <2> HIDE DEF R, T
  <2> QED BY <1>1, <1>2, <1>2a, WFMin
<1>4. \A y \in T : ~ y < x
  BY <1>2, <1>3 DEF OpToRel
<1>5. PICK m \in S : x = n - m
  OBVIOUS
<1>6. \A j \in S : n - j \in T
  OBVIOUS
<1>7. \A j \in S : j <= m
  <2> HIDE DEF T
  <2> QED BY <1>4, <1>5, <1>6
<1> QED BY <1>7

\* The index by Profile_ID finds an element that has that Profile_ID.
LEMMA NodeOfCode ==
    ASSUME NEW c \in Codes, Known(c)
    PROVE  NodeOf(c) \in Nodes /\ CodeOf[NodeOf(c)] = c
<1>1. Preorder \in Seq(Nodes)
  BY TreeAssumption
<1>2. /\ Indexed(c) \in SUBSET Nat
      /\ Indexed(c) # {}
      /\ Len(Preorder) \in Nat
      /\ \A i \in Indexed(c) : i <= Len(Preorder)
  BY <1>1, LenProperties DEF Indexed, Known
<1>3. \E m \in Indexed(c) : \A j \in Indexed(c) : j <= m
  BY <1>2, LargestOfBounded
<1> DEFINE last == CHOOSE m \in Indexed(c) : \A j \in Indexed(c) : j <= m
<1>4. last \in Indexed(c)
  BY <1>3
<1>5. last \in 1..Len(Preorder) /\ CodeOf[Preorder[last]] = c
  BY <1>4 DEF Indexed
<1>6. Preorder[last] \in Nodes
  BY <1>1, <1>5, ElementOfSeq
<1> QED BY <1>5, <1>6 DEF NodeOf

\* The agenda has three rules per element.
LEMMA AgendaLength ==
    /\ Agenda \in Seq(Nodes \X Kinds)
    /\ Len(Agenda) = 3 * Len(Postorder)
<1>1. Postorder \in Seq(Nodes) /\ Len(Postorder) \in Nat
  BY TreeAssumption, LenProperties
<1>2. 3 * Len(Postorder) \in Nat
  BY <1>1
<1>3. ASSUME NEW p \in 1..3 * Len(Postorder)
      PROVE  /\ Postorder[(p + 2) \div 3] \in Nodes
             /\ KindSeq[((p - 1) % 3) + 1] \in Kinds
  <2>1. (p + 2) \div 3 \in 1..Len(Postorder)
    BY <1>1
  <2>2. ((p - 1) % 3) + 1 \in 1..3
    BY <1>1
  <2>3. Postorder[(p + 2) \div 3] \in Nodes
    BY <1>1, <2>1, ElementOfSeq
  <2>4. \A k \in 1..3 : KindSeq[k] \in Kinds
    BY DEF KindSeq, Kinds
  <2> QED BY <2>2, <2>3, <2>4
<1>4. DOMAIN Agenda = 1..3 * Len(Postorder)
  BY DEF Agenda
<1>5. Agenda \in Seq(Nodes \X Kinds)
  <2>1. Agenda \in [1..3 * Len(Postorder) -> Nodes \X Kinds]
    BY <1>3 DEF Agenda
  <2> QED BY <1>2, <2>1, SeqDef
<1>6. Len(Agenda) = 3 * Len(Postorder)
  BY <1>2, <1>4, <1>5, LenProperties
<1> QED BY <1>5, <1>6

\* It names elements and kinds of rules.
LEMMA AgendaType ==
    /\ Len(Agenda) \in Nat
    /\ \A p \in 1..Len(Agenda) : Agenda[p][1] \in Nodes /\ Agenda[p][2] \in Kinds
<1>1. Len(Agenda) \in Nat
  BY AgendaLength, LenProperties
<1>2. \A p \in 1..Len(Agenda) : Agenda[p] \in Nodes \X Kinds
  BY AgendaLength, ElementOfSeq
<1> QED BY <1>1, <1>2

\* What Pop returns.
LEMMA PopProperties ==
    ASSUME NEW S, NEW s \in Seq(S), s # <<>>
    PROVE  /\ Pop(s) \in Seq(S)
           /\ Len(Pop(s)) = Len(s) - 1
           /\ \A i \in 1..Len(s) - 1 : Pop(s)[i] = s[i]
<1>1. Len(s) \in Nat \ {0}
  BY EmptySeq
<1>2. \A i \in 1..Len(s) - 1 : s[i] \in S
  BY <1>1, ElementOfSeq
<1> DEFINE m == Len(s) - 1
<1>3. m \in Nat
  BY <1>1
<1>4. /\ SubSeq(s, 1, m) \in Seq(S)
      /\ Len(SubSeq(s, 1, m)) = IF 1 <= m THEN m - 1 + 1 ELSE 0
      /\ \A i \in 1..m - 1 + 1 : SubSeq(s, 1, m)[i] = s[1 + i - 1]
  <2> HIDE DEF m
  <2> QED BY <1>2, <1>3, SubSeqProperties DEF m
<1>5. Len(SubSeq(s, 1, m)) = m
  <2> HIDE DEF m
  <2> QED BY <1>3, <1>4
<1>6. ASSUME NEW i \in 1..m
      PROVE  SubSeq(s, 1, m)[i] = s[i]
  <2> HIDE DEF m
  <2>1. i \in 1..m - 1 + 1 /\ 1 + i - 1 = i
    BY <1>3
  <2> QED BY <1>4, <2>1
<1> QED BY <1>4, <1>5, <1>6 DEF Pop

\* What Answered returns: only the two fields of the top frame change.
LEMMA AnsweredProperties ==
    ASSUME NEW s \in Seq(Frame), s # <<>>, s[Len(s)].todo # <<>>,
           NEW b \in BOOLEAN
    PROVE  /\ Answered(s, b) \in Seq(Frame)
           /\ Len(Answered(s, b)) = Len(s)
           /\ \A i \in 1..Len(s) - 1 : Answered(s, b)[i] = s[i]
           /\ Answered(s, b)[Len(s)].op = s[Len(s)].op
           /\ Answered(s, b)[Len(s)].node = s[Len(s)].node
           /\ Answered(s, b)[Len(s)].fld = s[Len(s)].fld
           /\ Answered(s, b)[Len(s)].phase = s[Len(s)].phase
           /\ Answered(s, b)[Len(s)].todo = Tail(s[Len(s)].todo)
           /\ Answered(s, b)[Len(s)].fresh = (s[Len(s)].fresh /\ b)
<1> DEFINE f == s[Len(s)]
           g == [f EXCEPT !.todo = Tail(@), !.fresh = @ /\ b]
<1>1. Len(s) \in Nat \ {0} /\ Len(s) \in 1..Len(s)
  BY EmptySeq
<1>2. f \in Frame
  BY <1>1, ElementOfSeq
<1>3. Tail(f.todo) \in Seq(Key)
  BY <1>2, HeadTailProperties DEF Frame
<1>4. (f.fresh /\ b) \in BOOLEAN
  OBVIOUS
<1>5. g \in Frame
  BY <1>2, <1>3, <1>4 DEF Frame
<1>6. Answered(s, b) = [s EXCEPT ![Len(s)] = g]
  BY <1>1, <1>2 DEF Answered, Frame
<1>7. /\ g.op = f.op /\ g.node = f.node /\ g.fld = f.fld /\ g.phase = f.phase
      /\ g.todo = Tail(f.todo) /\ g.fresh = (f.fresh /\ b)
  BY <1>2 DEF Frame
<1> HIDE DEF g, f
<1>8. /\ Answered(s, b) \in Seq(Frame)
      /\ Len(Answered(s, b)) = Len(s)
      /\ \A i \in 1..Len(s) : Answered(s, b)[i] = IF i = Len(s) THEN g ELSE s[i]
  BY <1>1, <1>5, <1>6, ExceptSeq
<1> QED BY <1>1, <1>7, <1>8 DEF f

-----------------------------------------------------------------------------
(* The shape of the call stack. *)

\* A frame runs a rule only of a kind that has rules; a helper works on the
\* indexed element, and asks only for what its key asks for.
FrameOK(f) ==
    /\ f.phase = "rule" => f.fld \in Kinds
    /\ f.op = "process" => f.phase = "rule"
    /\ f.op = "memo" => /\ Known(CodeOf[f.node])
                        /\ f.node = NodeOf(CodeOf[f.node])
                        /\ \A i \in 1..Len(f.todo) : f.todo[i] \in Asks(KeyOf(f))

\* One frame of the walk at the bottom, helpers above it, each asked for by the
\* frame below.
StackOK(s) ==
    /\ \A i \in 1..Len(s) : FrameOK(s[i]) /\ (s[i].op = "process" <=> i = 1)
    /\ \A i \in 1..Len(s) - 1 : s[i].todo # <<>> /\ Head(s[i].todo) = KeyOf(s[i + 1])

\* d and S name the helpers on s, as dependency_stack_ and computing_ should.
Tracks(s, d, S) ==
    /\ Len(d) = IF s = <<>> THEN 0 ELSE Len(s) - 1
    /\ \A i \in 1..Len(d) : d[i] = KeyOf(s[i + 1])
    /\ S = {d[i] : i \in 1..Len(d)}
    /\ \A i, j \in 1..Len(d) : d[i] = d[j] => i = j

\* The key of a frame is a memo key.
LEMMA KeyOfType ==
    ASSUME NEW f \in Frame
    PROVE  KeyOf(f) \in Key
BY TreeAssumption DEF KeyOf, Frame, Key

\* A non-empty stack has a top, and holds frames.
LEMMA StackElement ==
    ASSUME NEW s \in Seq(Frame), s # <<>>
    PROVE  /\ Len(s) \in Nat \ {0}
           /\ Len(s) \in 1..Len(s)
           /\ \A i \in 1..Len(s) : s[i] \in Frame
<1>1. Len(s) \in Nat \ {0}
  BY EmptySeq
<1> QED BY <1>1, ElementOfSeq

\* Answering the top frame keeps the stack in shape.
LEMMA AnsweredKeepsShape ==
    ASSUME NEW s \in Seq(Frame), s # <<>>, s[Len(s)].todo # <<>>,
           NEW b \in BOOLEAN, StackOK(s)
    PROVE  StackOK(Answered(s, b))
<1> DEFINE a == Answered(s, b)
           n == Len(s)
<1>1. n \in Nat \ {0} /\ n \in 1..n /\ s[n] \in Frame
  BY StackElement
<1>2. /\ Len(a) = n
      /\ \A i \in 1..n - 1 : a[i] = s[i]
      /\ a[n].op = s[n].op /\ a[n].node = s[n].node /\ a[n].fld = s[n].fld
      /\ a[n].phase = s[n].phase /\ a[n].todo = Tail(s[n].todo)
  BY AnsweredProperties
<1>3. \A i \in 1..Len(Tail(s[n].todo)) : Tail(s[n].todo)[i] = s[n].todo[i + 1]
  BY <1>1, HeadTailProperties DEF Frame
<1>4. Len(Tail(s[n].todo)) = Len(s[n].todo) - 1 /\ Len(s[n].todo) \in Nat
  BY <1>1, HeadTailProperties, LenProperties DEF Frame
<1>5. FrameOK(s[n]) /\ (s[n].op = "process" <=> n = 1)
  BY <1>1 DEF StackOK
<1> HIDE DEF a, n
<1>6. FrameOK(a[n]) /\ (a[n].op = "process" <=> n = 1)
  <2>1. KeyOf(a[n]) = KeyOf(s[n])
    BY <1>2 DEF KeyOf
  <2>2. ASSUME a[n].op = "memo", NEW i \in 1..Len(a[n].todo)
        PROVE  a[n].todo[i] \in Asks(KeyOf(a[n]))
    <3>1. i + 1 \in 1..Len(s[n].todo)
      BY <1>2, <1>4
    <3>2. a[n].todo[i] = s[n].todo[i + 1]
      BY <1>2, <1>3
    <3> QED BY <1>2, <1>5, <2>1, <2>2, <3>1, <3>2 DEF FrameOK
  <2> QED BY <1>2, <1>5, <2>2 DEF FrameOK
<1>7. \A i \in 1..n : i # n => i \in 1..n - 1
  BY <1>1
<1>8. ASSUME NEW i \in 1..n
      PROVE  FrameOK(a[i]) /\ (a[i].op = "process" <=> i = 1)
  BY <1>2, <1>6, <1>7 DEF StackOK, n
<1>9. ASSUME NEW i \in 1..n - 1
      PROVE  a[i].todo # <<>> /\ Head(a[i].todo) = KeyOf(a[i + 1])
  <2>1. i + 1 \in 1..n /\ i \in 1..n
    BY <1>1
  <2>2. KeyOf(a[i + 1]) = KeyOf(s[i + 1])
    BY <1>2, <1>7, <2>1 DEF KeyOf
  <2>3. s[i].todo # <<>> /\ Head(s[i].todo) = KeyOf(s[i + 1])
    BY DEF StackOK, n
  <2> QED BY <1>2, <2>2, <2>3
<1> QED BY <1>2, <1>8, <1>9 DEF StackOK, a, n

\* A helper that is left leaves a stack in shape, whose top waits for it.
LEMMA PopKeepsShape ==
    ASSUME NEW s \in Seq(Frame), s # <<>>, s[Len(s)].op = "memo", StackOK(s)
    PROVE  /\ Pop(s) \in Seq(Frame)
           /\ Pop(s) # <<>>
           /\ Len(Pop(s)) = Len(s) - 1
           /\ \A i \in 1..Len(s) - 1 : Pop(s)[i] = s[i]
           /\ Pop(s)[Len(Pop(s))].todo # <<>>
           /\ Head(Pop(s)[Len(Pop(s))].todo) = KeyOf(s[Len(s)])
           /\ StackOK(Pop(s))
<1> DEFINE p == Pop(s)
           n == Len(s)
<1>1. n \in Nat \ {0} /\ n \in 1..n
  BY StackElement
<1>2. n # 1
  BY <1>1 DEF StackOK
<1>3. /\ p \in Seq(Frame)
      /\ Len(p) = n - 1
      /\ \A i \in 1..n - 1 : p[i] = s[i]
  BY PopProperties
<1> HIDE DEF p, n
<1>4. p # <<>>
  BY <1>1, <1>2, <1>3
<1>5. /\ n - 1 \in 1..n - 1 /\ (n - 1) + 1 = n
      /\ \A i \in 1..n - 1 : i \in 1..n
      /\ \A i \in 1..(n - 1) - 1 : i \in 1..n - 1 /\ i + 1 \in 1..n - 1
  BY <1>1, <1>2
<1>6. /\ \A i \in 1..n : FrameOK(s[i]) /\ (s[i].op = "process" <=> i = 1)
      /\ \A i \in 1..n - 1 : s[i].todo # <<>> /\ Head(s[i].todo) = KeyOf(s[i + 1])
  BY DEF StackOK, n
<1>7. s[n - 1].todo # <<>> /\ Head(s[n - 1].todo) = KeyOf(s[n])
  BY <1>5, <1>6
<1>8. StackOK(p)
  BY <1>3, <1>5, <1>6 DEF StackOK
<1> QED BY <1>3, <1>4, <1>5, <1>7, <1>8 DEF p, n

\* So does entering a helper for the key the top frame asks for next.
LEMMA PushKeepsShape ==
    ASSUME NEW s \in Seq(Frame), s # <<>>, StackOK(s),
           NEW f \in Frame, FrameOK(f), f.op = "memo",
           s[Len(s)].todo # <<>>, Head(s[Len(s)].todo) = KeyOf(f)
    PROVE  Append(s, f) \in Seq(Frame) /\ StackOK(Append(s, f))
<1> DEFINE a == Append(s, f)
           n == Len(s)
<1>1. n \in Nat \ {0} /\ n \in 1..n
  BY StackElement
<1>2. /\ a \in Seq(Frame)
      /\ Len(a) = n + 1
      /\ \A i \in 1..n : a[i] = s[i]
      /\ a[n + 1] = f
  BY AppendProperties
<1>3. /\ \A i \in 1..n : FrameOK(s[i]) /\ (s[i].op = "process" <=> i = 1)
      /\ \A i \in 1..n - 1 : s[i].todo # <<>> /\ Head(s[i].todo) = KeyOf(s[i + 1])
      /\ s[n].todo # <<>> /\ Head(s[n].todo) = KeyOf(f)
  BY DEF StackOK
<1> HIDE DEF a, n
<1>4. ASSUME NEW i \in 1..n + 1
      PROVE  FrameOK(a[i]) /\ (a[i].op = "process" <=> i = 1)
  <2>1. CASE i = n + 1
    BY <1>1, <1>2, <2>1
  <2>2. CASE i # n + 1
    <3>1. i \in 1..n
      BY <1>1, <2>2
    <3> QED BY <1>2, <1>3, <3>1
  <2> QED BY <2>1, <2>2
<1>5. ASSUME NEW i \in 1..n
      PROVE  a[i].todo # <<>> /\ Head(a[i].todo) = KeyOf(a[i + 1])
  <2>1. CASE i = n
    BY <1>2, <1>3, <2>1
  <2>2. CASE i # n
    <3>1. i \in 1..n - 1 /\ i + 1 \in 1..n
      BY <1>1, <2>2
    <3> QED BY <1>2, <1>3, <3>1
  <2> QED BY <2>1, <2>2
<1>6. (n + 1) - 1 = n
  BY <1>1
<1>7. StackOK(a)
  BY <1>2, <1>4, <1>5, <1>6 DEF StackOK
<1> QED BY <1>2, <1>7 DEF a

-----------------------------------------------------------------------------
(* computing_ and dependency_stack_ against the call stack. *)

\* Only the keys of the frames matter to dependency_stack_.
LEMMA TracksSameKeys ==
    ASSUME NEW s \in Seq(Frame), NEW t \in Seq(Frame), s # <<>>,
           Len(t) = Len(s), \A i \in 1..Len(s) : KeyOf(t[i]) = KeyOf(s[i]),
           NEW d \in Seq(Key), NEW S, Tracks(s, d, S)
    PROVE  Tracks(t, d, S)
<1>1. Len(s) \in Nat \ {0} /\ t # <<>>
  BY StackElement, EmptySeq
<1>2. Len(d) = Len(s) - 1
  BY DEF Tracks
<1>3. \A i \in 1..Len(d) : i + 1 \in 1..Len(s)
  BY <1>1, <1>2
<1> QED BY <1>1, <1>2, <1>3 DEF Tracks

\* Popping all three keeps them in step.
LEMMA TracksPop ==
    ASSUME NEW s \in Seq(Frame), s # <<>>, s[Len(s)].op = "memo", StackOK(s),
           NEW d \in Seq(Key), NEW S, Tracks(s, d, S)
    PROVE  /\ Pop(d) \in Seq(Key)
           /\ Tracks(Pop(s), Pop(d), S \ {KeyOf(s[Len(s)])})
<1> DEFINE n == Len(s)
<1>1. n \in Nat \ {0} /\ n \in 1..n
  BY StackElement
<1>2. n # 1
  BY <1>1 DEF StackOK
<1>3. Len(d) = n - 1 /\ d # <<>>
  BY <1>1, <1>2, EmptySeq DEF Tracks
<1>4. /\ Pop(d) \in Seq(Key)
      /\ Len(Pop(d)) = n - 2
      /\ \A i \in 1..n - 2 : Pop(d)[i] = d[i]
  <2>1. (n - 1) - 1 = n - 2
    BY <1>1
  <2> QED BY <1>3, <2>1, PopProperties
<1>5. /\ Pop(s) # <<>>
      /\ Len(Pop(s)) = n - 1
      /\ \A i \in 1..n - 1 : Pop(s)[i] = s[i]
  BY PopKeepsShape
<1>6. d[n - 1] = KeyOf(s[n])
  <2>1. n - 1 \in 1..Len(d) /\ (n - 1) + 1 = n
    BY <1>1, <1>2, <1>3
  <2> QED BY <2>1 DEF Tracks
<1> HIDE DEF n
<1>7. \A i \in 1..n - 2 : i \in 1..n - 1 /\ i + 1 \in 1..n - 1 /\ i # n - 1
  BY <1>1, <1>2
<1>8. \A i \in 1..n - 1 : i \in 1..n - 2 \/ i = n - 1
  BY <1>1, <1>2
<1>9. \A i \in 1..n - 2 : Pop(d)[i] = KeyOf(Pop(s)[i + 1])
  BY <1>3, <1>4, <1>5, <1>7 DEF Tracks
<1>10. S \ {KeyOf(s[n])} = {Pop(d)[i] : i \in 1..n - 2}
  <2>1. S = {d[i] : i \in 1..n - 1}
    BY <1>3 DEF Tracks
  <2>2. \A i, j \in 1..n - 1 : d[i] = d[j] => i = j
    BY <1>3 DEF Tracks
  <2>3. n - 1 \in 1..n - 1
    BY <1>1, <1>2
  <2>4. ASSUME NEW x \in S \ {KeyOf(s[n])}
        PROVE  x \in {Pop(d)[i] : i \in 1..n - 2}
    <3>1. PICK i \in 1..n - 1 : x = d[i]
      BY <2>1
    <3>2. i # n - 1
      BY <1>6, <2>4, <3>1
    <3>3. i \in 1..n - 2
      BY <1>8, <3>2
    <3>4. x = Pop(d)[i]
      BY <1>4, <3>1, <3>3
    <3> QED BY <3>3, <3>4
  <2>5. ASSUME NEW i \in 1..n - 2
        PROVE  Pop(d)[i] \in S \ {KeyOf(s[n])}
    <3>1. d[i] \in S /\ d[i] # d[n - 1]
      BY <1>7, <2>1, <2>2, <2>3
    <3> QED BY <1>4, <1>6, <3>1
  <2> QED BY <2>4, <2>5
<1>11. \A i, j \in 1..n - 2 : Pop(d)[i] = Pop(d)[j] => i = j
  BY <1>3, <1>4, <1>7 DEF Tracks
<1>12. (n - 1) - 1 = n - 2
  BY <1>1
<1> QED BY <1>4, <1>5, <1>9, <1>10, <1>11, <1>12 DEF Tracks, n

\* Pushing a key that is not yet computed keeps them in step.
LEMMA TracksPush ==
    ASSUME NEW s \in Seq(Frame), s # <<>>, NEW f \in Frame,
           NEW d \in Seq(Key), NEW S, Tracks(s, d, S), KeyOf(f) \notin S
    PROVE  /\ Append(d, KeyOf(f)) \in Seq(Key)
           /\ Tracks(Append(s, f), Append(d, KeyOf(f)), S \cup {KeyOf(f)})
<1> DEFINE n == Len(s)
           k == KeyOf(f)
           e == Append(d, k)
           a == Append(s, f)
<1>1. n \in Nat \ {0}
  BY StackElement
<1>2. Len(d) = n - 1
  BY DEF Tracks
<1>3. k \in Key
  BY KeyOfType
<1>4. /\ e \in Seq(Key)
      /\ Len(e) = n
      /\ \A i \in 1..n - 1 : e[i] = d[i]
      /\ e[n] = k
  <2>1. (n - 1) + 1 = n
    BY <1>1
  <2> HIDE DEF k, n
  <2> QED BY <1>2, <1>3, <2>1, AppendProperties
<1>5. /\ a # <<>>
      /\ Len(a) = n + 1
      /\ \A i \in 1..n : a[i] = s[i]
      /\ a[n + 1] = f
  BY AppendProperties
<1>6. /\ \A i \in 1..n - 1 : d[i] = KeyOf(s[i + 1])
      /\ S = {d[i] : i \in 1..n - 1}
      /\ \A i, j \in 1..n - 1 : d[i] = d[j] => i = j
  BY <1>2 DEF Tracks
<1>7. /\ \A i \in 1..n : i \in 1..n - 1 \/ i = n
      /\ \A i \in 1..n - 1 : i \in 1..n /\ i + 1 \in 1..n
      /\ n \in 1..n
      /\ (n + 1) - 1 = n
  BY <1>1
<1>8. \A i \in 1..n - 1 : e[i] # k
  BY <1>4, <1>6
<1> HIDE DEF a, e, n
<1>9. \A i \in 1..n : e[i] = KeyOf(a[i + 1])
  BY <1>4, <1>5, <1>6, <1>7 DEF k
<1>10. S \cup {k} = {e[i] : i \in 1..n}
  <2> HIDE DEF k
  <2>1. \A x \in S : \E i \in 1..n : x = e[i]
    BY <1>4, <1>6, <1>7
  <2>2. \A i \in 1..n : e[i] \in S \cup {k}
    BY <1>4, <1>6, <1>7
  <2> QED BY <1>4, <1>7, <2>1, <2>2
<1>11. \A i, j \in 1..n : e[i] = e[j] => i = j
  <2> HIDE DEF k
  <2> QED BY <1>4, <1>6, <1>7, <1>8
<1> QED BY <1>4, <1>5, <1>7, <1>9, <1>10, <1>11 DEF Tracks, a, e

-----------------------------------------------------------------------------
(* Every step keeps the call stack in order. *)

\* The invariant behind ComputingIsTheCallStack.
CallInv ==
    /\ StackOK(stack)
    /\ Tracks(stack, depStack, computing)
    /\ stack # <<>> => mode \in {"running", "throwing"} /\ pos <= Len(Agenda)

IInv == TypeOK /\ CallInv

\* The rules of a tree are rules.
LEMMA RuleType ==
    ASSUME TypeOK, NEW n \in Nodes, NEW f \in Kinds
    PROVE  /\ RuleAt(n, f) \in Rule
           /\ RuleAt(n, f).calls \in Seq(Key)
           /\ CompileKey(n, f) \in Codes \X Kinds \X Rule
           /\ RuleAt(n, f) = rules[n][f]
<1>1. RuleAt(n, f) = rules[n][f]
  BY DEF RuleAt, RuleOf, Kinds
<1>2. rules[n][f] \in Rule
  BY DEF TypeOK
<1>3. CodeOf[n] \in Codes
  BY TreeAssumption
<1> QED BY <1>1, <1>2, <1>3 DEF Rule, CompileKey

\* compileRule keeps the types of what it changes.
LEMMA CompileType ==
    ASSUME TypeOK, NEW n \in Nodes, NEW f \in Kinds, Compile(n, f)
    PROVE  /\ compiled' \subseteq Codes \X Kinds \X Rule
           /\ telemetry' \in Counters
<1>1. CompileKey(n, f) \in Codes \X Kinds \X Rule
  BY RuleType
<1>2. compiled' \subseteq Codes \X Kinds \X Rule
  BY <1>1 DEF Compile, TypeOK
<1>3. telemetry' \in Counters
  <2>1. telemetry \in Counters
    BY DEF TypeOK
  <2>2. \/ telemetry' = [telemetry EXCEPT !.executions = @ + 1]
        \/ telemetry' = [telemetry EXCEPT !.compiles = @ + 1, !.executions = @ + 1]
    BY DEF Compile
  <2>3. ASSUME NEW t \in Counters
        PROVE  /\ [t EXCEPT !.executions = @ + 1] \in Counters
               /\ [t EXCEPT !.compiles = @ + 1] \in Counters
    BY DEF Counters
  <2>4. CASE telemetry' = [telemetry EXCEPT !.executions = @ + 1]
    BY <2>1, <2>3, <2>4
  <2>5. CASE telemetry' = [telemetry EXCEPT !.compiles = @ + 1, !.executions = @ + 1]
    <3> DEFINE t == [telemetry EXCEPT !.compiles = @ + 1]
    <3>1. telemetry' = [t EXCEPT !.executions = @ + 1]
      BY <2>1, <2>5 DEF Counters
    <3>2. t \in Counters
      BY <2>1, <2>3
    <3> QED BY <2>3, <3>1, <3>2
  <2> QED BY <2>2, <2>4, <2>5
<1> QED BY <1>2, <1>3

\* No step changes the rules, so the shape of a stack is the same afterwards.
LEMMA SameTable ==
    ASSUME rules' = rules
    PROVE  StackOK(stack)' <=> StackOK(stack')
BY DEF StackOK, FrameOK, Asks, RuleAt, RuleOf, KeyOf

\* The invariant holds of a new evaluator.
LEMMA InitIInv == ASSUME Init PROVE IInv
<1>1. Len(Agenda) \in Nat
  BY AgendaType
<1>2. TypeOK
  <2>1. rules \in [Nodes -> [Kinds -> Rule]] /\ given \subseteq Nodes \X Fields
    BY RuleAssumption DEF Init
  <2>2. field \in [Nodes -> [Fields -> {"none", "stale", "fresh"}]]
    BY DEF Init
  <2>3. cache \in [Key -> {"none", "stale", "fresh"}]
    BY DEF Init
  <2>4. telemetry \in Counters
    BY DEF Init, Counters
  <2>5. depStack \in Seq(Key) /\ stack \in Seq(Frame)
    BY DEF Init
  <2>6. evaluations \in 1..MaxEvaluations
    BY BoundAssumption DEF Init
  <2> QED BY <1>1, <2>1, <2>2, <2>3, <2>4, <2>5, <2>6 DEF Init, TypeOK
<1>3. StackOK(stack)
  BY DEF Init, StackOK
<1>4. Tracks(stack, depStack, computing)
  BY DEF Init, Tracks
<1> QED BY <1>2, <1>3, <1>4 DEF Init, IInv, CallInv

\* Steps that leave the call stack alone.
LEMMA FrozenStack ==
    ASSUME CallInv, UNCHANGED <<rules, computing, depStack, stack>>,
           stack # <<>> => mode' \in {"running", "throwing"} /\ pos' = pos
    PROVE  CallInv'
<1>1. StackOK(stack)'
  BY SameTable DEF CallInv
<1>2. Tracks(stack, depStack, computing)'
  BY DEF CallInv, Tracks, KeyOf
<1>3. (stack # <<>> => mode \in {"running", "throwing"} /\ pos <= Len(Agenda))'
  BY DEF CallInv, Agenda, KindSeq
<1> QED BY <1>1, <1>2, <1>3 DEF CallInv

\* Steps that answer a call without entering a helper.
LEMMA AnsweredStep ==
    ASSUME IInv, Calling, NEW b \in BOOLEAN, stack' = Answered(stack, b),
           UNCHANGED <<rules, computing, depStack, pos, mode>>
    PROVE  CallInv' /\ stack' \in Seq(Frame)
<1>1. /\ stack \in Seq(Frame) /\ stack # <<>> /\ stack[Len(stack)].todo # <<>>
      /\ depStack \in Seq(Key)
  BY DEF IInv, TypeOK, Calling, Top
<1>2. StackOK(stack')
  BY <1>1, AnsweredKeepsShape DEF IInv, CallInv
<1>3. /\ stack' \in Seq(Frame)
      /\ Len(stack') = Len(stack)
      /\ \A i \in 1..Len(stack) : KeyOf(stack'[i]) = KeyOf(stack[i])
  <2>1. \A i \in 1..Len(stack) : i \in 1..Len(stack) - 1 \/ i = Len(stack)
    BY <1>1, StackElement
  <2> QED BY <1>1, <2>1, AnsweredProperties DEF KeyOf
<1>4. Tracks(stack', depStack, computing)
  BY <1>1, <1>3, TracksSameKeys DEF IInv, CallInv
<1>5. Tracks(stack, depStack, computing)'
  BY <1>4 DEF Tracks, KeyOf
<1>6. (stack # <<>> => mode \in {"running", "throwing"} /\ pos <= Len(Agenda))'
  BY <1>1 DEF IInv, CallInv, Agenda, KindSeq
<1> QED BY <1>2, <1>3, <1>5, <1>6, SameTable DEF CallInv

\* The facts about the top frame that the steps need.
LEMMA TopFrame ==
    ASSUME IInv, stack # <<>>
    PROVE  /\ stack \in Seq(Frame)
           /\ Len(stack) \in Nat \ {0}
           /\ Len(stack) \in 1..Len(stack)
           /\ Top \in Frame
           /\ FrameOK(Top)
           /\ Top.op = "process" <=> Len(stack) = 1
           /\ KeyOf(Top) \in Key
           /\ mode \in {"running", "throwing"}
           /\ pos \in 1..Len(Agenda)
<1>1. stack \in Seq(Frame) /\ pos \in 1..Len(Agenda) + 1 /\ Len(Agenda) \in Nat
  BY AgendaType DEF IInv, TypeOK
<1>2. /\ Len(stack) \in Nat \ {0} /\ Len(stack) \in 1..Len(stack)
      /\ Top \in Frame
  BY <1>1, StackElement DEF Top
<1>3. FrameOK(Top) /\ (Top.op = "process" <=> Len(stack) = 1)
  BY <1>2 DEF IInv, CallInv, StackOK, Top
<1>4. KeyOf(Top) \in Key
  BY <1>2, KeyOfType
<1>5. mode \in {"running", "throwing"} /\ pos <= Len(Agenda)
  BY DEF IInv, CallInv
<1>6. pos \in 1..Len(Agenda)
  BY <1>1, <1>5
<1> QED BY <1>1, <1>2, <1>3, <1>4, <1>5, <1>6

\* Steps that leave the stack, the cycle set and the results alone.
LEMMA QuietStep ==
    ASSUME IInv,
           \/ ProcessSkip \/ ProcessMalformed \/ CallCycle \/ StartMalformed
           \/ RuleThrows \/ Fail \/ Finish \/ EvaluateAgain
    PROVE  IInv'
<1>1. /\ UNCHANGED <<rules, given, field, cache, computing, depStack, compiled, stack>>
      /\ stack # <<>> => mode' \in {"running", "throwing"} /\ pos' = pos
  <2>1. CASE ProcessSkip
    BY <2>1 DEF ProcessSkip, AtAgenda
  <2>2. CASE ProcessMalformed
    BY <2>2 DEF ProcessMalformed, AtAgenda
  <2>3. CASE CallCycle
    BY <2>3 DEF CallCycle
  <2>4. CASE StartMalformed
    BY <2>4 DEF StartMalformed
  <2>5. CASE RuleThrows
    BY <2>5 DEF RuleThrows
  <2>6. CASE Fail
    BY <2>6 DEF Fail
  <2>7. CASE Finish
    BY <2>7 DEF Finish
  <2>8. CASE EvaluateAgain
    BY <2>8 DEF EvaluateAgain, IInv, CallInv
  <2> QED BY <2>1, <2>2, <2>3, <2>4, <2>5, <2>6, <2>7, <2>8
<1>2. CallInv'
  BY <1>1, FrozenStack DEF IInv
<1>3. telemetry' \in Counters
  <2>1. telemetry \in Counters
    BY DEF IInv, TypeOK
  <2>2. telemetry' = telemetry \/ telemetry' = [telemetry EXCEPT !.cycles = @ + 1]
    BY DEF ProcessSkip, ProcessMalformed, CallCycle, StartMalformed, RuleThrows, Fail,
           Finish, EvaluateAgain
  <2> QED BY <2>1, <2>2 DEF Counters
<1>4. pos' \in 1..Len(Agenda) + 1
  <2>1. Len(Agenda) \in Nat
    BY AgendaType
  <2> QED BY <2>1 DEF ProcessSkip, ProcessMalformed, CallCycle, StartMalformed,
         RuleThrows, Fail, Finish, EvaluateAgain, AtAgenda, IInv, TypeOK
<1>5. mode' \in {"running", "throwing", "done", "failed"}
  BY DEF ProcessSkip, ProcessMalformed, CallCycle, StartMalformed, RuleThrows, Fail,
         Finish, EvaluateAgain, IInv, TypeOK
<1>6. evaluations' \in 1..MaxEvaluations
  BY BoundAssumption DEF ProcessSkip, ProcessMalformed, CallCycle, StartMalformed,
         RuleThrows, Fail, Finish, EvaluateAgain, IInv, TypeOK
<1> QED BY <1>1, <1>2, <1>3, <1>4, <1>5, <1>6 DEF IInv, TypeOK

\* Steps that answer a call at once.
LEMMA AnswerStep ==
    ASSUME IInv, CallUnknown \/ CallPresent \/ CallCached
    PROVE  IInv'
<1>1. /\ Calling
      /\ UNCHANGED <<rules, given, field, cache, computing, depStack, compiled, pos,
                     mode, telemetry, evaluations>>
      /\ \E b \in BOOLEAN : stack' = Answered(stack, b)
  BY DEF CallUnknown, CallPresent, CallCached, AbsentField
<1>2. CallInv' /\ stack' \in Seq(Frame)
  BY <1>1, AnsweredStep
<1> QED BY <1>1, <1>2 DEF IInv, TypeOK

\* The walk runs a rule.
LEMMA ProcessRuleStep ==
    ASSUME IInv, ProcessRule
    PROVE  IInv'
<1> DEFINE n == Agenda[pos][1]
           f == Agenda[pos][2]
<1>1. /\ stack = <<>> /\ mode = "running" /\ pos <= Len(Agenda)
      /\ Compile(n, f)
      /\ UNCHANGED <<rules, given, field, cache, computing, depStack, pos, mode,
                     evaluations>>
  BY DEF ProcessRule, AtAgenda
<1>2. n \in Nodes /\ f \in Kinds
  <2>1. pos \in 1..Len(Agenda)
    BY <1>1, AgendaType DEF IInv, TypeOK
  <2> QED BY <2>1, AgendaType
<1> DEFINE b == \A g \in OwnInputs(f) : ReadsFresh(n, g)
           fr == [op |-> "process", node |-> n, fld |-> f, phase |-> "rule",
                  todo |-> RuleAt(n, f).calls, fresh |-> b]
<1>3. stack' = <<fr>>
  BY DEF ProcessRule
<1> HIDE DEF n, f, b
<1>4. b \in BOOLEAN
  BY DEF b
<1>5. RuleAt(n, f).calls \in Seq(Key)
  BY <1>2, RuleType DEF IInv
<1>6. fr \in Frame
  BY <1>2, <1>4, <1>5 DEF Frame, Fields
<1>7. FrameOK(fr)
  BY <1>2 DEF FrameOK
<1>8. fr.op = "process"
  OBVIOUS
<1> HIDE DEF fr
<1>9. stack' \in Seq(Frame) /\ Len(stack') = 1 /\ stack'[1] = fr
  BY <1>3, <1>6
<1>10. StackOK(stack')
  BY <1>7, <1>8, <1>9 DEF StackOK
<1>11. Tracks(stack', depStack, computing)
  <2>1. Len(depStack) = 0
    BY <1>1 DEF IInv, CallInv, Tracks
  <2> QED BY <1>1, <1>3, <1>9, <2>1 DEF IInv, CallInv, Tracks
<1>12. Tracks(stack, depStack, computing)'
  BY <1>1, <1>11 DEF Tracks, KeyOf
<1>13. CallInv'
  BY <1>1, <1>10, <1>12, SameTable DEF CallInv
<1>14. compiled' \subseteq Codes \X Kinds \X Rule /\ telemetry' \in Counters
  BY <1>1, <1>2, CompileType DEF IInv
<1> QED BY <1>1, <1>9, <1>13, <1>14 DEF IInv, TypeOK

\* The walk has a result, or its rule is unwound: the stack is empty again.
LEMMA ClearedStep ==
    ASSUME IInv, FinishProcess \/ UnwindProcess
    PROVE  IInv'
<1>1. /\ stack # <<>> /\ Top.op = "process" /\ stack' = <<>>
      /\ UNCHANGED <<rules, given, cache, computing, depStack, compiled, mode,
                     telemetry, evaluations>>
  BY DEF FinishProcess, UnwindProcess
<1>2. StackOK(stack)'
  BY <1>1 DEF StackOK
<1>3. Len(stack) = 1
  BY <1>1, TopFrame
<1>4. Tracks(stack, depStack, computing)'
  <2>1. Tracks(<<>>, depStack, computing)
    <3>1. Len(depStack) = 0
      BY <1>1, <1>3 DEF IInv, CallInv, Tracks
    <3> QED BY <3>1 DEF IInv, CallInv, Tracks
  <2> QED BY <1>1, <2>1 DEF Tracks
<1>5. CallInv'
  BY <1>1, <1>2, <1>4 DEF CallInv
<1>6. field' \in [Nodes -> [Fields -> {"none", "stale", "fresh"}]]
  <2>1. CASE UnwindProcess
    BY <2>1 DEF UnwindProcess, IInv, TypeOK
  <2>2. CASE FinishProcess
    <3>1. Top \in Frame
      BY <1>1, TopFrame
    <3>2. Top.node \in Nodes
      BY <3>1 DEF Frame
    <3>3. Result(Top) \in {"none", "stale", "fresh"}
      BY DEF Result
    <3> QED BY <2>2, <3>2, <3>3 DEF FinishProcess, IInv, TypeOK
  <2> QED BY <2>1, <2>2, <1>1
<1>7. pos' \in 1..Len(Agenda) + 1
  <2>1. pos \in 1..Len(Agenda) /\ Len(Agenda) \in Nat
    BY <1>1, TopFrame, AgendaType
  <2>2. pos' = pos \/ pos' = pos + 1
    BY DEF FinishProcess, UnwindProcess
  <2> QED BY <2>1, <2>2
<1>8. stack' \in Seq(Frame)
  BY <1>1
<1> QED BY <1>1, <1>5, <1>6, <1>7, <1>8 DEF IInv, TypeOK

\* A helper is entered.
LEMMA ComputeStep ==
    ASSUME IInv, CallCompute
    PROVE  IInv'
<1> DEFINE k == Wanted
           n == NodeOf(k[2])
           zero == k[1] # "weighted" /\ ~HasRule(rules, n, k[1])
<1>1. /\ stack # <<>> /\ Top.todo # <<>> /\ mode = "running" /\ Known(k[2])
      /\ k \notin computing
      /\ computing' = computing \cup {k}
      /\ depStack' = Append(depStack, k)
      /\ UNCHANGED <<rules, given, field, cache, compiled, pos, mode, evaluations>>
  BY DEF CallCompute, AbsentField, Calling
<1>2. /\ stack \in Seq(Frame) /\ Len(stack) \in Nat \ {0} /\ Len(stack) \in 1..Len(stack)
      /\ Top \in Frame /\ pos \in 1..Len(Agenda)
      /\ depStack \in Seq(Key) /\ computing \subseteq Key
      /\ StackOK(stack) /\ Tracks(stack, depStack, computing)
  BY <1>1, TopFrame DEF IInv, CallInv, TypeOK
<1>3. k \in Key
  BY <1>1, <1>2, HeadTailProperties DEF Wanted, Frame
<1>4. k[1] \in Fields /\ k[2] \in Codes /\ k = <<k[1], k[2]>>
  BY <1>3 DEF Key
<1>5. n \in Nodes /\ CodeOf[n] = k[2]
  BY <1>1, <1>4, NodeOfCode
<1>6. PICK args \in ArgOrders(k[1], k[2]) :
         stack' = Append(stack,
                    [op |-> "memo", node |-> n, fld |-> k[1],
                     phase |-> IF zero THEN "zero" ELSE "args",
                     todo |-> IF zero THEN <<>> ELSE args, fresh |-> TRUE])
  BY DEF CallCompute
<1> DEFINE fr == [op |-> "memo", node |-> n, fld |-> k[1],
                  phase |-> IF zero THEN "zero" ELSE "args",
                  todo |-> IF zero THEN <<>> ELSE args, fresh |-> TRUE]
<1>7. /\ args \in Seq(Key)
      /\ \A i \in 1..Len(args) : \E g \in OwnInputs(k[1]) : args[i] = <<g, k[2]>>
  <2>1. \A g \in Fields : <<g, k[2]>> \in Key
    BY <1>4 DEF Key
  <2>2. CASE k[1] = "value"
    <3>1. args = <<>>
      BY <2>2, <1>6 DEF ArgOrders
    <3> QED BY <3>1
  <2>3. CASE k[1] = "rating"
    <3>1. args = << <<"value", k[2]>> >>
      BY <2>3, <1>6 DEF ArgOrders
    <3> QED BY <2>1, <2>3, <3>1 DEF OwnInputs, Fields, Kinds
  <2>4. CASE k[1] = "score"
    <3>1. \/ args = << <<"value", k[2]>>, <<"rating", k[2]>> >>
          \/ args = << <<"rating", k[2]>>, <<"value", k[2]>> >>
      BY <2>4, <1>6 DEF ArgOrders
    <3>2. "value" \in OwnInputs(k[1]) /\ "rating" \in OwnInputs(k[1])
      BY <2>4 DEF OwnInputs
    <3>3. <<"value", k[2]>> \in Key /\ <<"rating", k[2]>> \in Key
      BY <2>1 DEF Fields, Kinds
    <3>4. args \in Seq(Key) /\ Len(args) = 2
      <4>1. \A x, y \in Key : <<x, y>> \in Seq(Key) /\ Len(<<x, y>>) = 2
        OBVIOUS
      <4> QED BY <3>1, <3>3, <4>1
    <3>5. \A i \in 1..2 : args[i] \in {<<"value", k[2]>>, <<"rating", k[2]>>}
      BY <3>1
    <3> QED BY <3>2, <3>4, <3>5
  <2>5. CASE k[1] = "weighted"
    <3>1. args = << <<"score", k[2]>> >>
      BY <2>5, <1>6 DEF ArgOrders
    <3> QED BY <2>1, <2>5, <3>1 DEF OwnInputs, Fields, Kinds
  <2> QED BY <1>4, <2>2, <2>3, <2>4, <2>5 DEF Fields, Kinds
<1> HIDE DEF k, n, zero
<1>8. fr \in Frame
  BY <1>4, <1>5, <1>7 DEF Frame
<1>9. KeyOf(fr) = k
  BY <1>4, <1>5 DEF KeyOf
<1>10. FrameOK(fr)
  <2>1. fr.phase # "rule" /\ fr.op = "memo" /\ fr.node = n
    OBVIOUS
  <2>2. Known(CodeOf[fr.node]) /\ fr.node = NodeOf(CodeOf[fr.node])
    BY <1>1, <1>5 DEF n
  <2>3. \A i \in 1..Len(fr.todo) : fr.todo[i] \in Asks(k)
    <3>1. \A g \in OwnInputs(k[1]) : <<g, k[2]>> \in Asks(k)
      BY DEF Asks
    <3>2. CASE zero
      BY <3>2
    <3>3. CASE ~zero
      BY <1>7, <3>1, <3>3
    <3> QED BY <3>2, <3>3
  <2> QED BY <1>9, <2>1, <2>2, <2>3 DEF FrameOK
<1>11. stack' = Append(stack, fr) /\ fr.op = "memo"
  BY <1>6 DEF k, n, zero
<1> HIDE DEF fr
<1>12. stack[Len(stack)].todo # <<>> /\ Head(stack[Len(stack)].todo) = KeyOf(fr)
  BY <1>1, <1>9 DEF k, Wanted, Top
<1>13. stack' \in Seq(Frame) /\ StackOK(stack')
  BY <1>1, <1>2, <1>8, <1>10, <1>11, <1>12, PushKeepsShape
<1>14. depStack' \in Seq(Key) /\ Tracks(stack', depStack', computing')
  BY <1>1, <1>2, <1>8, <1>9, <1>11, TracksPush
<1>15. CallInv'
  <2>1. Tracks(stack, depStack, computing)'
    BY <1>14 DEF Tracks, KeyOf
  <2> QED BY <1>1, <1>2, <1>13, <2>1, SameTable DEF CallInv
<1>16. telemetry' \in Counters
  <2>1. telemetry \in Counters /\ Len(depStack) + 1 \in Nat
    BY <1>2, LenProperties DEF IInv, TypeOK
  <2>2. ASSUME NEW d \in Nat
        PROVE  [telemetry EXCEPT !.recursive = @ + 1, !.depth = d] \in Counters
    <3>1. [telemetry EXCEPT !.recursive = @ + 1] \in Counters
      BY <2>1 DEF Counters
    <3>2. \A t \in Counters : [t EXCEPT !.depth = d] \in Counters
      BY DEF Counters
    <3> QED BY <2>1, <3>1, <3>2 DEF Counters
  <2>3. PICK d \in Nat : telemetry' = [telemetry EXCEPT !.recursive = @ + 1, !.depth = d]
    <3>1. telemetry.depth \in Nat
      BY <2>1 DEF Counters
    <3>2. (IF telemetry.depth < Len(depStack) + 1 THEN Len(depStack) + 1
           ELSE telemetry.depth) \in Nat
      BY <2>1, <3>1
    <3> QED BY <3>2 DEF CallCompute
  <2> QED BY <2>2, <2>3
<1>17. computing' \subseteq Key
  BY <1>1, <1>2, <1>3
<1> QED BY <1>1, <1>13, <1>14, <1>15, <1>16, <1>17 DEF IInv, TypeOK

\* A helper has its arguments and runs the rule.
LEMMA StartRuleStep ==
    ASSUME IInv, StartRule
    PROVE  IInv'
<1> DEFINE n == Len(stack)
           top == Top
           r == RuleAt(top.node, top.fld)
           g == [top EXCEPT !.phase = "rule", !.todo = r.calls]
<1>1. /\ stack # <<>> /\ top.op = "memo" /\ top.fld # "weighted" /\ mode = "running"
      /\ Compile(top.node, top.fld)
      /\ UNCHANGED <<rules, given, field, cache, computing, depStack, pos, mode,
                     evaluations>>
  BY DEF StartRule, AtRule
<1>2. /\ stack \in Seq(Frame) /\ n \in Nat \ {0} /\ n \in 1..n
      /\ top \in Frame /\ FrameOK(top) /\ pos \in 1..Len(Agenda)
      /\ depStack \in Seq(Key)
      /\ StackOK(stack) /\ Tracks(stack, depStack, computing)
  BY <1>1, TopFrame DEF IInv, CallInv, TypeOK
<1>3. top.node \in Nodes /\ top.fld \in Kinds
  BY <1>1, <1>2 DEF Frame, Fields
<1>4. r.calls \in Seq(Key)
  BY <1>3, RuleType DEF IInv
<1>5. stack' = [stack EXCEPT ![n] = g]
  BY <1>2 DEF StartRule, Top, Frame
<1>6. /\ g \in Frame /\ g.op = top.op /\ g.node = top.node /\ g.fld = top.fld
      /\ g.phase = "rule" /\ g.todo = r.calls
  <2> HIDE DEF r, top
  <2> QED BY <1>2, <1>4 DEF Frame
<1>7. KeyOf(g) = KeyOf(top)
  <2> HIDE DEF g, top
  <2> QED BY <1>6 DEF KeyOf
<1>8. FrameOK(g)
  <2>1. top.node = NodeOf(KeyOf(top)[2]) /\ KeyOf(top)[1] = top.fld
    BY <1>1, <1>2 DEF FrameOK, KeyOf
  <2>2. \A i \in 1..Len(r.calls) : r.calls[i] \in Asks(KeyOf(top))
    BY <1>1, <2>1 DEF Asks
  <2> HIDE DEF g, r, top
  <2> QED BY <1>1, <1>2, <1>3, <1>6, <1>7, <2>2 DEF FrameOK
<1> HIDE DEF g, r
<1>9. /\ stack' \in Seq(Frame) /\ Len(stack') = n
      /\ \A i \in 1..n : stack'[i] = IF i = n THEN g ELSE stack[i]
  BY <1>2, <1>5, <1>6, ExceptSeq
<1>10. /\ stack'[n] = g /\ top = stack[n]
       /\ \A i \in 1..n - 1 : i \in 1..n /\ i # n /\ i + 1 \in 1..n
       /\ \A i \in 1..n - 1 : stack'[i] = stack[i]
  BY <1>2, <1>9 DEF Top
<1> HIDE DEF top
<1>11. \A i \in 1..n : KeyOf(stack'[i]) = KeyOf(stack[i])
  BY <1>7, <1>9, <1>10
<1>12. StackOK(stack')
  <2>1. \A i \in 1..n : FrameOK(stack'[i]) /\ (stack'[i].op = "process" <=> i = 1)
    BY <1>2, <1>6, <1>8, <1>9, <1>10 DEF StackOK
  <2>2. \A i \in 1..n - 1 : stack'[i].todo # <<>>
                            /\ Head(stack'[i].todo) = KeyOf(stack'[i + 1])
    BY <1>2, <1>10, <1>11 DEF StackOK
  <2> QED BY <1>9, <2>1, <2>2 DEF StackOK
<1>13. Tracks(stack', depStack, computing)
  BY <1>1, <1>2, <1>9, <1>11, TracksSameKeys
<1>14. CallInv'
  <2>1. Tracks(stack, depStack, computing)'
    BY <1>1, <1>13 DEF Tracks, KeyOf
  <2> QED BY <1>1, <1>2, <1>12, <2>1, SameTable DEF CallInv
<1>15. compiled' \subseteq Codes \X Kinds \X Rule /\ telemetry' \in Counters
  BY <1>1, <1>3, CompileType DEF IInv
<1> QED BY <1>1, <1>9, <1>14, <1>15 DEF IInv, TypeOK

\* A helper returns.
LEMMA FinishMemoStep ==
    ASSUME IInv, FinishMemo
    PROVE  IInv'
<1> DEFINE k == KeyOf(Top)
           p == Pop(stack)
           b == Top.fresh
<1>1. /\ stack # <<>> /\ Top.op = "memo" /\ mode = "running"
      /\ computing' = computing \ {k}
      /\ depStack' = Pop(depStack)
      /\ stack' = Answered(p, b)
      /\ UNCHANGED <<rules, given, compiled, pos, mode, telemetry, evaluations>>
  BY DEF FinishMemo
<1>2. /\ stack \in Seq(Frame) /\ Top \in Frame /\ pos \in 1..Len(Agenda)
      /\ Top = stack[Len(stack)] /\ k \in Key
      /\ depStack \in Seq(Key) /\ computing \subseteq Key
      /\ StackOK(stack) /\ Tracks(stack, depStack, computing)
  BY <1>1, TopFrame DEF IInv, CallInv, TypeOK, Top
<1>3. b \in BOOLEAN /\ Top.node \in Nodes /\ Top.fld \in Fields
  BY <1>2 DEF Frame
<1>4. /\ p \in Seq(Frame) /\ p # <<>> /\ p[Len(p)].todo # <<>> /\ StackOK(p)
  BY <1>1, <1>2, PopKeepsShape
<1>5. Pop(depStack) \in Seq(Key) /\ Tracks(p, Pop(depStack), computing \ {k})
  BY <1>1, <1>2, TracksPop
<1> HIDE DEF k, p, b
<1>6. /\ stack' \in Seq(Frame)
      /\ Len(stack') = Len(p)
      /\ \A i \in 1..Len(p) : KeyOf(stack'[i]) = KeyOf(p[i])
  <2>1. \A i \in 1..Len(p) : i \in 1..Len(p) - 1 \/ i = Len(p)
    BY <1>4, StackElement
  <2> QED BY <1>1, <1>3, <1>4, <2>1, AnsweredProperties DEF KeyOf
<1>7. StackOK(stack')
  BY <1>1, <1>3, <1>4, AnsweredKeepsShape
<1>8. Tracks(stack', depStack', computing')
  BY <1>1, <1>4, <1>5, <1>6, TracksSameKeys
<1>9. CallInv'
  <2>1. Tracks(stack, depStack, computing)'
    BY <1>8 DEF Tracks, KeyOf
  <2> QED BY <1>1, <1>2, <1>7, <2>1, SameTable DEF CallInv
<1>10. Result(Top) \in {"none", "stale", "fresh"}
  BY DEF Result
<1>11. field' \in [Nodes -> [Fields -> {"none", "stale", "fresh"}]]
  BY <1>3, <1>10 DEF FinishMemo, IInv, TypeOK
<1>12. cache' \in [Key -> {"none", "stale", "fresh"}]
  BY <1>2, <1>10 DEF FinishMemo, IInv, TypeOK, k
<1> QED BY <1>1, <1>2, <1>5, <1>6, <1>9, <1>11, <1>12 DEF IInv, TypeOK

\* An exception leaves a helper.
LEMMA UnwindMemoStep ==
    ASSUME IInv, UnwindMemo
    PROVE  IInv'
<1>1. /\ stack # <<>> /\ Top.op = "memo" /\ mode = "throwing"
      /\ computing' = computing \ {KeyOf(Top)}
      /\ depStack' = Pop(depStack)
      /\ stack' = Pop(stack)
      /\ UNCHANGED <<rules, given, field, cache, compiled, pos, mode, telemetry,
                     evaluations>>
  BY DEF UnwindMemo
<1>2. /\ stack \in Seq(Frame) /\ Top = stack[Len(stack)] /\ pos \in 1..Len(Agenda)
      /\ depStack \in Seq(Key) /\ computing \subseteq Key
      /\ StackOK(stack) /\ Tracks(stack, depStack, computing)
  BY <1>1, TopFrame DEF IInv, CallInv, TypeOK, Top
<1>3. stack' \in Seq(Frame) /\ StackOK(stack')
  BY <1>1, <1>2, PopKeepsShape
<1>4. depStack' \in Seq(Key) /\ Tracks(stack', depStack', computing')
  BY <1>1, <1>2, TracksPop
<1>5. CallInv'
  <2>1. Tracks(stack, depStack, computing)'
    BY <1>4 DEF Tracks, KeyOf
  <2> QED BY <1>1, <1>2, <1>3, <2>1, SameTable DEF CallInv
<1> QED BY <1>1, <1>2, <1>3, <1>4, <1>5 DEF IInv, TypeOK

\* Every step keeps the invariant.
LEMMA StepIInv ==
    ASSUME IInv, [Next]_vars
    PROVE  IInv'
<1>1. CASE UNCHANGED vars
  <2>1. CallInv'
    BY <1>1, FrozenStack DEF vars, IInv, CallInv
  <2> QED BY <1>1, <2>1 DEF vars, IInv, TypeOK
<1>2. CASE Next
  BY <1>2, QuietStep, AnswerStep, ProcessRuleStep, ClearedStep, ComputeStep,
     StartRuleStep, FinishMemoStep, UnwindMemoStep DEF Next, Evaluate
<1> QED BY <1>1, <1>2

\* The call stack, computing_ and dependency_stack_ are in step at every moment.
THEOREM InductiveInvariant == Spec => []IInv
BY InitIInv, StepIInv, PTL DEF Spec

\* Every variable always has its type, for every tree and rule table.
THEOREM TypeCorrect == Spec => []TypeOK
BY InductiveInvariant, PTL DEF IInv

\* computing_ and dependency_stack_ always name exactly the helpers in progress,
\* each once and in call order, also while an exception unwinds them.
THEOREM StackCorrect == Spec => []ComputingIsTheCallStack
<1>1. IInv => ComputingIsTheCallStack
  BY DEF IInv, CallInv, Tracks, ComputingIsTheCallStack
<1> QED BY <1>1, InductiveInvariant, PTL

\* The chain of keys printed with a cycle really is one.
LEMMA CycleStep ==
    ASSUME IInv, [Next]_vars, telemetry'.cycles # telemetry.cycles
    PROVE  \E i \in 1..Len(depStack) :
              /\ \A j \in i..Len(depStack) - 1 : depStack[j + 1] \in Asks(depStack[j])
              /\ depStack[i] \in Asks(depStack[Len(depStack)])
<1>1. CallCycle
  <2>1. telemetry \in Counters
    BY DEF IInv, TypeOK
  <2>2. ASSUME NEW n \in Nodes, NEW f \in Kinds, Compile(n, f)
        PROVE  telemetry'.cycles = telemetry.cycles
    BY <2>1, <2>2 DEF Compile, Counters
  <2>3. ~ProcessRule
    <3>1. SUFFICES ASSUME ProcessRule PROVE FALSE
      OBVIOUS
    <3>2. pos \in 1..Len(Agenda)
      BY <3>1, AgendaType DEF ProcessRule, AtAgenda, IInv, TypeOK
    <3>3. Agenda[pos][1] \in Nodes /\ Agenda[pos][2] \in Kinds
      BY <3>2, AgendaType
    <3> QED BY <2>2, <3>1, <3>3 DEF ProcessRule
  <2>4. ~StartRule
    <3>1. SUFFICES ASSUME StartRule PROVE FALSE
      OBVIOUS
    <3>2. Top \in Frame /\ Top.fld # "weighted"
      BY <3>1, TopFrame DEF StartRule, AtRule
    <3>3. Top.node \in Nodes /\ Top.fld \in Kinds
      BY <3>2 DEF Frame, Fields
    <3> QED BY <2>2, <3>1, <3>3 DEF StartRule
  <2>5. ~CallCompute
    BY <2>1 DEF CallCompute, Counters
  <2>6. CASE Next
    BY <2>3, <2>4, <2>5, <2>6 DEF Next, Evaluate, ProcessSkip, ProcessMalformed,
       FinishProcess, CallUnknown, CallPresent, CallCached, StartMalformed, FinishMemo,
       RuleThrows, UnwindMemo, UnwindProcess, Fail, Finish, EvaluateAgain
  <2> QED BY <2>6 DEF vars
<1> DEFINE m == Len(depStack)
           n == Len(stack)
<1>2. /\ stack # <<>> /\ Top.todo # <<>> /\ Wanted \in computing
  BY <1>1 DEF CallCycle, AbsentField, Calling
<1>3. /\ stack \in Seq(Frame) /\ n \in Nat \ {0} /\ depStack \in Seq(Key)
      /\ \A i \in 1..n : stack[i] \in Frame
      /\ StackOK(stack) /\ Tracks(stack, depStack, computing)
  BY <1>2, StackElement DEF IInv, CallInv, TypeOK
<1>4. m = n - 1 /\ \A i \in 1..m : depStack[i] = KeyOf(stack[i + 1])
  BY <1>2, <1>3 DEF Tracks
<1>5. PICK i \in 1..m : depStack[i] = Wanted
  BY <1>2, <1>3 DEF Tracks
<1>6. ASSUME NEW j \in 2..n, stack[j].todo # <<>>
      PROVE  Head(stack[j].todo) \in Asks(KeyOf(stack[j]))
  <2>1. j \in 1..n /\ j # 1
    BY <1>3
  <2>2. stack[j] \in Frame /\ FrameOK(stack[j]) /\ stack[j].op # "process"
    BY <1>3, <2>1 DEF StackOK
  <2>3. stack[j].op = "memo" /\ stack[j].todo \in Seq(Key)
    BY <2>2 DEF Frame
  <2>4. 1 \in 1..Len(stack[j].todo) /\ Head(stack[j].todo) = stack[j].todo[1]
    BY <1>6, <2>3, EmptySeq
  <2> QED BY <2>2, <2>3, <2>4 DEF FrameOK
<1>7. ASSUME NEW j \in i..m - 1
      PROVE  depStack[j + 1] \in Asks(depStack[j])
  <2>1. /\ j \in 1..m /\ j + 1 \in 1..m /\ j + 1 \in 2..n /\ j + 1 \in 1..n - 1
        /\ (j + 1) + 1 = j + 2
    BY <1>3, <1>4
  <2>2. depStack[j] = KeyOf(stack[j + 1]) /\ depStack[j + 1] = KeyOf(stack[(j + 1) + 1])
    BY <1>4, <2>1
  <2>3. /\ stack[j + 1].todo # <<>>
        /\ Head(stack[j + 1].todo) = KeyOf(stack[(j + 1) + 1])
    BY <1>3, <2>1 DEF StackOK
  <2> QED BY <1>6, <2>1, <2>2, <2>3
<1>8. depStack[i] \in Asks(depStack[m])
  <2>1. m \in 1..m /\ n \in 2..n /\ m + 1 = n
    BY <1>3, <1>4
  <2>2. depStack[m] = KeyOf(stack[n])
    BY <1>4, <2>1
  <2> QED BY <1>2, <1>5, <1>6, <2>1, <2>2 DEF Wanted, Top
<1> QED BY <1>7, <1>8

\* Every "dependency cycle" error names a chain of keys each of which asks for the
\* next by the rules of the tree, and the last for an earlier one: there are no
\* false reports, whatever failed before.
THEOREM CyclesReal == Spec => CycleReportsAreReal
BY InductiveInvariant, CycleStep, PTL DEF Spec, CycleReportsAreReal

-----------------------------------------------------------------------------
(* The order of the walk. *)

\* A rule whose turn is over has left the right result.
Settled(x) ==
    HasRule(rules, x[1], x[2]) =>
        /\ field[x[1]][x[2]] = "fresh"
        /\ x[2] = "score" => field[x[1]]["weighted"] = "fresh"

\* A helper that runs no rule: it answers 0, or weighs the 0 of a missing score.
Ruleless(f) ==
    \/ f.phase = "zero" /\ f.todo = <<>>
    \/ f.phase = "args" /\ f.fld = "weighted" /\ ~HasRule(rules, f.node, "score")

\* The frame at the bottom runs the rule whose turn it is and has only calls of
\* that rule left to make.
WalkInv ==
    stack # <<>> =>
        /\ stack[1].node = Agenda[pos][1] /\ stack[1].fld = Agenda[pos][2]
        /\ \A j \in 1..Len(stack[1].todo) :
              \E i \in 1..Len(RuleAt(stack[1].node, stack[1].fld).calls) :
                 stack[1].todo[j] = RuleAt(stack[1].node, stack[1].fld).calls[i]

\* Fresh input, or scripts that only look back: nothing wrong is remembered or on
\* its way, and what the walk has passed is right.
SoundInv ==
    given = {} \/ LooksBackward =>
        /\ \A k \in Key : cache[k] # "stale"
        /\ \A i \in 1..Len(stack) : stack[i].fresh
        /\ \A p \in 1..Len(Agenda) : p < pos => Settled(Agenda[p])
        /\ \A n \in Nodes, f \in Fields : ~HasRule(rules, n, f) => field[n][f] # "stale"
        /\ given = {} => \A n \in Nodes, f \in Fields : field[n][f] # "stale"
        /\ given # {} => \A i \in 2..Len(stack) : Ruleless(stack[i])

\* Where the rules of an element are on the agenda.
LEMMA AgendaSlot ==
    ASSUME NEW i \in 1..Len(Postorder), NEW r \in 1..3
    PROVE  /\ 3 * (i - 1) + r \in 1..Len(Agenda)
           /\ Agenda[3 * (i - 1) + r] = <<Postorder[i], KindSeq[r]>>
<1> DEFINE p == 3 * (i - 1) + r
<1>1. Postorder \in Seq(Nodes) /\ Len(Postorder) \in Nat
  BY TreeAssumption, LenProperties
<1>2. p \in 1..3 * Len(Postorder)
  BY <1>1
<1>3. (p + 2) \div 3 = i /\ ((p - 1) % 3) + 1 = r
  BY <1>1
<1>4. Len(Agenda) = 3 * Len(Postorder)
  BY AgendaLength
<1> HIDE DEF p
<1>5. Agenda[p] = <<Postorder[i], KindSeq[r]>>
  BY <1>2, <1>3 DEF Agenda
<1> QED BY <1>2, <1>4, <1>5 DEF p

\* Every place of the agenda is that of some rule.
LEMMA AgendaPlace ==
    ASSUME NEW p \in 1..Len(Agenda)
    PROVE  \E i \in 1..Len(Postorder), r \in 1..3 : p = 3 * (i - 1) + r
<1>1. Len(Postorder) \in Nat /\ p \in 1..3 * Len(Postorder)
  BY TreeAssumption, LenProperties, AgendaLength
<1> DEFINE i == (p + 2) \div 3
           r == ((p - 1) % 3) + 1
<1>2. i \in 1..Len(Postorder) /\ r \in 1..3
  BY <1>1
<1>3. p = 3 * (i - 1) + r
  BY <1>1
<1> QED BY <1>2, <1>3

\* Every rule has its turn.
LEMMA AgendaComplete ==
    ASSUME NEW n \in Nodes, NEW k \in Kinds
    PROVE  \E p \in 1..Len(Agenda) : Agenda[p] = <<n, k>>
<1>1. PICK i \in 1..Len(Postorder) : Postorder[i] = n
  BY TreeAssumption
<1>2. PICK r \in 1..3 : KindSeq[r] = k
  BY DEF KindSeq, Kinds
<1> QED BY <1>1, <1>2, AgendaSlot

\* What the rule of an element is passed as arguments had its turn before.
LEMMA AgendaOwnInputs ==
    ASSUME NEW p \in 1..Len(Agenda), NEW g \in OwnInputs(Agenda[p][2])
    PROVE  \E q \in 1..Len(Agenda) : q < p /\ Agenda[q] = <<Agenda[p][1], g>>
<1>1. PICK i \in 1..Len(Postorder), r \in 1..3 : p = 3 * (i - 1) + r
  BY AgendaPlace
<1>2. Agenda[p] = <<Postorder[i], KindSeq[r]>>
  BY <1>1, AgendaSlot
<1>3. PICK s \in 1..3 : s < r /\ KindSeq[s] = g
  <2>1. g \in OwnInputs(KindSeq[r])
    BY <1>2
  <2>2. KindSeq[1] = "value" /\ KindSeq[2] = "rating" /\ KindSeq[3] = "score"
    BY DEF KindSeq
  <2>3. r = 1 \/ r = 2 \/ r = 3
    OBVIOUS
  <2>4. CASE r = 1
    BY <2>1, <2>2, <2>4 DEF OwnInputs
  <2>5. CASE r = 2
    <3>1. g = "value"
      BY <2>1, <2>2, <2>5 DEF OwnInputs
    <3> QED BY <2>2, <2>5, <3>1
  <2>6. CASE r = 3
    <3>1. g \in {"value", "rating"}
      BY <2>1, <2>2, <2>6 DEF OwnInputs
    <3> QED BY <2>2, <2>6, <3>1
  <2> QED BY <2>3, <2>4, <2>5, <2>6
<1> DEFINE q == 3 * (i - 1) + s
<1>4. q \in 1..Len(Agenda) /\ Agenda[q] = <<Postorder[i], g>>
  BY <1>3, AgendaSlot
<1>5. q < p
  <2>1. Len(Postorder) \in Nat
    BY TreeAssumption, LenProperties
  <2> QED BY <1>1, <1>3, <2>1
<1> QED BY <1>2, <1>4, <1>5

\* If scripts look backward, all rules of an element that is asked for had
\* their turn before.
LEMMA AgendaLooksBackward ==
    ASSUME LooksBackward, NEW p \in 1..Len(Agenda),
           NEW x \in CalledInputs(rules, Agenda[p][1], Agenda[p][2]), NEW k \in Kinds
    PROVE  \E q \in 1..Len(Agenda) : q < p /\ Agenda[q] = <<x[1], k>>
<1>1. PICK i \in 1..Len(Postorder), r \in 1..3 : p = 3 * (i - 1) + r
  BY AgendaPlace
<1>2. Agenda[p] = <<Postorder[i], KindSeq[r]>>
  BY <1>1, AgendaSlot
<1>3. Agenda[p][1] \in Nodes /\ Agenda[p][2] \in Kinds
  BY AgendaType
<1>4. PICK a, b \in 1..Len(Postorder) :
         a < b /\ Postorder[a] = x[1] /\ Postorder[b] = Agenda[p][1]
  BY <1>3 DEF LooksBackward
<1>5. b = i
  BY <1>2, <1>4, TreeAssumption
<1>6. PICK s \in 1..3 : KindSeq[s] = k
  BY DEF KindSeq, Kinds
<1> DEFINE q == 3 * (a - 1) + s
<1>7. q \in 1..Len(Agenda) /\ Agenda[q] = <<x[1], k>>
  BY <1>4, <1>6, AgendaSlot
<1>8. q < p
  <2>1. Len(Postorder) \in Nat
    BY TreeAssumption, LenProperties
  <2> QED BY <1>1, <1>4, <1>5, <2>1
<1> QED BY <1>7, <1>8

-----------------------------------------------------------------------------
(* The frame at the bottom of the stack. *)

\* The inputs DoneIsFresh speaks of.
Premise == given = {} \/ LooksBackward

\* The key a frame asks for next.
LEMMA HeadOfTodo ==
    ASSUME IInv, stack # <<>>, Top.todo # <<>>
    PROVE  /\ 1 \in 1..Len(Top.todo) /\ Wanted = Top.todo[1] /\ Wanted \in Key
           /\ Wanted[1] \in Fields /\ Wanted[2] \in Codes /\ Wanted = <<Wanted[1], Wanted[2]>>
<1>1. Top.todo \in Seq(Key)
  BY TopFrame DEF Frame
<1>2. 1 \in 1..Len(Top.todo) /\ Wanted = Top.todo[1] /\ Wanted \in Key
  BY <1>1, EmptySeq, HeadTailProperties DEF Wanted
<1> QED BY <1>2 DEF Key

\* The frame at the bottom of the stack keeps its rule, and its calls left to
\* make are calls of that rule.
LEMMA WalkKept ==
    ASSUME WalkInv, stack # <<>>, UNCHANGED <<rules, pos>>,
           stack'[1].node = stack[1].node, stack'[1].fld = stack[1].fld,
           stack[1].todo \in Seq(Key),
           \/ stack'[1].todo = stack[1].todo
           \/ stack[1].todo # <<>> /\ stack'[1].todo = Tail(stack[1].todo)
    PROVE  WalkInv'
<1> DEFINE calls == RuleAt(stack[1].node, stack[1].fld).calls
           todo == stack[1].todo
<1>1. \A j \in 1..Len(todo) : \E i \in 1..Len(calls) : todo[j] = calls[i]
  BY DEF WalkInv
<1>2. \A j \in 1..Len(stack'[1].todo) : \E i \in 1..Len(calls) : stack'[1].todo[j] = calls[i]
  <2>1. CASE stack'[1].todo = todo
    BY <1>1, <2>1
  <2>2. CASE todo # <<>> /\ stack'[1].todo = Tail(todo)
    <3>1. /\ Len(Tail(todo)) = Len(todo) - 1 /\ Len(todo) \in Nat
          /\ \A j \in 1..Len(Tail(todo)) : Tail(todo)[j] = todo[j + 1]
      BY <2>2, HeadTailProperties, LenProperties
    <3>2. \A j \in 1..Len(Tail(todo)) : j + 1 \in 1..Len(todo)
      BY <3>1
    <3> HIDE DEF todo, calls
    <3> QED BY <1>1, <2>2, <3>1, <3>2
  <2> QED BY <2>1, <2>2
<1>3. (RuleAt(stack[1].node, stack[1].fld).calls)' = calls
  BY DEF RuleAt, RuleOf
<1>4. Agenda[pos]' = Agenda[pos]
  BY DEF Agenda, KindSeq
<1> HIDE DEF calls, todo
<1> QED BY <1>2, <1>3, <1>4 DEF WalkInv

\* Every step keeps the frame at the bottom tied to the walk.
LEMMA WalkStep ==
    ASSUME IInv, WalkInv, [Next]_vars
    PROVE  WalkInv'
<1>0. stack \in Seq(Frame) /\ IInv'
  BY StepIInv DEF IInv, TypeOK
<1>1. CASE \/ UNCHANGED vars
           \/ ProcessSkip \/ ProcessMalformed \/ CallCycle \/ StartMalformed
           \/ RuleThrows \/ Fail \/ Finish \/ EvaluateAgain
  <2>1. stack' = stack /\ rules' = rules
    BY <1>1 DEF vars, ProcessSkip, ProcessMalformed, CallCycle, StartMalformed,
       RuleThrows, Fail, Finish, EvaluateAgain
  <2>2. stack # <<>> => pos' = pos
    <3>1. EvaluateAgain => stack = <<>>
      BY DEF EvaluateAgain, IInv, CallInv
    <3> QED BY <1>1, <3>1 DEF vars, ProcessSkip, ProcessMalformed, CallCycle,
       StartMalformed, RuleThrows, Fail, Finish, AtAgenda
  <2>3. CASE stack = <<>>
    BY <2>1, <2>3 DEF WalkInv
  <2>4. CASE stack # <<>>
    <3>1. stack[1].todo \in Seq(Key)
      <4>1. 1 \in 1..Len(stack)
        BY <1>0, <2>4, StackElement
      <4> QED BY <1>0, <2>4, <4>1, StackElement DEF Frame
    <3> QED BY <2>1, <2>2, <2>4, <3>1, WalkKept
  <2> QED BY <2>3, <2>4
<1>2. CASE ProcessRule
  <2>1. /\ stack'[1].node = Agenda[pos][1] /\ stack'[1].fld = Agenda[pos][2]
        /\ stack'[1].todo = RuleAt(Agenda[pos][1], Agenda[pos][2]).calls
        /\ UNCHANGED <<rules, pos>>
    BY <1>2 DEF ProcessRule
  <2>2. RuleAt(Agenda[pos][1], Agenda[pos][2])' = RuleAt(Agenda[pos][1], Agenda[pos][2])
    BY <2>1 DEF RuleAt, RuleOf, Agenda, KindSeq
  <2> QED BY <2>1, <2>2 DEF WalkInv, RuleAt, RuleOf, Agenda, KindSeq
<1>3. CASE FinishProcess \/ UnwindProcess
  BY <1>3 DEF FinishProcess, UnwindProcess, WalkInv
<1>4. CASE \/ CallUnknown \/ CallPresent \/ CallCached \/ CallCompute \/ StartRule
           \/ FinishMemo \/ UnwindMemo
  <2>1. stack # <<>> /\ UNCHANGED <<rules, pos>>
    BY <1>4 DEF CallUnknown, CallPresent, CallCached, CallCompute, StartRule,
       FinishMemo, UnwindMemo, AbsentField, Calling, AtRule
  <2>2. /\ Len(stack) \in Nat \ {0} /\ Len(stack) \in 1..Len(stack) /\ 1 \in 1..Len(stack)
        /\ stack[1] \in Frame /\ stack[1].todo \in Seq(Key)
        /\ Top = stack[Len(stack)]
    <3>1. /\ Len(stack) \in Nat \ {0} /\ Len(stack) \in 1..Len(stack)
          /\ \A i \in 1..Len(stack) : stack[i] \in Frame
      BY <1>0, <2>1, StackElement
    <3>2. 1 \in 1..Len(stack)
      BY <3>1
    <3> QED BY <3>1, <3>2 DEF Frame, Top
  <2>3. ASSUME NEW s \in Seq(Frame), s # <<>>, s[Len(s)].todo # <<>>, NEW b \in BOOLEAN,
               stack' = Answered(s, b), s[1] = stack[1]
        PROVE  WalkInv'
    <3>1. Len(s) \in Nat \ {0} /\ (Len(s) # 1 => 1 \in 1..Len(s) - 1)
      <4>1. Len(s) \in Nat \ {0}
        BY <2>3, StackElement
      <4>2. \A m \in Nat \ {0} : m # 1 => 1 \in 1..m - 1
        OBVIOUS
      <4> QED BY <4>1, <4>2
    <3>2. CASE Len(s) = 1
      <4>1. /\ stack'[1].node = s[1].node /\ stack'[1].fld = s[1].fld
            /\ stack'[1].todo = Tail(s[1].todo) /\ s[1].todo # <<>>
        BY <2>3, <3>2, AnsweredProperties
      <4> QED BY <2>1, <2>2, <2>3, <4>1, WalkKept
    <3>3. CASE Len(s) # 1
      <4>1. stack'[1] = s[1]
        BY <2>3, <3>1, <3>3, AnsweredProperties
      <4> QED BY <2>1, <2>2, <2>3, <4>1, WalkKept
    <3> QED BY <3>2, <3>3
  <2>4. CASE CallUnknown \/ CallPresent \/ CallCached
    <3>1. \E b \in BOOLEAN : stack' = Answered(stack, b)
      BY <2>4 DEF CallUnknown, CallPresent, CallCached
    <3>2. stack[Len(stack)].todo # <<>>
      BY <2>4 DEF CallUnknown, CallPresent, CallCached, AbsentField, Calling, Top
    <3> QED BY <1>0, <2>1, <2>3, <3>1, <3>2
  <2>5. CASE CallCompute
    <3>1. \E f : stack' = Append(stack, f)
      BY <2>5 DEF CallCompute
    <3>2. stack'[1] = stack[1]
      BY <1>0, <2>2, <3>1
    <3> QED BY <2>1, <2>2, <3>2, WalkKept
  <2>6. CASE StartRule
    <3>1. Top.op = "memo"
      BY <2>6 DEF StartRule, AtRule
    <3>2. Len(stack) # 1
      BY <2>1, <3>1, TopFrame
    <3>3. \E g : stack' = [stack EXCEPT ![Len(stack)] = g]
      <4> DEFINE g == [Top EXCEPT !.phase = "rule",
                                  !.todo = RuleAt(Top.node, Top.fld).calls]
      <4>1. stack' = [stack EXCEPT ![Len(stack)] = g]
        BY <1>0, <2>2, <2>6 DEF StartRule, Frame
      <4> QED BY <4>1
    <3>4. stack'[1] = stack[1]
      BY <1>0, <2>2, <3>2, <3>3
    <3> QED BY <2>1, <2>2, <3>4, WalkKept
  <2>7. ASSUME Top.op = "memo"
        PROVE  /\ Pop(stack) \in Seq(Frame) /\ Pop(stack) # <<>>
               /\ Pop(stack)[Len(Pop(stack))].todo # <<>>
               /\ Pop(stack)[1] = stack[1]
    <3>1. /\ Pop(stack) \in Seq(Frame) /\ Pop(stack) # <<>>
          /\ Pop(stack)[Len(Pop(stack))].todo # <<>>
          /\ \A i \in 1..Len(stack) - 1 : Pop(stack)[i] = stack[i]
      BY <1>0, <2>1, <2>2, <2>7, PopKeepsShape DEF IInv, CallInv
    <3>2. 1 \in 1..Len(stack) - 1
      <4>1. Len(stack) # 1
        BY <2>1, <2>7, TopFrame
      <4>2. \A m \in Nat \ {0} : m # 1 => 1 \in 1..m - 1
        OBVIOUS
      <4> QED BY <2>2, <4>1, <4>2
    <3> QED BY <3>1, <3>2
  <2>8. CASE FinishMemo
    <3>1. stack' = Answered(Pop(stack), Top.fresh) /\ Top.op = "memo"
      BY <2>8 DEF FinishMemo
    <3>2. Top.fresh \in BOOLEAN
      BY <2>1, TopFrame DEF Frame
    <3> QED BY <2>3, <2>7, <3>1, <3>2
  <2>9. CASE UnwindMemo
    <3>1. stack' = Pop(stack) /\ Top.op = "memo"
      BY <2>9 DEF UnwindMemo
    <3> QED BY <2>1, <2>2, <2>7, <3>1, WalkKept
  <2> QED BY <1>4, <2>4, <2>5, <2>6, <2>8, <2>9
<1> QED BY <1>1, <1>2, <1>3, <1>4 DEF Next, Evaluate

\* When the input has computed fields and no script looks ahead, what a
\* script asks for is right already or has no rule.
LEMMA WantedRight ==
    ASSUME IInv, WalkInv, SoundInv, given # {}, LooksBackward, Calling, Known(Wanted[2])
    PROVE  LET n == NodeOf(Wanted[2]) f == Wanted[1]
           IN  ~HasRule(rules, n, f) \/ field[n][f] = "fresh"
<1>1. /\ stack # <<>> /\ Top.todo # <<>>
  BY DEF Calling
<1>2. /\ 1 \in 1..Len(Top.todo) /\ Wanted = Top.todo[1] /\ Wanted = <<Wanted[1], Wanted[2]>>
      /\ Wanted[1] \in Fields /\ Wanted[2] \in Codes
  BY <1>1, HeadOfTodo
<1>3. /\ Top \in Frame /\ FrameOK(Top) /\ pos \in 1..Len(Agenda)
      /\ Top.op = "process" <=> Len(stack) = 1
      /\ Len(stack) \in Nat \ {0} /\ Top = stack[Len(stack)]
  BY <1>1, TopFrame DEF Top
<1> DEFINE n == NodeOf(Wanted[2])
           f == Wanted[1]
           x == <<n, f>>
<1>4. CASE Top.op = "process"
  <2>1. Top = stack[1] /\ Top.fld \in Kinds /\ Top.node \in Nodes
    BY <1>3, <1>4 DEF FrameOK, Frame
  <2>2. Top.node = Agenda[pos][1] /\ Top.fld = Agenda[pos][2]
    BY <1>1, <2>1 DEF WalkInv
  <2>3. PICK i \in 1..Len(RuleOf(rules, Top.node, Top.fld).calls) :
           Wanted = RuleOf(rules, Top.node, Top.fld).calls[i]
    BY <1>1, <1>2, <2>1 DEF WalkInv, RuleAt
  <2>4. x \in CalledInputs(rules, Top.node, Top.fld)
    BY <2>1, <2>3 DEF CalledInputs, Kinds
  <2>5. x \in CalledInputs(rules, Agenda[pos][1], Agenda[pos][2]) /\ x[1] = n
    BY <2>2, <2>4
  <2>6. ASSUME NEW k \in Kinds
        PROVE  Settled(<<n, k>>)
    <3>1. PICK q \in 1..Len(Agenda) : q < pos /\ Agenda[q] = <<x[1], k>>
      BY <1>3, <2>5, AgendaLooksBackward
    <3>2. Settled(Agenda[q])
      BY <3>1 DEF SoundInv
    <3> QED BY <2>5, <3>1, <3>2
  <2>7. CASE f \in Kinds
    BY <2>6, <2>7 DEF Settled
  <2>8. CASE f = "weighted"
    <3>1. HasRule(rules, n, f) <=> HasRule(rules, n, "score")
      BY <2>8 DEF HasRule, RuleOf
    <3>2. Settled(<<n, "score">>)
      BY <2>6 DEF Kinds
    <3> QED BY <2>8, <3>1, <3>2 DEF Settled
  <2> QED BY <1>2, <2>7, <2>8 DEF Fields
<1>5. CASE Top.op # "process"
  <2>1. Len(stack) \in 2..Len(stack) /\ Top.op = "memo"
    <3>1. Len(stack) # 1
      BY <1>3, <1>5
    <3>2. \A m \in Nat \ {0} : m # 1 => m \in 2..m
      OBVIOUS
    <3> QED BY <1>3, <1>5, <3>1, <3>2 DEF Frame
  <2>2. Ruleless(Top)
    BY <1>3, <2>1 DEF SoundInv
  <2>3. Top.fld = "weighted" /\ ~HasRule(rules, Top.node, "score")
    BY <1>1, <2>2 DEF Ruleless
  <2>4. Wanted \in Asks(KeyOf(Top)) /\ Top.node = NodeOf(CodeOf[Top.node])
    BY <1>2, <1>3, <2>1 DEF FrameOK
  <2>5. Wanted = <<"score", CodeOf[Top.node]>>
    BY <2>3, <2>4 DEF Asks, KeyOf, OwnInputs
  <2> QED BY <2>3, <2>4, <2>5
<1> QED BY <1>4, <1>5

-----------------------------------------------------------------------------
(* Right results. *)

\* It is enough that results are right where they are written.
LEMMA SoundKept ==
    ASSUME SoundInv, Premise, UNCHANGED <<rules, given>>,
           \A k \in Key : cache'[k] # "stale",
           \A i \in 1..Len(stack') : stack'[i].fresh,
           \A n \in Nodes, f \in Fields :
               field'[n][f] = field[n][f] \/ field'[n][f] = "fresh",
           \A p \in 1..Len(Agenda) :
               p < pos' => p < pos \/ Settled(Agenda[p])',
           given # {} => \A i \in 2..Len(stack') : Ruleless(stack'[i])
    PROVE  SoundInv'
<1>1. /\ \A p \in 1..Len(Agenda) : p < pos => Settled(Agenda[p])
      /\ \A n \in Nodes, f \in Fields : ~HasRule(rules, n, f) => field[n][f] # "stale"
      /\ given = {} => \A n \in Nodes, f \in Fields : field[n][f] # "stale"
  BY DEF SoundInv, Premise
<1>2. ASSUME NEW n \in Nodes, NEW f \in Fields, HasRule(rules, n, f)'
      PROVE  HasRule(rules, n, f)
  BY <1>2 DEF HasRule, RuleOf
<1>3. ASSUME NEW p \in 1..Len(Agenda), p < pos'
      PROVE  Settled(Agenda[p])'
  <2>1. CASE p < pos
    <3>1. Agenda[p][1] \in Nodes /\ Agenda[p][2] \in Fields /\ "weighted" \in Fields
      BY AgendaType DEF Fields
    <3>2. Settled(Agenda[p])
      BY <1>1, <2>1
    <3>3. HasRule(rules, Agenda[p][1], Agenda[p][2])' =>
             HasRule(rules, Agenda[p][1], Agenda[p][2])
      BY DEF HasRule, RuleOf, Agenda, KindSeq
    <3>4. (Agenda[p])' = Agenda[p]
      BY DEF Agenda, KindSeq
    <3> QED BY <3>1, <3>2, <3>3, <3>4 DEF Settled
  <2> QED BY <1>3, <2>1
<1>4. \A n \in Nodes, f \in Fields : ~HasRule(rules, n, f)' => field'[n][f] # "stale"
  BY <1>1 DEF HasRule, RuleOf
<1>5. (given = {})' => \A n \in Nodes, f \in Fields : field'[n][f] # "stale"
  BY <1>1
<1>6. ASSUME (given # {})', NEW i \in 2..Len(stack')
      PROVE  Ruleless(stack[i])'
  <2>1. Ruleless(stack'[i])
    BY <1>6
  <2> QED BY <2>1 DEF Ruleless, HasRule, RuleOf
<1>7. ASSUME NEW p \in 1..Len(Agenda)
      PROVE  (p < pos => Settled(Agenda[p]))'
  BY <1>3
<1>8. (given # {} => \A i \in 2..Len(stack) : Ruleless(stack[i]))'
  BY <1>6
<1>9. (\A p \in 1..Len(Agenda) : p < pos => Settled(Agenda[p]))'
  BY <1>7
<1> QED BY <1>4, <1>5, <1>8, <1>9 DEF SoundInv

\* The parts of SoundInv that the steps use.
LEMMA SoundParts ==
    ASSUME SoundInv, Premise
    PROVE  /\ \A k \in Key : cache[k] # "stale"
           /\ \A i \in 1..Len(stack) : stack[i].fresh
           /\ given # {} => \A i \in 2..Len(stack) : Ruleless(stack[i])
           /\ \A n \in Nodes, f \in Fields : ~HasRule(rules, n, f) => field[n][f] # "stale"
           /\ given = {} => \A n \in Nodes, f \in Fields : field[n][f] # "stale"
           /\ given # {} => LooksBackward
BY DEF SoundInv, Premise

\* Answering with a right value keeps the frames right.
LEMMA AnsweredRight ==
    ASSUME IInv, SoundInv, Premise, NEW s \in Seq(Frame), s # <<>>,
           s[Len(s)].todo # <<>>, Len(s) <= Len(stack),
           \A i \in 1..Len(s) : s[i] = stack[i]
    PROVE  /\ \A i \in 1..Len(Answered(s, TRUE)) : Answered(s, TRUE)[i].fresh
           /\ given # {} =>
                \A i \in 2..Len(Answered(s, TRUE)) : Ruleless(Answered(s, TRUE)[i])
<1> DEFINE a == Answered(s, TRUE)
           n == Len(s)
<1>1. /\ n \in Nat \ {0} /\ n \in 1..n
      /\ Len(stack) \in Nat
  BY StackElement, LenProperties DEF IInv, TypeOK
<1>2. /\ Len(a) = n
      /\ \A i \in 1..n - 1 : a[i] = s[i]
      /\ a[n].fld = s[n].fld /\ a[n].node = s[n].node /\ a[n].phase = s[n].phase
      /\ a[n].fresh = (s[n].fresh /\ TRUE)
  <2>1. TRUE \in BOOLEAN
    OBVIOUS
  <2> QED BY <2>1, AnsweredProperties
<1>3. \A i \in 1..n : i \in 1..Len(stack) /\ s[i].fresh
  BY <1>1, SoundParts
<1>4. given # {} => \A i \in 2..n : i \in 1..n /\ Ruleless(s[i])
  <2>1. \A i \in 2..n : i \in 1..n /\ i \in 2..Len(stack)
    BY <1>1
  <2> QED BY <2>1, SoundParts
<1>5. \A i \in 1..n : i \in 1..n - 1 \/ i = n
  BY <1>1
<1> HIDE DEF a, n
<1>6. \A i \in 1..n : a[i].fresh
  BY <1>2, <1>3, <1>5
<1>7. ASSUME given # {}, NEW i \in 2..n
      PROVE  Ruleless(a[i])
  <2>1. i \in 1..n /\ Ruleless(s[i])
    BY <1>4, <1>7
  <2>2. CASE i \in 1..n - 1
    BY <1>2, <2>1, <2>2
  <2>3. CASE i = n
    BY <1>2, <2>1, <2>3 DEF Ruleless, n
  <2> QED BY <1>5, <2>1, <2>2, <2>3
<1> QED BY <1>2, <1>6, <1>7 DEF a

\* The steps, one group at a time.
LEMMA SoundQuiet ==
    ASSUME IInv, SoundInv, Premise,
           \/ ProcessSkip \/ ProcessMalformed \/ CallCycle \/ StartMalformed
           \/ RuleThrows \/ Fail \/ Finish \/ EvaluateAgain
    PROVE  SoundInv'
<1>1. UNCHANGED <<rules, given, field, cache, stack>>
  BY DEF ProcessSkip, ProcessMalformed, CallCycle, StartMalformed, RuleThrows, Fail,
     Finish, EvaluateAgain
<1>2. pos \in 1..Len(Agenda) + 1 /\ Len(Agenda) \in Nat
  BY AgendaType DEF IInv, TypeOK
<1>3. ASSUME NEW p \in 1..Len(Agenda), p < pos'
      PROVE  p < pos \/ Settled(Agenda[p])'
  <2>1. CASE ProcessSkip
    <3>1. pos' = pos + 1 /\ ~HasRule(rules, Agenda[pos][1], Agenda[pos][2])
      BY <2>1 DEF ProcessSkip
    <3>2. p < pos \/ p = pos
      BY <1>2, <1>3, <3>1
    <3>3. CASE p = pos
      <4>1. (Agenda[p])' = Agenda[p]
        BY DEF Agenda, KindSeq
      <4>2. ~HasRule(rules', Agenda[p][1], Agenda[p][2])
        BY <1>1, <3>1, <3>3
      <4> QED BY <4>1, <4>2 DEF Settled
    <3> QED BY <3>2, <3>3
  <2>2. CASE EvaluateAgain
    <3>1. pos' = 1
      BY <2>2 DEF EvaluateAgain
    <3> QED BY <1>2, <1>3, <3>1
  <2>3. CASE \/ ProcessMalformed \/ CallCycle \/ StartMalformed
             \/ RuleThrows \/ Fail \/ Finish
    BY <1>3, <2>3 DEF ProcessMalformed, CallCycle, StartMalformed, RuleThrows, Fail, Finish
  <2> QED BY <2>1, <2>2, <2>3
<1> QED BY <1>1, <1>3, SoundParts, SoundKept

\* A call that is answered at once is answered with a right value.
LEMMA SoundAnswer ==
    ASSUME IInv, WalkInv, SoundInv, Premise, CallUnknown \/ CallPresent \/ CallCached
    PROVE  SoundInv'
<1>1. /\ Calling /\ stack # <<>> /\ Top.todo # <<>>
      /\ UNCHANGED <<rules, given, field, cache, pos>>
  BY DEF CallUnknown, CallPresent, CallCached, AbsentField, Calling
<1>2. Wanted \in Key /\ Wanted[1] \in Fields /\ Wanted[2] \in Codes
  BY <1>1, HeadOfTodo
<1>3. stack' = Answered(stack, TRUE)
  <2>1. CASE CallUnknown
    BY <2>1 DEF CallUnknown
  <2>2. CASE CallPresent
    <3> DEFINE n == NodeOf(Wanted[2])
               f == Wanted[1]
    <3>1. Known(Wanted[2]) /\ field[n][f] # "none"
          /\ stack' = Answered(stack, field[n][f] = "fresh")
      BY <2>2 DEF CallPresent
    <3>2. n \in Nodes
      BY <1>2, <3>1, NodeOfCode
    <3>3. field[n][f] \in {"none", "stale", "fresh"}
      BY <1>2, <3>2 DEF IInv, TypeOK
    <3> HIDE DEF n, f
    <3>4. field[n][f] # "stale"
      <4>1. CASE given = {}
        BY <1>2, <3>2, <4>1, SoundParts DEF f
      <4>2. CASE given # {}
        <5>1. ~HasRule(rules, n, f) \/ field[n][f] = "fresh"
          BY <1>1, <3>1, <4>2, SoundParts, WantedRight DEF n, f
        <5> QED BY <1>2, <3>2, <5>1, SoundParts DEF f
      <4> QED BY <4>1, <4>2
    <3>5. (field[n][f] = "fresh") = TRUE
      BY <3>1, <3>3, <3>4
    <3> QED BY <3>1, <3>5
  <2>3. CASE CallCached
    <3>1. cache[Wanted] # "none" /\ stack' = Answered(stack, cache[Wanted] = "fresh")
      BY <2>3 DEF CallCached
    <3>2. cache[Wanted] \in {"none", "stale", "fresh"} /\ cache[Wanted] # "stale"
      BY <1>2, SoundParts DEF IInv, TypeOK
    <3>3. (cache[Wanted] = "fresh") = TRUE
      BY <3>1, <3>2
    <3> QED BY <3>1, <3>3
  <2> QED BY <2>1, <2>2, <2>3
<1>4. /\ stack \in Seq(Frame) /\ stack[Len(stack)].todo # <<>>
      /\ Len(stack) <= Len(stack)
  <2>1. stack \in Seq(Frame) /\ Len(stack) \in Nat
    BY <1>1, TopFrame
  <2> QED BY <1>1, <2>1 DEF Top
<1>5. /\ \A i \in 1..Len(stack') : stack'[i].fresh
      /\ given # {} => \A i \in 2..Len(stack') : Ruleless(stack'[i])
  BY <1>1, <1>3, <1>4, AnsweredRight
<1> QED BY <1>1, <1>5, SoundParts, SoundKept

\* The walk passes right values to a rule as arguments.
LEMMA SoundProcessRule ==
    ASSUME IInv, SoundInv, Premise, ProcessRule
    PROVE  SoundInv'
<1> DEFINE n == Agenda[pos][1]
           f == Agenda[pos][2]
           b == \A g \in OwnInputs(f) : ReadsFresh(n, g)
<1>1. /\ UNCHANGED <<rules, given, field, cache, pos>>
      /\ pos \in 1..Len(Agenda) /\ n \in Nodes /\ f \in Kinds
  <2>1. pos \in 1..Len(Agenda)
    BY AgendaType DEF ProcessRule, AtAgenda, IInv, TypeOK
  <2> QED BY <2>1, AgendaType DEF ProcessRule
<1>2. stack' = << [op |-> "process", node |-> n, fld |-> f, phase |-> "rule",
                   todo |-> RuleAt(n, f).calls, fresh |-> b] >>
  BY DEF ProcessRule
<1>3. ASSUME NEW g \in OwnInputs(f)
      PROVE  ReadsFresh(n, g)
  <2>1. PICK q \in 1..Len(Agenda) : q < pos /\ Agenda[q] = <<n, g>>
    BY <1>1, AgendaOwnInputs
  <2>2. Settled(<<n, g>>)
    BY <1>1, <2>1 DEF SoundInv, Premise
  <2>3. g \in Fields
    BY <1>1, <1>3 DEF OwnInputs, Kinds, Fields
  <2>4. field[n][g] \in {"none", "stale", "fresh"}
    BY <1>1, <2>3 DEF IInv, TypeOK
  <2>5. CASE HasRule(rules, n, g)
    <3>1. field[n][g] = "fresh"
      BY <2>2, <2>5 DEF Settled
    <3> QED BY <3>1 DEF ReadsFresh
  <2>6. CASE ~HasRule(rules, n, g)
    <3>1. field[n][g] # "stale"
      BY <1>1, <2>3, <2>6, SoundParts
    <3> QED BY <2>4, <2>6, <3>1 DEF ReadsFresh
  <2> QED BY <2>5, <2>6
<1>4. b
  BY <1>3
<1> HIDE DEF n, f, b
<1>5. Len(stack') = 1 /\ stack'[1].fresh
  BY <1>2, <1>4
<1>6. /\ \A i \in 1..Len(stack') : stack'[i].fresh
      /\ \A i \in 2..Len(stack') : FALSE
  BY <1>5
<1> QED BY <1>1, <1>6, SoundParts, SoundKept

\* The walk writes a right result.
LEMMA SoundCleared ==
    ASSUME IInv, WalkInv, SoundInv, Premise, FinishProcess \/ UnwindProcess
    PROVE  SoundInv'
<1>1. /\ stack # <<>> /\ Top.op = "process" /\ stack' = <<>>
      /\ UNCHANGED <<rules, given, cache>>
  BY DEF FinishProcess, UnwindProcess
<1>2. /\ \A i \in 1..Len(stack') : stack'[i].fresh
      /\ \A i \in 2..Len(stack') : FALSE
  BY <1>1
<1>3. CASE UnwindProcess
  BY <1>1, <1>2, <1>3, SoundParts, SoundKept DEF UnwindProcess
<1>4. CASE FinishProcess
  <2>1. /\ Top \in Frame /\ FrameOK(Top) /\ pos \in 1..Len(Agenda)
        /\ Len(stack) = 1 /\ Top = stack[1] /\ 1 \in 1..Len(stack)
    BY <1>1, TopFrame DEF Top
  <2>2. Result(Top) = "fresh"
    BY <2>1, SoundParts DEF Result
  <2>3. /\ Top.node = Agenda[pos][1] /\ Top.fld = Agenda[pos][2]
        /\ Top.node \in Nodes /\ Top.fld \in Fields
    BY <1>1, <2>1 DEF WalkInv, Frame
  <2>4. /\ pos' = pos + 1
        /\ field' = [field EXCEPT ![Top.node] =
                       [g \in Fields |->
                          IF g = Top.fld \/ (Top.fld = "score" /\ g = "weighted")
                          THEN "fresh" ELSE @[g]]]
    BY <1>4, <2>2 DEF FinishProcess
  <2>5. field \in [Nodes -> [Fields -> {"none", "stale", "fresh"}]]
    BY DEF IInv, TypeOK
  <2>6. \A n \in Nodes, f \in Fields :
           field'[n][f] = field[n][f] \/ field'[n][f] = "fresh"
    BY <2>3, <2>4, <2>5
  <2>7. ASSUME NEW p \in 1..Len(Agenda), p = pos
        PROVE  Settled(Agenda[p])'
    <3>1. /\ field'[Top.node][Top.fld] = "fresh"
          /\ Top.fld = "score" => field'[Top.node]["weighted"] = "fresh"
      BY <2>3, <2>4, <2>5 DEF Fields
    <3>2. (Agenda[p])' = Agenda[p]
      BY DEF Agenda, KindSeq
    <3>3. Top.node = Agenda[p][1] /\ Top.fld = Agenda[p][2]
      BY <2>3, <2>7
    <3> QED BY <3>1, <3>2, <3>3 DEF Settled
  <2>8. \A p \in 1..Len(Agenda) : p < pos' => p < pos \/ p = pos
    BY <2>1, <2>4
  <2> QED BY <1>1, <1>2, <2>6, <2>7, <2>8, SoundParts, SoundKept
<1> QED BY <1>3, <1>4

\* A helper starts from right values.
LEMMA SoundCompute ==
    ASSUME IInv, WalkInv, SoundInv, Premise, CallCompute
    PROVE  SoundInv'
<1> DEFINE n == NodeOf(Wanted[2])
           f == Wanted[1]
           zero == f # "weighted" /\ ~HasRule(rules, n, f)
<1>1. /\ Calling /\ stack # <<>> /\ Top.todo # <<>> /\ Known(Wanted[2])
      /\ field[n][f] = "none"
      /\ UNCHANGED <<rules, given, field, cache, pos>>
  BY DEF CallCompute, AbsentField, Calling
<1>2. PICK args \in ArgOrders(f, Wanted[2]) :
         stack' = Append(stack, [op |-> "memo", node |-> n, fld |-> f,
                                 phase |-> IF zero THEN "zero" ELSE "args",
                                 todo |-> IF zero THEN <<>> ELSE args, fresh |-> TRUE])
  BY DEF CallCompute
<1>3. given # {} => ~HasRule(rules, n, f)
  BY <1>1, SoundParts, WantedRight
<1>4. HasRule(rules, n, "weighted") <=> HasRule(rules, n, "score")
  BY DEF HasRule, RuleOf
<1> DEFINE fr == [op |-> "memo", node |-> n, fld |-> f,
                  phase |-> IF zero THEN "zero" ELSE "args",
                  todo |-> IF zero THEN <<>> ELSE args, fresh |-> TRUE]
<1> HIDE DEF n, f
<1>5. given # {} => Ruleless(fr)
  BY <1>3, <1>4 DEF Ruleless
<1>6. fr.fresh
  OBVIOUS
<1> HIDE DEF fr
<1>7. stack \in Seq(Frame) /\ Len(stack) \in Nat \ {0}
  BY <1>1, TopFrame
<1>8. /\ Len(stack') = Len(stack) + 1
      /\ \A i \in 1..Len(stack) : stack'[i] = stack[i]
      /\ stack'[Len(stack) + 1] = fr
  BY <1>2, <1>7 DEF fr
<1>9. \A i \in 1..Len(stack') : i \in 1..Len(stack) \/ i = Len(stack) + 1
  BY <1>7, <1>8
<1>10. \A i \in 2..Len(stack') : i \in 2..Len(stack) \/ i = Len(stack) + 1
  BY <1>7, <1>8
<1>11. \A i \in 2..Len(stack) : i \in 1..Len(stack)
  OBVIOUS
<1>12. \A i \in 1..Len(stack') : stack'[i].fresh
  BY <1>6, <1>8, <1>9, SoundParts
<1>13. given # {} => \A i \in 2..Len(stack') : Ruleless(stack'[i])
  BY <1>5, <1>8, <1>10, <1>11, SoundParts
<1> QED BY <1>1, <1>12, <1>13, SoundParts, SoundKept

\* So does its rule.
LEMMA SoundStartRule ==
    ASSUME IInv, SoundInv, Premise, StartRule
    PROVE  SoundInv'
<1>1. /\ stack # <<>> /\ Top.op = "memo" /\ Top.phase = "args" /\ Top.fld # "weighted"
      /\ UNCHANGED <<rules, given, field, cache, pos>>
  BY DEF StartRule, AtRule
<1>2. /\ stack \in Seq(Frame) /\ Len(stack) \in Nat \ {0} /\ Top \in Frame
      /\ Top = stack[Len(stack)] /\ Len(stack) # 1
  BY <1>1, TopFrame DEF Top
<1>3. given = {}
  <2>1. Len(stack) \in 2..Len(stack)
    <3>1. \A m \in Nat \ {0} : m # 1 => m \in 2..m
      OBVIOUS
    <3> QED BY <1>2, <3>1
  <2>2. given # {} => Ruleless(Top)
    BY <1>2, <2>1, SoundParts
  <2> QED BY <1>1, <2>2 DEF Ruleless
<1> DEFINE g == [Top EXCEPT !.phase = "rule", !.todo = RuleAt(Top.node, Top.fld).calls]
<1>4. stack' = [stack EXCEPT ![Len(stack)] = g]
  BY <1>2 DEF StartRule, Frame
<1>5. g.fresh = Top.fresh
  BY <1>2 DEF Frame
<1> HIDE DEF g
<1>6. /\ Len(stack') = Len(stack)
      /\ \A i \in 1..Len(stack) : stack'[i] = IF i = Len(stack) THEN g ELSE stack[i]
  BY <1>2, <1>4
<1>7. \A i \in 1..Len(stack) : stack[i].fresh
  BY SoundParts
<1>8. \A i \in 1..Len(stack') : stack'[i].fresh
  BY <1>2, <1>5, <1>6, <1>7
<1> QED BY <1>1, <1>3, <1>8, SoundParts, SoundKept

\* What is below the top frame.
LEMMA PoppedStack ==
    ASSUME IInv, stack # <<>>, Top.op = "memo"
    PROVE  /\ Pop(stack) \in Seq(Frame) /\ Pop(stack) # <<>>
           /\ Pop(stack)[Len(Pop(stack))].todo # <<>>
           /\ Len(stack) \in Nat /\ Len(Pop(stack)) = Len(stack) - 1
           /\ Len(Pop(stack)) <= Len(stack)
           /\ \A i \in 1..Len(Pop(stack)) : Pop(stack)[i] = stack[i]
           /\ \A i \in 1..Len(Pop(stack)) : i \in 1..Len(stack)
           /\ \A i \in 2..Len(Pop(stack)) : i \in 2..Len(stack) /\ i \in 1..Len(Pop(stack))
<1>1. stack \in Seq(Frame) /\ Len(stack) \in Nat \ {0} /\ stack[Len(stack)].op = "memo"
      /\ StackOK(stack)
  BY TopFrame DEF Top, IInv, CallInv
<1>2. /\ Pop(stack) \in Seq(Frame) /\ Pop(stack) # <<>>
      /\ Pop(stack)[Len(Pop(stack))].todo # <<>>
      /\ Len(Pop(stack)) = Len(stack) - 1
      /\ \A i \in 1..Len(stack) - 1 : Pop(stack)[i] = stack[i]
  BY <1>1, PopKeepsShape
<1>3. \A m \in Nat \ {0} :
         /\ m - 1 <= m
         /\ \A i \in 1..m - 1 : i \in 1..m
         /\ \A i \in 2..m - 1 : i \in 2..m /\ i \in 1..m - 1
  OBVIOUS
<1> QED BY <1>1, <1>2, <1>3

\* A helper writes, caches and returns a right result.
LEMMA SoundFinishMemo ==
    ASSUME IInv, SoundInv, Premise, FinishMemo
    PROVE  SoundInv'
<1>1. /\ stack # <<>> /\ Top.op = "memo"
      /\ UNCHANGED <<rules, given, pos>>
      /\ field' = IF Top.phase = "zero" THEN field
                  ELSE [field EXCEPT ![Top.node][Top.fld] = Result(Top)]
      /\ cache' = [cache EXCEPT ![KeyOf(Top)] = Result(Top)]
      /\ stack' = Answered(Pop(stack), Top.fresh)
  BY DEF FinishMemo
<1>2. /\ Top \in Frame /\ Top = stack[Len(stack)] /\ Len(stack) \in 1..Len(stack)
      /\ KeyOf(Top) \in Key
  BY <1>1, TopFrame DEF Top
<1>3. Top.fresh = TRUE /\ Result(Top) = "fresh"
  <2>1. Top.fresh
    BY <1>2, SoundParts
  <2>2. Top.fresh \in BOOLEAN
    BY <1>2 DEF Frame
  <2> QED BY <2>1, <2>2 DEF Result
<1>4. stack' = Answered(Pop(stack), TRUE)
  BY <1>1, <1>3
<1>5. /\ \A i \in 1..Len(stack') : stack'[i].fresh
      /\ given # {} => \A i \in 2..Len(stack') : Ruleless(stack'[i])
  BY <1>1, <1>4, PoppedStack, AnsweredRight
<1>6. \A k \in Key : cache'[k] # "stale"
  BY <1>1, <1>2, <1>3, SoundParts DEF IInv, TypeOK
<1>7. \A n \in Nodes, f \in Fields :
         field'[n][f] = field[n][f] \/ field'[n][f] = "fresh"
  <2>1. field \in [Nodes -> [Fields -> {"none", "stale", "fresh"}]]
    BY DEF IInv, TypeOK
  <2>2. Top.node \in Nodes /\ Top.fld \in Fields
    BY <1>2 DEF Frame
  <2> QED BY <1>1, <1>3, <2>1, <2>2
<1> QED BY <1>1, <1>5, <1>6, <1>7, SoundKept

\* An exception writes nothing.
LEMMA SoundUnwindMemo ==
    ASSUME IInv, SoundInv, Premise, UnwindMemo
    PROVE  SoundInv'
<1>1. /\ stack # <<>> /\ Top.op = "memo" /\ stack' = Pop(stack)
      /\ UNCHANGED <<rules, given, field, cache, pos>>
  BY DEF UnwindMemo
<1>2. /\ \A i \in 1..Len(stack') : stack'[i].fresh
      /\ given # {} => \A i \in 2..Len(stack') : Ruleless(stack'[i])
  BY <1>1, PoppedStack, SoundParts
<1> QED BY <1>1, <1>2, SoundParts, SoundKept

\* Every step keeps results right.
LEMMA SoundStep ==
    ASSUME IInv, WalkInv, SoundInv, [Next]_vars
    PROVE  SoundInv'
<1>1. UNCHANGED <<rules, given>>
  BY DEF vars, Next, Evaluate, ProcessSkip, ProcessMalformed, ProcessRule,
     FinishProcess, CallUnknown, CallPresent, CallCached, CallCycle, CallCompute,
     StartMalformed, StartRule, FinishMemo, RuleThrows, UnwindMemo, UnwindProcess,
     Fail, Finish, EvaluateAgain
<1>2. CASE ~Premise
  <2>1. Premise' <=> Premise
    BY <1>1 DEF Premise, LooksBackward, CalledInputs, RuleOf
  <2> QED BY <1>2, <2>1 DEF Premise, SoundInv
<1>3. CASE Premise
  <2>1. CASE UNCHANGED vars
    BY <1>3, <2>1, SoundParts, SoundKept DEF vars
  <2>2. CASE Next
    BY <1>3, <2>2, SoundQuiet, SoundAnswer, SoundProcessRule, SoundCleared,
       SoundCompute, SoundStartRule, SoundFinishMemo, SoundUnwindMemo DEF Next, Evaluate
  <2> QED BY <2>1, <2>2
<1> QED BY <1>2, <1>3

\* A new evaluator has no wrong results.
LEMMA SoundInit == ASSUME Init PROVE WalkInv /\ SoundInv
<1>1. WalkInv
  BY DEF Init, WalkInv
<1>2. /\ stack = <<>> /\ pos = 1 /\ cache = [k \in Key |-> "none"]
      /\ given \in Prefilled
      /\ field = [n \in Nodes |-> [f \in Fields |->
                    IF <<n, f>> \notin given THEN "none"
                    ELSE IF HasRule(rules, n, f) THEN "stale" ELSE "fresh"]]
  BY DEF Init
<1>3. \A p \in 1..Len(Agenda) : ~ p < 1
  BY AgendaType
<1>4. \A i \in 1..Len(stack) : FALSE
  BY <1>2
<1>5. \A i \in 2..Len(stack) : FALSE
  BY <1>2
<1> QED BY <1>1, <1>2, <1>3, <1>4, <1>5 DEF SoundInv

\* Behind the last rule every field is right.
LEMMA DoneSound ==
    ASSUME IInv, WalkInv, SoundInv, mode = "done" => pos > Len(Agenda)
    PROVE  DoneIsFresh
<1> SUFFICES ASSUME mode = "done", given = {} \/ LooksBackward,
                    NEW n \in Nodes, NEW f \in Fields, HasRule(rules, n, f)
             PROVE  field[n][f] = "fresh"
  BY DEF DoneIsFresh
<1>1. ASSUME NEW k \in Kinds
      PROVE  Settled(<<n, k>>)
  <2>1. PICK p \in 1..Len(Agenda) : Agenda[p] = <<n, k>>
    BY AgendaComplete
  <2>2. p < pos
    BY <2>1, AgendaType DEF IInv, TypeOK
  <2> QED BY <2>1, <2>2 DEF SoundInv
<1>2. CASE f \in Kinds
  BY <1>1, <1>2 DEF Settled
<1>3. CASE f = "weighted"
  <2>1. HasRule(rules, n, "score")
    BY <1>3 DEF HasRule, RuleOf
  <2>2. Settled(<<n, "score">>)
    BY <1>1 DEF Kinds
  <2> QED BY <1>3, <2>1, <2>2 DEF Settled
<1> QED BY <1>2, <1>3 DEF Fields

\* An evaluation is done only behind the last rule.
DoneAtEnd == mode = "done" => pos > Len(Agenda)

SoundEvaluation == IInv /\ WalkInv /\ SoundInv /\ DoneAtEnd

\* Only Finish ends an evaluation successfully.
LEMMA DoneStep ==
    ASSUME DoneAtEnd, [Next]_vars
    PROVE  DoneAtEnd'
<1>1. CASE UNCHANGED vars
  BY <1>1 DEF vars, DoneAtEnd, Agenda, KindSeq
<1>2. CASE Finish
  <2>1. pos' > Len(Agenda)
    BY <1>2 DEF Finish
  <2> QED BY <2>1 DEF DoneAtEnd, Agenda, KindSeq
<1>3. CASE Next /\ ~Finish
  <2>1. mode' # "done"
    BY <1>3 DEF Next, Evaluate, ProcessSkip, ProcessMalformed, ProcessRule, FinishProcess,
       CallUnknown, CallPresent, CallCached, CallCycle, CallCompute, StartMalformed,
       StartRule, FinishMemo, RuleThrows, UnwindMemo, UnwindProcess, Fail,
       EvaluateAgain, AtAgenda, AbsentField, Calling, AtRule
  <2> QED BY <2>1 DEF DoneAtEnd
<1> QED BY <1>1, <1>2, <1>3

\* The invariants that carry the proof of ResultsAreFresh hold at every moment.
THEOREM SoundEvaluationAlways == Spec => []SoundEvaluation
<1>1. Init => SoundEvaluation
  <2>1. Init => DoneAtEnd
    BY DEF Init, DoneAtEnd
  <2> QED BY <2>1, InitIInv, SoundInit DEF SoundEvaluation
<1>2. SoundEvaluation /\ [Next]_vars => SoundEvaluation'
  BY StepIInv, WalkStep, SoundStep, DoneStep DEF SoundEvaluation
<1> QED BY <1>1, <1>2, PTL DEF Spec

\* A successful evaluation of a fresh input, or of any input whose scripts
\* only look back, leaves in every field that has a rule the value the rules
\* define, for every tree and every rule table.
THEOREM ResultsAreFresh == Spec => []DoneIsFresh
<1>1. SoundEvaluation => DoneIsFresh
  BY DoneSound DEF SoundEvaluation, DoneAtEnd
<1> QED BY <1>1, SoundEvaluationAlways, PTL
=============================================================================
