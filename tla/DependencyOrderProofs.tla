------------------------ MODULE DependencyOrderProofs ------------------------
(***************************************************************************)
(* The evaluator of riskprofile.hpp evaluates in dependency order, for      *)
(* every tree, rule table and input: whatever the walk and the helpers do   *)
(* in between, every field appears as if its rule had read all of its       *)
(* inputs at that moment, and an evaluation only fails for a cause that is  *)
(* in the rules.                                                           *)
(*                                                                         *)
(* A script reads its inputs one by one, long before its result is written. *)
(* The invariant ReadInv says what the walk and every helper on the call    *)
(* stack have read so far and that it is still what is there; at the end of *)
(* a rule that is exactly what DependencyOrder asks of a step.              *)
(***************************************************************************)
EXTENDS RuleEvaluationProofs, FiniteSetTheorems

\* The field a key stands for.
PlaceOf(k) == <<NodeOf(k[2]), k[1]>>

-----------------------------------------------------------------------------
(* DependencyOrder speaks of the same tree.                                 *)

\* The index by Profile_ID.
LEMMA SameIndex == \A c : DepOrder!NodeOf(c) = NodeOf(c) /\ (DepOrder!Known(c) <=> Known(c))
BY DEF DepOrder!NodeOf, NodeOf, DepOrder!Known, Known, DepOrder!Indexed, Indexed

\* The rules and what each field is computed from.
LEMMA SameRules ==
  \A t, n, f : /\ DepOrder!RuleOf(t, n, f) = RuleOf(t, n, f)
               /\ (DepOrder!HasRule(t, n, f) <=> HasRule(t, n, f))
               /\ DepOrder!Inputs(t, n, f) = Inputs(t, n, f)
<1> TAKE t, n, f
<1>1. DepOrder!RuleOf(t, n, f) = RuleOf(t, n, f) /\ DepOrder!OwnInputs(f) = OwnInputs(f)
  BY DEF DepOrder!RuleOf, RuleOf, DepOrder!OwnInputs, OwnInputs
<1>2. DepOrder!HasRule(t, n, f) <=> HasRule(t, n, f)
  BY <1>1 DEF DepOrder!HasRule, HasRule
<1>3. DepOrder!CalledInputs(t, n, f) = CalledInputs(t, n, f)
  BY <1>1, SameIndex DEF DepOrder!CalledInputs, CalledInputs
<1>4. DepOrder!Inputs(t, n, f) = Inputs(t, n, f)
  BY <1>1, <1>3 DEF DepOrder!Inputs, Inputs
<1> QED BY <1>1, <1>2, <1>4

\* The fields of an element.
LEMMA SameFields == DepOrder!Kinds = Kinds /\ DepOrder!Fields = Fields
BY DEF DepOrder!Kinds, Kinds, DepOrder!Fields, Fields

\* What an evaluation may fail of.
LEMMA SameFaults ==
  /\ DepOrder!Faulty(rules) <=> Faulty(rules)
  /\ DepOrder!Cyclic(rules, given) <=> Cyclic(rules, given)
<1>1. DepOrder!Faulty(rules) <=> Faulty(rules)
  BY SameFields DEF DepOrder!Faulty, Faulty
<1>2. \A t, S, g : DepOrder!Knot(t, g, S) <=> Knot(t, g, S)
  BY SameRules DEF DepOrder!Knot, Knot
<1>3. {x \in Nodes \X DepOrder!Fields : DepOrder!HasRule(rules, x[1], x[2])}
       = {x \in Nodes \X Fields : HasRule(rules, x[1], x[2])}
  BY SameFields, SameRules
<1>4. DepOrder!Cyclic(rules, given) <=> Cyclic(rules, given)
  BY <1>2, <1>3 DEF DepOrder!Cyclic, Cyclic
<1> QED BY <1>1, <1>4

\* A new evaluator is an initial state of DependencyOrder.
LEMMA RefineInit == ASSUME Init PROVE DepOrder!Init
<1>1. DepOrder!GivenFields(rules, given) = [n \in Nodes |-> [f \in Fields |->
                  IF <<n, f>> \notin given THEN "none"
                  ELSE IF HasRule(rules, n, f) THEN "stale" ELSE "fresh"]]
  BY SameRules, SameFields DEF DepOrder!GivenFields
<1> QED BY <1>1 DEF Init, DepOrder!Init

-----------------------------------------------------------------------------
(* What a frame has read.                                                   *)

Val(F, x) == F[x[1]][x[2]]

\* Nothing will be read from x that is not there yet.
Ready(t, F, x) == Val(F, x) # "none" \/ (x[2] \in Kinds /\ ~HasRule(t, x[1], x[2]))

\* The fields a frame reads in the part of the helper it is in.
Reads(t, f) ==
    IF f.phase = "zero" THEN {}
    ELSE {<<f.node, g>> : g \in OwnInputs(f.fld)}
            \cup (IF f.phase = "rule" THEN CalledInputs(t, f.node, f.fld) ELSE {})

Pending(f, x) == \E i \in 1..Len(f.todo) : Known(f.todo[i][2]) /\ PlaceOf(f.todo[i]) = x

\* What it need not ask for any more is there, and fresh says whether all of
\* that is right.
FrameReads(t, F, f) ==
    /\ \A i \in 1..Len(f.todo) : Known(f.todo[i][2]) => PlaceOf(f.todo[i]) \in Reads(t, f)
    /\ \A x \in Reads(t, f) :
          Pending(f, x) \/ (Ready(t, F, x) /\ (f.fresh => Val(F, x) # "stale"))
    /\ ~f.fresh => \E x \in Reads(t, f) : Val(F, x) = "stale"

\* A helper is only run for a field that is absent.
FrameAbsent(t, F, f) ==
    f.op = "memo" =>
        /\ Val(F, <<f.node, f.fld>>) = "none"
        /\ f.phase = "zero" => f.fld \in Kinds /\ ~HasRule(t, f.node, f.fld) /\ f.fresh
        /\ f.phase # "zero" => f.fld = "weighted" \/ HasRule(t, f.node, f.fld)

RulelessRight(t, F) ==
    \A n \in Nodes, f \in Fields : ~HasRule(t, n, f) => Val(F, <<n, f>>) # "stale"

CacheRight(t, F, C) ==
    \A k \in Key : Known(k[2]) /\ C[k] # "none" /\ Val(F, PlaceOf(k)) = "none" =>
        C[k] = "fresh" /\ Ready(t, F, PlaceOf(k))

Passed(t, F, x) ==
    HasRule(t, x[1], x[2]) =>
        Val(F, x) # "none" /\ (x[2] = "score" => Val(F, <<x[1], "weighted">>) # "none")

ReadInv ==
    /\ \A i \in 1..Len(stack) : FrameReads(rules, field, stack[i]) /\ FrameAbsent(rules, field, stack[i])
    /\ RulelessRight(rules, field)
    /\ CacheRight(rules, field, cache)
    /\ \A x \in given : Val(field, x) # "none"
    /\ \A p \in 1..Len(Agenda) : p < pos => Passed(rules, field, Agenda[p])
    /\ mode = "throwing" => Faulty(rules) \/ Cyclic(rules, given)

\* The parts of ReadInv after a step; no step changes the rules.
LEMMA ReadKept ==
    ASSUME UNCHANGED <<rules, given>>,
           \A i \in 1..Len(stack') :
               FrameReads(rules, field', stack'[i]) /\ FrameAbsent(rules, field', stack'[i]),
           RulelessRight(rules, field'), CacheRight(rules, field', cache'),
           \A x \in given : Val(field', x) # "none",
           \A p \in 1..Len(Agenda) : p < pos' => Passed(rules, field', Agenda[p]),
           mode' = "throwing" => Faulty(rules) \/ Cyclic(rules, given)
    PROVE  ReadInv'
<1>1. Agenda' = Agenda
  BY DEF Agenda, KindSeq
<1>2. (\A p \in 1..Len(Agenda) : p < pos => Passed(rules, field, Agenda[p]))'
  BY <1>1
<1> QED BY <1>2 DEF ReadInv

\* Fields only appear while helpers run: what a frame has read stays as it was.
LEMMA ReadsGrow ==
    ASSUME NEW F, NEW G, NEW f \in Frame, FrameReads(rules, F, f), RulelessRight(rules, G),
           \A x \in Nodes \X Fields : Val(F, x) # "none" => Val(G, x) = Val(F, x),
           Reads(rules, f) \subseteq Nodes \X Fields
    PROVE  FrameReads(rules, G, f)
<1>1. ASSUME NEW x \in Reads(rules, f), ~ Pending(f, x)
      PROVE  Ready(rules, G, x) /\ (f.fresh => Val(G, x) # "stale")
  <2>1. Ready(rules, F, x) /\ (f.fresh => Val(F, x) # "stale")
    BY <1>1 DEF FrameReads
  <2>2. CASE Val(F, x) # "none"
    BY <2>1, <2>2 DEF Ready
  <2>3. CASE Val(F, x) = "none"
    <3>1. x[2] \in Kinds /\ ~HasRule(rules, x[1], x[2])
      BY <2>1, <2>3 DEF Ready
    <3>2. x[1] \in Nodes /\ x[2] \in Fields /\ x = <<x[1], x[2]>>
      OBVIOUS
    <3> QED BY <3>1, <3>2 DEF Ready, RulelessRight
  <2> QED BY <2>2, <2>3
<1>2. ~f.fresh => \E x \in Reads(rules, f) : Val(G, x) = "stale"
  BY DEF FrameReads
<1> QED BY <1>1, <1>2 DEF FrameReads

\* What a frame reads are fields of the tree.
LEMMA ReadsType ==
    ASSUME TypeOK, NEW f \in Frame, f.phase = "rule" => f.fld \in Kinds
    PROVE  Reads(rules, f) \subseteq Nodes \X Fields
<1>1. f.node \in Nodes /\ f.fld \in Fields
  BY DEF Frame
<1>2. \A g \in OwnInputs(f.fld) : g \in Fields
  BY <1>1 DEF OwnInputs, Fields, Kinds
<1>3. f.phase = "rule" => CalledInputs(rules, f.node, f.fld) \subseteq Nodes \X Fields
  <2> SUFFICES ASSUME f.phase = "rule"
               PROVE  CalledInputs(rules, f.node, f.fld) \subseteq Nodes \X Fields
    OBVIOUS
  <2>1. RuleAt(f.node, f.fld).calls \in Seq(Key)
    BY <1>1, RuleType
  <2>2. ASSUME NEW i \in 1..Len(RuleAt(f.node, f.fld).calls),
               Known(RuleAt(f.node, f.fld).calls[i][2])
        PROVE  PlaceOf(RuleAt(f.node, f.fld).calls[i]) \in Nodes \X Fields
    <3>1. RuleAt(f.node, f.fld).calls[i] \in Key
      BY <2>1, ElementOfSeq
    <3> QED BY <2>2, <3>1, NodeOfCode DEF PlaceOf, Key
  <2> QED BY <2>2 DEF CalledInputs, PlaceOf, RuleAt
<1> QED BY <1>1, <1>2, <1>3 DEF Reads

\* A call for k is answered with what is there: b says whether that is right.
AnswerRight(t, F, k, b) ==
    IF Known(k[2]) THEN Ready(t, F, PlaceOf(k)) /\ (b <=> Val(F, PlaceOf(k)) # "stale")
    ELSE b

\* A frame that gets such an answer has read it.
LEMMA AnsweredReads ==
    ASSUME NEW F, NEW s \in Seq(Frame), s # <<>>, s[Len(s)].todo # <<>>, NEW b \in BOOLEAN,
           \A i \in 1..Len(s) : FrameReads(rules, F, s[i]) /\ FrameAbsent(rules, F, s[i]),
           AnswerRight(rules, F, Head(s[Len(s)].todo), b)
    PROVE  \A i \in 1..Len(Answered(s, b)) :
               FrameReads(rules, F, Answered(s, b)[i]) /\ FrameAbsent(rules, F, Answered(s, b)[i])
<1> DEFINE a == Answered(s, b)
           n == Len(s)
           f == s[n]
           g == a[n]
           k == Head(f.todo)
<1>1. n \in Nat \ {0} /\ n \in 1..n /\ f \in Frame
  BY StackElement
<1>2. /\ Len(a) = n
      /\ \A i \in 1..n - 1 : a[i] = s[i]
      /\ g.op = f.op /\ g.node = f.node /\ g.fld = f.fld /\ g.phase = f.phase
      /\ g.todo = Tail(f.todo) /\ g.fresh = (f.fresh /\ b)
  BY AnsweredProperties
<1>3. f.todo \in Seq(Key) /\ f.todo # <<>> /\ f.fresh \in BOOLEAN
  BY <1>1 DEF Frame
<1>4. /\ Len(f.todo) \in Nat /\ Len(Tail(f.todo)) = Len(f.todo) - 1 /\ k = f.todo[1]
      /\ \A i \in 1..Len(Tail(f.todo)) : Tail(f.todo)[i] = f.todo[i + 1]
      /\ 1 \in 1..Len(f.todo)
  BY <1>3, HeadTailProperties, LenProperties, EmptySeq
<1>5. \A i \in 1..n : i \in 1..n - 1 \/ i = n
  BY <1>1
<1>6. FrameReads(rules, F, f) /\ FrameAbsent(rules, F, f)
  BY <1>1
<1>7. AnswerRight(rules, F, k, b)
  OBVIOUS
<1> HIDE DEF a, n, f, g, k
<1>8. Reads(rules, g) = Reads(rules, f)
  BY <1>2 DEF Reads
<1>9. ASSUME NEW x, Pending(f, x)
      PROVE  Pending(g, x) \/ (Known(k[2]) /\ PlaceOf(k) = x)
  <2>1. PICK i \in 1..Len(f.todo) : Known(f.todo[i][2]) /\ PlaceOf(f.todo[i]) = x
    BY <1>9 DEF Pending
  <2>2. CASE i = 1
    BY <1>4, <2>1, <2>2
  <2>3. CASE i # 1
    <3>1. i - 1 \in 1..Len(Tail(f.todo)) /\ (i - 1) + 1 = i
      BY <1>4, <2>3
    <3>2. Tail(f.todo)[i - 1] = f.todo[i]
      BY <1>4, <3>1
    <3> QED BY <1>2, <2>1, <3>1, <3>2 DEF Pending
  <2> QED BY <2>2, <2>3
<1>10. ASSUME NEW i \in 1..Len(g.todo), Known(g.todo[i][2])
       PROVE  PlaceOf(g.todo[i]) \in Reads(rules, g)
  <2>1. i + 1 \in 1..Len(f.todo) /\ g.todo[i] = f.todo[i + 1]
    BY <1>2, <1>4
  <2> QED BY <1>6, <1>8, <1>10, <2>1 DEF FrameReads
<1>11. ASSUME NEW x \in Reads(rules, g), ~ Pending(g, x)
       PROVE  Ready(rules, F, x) /\ (g.fresh => Val(F, x) # "stale")
  <2>1. CASE Pending(f, x)
    BY <1>2, <1>7, <1>9, <1>11, <2>1 DEF AnswerRight
  <2>2. CASE ~ Pending(f, x)
    BY <1>2, <1>6, <1>8, <2>2 DEF FrameReads
  <2> QED BY <2>1, <2>2
<1>12. ASSUME ~ g.fresh PROVE \E x \in Reads(rules, g) : Val(F, x) = "stale"
  <2>1. CASE ~ f.fresh
    BY <1>6, <1>8, <2>1 DEF FrameReads
  <2>2. CASE f.fresh
    <3>1. ~ b
      BY <1>2, <1>12, <2>2
    <3>2. Known(k[2]) /\ Val(F, PlaceOf(k)) = "stale"
      BY <1>7, <3>1 DEF AnswerRight
    <3>3. PlaceOf(k) \in Reads(rules, f)
      BY <1>4, <1>6, <3>2 DEF FrameReads
    <3> QED BY <1>8, <3>2, <3>3
  <2> QED BY <2>1, <2>2
<1>13. FrameReads(rules, F, g)
  BY <1>10, <1>11, <1>12 DEF FrameReads
<1>14. FrameAbsent(rules, F, g)
  <2>1. f.phase = "zero" => f.op # "memo" \/ g.fresh
    <3>1. CASE f.phase = "zero" /\ f.op = "memo"
      <4>1. Reads(rules, g) = {}
        BY <1>2, <3>1 DEF Reads
      <4> QED BY <1>12, <4>1
    <3> QED BY <3>1
  <2> QED BY <1>2, <1>6, <2>1 DEF FrameAbsent
<1> QED BY <1>2, <1>5, <1>13, <1>14 DEF a, n, g


-----------------------------------------------------------------------------
(* The steps keep what the frames know.                                     *)

\* A new evaluator has read nothing and passed nothing.
LEMMA ReadInit == ASSUME Init PROVE ReadInv
<1>1. /\ stack = <<>> /\ pos = 1 /\ mode = "running" /\ cache = [k \in Key |-> "none"]
      /\ given \subseteq Nodes \X Fields
      /\ field = [n \in Nodes |-> [f \in Fields |->
                    IF <<n, f>> \notin given THEN "none"
                    ELSE IF HasRule(rules, n, f) THEN "stale" ELSE "fresh"]]
  BY RuleAssumption DEF Init
<1>2. RulelessRight(rules, field)
  BY <1>1 DEF RulelessRight, Val
<1>3. CacheRight(rules, field, cache)
  BY <1>1 DEF CacheRight
<1>4. \A x \in given : Val(field, x) # "none"
  <2> SUFFICES ASSUME NEW x \in given PROVE Val(field, x) # "none"
    OBVIOUS
  <2>1. x[1] \in Nodes /\ x[2] \in Fields /\ x = <<x[1], x[2]>>
    BY <1>1
  <2> QED BY <1>1, <2>1 DEF Val
<1>5. \A p \in 1..Len(Agenda) : ~ p < 1
  BY AgendaType
<1>6. \A i \in 1..Len(stack) : FALSE
  BY <1>1
<1> QED BY <1>1, <1>2, <1>3, <1>4, <1>5, <1>6 DEF ReadInv

\* A frame that waits for a helper is of a rule, and what it waits for is an
\* input of that rule.
LEMMA WaitsForInput ==
    ASSUME ReadInv, CallInv, NEW i \in 1..Len(stack), stack[i].op = "memo",
           stack[i] \in Frame, stack[i].todo # <<>>, Known(Head(stack[i].todo)[2])
    PROVE  LET f == stack[i]
               x == <<f.node, f.fld>>
               y == PlaceOf(Head(f.todo))
           IN  /\ x \in Nodes \X Fields /\ x \notin given
               /\ y \in Inputs(rules, f.node, f.fld)
               /\ f.fld = "weighted" => y = <<f.node, "score">>
               /\ f.fld # "weighted" => HasRule(rules, f.node, f.fld)
<1> DEFINE f == stack[i]
           y == PlaceOf(Head(f.todo))
<1>1. FrameReads(rules, field, f) /\ FrameAbsent(rules, field, f)
  BY DEF ReadInv
<1>2. f.todo \in Seq(Key) /\ 1 \in 1..Len(f.todo) /\ Head(f.todo) = f.todo[1]
  <2>1. f.todo \in Seq(Key)
    BY DEF Frame
  <2> QED BY <2>1, EmptySeq, HeadTailProperties
<1>3. y \in Reads(rules, f)
  BY <1>1, <1>2 DEF FrameReads
<1>4. f.phase # "zero"
  BY <1>3 DEF Reads
<1>5. FrameOK(f)
  BY DEF CallInv, StackOK
<1>6. <<f.node, f.fld>> \in Nodes \X Fields
  BY DEF Frame
<1>7. <<f.node, f.fld>> \notin given
  BY <1>1 DEF FrameAbsent, ReadInv
<1>8. y \in Inputs(rules, f.node, f.fld)
  BY <1>3, <1>4 DEF Reads, Inputs
<1>9. ASSUME f.fld = "weighted" PROVE y = <<f.node, "score">>
  <2>1. f.phase # "rule"
    BY <1>5, <1>9 DEF FrameOK, Kinds
  <2> QED BY <1>3, <1>9, <2>1 DEF Reads, OwnInputs
<1>10. f.fld # "weighted" => HasRule(rules, f.node, f.fld)
  BY <1>1, <1>4 DEF FrameAbsent
<1> QED BY <1>6, <1>7, <1>8, <1>9, <1>10

\* A dependency cycle that is reported is one of the rules.
LEMMA CycleIsKnot ==
    ASSUME IInv, ReadInv, CallCycle
    PROVE  Cyclic(rules, given)
<1> DEFINE m == Len(depStack)
           n == Len(stack)
           At(j) == <<stack[j].node, stack[j].fld>>
<1>1. /\ stack # <<>> /\ Top.todo # <<>> /\ Wanted \in computing /\ Known(Wanted[2])
  BY DEF CallCycle, AbsentField, Calling
<1>2. /\ stack \in Seq(Frame) /\ n \in Nat \ {0} /\ depStack \in Seq(Key)
      /\ \A j \in 1..n : stack[j] \in Frame
      /\ StackOK(stack) /\ Tracks(stack, depStack, computing) /\ CallInv
  BY <1>1, StackElement DEF IInv, CallInv, TypeOK
<1>3. m = n - 1 /\ \A j \in 1..m : depStack[j] = KeyOf(stack[j + 1])
  BY <1>1, <1>2 DEF Tracks
<1>4. PICK i \in 1..m : depStack[i] = Wanted
  BY <1>1, <1>2 DEF Tracks
<1> DEFINE C == (i + 1)..n
           S == {At(j) : j \in C}
<1>5. \A j \in C : j \in 1..n /\ j # 1 /\ (j # n => j + 1 \in C /\ j \in 1..n - 1)
  BY <1>2, <1>3
<1>6. i + 1 \in C /\ KeyOf(stack[i + 1]) = Wanted /\ n \in C
  BY <1>2, <1>3, <1>4
<1>7. \A j \in C : stack[j].op = "memo" /\ stack[j] \in Frame /\ FrameOK(stack[j])
  BY <1>2, <1>5 DEF StackOK, Frame
<1>8. ASSUME NEW j \in C
      PROVE  /\ Known(KeyOf(stack[j])[2])
             /\ PlaceOf(KeyOf(stack[j])) = At(j)
  BY <1>7 DEF FrameOK, PlaceOf, KeyOf
<1>9. ASSUME NEW j \in C
      PROVE  stack[j].todo # <<>> /\ \E l \in C : Head(stack[j].todo) = KeyOf(stack[l])
  <2>1. CASE j = n
    BY <1>1, <1>6, <2>1 DEF Top, Wanted
  <2>2. CASE j # n
    BY <1>2, <1>5, <2>2 DEF StackOK
  <2> QED BY <2>1, <2>2
<1> HIDE DEF m, n, C
<1>10. ASSUME NEW j \in C
       PROVE  /\ At(j) \in Nodes \X Fields /\ At(j) \notin given
              /\ \E l \in C : At(l) \in Inputs(rules, stack[j].node, stack[j].fld)
              /\ HasRule(rules, stack[j].node, stack[j].fld)
  <2>1. PICK l \in C : Head(stack[j].todo) = KeyOf(stack[l])
    BY <1>9
  <2>2. j \in 1..Len(stack) /\ l \in 1..Len(stack)
    BY <1>5 DEF n
  <2>3. Known(Head(stack[j].todo)[2]) /\ PlaceOf(Head(stack[j].todo)) = At(l)
    BY <1>8, <2>1
  <2>4. /\ At(j) \in Nodes \X Fields /\ At(j) \notin given
        /\ At(l) \in Inputs(rules, stack[j].node, stack[j].fld)
        /\ stack[j].fld = "weighted" => At(l) = <<stack[j].node, "score">>
        /\ stack[j].fld # "weighted" => HasRule(rules, stack[j].node, stack[j].fld)
    BY <1>2, <1>7, <1>9, <2>2, <2>3, WaitsForInput
  <2>5. CASE stack[j].fld = "weighted"
    <3>1. stack[l].fld = "score" /\ stack[l].node = stack[j].node
      BY <2>4, <2>5
    <3>2. PICK q \in C : Head(stack[l].todo) = KeyOf(stack[q])
      BY <1>9
    <3>3. Known(Head(stack[l].todo)[2])
      BY <1>8, <3>2
    <3>4. stack[l].fld # "weighted" => HasRule(rules, stack[l].node, stack[l].fld)
      BY <1>2, <1>7, <1>9, <2>2, <3>3, WaitsForInput
    <3>5. HasRule(rules, stack[j].node, "score")
      BY <3>1, <3>4
    <3>6. HasRule(rules, stack[j].node, "weighted")
      BY <3>5 DEF HasRule, RuleOf
    <3> QED BY <2>4, <2>5, <3>6
  <2> QED BY <2>4, <2>5
<1>11. S # {}
  BY <1>6
<1>12. \A x \in S : /\ x \in Nodes \X Fields /\ x \notin given
                    /\ HasRule(rules, x[1], x[2])
                    /\ Inputs(rules, x[1], x[2]) \cap S # {}
  <2> SUFFICES ASSUME NEW j \in C
               PROVE  /\ At(j) \in Nodes \X Fields /\ At(j) \notin given
                      /\ HasRule(rules, At(j)[1], At(j)[2])
                      /\ Inputs(rules, At(j)[1], At(j)[2]) \cap S # {}
    OBVIOUS
  <2>1. At(j)[1] = stack[j].node /\ At(j)[2] = stack[j].fld
    OBVIOUS
  <2>2. PICK l \in C : At(l) \in Inputs(rules, stack[j].node, stack[j].fld)
    BY <1>10
  <2>3. At(l) \in S
    OBVIOUS
  <2> HIDE DEF At, S
  <2> QED BY <1>10, <2>1, <2>2, <2>3
<1> HIDE DEF S
<1>13. S \in SUBSET {x \in Nodes \X Fields : HasRule(rules, x[1], x[2])}
  BY <1>12
<1>14. Knot(rules, given, S)
  BY <1>11, <1>12 DEF Knot
<1> QED BY <1>13, <1>14 DEF Cyclic

\* Steps that read and write nothing; what is thrown has a cause in the rules.
LEMMA ReadQuiet ==
    ASSUME IInv, ReadInv,
           \/ ProcessSkip \/ ProcessMalformed \/ CallCycle \/ StartMalformed
           \/ RuleThrows \/ Fail \/ Finish \/ EvaluateAgain
    PROVE  ReadInv'
<1>1. UNCHANGED <<rules, given, field, cache, stack>>
  BY DEF ProcessSkip, ProcessMalformed, CallCycle, StartMalformed, RuleThrows, Fail,
     Finish, EvaluateAgain
<1>2. pos \in 1..Len(Agenda) + 1 /\ Len(Agenda) \in Nat
  BY AgendaType DEF IInv, TypeOK
<1>3. ASSUME NEW p \in 1..Len(Agenda), p < pos'
      PROVE  Passed(rules, field, Agenda[p])
  <2>1. CASE ProcessSkip
    <3>1. pos' = pos + 1 /\ ~HasRule(rules, Agenda[pos][1], Agenda[pos][2])
      BY <2>1 DEF ProcessSkip
    <3>2. p < pos \/ p = pos
      BY <1>2, <1>3, <3>1
    <3>3. Passed(rules, field, Agenda[pos])
      BY <3>1 DEF Passed
    <3> QED BY <3>2, <3>3 DEF ReadInv
  <2>2. CASE EvaluateAgain
    <3>1. pos' = 1
      BY <2>2 DEF EvaluateAgain
    <3> QED BY <1>2, <1>3, <3>1
  <2>3. CASE \/ ProcessMalformed \/ CallCycle \/ StartMalformed
             \/ RuleThrows \/ Fail \/ Finish
    <3>1. pos' = pos
      BY <2>3 DEF ProcessMalformed, CallCycle, StartMalformed, RuleThrows, Fail, Finish
    <3> QED BY <1>3, <3>1 DEF ReadInv
  <2> QED BY <2>1, <2>2, <2>3
<1>4. mode' = "throwing" => Faulty(rules) \/ Cyclic(rules, given)
  <2>1. CASE CallCycle
    BY <2>1, CycleIsKnot
  <2>2. CASE ProcessMalformed
    <3>1. pos \in 1..Len(Agenda)
      BY <1>2, <2>2 DEF ProcessMalformed, AtAgenda
    <3>2. Agenda[pos][1] \in Nodes /\ Agenda[pos][2] \in Kinds
      BY <3>1, AgendaType
    <3> QED BY <2>2, <3>2, RuleType DEF ProcessMalformed, Faulty, IInv
  <2>3. CASE StartMalformed \/ RuleThrows
    <3>1. /\ Top \in Frame /\ FrameOK(Top)
          /\ Top.fld # "weighted" \/ Top.phase = "rule"
          /\ RuleAt(Top.node, Top.fld).ends \in {"malformed", "throws"}
      BY <2>3, TopFrame DEF StartMalformed, AtRule, RuleThrows
    <3>2. Top.node \in Nodes /\ Top.fld \in Kinds
      BY <3>1 DEF Frame, FrameOK, Fields
    <3> QED BY <3>1, <3>2, RuleType DEF Faulty, IInv
  <2>4. CASE ProcessSkip \/ Fail \/ Finish \/ EvaluateAgain
    BY <2>4 DEF ProcessSkip, AtAgenda, Fail, Finish, EvaluateAgain
  <2> QED BY <2>1, <2>2, <2>3, <2>4
<1>5. \A i \in 1..Len(stack') :
          FrameReads(rules, field', stack'[i]) /\ FrameAbsent(rules, field', stack'[i])
  BY <1>1 DEF ReadInv
<1>6. RulelessRight(rules, field') /\ CacheRight(rules, field', cache')
      /\ \A x \in given : Val(field', x) # "none"
  BY <1>1 DEF ReadInv
<1>7. \A p \in 1..Len(Agenda) : p < pos' => Passed(rules, field', Agenda[p])
  BY <1>1, <1>3
<1> QED BY <1>1, <1>4, <1>5, <1>6, <1>7, ReadKept

\* A call that is answered at once is answered with what is there.
LEMMA ReadAnswer ==
    ASSUME IInv, ReadInv, CallUnknown \/ CallPresent \/ CallCached
    PROVE  ReadInv'
<1>1. /\ stack # <<>> /\ Top.todo # <<>>
      /\ UNCHANGED <<rules, given, field, cache, pos, mode>>
  BY DEF CallUnknown, CallPresent, CallCached, AbsentField, Calling
<1>2. Wanted \in Key /\ Wanted[1] \in Fields /\ Wanted[2] \in Codes
  BY <1>1, HeadOfTodo
<1>3. PICK b \in BOOLEAN : stack' = Answered(stack, b) /\ AnswerRight(rules, field, Wanted, b)
  <2>1. CASE CallUnknown
    BY <2>1 DEF CallUnknown, AnswerRight
  <2>2. CASE CallPresent
    <3> DEFINE v == field[NodeOf(Wanted[2])][Wanted[1]]
    <3>1. Known(Wanted[2]) /\ v # "none" /\ stack' = Answered(stack, v = "fresh")
      BY <2>2 DEF CallPresent
    <3>2. v \in {"none", "stale", "fresh"}
      BY <1>2, <3>1, NodeOfCode DEF IInv, TypeOK
    <3>3. v = Val(field, PlaceOf(Wanted))
      BY DEF Val, PlaceOf
    <3> HIDE DEF v
    <3>4. AnswerRight(rules, field, Wanted, v = "fresh")
      BY <3>1, <3>2, <3>3 DEF AnswerRight, Ready
    <3> QED BY <3>1, <3>4
  <2>3. CASE CallCached
    <3>1. /\ Known(Wanted[2]) /\ cache[Wanted] # "none"
          /\ Val(field, PlaceOf(Wanted)) = "none"
          /\ stack' = Answered(stack, cache[Wanted] = "fresh")
      BY <2>3 DEF CallCached, AbsentField, Val, PlaceOf
    <3>2. cache[Wanted] = "fresh" /\ Ready(rules, field, PlaceOf(Wanted))
      BY <1>2, <3>1 DEF ReadInv, CacheRight
    <3>3. AnswerRight(rules, field, Wanted, cache[Wanted] = "fresh")
      BY <3>1, <3>2 DEF AnswerRight
    <3> QED BY <3>1, <3>3
  <2> QED BY <2>1, <2>2, <2>3
<1>4. stack \in Seq(Frame) /\ stack[Len(stack)].todo # <<>>
      /\ Head(stack[Len(stack)].todo) = Wanted
  BY <1>1, TopFrame DEF Top, Wanted
<1>5. \A i \in 1..Len(stack) :
          FrameReads(rules, field, stack[i]) /\ FrameAbsent(rules, field, stack[i])
  BY DEF ReadInv
<1>6. AnswerRight(rules, field, Head(stack[Len(stack)].todo), b)
  BY <1>3, <1>4
<1>7. \A i \in 1..Len(stack') :
          FrameReads(rules, field, stack'[i]) /\ FrameAbsent(rules, field, stack'[i])
  BY <1>1, <1>3, <1>4, <1>5, <1>6, AnsweredReads
<1>8. /\ RulelessRight(rules, field') /\ CacheRight(rules, field', cache')
      /\ \A x \in given : Val(field', x) # "none"
      /\ \A p \in 1..Len(Agenda) : p < pos' => Passed(rules, field', Agenda[p])
      /\ mode' = "throwing" => Faulty(rules) \/ Cyclic(rules, given)
  BY <1>1 DEF ReadInv
<1> QED BY <1>1, <1>7, <1>8, ReadKept

\* The walk passes a rule what its earlier rules have left.
LEMMA ReadProcessRule ==
    ASSUME IInv, ReadInv, ProcessRule
    PROVE  ReadInv'
<1> DEFINE n == Agenda[pos][1]
           f == Agenda[pos][2]
           b == \A g \in OwnInputs(f) : ReadsFresh(n, g)
<1>1. /\ UNCHANGED <<rules, given, field, cache, pos, mode>>
      /\ pos \in 1..Len(Agenda) /\ n \in Nodes /\ f \in Kinds
  <2>1. pos \in 1..Len(Agenda)
    BY AgendaType DEF ProcessRule, AtAgenda, IInv, TypeOK
  <2> QED BY <2>1, AgendaType DEF ProcessRule
<1> DEFINE fr == [op |-> "process", node |-> n, fld |-> f, phase |-> "rule",
                  todo |-> RuleAt(n, f).calls, fresh |-> b]
<1>2. stack' = <<fr>>
  BY DEF ProcessRule
<1>3. ASSUME NEW g \in OwnInputs(f)
      PROVE  /\ Ready(rules, field, <<n, g>>)
             /\ ReadsFresh(n, g) <=> Val(field, <<n, g>>) # "stale"
  <2>1. PICK q \in 1..Len(Agenda) : q < pos /\ Agenda[q] = <<n, g>>
    BY <1>1, AgendaOwnInputs
  <2>2. Passed(rules, field, <<n, g>>)
    BY <1>1, <2>1 DEF ReadInv
  <2>3. g \in Fields /\ g \in Kinds
    BY <1>1, <1>3 DEF OwnInputs, Kinds, Fields
  <2>4. field[n][g] \in {"none", "stale", "fresh"} /\ Val(field, <<n, g>>) = field[n][g]
    BY <1>1, <2>3 DEF IInv, TypeOK, Val
  <2>5. HasRule(rules, n, g) => field[n][g] # "none"
    BY <2>2, <2>4 DEF Passed
  <2>6. ~HasRule(rules, n, g) => field[n][g] # "stale"
    BY <1>1, <2>3, <2>4 DEF ReadInv, RulelessRight
  <2> QED BY <2>3, <2>4, <2>5, <2>6 DEF Ready, ReadsFresh
<1>4. /\ fr.op = "process" /\ fr.node = n /\ fr.fld = f /\ fr.phase = "rule"
      /\ fr.todo = RuleAt(n, f).calls /\ fr.fresh = b
  OBVIOUS
<1>5. b <=> \A g \in OwnInputs(f) : Val(field, <<n, g>>) # "stale"
  BY <1>3
<1> HIDE DEF fr, n, f, b
<1>6. Reads(rules, fr) = {<<n, g>> : g \in OwnInputs(f)} \cup CalledInputs(rules, n, f)
  BY <1>4 DEF Reads
<1>7. CalledInputs(rules, n, f) =
        {PlaceOf(fr.todo[i]) : i \in {j \in 1..Len(fr.todo) : Known(fr.todo[j][2])}}
  BY <1>1, <1>4 DEF CalledInputs, PlaceOf, RuleAt, Kinds
<1>8. \A i \in 1..Len(fr.todo) : Known(fr.todo[i][2]) => PlaceOf(fr.todo[i]) \in Reads(rules, fr)
  BY <1>6, <1>7
<1>9. ASSUME NEW x \in Reads(rules, fr), ~ Pending(fr, x)
      PROVE  Ready(rules, field, x) /\ (fr.fresh => Val(field, x) # "stale")
  <2>1. x \notin CalledInputs(rules, n, f)
    BY <1>7, <1>9 DEF Pending
  <2>2. PICK g \in OwnInputs(f) : x = <<n, g>>
    BY <1>6, <2>1
  <2> QED BY <1>3, <1>4, <1>5, <2>2
<1>10. ~fr.fresh => \E x \in Reads(rules, fr) : Val(field, x) = "stale"
  BY <1>4, <1>5, <1>6
<1>11. FrameReads(rules, field, fr) /\ FrameAbsent(rules, field, fr)
  BY <1>4, <1>8, <1>9, <1>10 DEF FrameReads, FrameAbsent
<1>12. \A i \in 1..Len(stack') : stack'[i] = fr
  BY <1>2
<1>13. /\ RulelessRight(rules, field') /\ CacheRight(rules, field', cache')
       /\ \A x \in given : Val(field', x) # "none"
       /\ \A p \in 1..Len(Agenda) : p < pos' => Passed(rules, field', Agenda[p])
       /\ mode' = "throwing" => Faulty(rules) \/ Cyclic(rules, given)
  BY <1>1 DEF ReadInv
<1> QED BY <1>1, <1>11, <1>12, <1>13, ReadKept

\* What holds of fields that are there holds when more are.
LEMMA GrowKeeps ==
    ASSUME NEW F, NEW G,
           \A x \in Nodes \X Fields : Val(F, x) # "none" => Val(G, x) # "none"
    PROVE  /\ \A C : CacheRight(rules, F, C) => CacheRight(rules, G, C)
           /\ \A x \in Nodes \X Kinds : Passed(rules, F, x) => Passed(rules, G, x)
<1>1. ASSUME NEW k \in Key, Known(k[2]) PROVE PlaceOf(k) \in Nodes \X Fields
  BY <1>1, NodeOfCode DEF PlaceOf, Key
<1>2. ASSUME NEW C, CacheRight(rules, F, C) PROVE CacheRight(rules, G, C)
  <2> SUFFICES ASSUME NEW k \in Key, Known(k[2]), C[k] # "none", Val(G, PlaceOf(k)) = "none"
               PROVE  C[k] = "fresh" /\ Ready(rules, G, PlaceOf(k))
    BY DEF CacheRight
  <2>1. Val(F, PlaceOf(k)) = "none"
    BY <1>1
  <2> QED BY <1>2, <2>1 DEF CacheRight, Ready
<1>3. ASSUME NEW x \in Nodes \X Kinds, Passed(rules, F, x) PROVE Passed(rules, G, x)
  <2>1. /\ x \in Nodes \X Fields
        /\ <<x[1], "weighted">> \in Nodes \X Fields
    BY DEF Fields
  <2> QED BY <1>3, <2>1 DEF Passed
<1> QED BY <1>2, <1>3

\* The walk writes the result of a rule, and nothing is left to read it.
LEMMA ReadCleared ==
    ASSUME IInv, WalkInv, ReadInv, FinishProcess \/ UnwindProcess
    PROVE  ReadInv'
<1>1. /\ stack # <<>> /\ Top.op = "process" /\ stack' = <<>>
      /\ UNCHANGED <<rules, given, cache, mode>>
  BY DEF FinishProcess, UnwindProcess
<1>2. \A i \in 1..Len(stack') : FALSE
  BY <1>1
<1>3. mode' = "throwing" => Faulty(rules) \/ Cyclic(rules, given)
  BY <1>1 DEF ReadInv
<1>4. CASE UnwindProcess
  <2>1. UNCHANGED <<field, pos>>
    BY <1>4 DEF UnwindProcess
  <2>2. /\ RulelessRight(rules, field') /\ CacheRight(rules, field', cache')
        /\ \A x \in given : Val(field', x) # "none"
        /\ \A p \in 1..Len(Agenda) : p < pos' => Passed(rules, field', Agenda[p])
    BY <1>1, <2>1 DEF ReadInv
  <2> QED BY <1>1, <1>2, <1>3, <2>2, ReadKept
<1>5. CASE FinishProcess
  <2>1. /\ Top \in Frame /\ FrameOK(Top) /\ pos \in 1..Len(Agenda)
        /\ Len(stack) = 1 /\ Top = stack[1] /\ 1 \in 1..Len(stack)
    BY <1>1, TopFrame DEF Top
  <2> DEFINE n == Top.node
             f == Top.fld
  <2>2. /\ n = Agenda[pos][1] /\ f = Agenda[pos][2] /\ n \in Nodes /\ f \in Kinds
        /\ f \in Fields
    BY <1>1, <2>1, AgendaType DEF WalkInv, Fields
  <2>3. /\ pos' = pos + 1 /\ HasRule(rules, n, f)
        /\ field' = [field EXCEPT ![n] =
                       [g \in Fields |->
                          IF g = f \/ (f = "score" /\ g = "weighted")
                          THEN Result(Top) ELSE @[g]]]
    BY <1>5 DEF FinishProcess, HasRule, RuleAt
  <2>4. field \in [Nodes -> [Fields -> {"none", "stale", "fresh"}]]
        /\ given \subseteq Nodes \X Fields
    BY DEF IInv, TypeOK
  <2> DEFINE Written(x) == x[1] = n /\ (x[2] = f \/ (f = "score" /\ x[2] = "weighted"))
  <2> HIDE DEF n, f
  <2>5. \A x \in Nodes \X Fields :
           Val(field', x) = IF Written(x) THEN Result(Top) ELSE Val(field, x)
    BY <2>2, <2>3, <2>4 DEF Val
  <2>6. \A x \in Nodes \X Fields : Written(x) => HasRule(rules, x[1], x[2])
    BY <2>3 DEF HasRule, RuleOf
  <2> HIDE DEF Written
  <2>7. Result(Top) # "none"
    BY DEF Result
  <2>8. \A x \in Nodes \X Fields : Val(field, x) # "none" => Val(field', x) # "none"
    BY <2>5, <2>7
  <2>9. RulelessRight(rules, field')
    <3> SUFFICES ASSUME NEW m \in Nodes, NEW g \in Fields, ~HasRule(rules, m, g)
                 PROVE  Val(field', <<m, g>>) # "stale"
      BY DEF RulelessRight
    <3>1. Val(field', <<m, g>>) = Val(field, <<m, g>>)
      BY <2>5, <2>6
    <3> QED BY <3>1 DEF ReadInv, RulelessRight
  <2>10. CacheRight(rules, field', cache')
    <3>1. CacheRight(rules, field', cache)
      BY <2>8, GrowKeeps DEF ReadInv
    <3> QED BY <1>1, <3>1
  <2>11. \A x \in given : Val(field', x) # "none"
    BY <2>4, <2>8 DEF ReadInv
  <2>12. ASSUME NEW p \in 1..Len(Agenda), p < pos'
         PROVE  Passed(rules, field', Agenda[p])
    <3>1. Agenda[p] \in Nodes \X Kinds
      BY AgendaLength, ElementOfSeq
    <3>2. CASE p < pos
      <4>1. Passed(rules, field, Agenda[p])
        BY <3>2 DEF ReadInv
      <4> QED BY <2>8, <3>1, <4>1, GrowKeeps
    <3>3. CASE p = pos
      <4>1. Agenda[p][1] = n /\ Agenda[p][2] = f
        BY <2>2, <3>3
      <4>2. Val(field', Agenda[p]) # "none"
        BY <2>2, <2>5, <2>7, <3>1, <4>1 DEF Written, Fields
      <4>3. f = "score" => Val(field', <<n, "weighted">>) # "none"
        BY <2>2, <2>5, <2>7 DEF Written, Fields
      <4> QED BY <4>1, <4>2, <4>3 DEF Passed
    <3> QED BY <2>1, <2>3, <2>12, <3>2, <3>3
  <2> QED BY <1>1, <1>2, <1>3, <2>9, <2>10, <2>11, <2>12, ReadKept
<1> QED BY <1>4, <1>5

\* A helper starts with everything it reads still to be asked for.
LEMMA ReadCompute ==
    ASSUME IInv, ReadInv, CallCompute
    PROVE  ReadInv'
<1> DEFINE c == Wanted[2]
           n == NodeOf(c)
           f == Wanted[1]
           zero == f # "weighted" /\ ~HasRule(rules, n, f)
<1>1. /\ stack # <<>> /\ Top.todo # <<>> /\ Known(c) /\ field[n][f] = "none"
      /\ UNCHANGED <<rules, given, field, cache, pos, mode>>
  BY DEF CallCompute, AbsentField, Calling
<1>2. PICK args \in ArgOrders(f, c) :
         stack' = Append(stack, [op |-> "memo", node |-> n, fld |-> f,
                                 phase |-> IF zero THEN "zero" ELSE "args",
                                 todo |-> IF zero THEN <<>> ELSE args, fresh |-> TRUE])
  BY DEF CallCompute
<1> DEFINE fr == [op |-> "memo", node |-> n, fld |-> f,
                  phase |-> IF zero THEN "zero" ELSE "args",
                  todo |-> IF zero THEN <<>> ELSE args, fresh |-> TRUE]
<1>3. f \in Fields
  BY <1>1, HeadOfTodo
<1>4. /\ \A g \in OwnInputs(f) : \E i \in 1..Len(args) : args[i] = <<g, c>>
      /\ \A i \in 1..Len(args) : \E g \in OwnInputs(f) : args[i] = <<g, c>>
  <2>1. CASE f = "value"
    BY <2>1 DEF OwnInputs, ArgOrders
  <2>2. CASE f = "rating"
    <3>1. args = << <<"value", c>> >> /\ OwnInputs(f) = {"value"}
      BY <2>2 DEF OwnInputs, ArgOrders
    <3>2. Len(args) = 1 /\ args[1] = <<"value", c>>
      BY <3>1
    <3>3. 1 \in 1..Len(args) /\ \A i \in 1..Len(args) : i = 1
      BY <3>2
    <3> HIDE DEF c, f
    <3> QED BY <3>1, <3>2, <3>3
  <2>3. CASE f = "score"
    <3>1. args = << <<"value", c>>, <<"rating", c>> >>
          \/ args = << <<"rating", c>>, <<"value", c>> >>
      BY <2>3 DEF ArgOrders
    <3>2. Len(args) = 2
      BY <3>1
    <3>3. 1 \in 1..Len(args) /\ 2 \in 1..Len(args) /\ \A i \in 1..Len(args) : i = 1 \/ i = 2
      BY <3>2
    <3>4. OwnInputs(f) = {"value", "rating"}
      BY <2>3 DEF OwnInputs
    <3>5. CASE args[1] = <<"value", c>> /\ args[2] = <<"rating", c>>
      <4> HIDE DEF c, f
      <4> QED BY <3>3, <3>4, <3>5
    <3>6. CASE args[1] = <<"rating", c>> /\ args[2] = <<"value", c>>
      <4> HIDE DEF c, f
      <4> QED BY <3>3, <3>4, <3>6
    <3> QED BY <3>1, <3>5, <3>6
  <2>4. CASE f = "weighted"
    <3>1. args = << <<"score", c>> >> /\ OwnInputs(f) = {"score"}
      BY <2>4 DEF OwnInputs, ArgOrders
    <3>2. Len(args) = 1 /\ args[1] = <<"score", c>>
      BY <3>1
    <3>3. 1 \in 1..Len(args) /\ \A i \in 1..Len(args) : i = 1
      BY <3>2
    <3> HIDE DEF c, f
    <3> QED BY <3>1, <3>2, <3>3
  <2> QED BY <1>3, <2>1, <2>2, <2>3, <2>4 DEF Fields, Kinds
<1>5. /\ fr.op = "memo" /\ fr.node = n /\ fr.fld = f /\ fr.fresh = TRUE
      /\ fr.phase = (IF zero THEN "zero" ELSE "args")
      /\ fr.todo = (IF zero THEN <<>> ELSE args)
  OBVIOUS
<1>6. \A i \in 1..Len(args) : args[i][2] = c /\ \E g \in OwnInputs(f) : PlaceOf(args[i]) = <<n, g>>
  BY <1>4 DEF PlaceOf
<1> HIDE DEF fr
<1>7. FrameReads(rules, field, fr)
  <2>1. CASE zero
    <3>1. Reads(rules, fr) = {} /\ fr.todo = <<>>
      BY <1>5, <2>1 DEF Reads
    <3> QED BY <1>5, <3>1 DEF FrameReads
  <2>2. CASE ~zero
    <3>1. Reads(rules, fr) = {<<n, g>> : g \in OwnInputs(f)} /\ fr.todo = args
      BY <1>5, <2>2 DEF Reads
    <3>2. \A i \in 1..Len(fr.todo) : PlaceOf(fr.todo[i]) \in Reads(rules, fr)
      BY <1>6, <3>1
    <3>3. ASSUME NEW g \in OwnInputs(f) PROVE Pending(fr, <<n, g>>)
      <4>1. PICK i \in 1..Len(args) : args[i] = <<g, c>>
        BY <1>4
      <4> QED BY <1>1, <3>1, <4>1 DEF Pending, PlaceOf
    <3> QED BY <1>5, <3>1, <3>2, <3>3 DEF FrameReads
  <2> QED BY <2>1, <2>2
<1>8. FrameAbsent(rules, field, fr)
  BY <1>1, <1>3, <1>5 DEF FrameAbsent, Val, Fields
<1>9. stack \in Seq(Frame) /\ Len(stack) \in Nat \ {0}
  BY <1>1, TopFrame
<1>10. /\ Len(stack') = Len(stack) + 1
       /\ \A i \in 1..Len(stack) : stack'[i] = stack[i]
       /\ stack'[Len(stack) + 1] = fr
  BY <1>2, <1>9 DEF fr
<1>11. \A i \in 1..Len(stack') : i \in 1..Len(stack) \/ i = Len(stack) + 1
  BY <1>9, <1>10
<1> HIDE DEF n, f, c
<1>12. \A i \in 1..Len(stack') :
          FrameReads(rules, field, stack'[i]) /\ FrameAbsent(rules, field, stack'[i])
  BY <1>7, <1>8, <1>10, <1>11 DEF ReadInv
<1>13. /\ RulelessRight(rules, field') /\ CacheRight(rules, field', cache')
       /\ \A x \in given : Val(field', x) # "none"
       /\ \A p \in 1..Len(Agenda) : p < pos' => Passed(rules, field', Agenda[p])
       /\ mode' = "throwing" => Faulty(rules) \/ Cyclic(rules, given)
  BY <1>1 DEF ReadInv
<1> QED BY <1>1, <1>12, <1>13, ReadKept

\* Its arguments are there; what its script asks for is still to be asked for.
LEMMA ReadStartRule ==
    ASSUME IInv, ReadInv, StartRule
    PROVE  ReadInv'
<1>1. /\ stack # <<>> /\ Top.op = "memo" /\ Top.phase = "args" /\ Top.todo = <<>>
      /\ Top.fld # "weighted" /\ UNCHANGED <<rules, given, field, cache, pos, mode>>
  BY DEF StartRule, AtRule
<1>2. /\ stack \in Seq(Frame) /\ Len(stack) \in Nat \ {0} /\ Top \in Frame
      /\ Top = stack[Len(stack)] /\ Len(stack) \in 1..Len(stack)
  BY <1>1, TopFrame DEF Top
<1> DEFINE g == [Top EXCEPT !.phase = "rule", !.todo = RuleAt(Top.node, Top.fld).calls]
<1>3. stack' = [stack EXCEPT ![Len(stack)] = g]
  BY <1>2 DEF StartRule, Frame
<1>4. /\ g.op = Top.op /\ g.node = Top.node /\ g.fld = Top.fld /\ g.fresh = Top.fresh
      /\ g.phase = "rule" /\ g.todo = RuleAt(Top.node, Top.fld).calls
  BY <1>2 DEF Frame
<1> HIDE DEF g
<1>5. /\ Len(stack') = Len(stack)
      /\ \A i \in 1..Len(stack) : stack'[i] = IF i = Len(stack) THEN g ELSE stack[i]
  BY <1>2, <1>3
<1>6. FrameReads(rules, field, Top) /\ FrameAbsent(rules, field, Top)
  BY <1>2 DEF ReadInv
<1>7. Top.fld \in Kinds
  BY <1>1, <1>2 DEF Frame, Fields
<1>8. Reads(rules, g) = Reads(rules, Top) \cup CalledInputs(rules, Top.node, Top.fld)
  BY <1>1, <1>4 DEF Reads
<1>9. CalledInputs(rules, Top.node, Top.fld) =
        {PlaceOf(g.todo[i]) : i \in {j \in 1..Len(g.todo) : Known(g.todo[j][2])}}
  BY <1>1, <1>4 DEF CalledInputs, PlaceOf, RuleAt
<1>10. \A i \in 1..Len(g.todo) : Known(g.todo[i][2]) => PlaceOf(g.todo[i]) \in Reads(rules, g)
  BY <1>8, <1>9
<1>11. ASSUME NEW x \in Reads(rules, g), ~ Pending(g, x)
       PROVE  Ready(rules, field, x) /\ (g.fresh => Val(field, x) # "stale")
  <2>1. x \in Reads(rules, Top)
    BY <1>8, <1>9, <1>11 DEF Pending
  <2>2. ~ Pending(Top, x)
    BY <1>1 DEF Pending
  <2> QED BY <1>4, <1>6, <2>1, <2>2 DEF FrameReads
<1>12. ~g.fresh => \E x \in Reads(rules, g) : Val(field, x) = "stale"
  BY <1>4, <1>6, <1>8 DEF FrameReads
<1>13. FrameReads(rules, field, g)
  BY <1>10, <1>11, <1>12 DEF FrameReads
<1>14. FrameAbsent(rules, field, g)
  BY <1>1, <1>4, <1>6 DEF FrameAbsent
<1>15. \A i \in 1..Len(stack') :
          FrameReads(rules, field, stack'[i]) /\ FrameAbsent(rules, field, stack'[i])
  BY <1>5, <1>13, <1>14 DEF ReadInv
<1>16. /\ RulelessRight(rules, field') /\ CacheRight(rules, field', cache')
       /\ \A x \in given : Val(field', x) # "none"
       /\ \A p \in 1..Len(Agenda) : p < pos' => Passed(rules, field', Agenda[p])
       /\ mode' = "throwing" => Faulty(rules) \/ Cyclic(rules, given)
  BY <1>1 DEF ReadInv
<1> QED BY <1>1, <1>15, <1>16, ReadKept

\* An exception leaves the frames below as they are.
LEMMA ReadUnwindMemo ==
    ASSUME IInv, ReadInv, UnwindMemo
    PROVE  ReadInv'
<1>1. /\ stack # <<>> /\ Top.op = "memo" /\ stack' = Pop(stack)
      /\ UNCHANGED <<rules, given, field, cache, pos, mode>>
  BY DEF UnwindMemo
<1>2. \A i \in 1..Len(stack') :
          FrameReads(rules, field', stack'[i]) /\ FrameAbsent(rules, field', stack'[i])
  BY <1>1, PoppedStack DEF ReadInv
<1>3. /\ RulelessRight(rules, field') /\ CacheRight(rules, field', cache')
      /\ \A x \in given : Val(field', x) # "none"
      /\ \A p \in 1..Len(Agenda) : p < pos' => Passed(rules, field', Agenda[p])
      /\ mode' = "throwing" => Faulty(rules) \/ Cyclic(rules, given)
  BY <1>1 DEF ReadInv
<1> QED BY <1>1, <1>2, <1>3, ReadKept

\* What a helper does to the fields: one that was absent gets a result that
\* answers the call, and nothing else changes.
LEMMA FinishedField ==
    ASSUME IInv, ReadInv, FinishMemo
    PROVE  LET y == <<Top.node, Top.fld>>
           IN  /\ y \in Nodes \X Fields /\ PlaceOf(KeyOf(Top)) = y
               /\ Known(CodeOf[Top.node]) /\ Val(field, y) = "none"
               /\ \A x \in Nodes \X Fields : x # y => Val(field', x) = Val(field, x)
               /\ Val(field', y) = IF Top.phase = "zero" THEN "none" ELSE Result(Top)
               /\ AnswerRight(rules, field', KeyOf(Top), Top.fresh)
               /\ RulelessRight(rules, field')
<1> DEFINE y == <<Top.node, Top.fld>>
<1>1. /\ stack # <<>> /\ Top.op = "memo" /\ Top.todo = <<>>
      /\ UNCHANGED rules
      /\ field' = IF Top.phase = "zero" THEN field
                  ELSE [field EXCEPT ![Top.node][Top.fld] = Result(Top)]
  BY DEF FinishMemo
<1>2. /\ Top \in Frame /\ FrameOK(Top) /\ Top = stack[Len(stack)]
      /\ Len(stack) \in 1..Len(stack)
      /\ Top.fresh \in BOOLEAN /\ Top.node \in Nodes /\ Top.fld \in Fields
  BY <1>1, TopFrame DEF Top, Frame
<1>3. FrameReads(rules, field, Top) /\ FrameAbsent(rules, field, Top)
  BY <1>2 DEF ReadInv
<1>4. /\ Known(CodeOf[Top.node]) /\ PlaceOf(KeyOf(Top)) = y /\ KeyOf(Top)[2] = CodeOf[Top.node]
  BY <1>1, <1>2 DEF FrameOK, PlaceOf, KeyOf
<1>5. /\ Val(field, y) = "none"
      /\ Top.phase = "zero" => Top.fld \in Kinds /\ ~HasRule(rules, Top.node, Top.fld) /\ Top.fresh
      /\ Top.phase # "zero" => Top.fld = "weighted" \/ HasRule(rules, Top.node, Top.fld)
  BY <1>1, <1>3 DEF FrameAbsent
<1>6. field \in [Nodes -> [Fields -> {"none", "stale", "fresh"}]]
  BY DEF IInv, TypeOK
<1>7. \A x \in Nodes \X Fields : x # y => Val(field', x) = Val(field, x)
  <2> SUFFICES ASSUME NEW m \in Nodes, NEW g \in Fields, <<m, g>> # y
               PROVE  field'[m][g] = field[m][g]
    BY DEF Val
  <2>1. m # Top.node \/ g # Top.fld
    OBVIOUS
  <2> QED BY <1>1, <1>2, <1>6, <2>1
<1>8. Val(field', y) = IF Top.phase = "zero" THEN "none" ELSE Result(Top)
  <2>1. CASE Top.phase = "zero"
    BY <1>1, <1>5, <2>1
  <2>2. CASE Top.phase # "zero"
    <3>1. field'[Top.node][Top.fld] = Result(Top)
      BY <1>1, <1>2, <1>6, <2>2
    <3> QED BY <2>2, <3>1 DEF Val
  <2> QED BY <2>1, <2>2
<1>9. y \in Nodes \X Fields /\ y[1] = Top.node /\ y[2] = Top.fld
  BY <1>2
<1> HIDE DEF y
<1>10. AnswerRight(rules, field', KeyOf(Top), Top.fresh)
  <2>1. CASE Top.phase = "zero"
    <3>1. Ready(rules, field', y) /\ Val(field', y) = "none" /\ Top.fresh
      BY <1>5, <1>8, <1>9, <2>1 DEF Ready
    <3> QED BY <1>4, <3>1 DEF AnswerRight
  <2>2. CASE Top.phase # "zero"
    <3>1. Val(field', y) = Result(Top)
      BY <1>8, <2>2
    <3>2. Result(Top) # "none" /\ (Top.fresh <=> Result(Top) # "stale")
      BY <1>2 DEF Result
    <3>3. Ready(rules, field', y)
      BY <3>1, <3>2 DEF Ready
    <3> QED BY <1>4, <3>1, <3>2, <3>3 DEF AnswerRight
  <2> QED BY <2>1, <2>2
<1>11. RulelessRight(rules, field')
  <2> SUFFICES ASSUME NEW m \in Nodes, NEW g \in Fields, ~HasRule(rules, m, g),
                      Val(field', <<m, g>>) = "stale"
               PROVE  FALSE
    BY DEF RulelessRight
  <2>1. Val(field, <<m, g>>) # "stale"
    BY DEF ReadInv, RulelessRight
  <2>2. <<m, g>> = y
    BY <1>7, <2>1
  <2>3. Top.phase # "zero" /\ Result(Top) = "stale"
    BY <1>8, <2>2
  <2>4. m = Top.node /\ g = Top.fld
    BY <1>9, <2>2
  <2>5. Top.fld = "weighted" /\ ~Top.fresh
    BY <1>2, <1>5, <2>3, <2>4 DEF Result
  <2>6. PICK x \in Reads(rules, Top) : Val(field, x) = "stale"
    BY <1>3, <2>5 DEF FrameReads
  <2>7. Top.phase # "rule"
    BY <1>2, <2>5 DEF FrameOK, Kinds
  <2>8. x = <<m, "score">>
    BY <2>3, <2>4, <2>5, <2>6, <2>7 DEF Reads, OwnInputs
  <2>9. ~HasRule(rules, m, "score")
    BY <2>4, <2>5 DEF HasRule, RuleOf
  <2>10. "score" \in Fields
    BY DEF Fields, Kinds
  <2> QED BY <2>6, <2>8, <2>9, <2>10 DEF ReadInv, RulelessRight
<1> QED BY <1>4, <1>5, <1>7, <1>8, <1>9, <1>10, <1>11 DEF y

\* A helper leaves its result, and its caller reads that.
LEMMA ReadFinishMemo ==
    ASSUME IInv, ReadInv, FinishMemo
    PROVE  ReadInv'
<1> DEFINE y == <<Top.node, Top.fld>>
           s == Pop(stack)
<1>1. /\ stack # <<>> /\ Top.op = "memo" /\ mode = "running"
      /\ UNCHANGED <<rules, given, pos, mode>>
      /\ cache' = [cache EXCEPT ![KeyOf(Top)] = Result(Top)]
      /\ stack' = Answered(s, Top.fresh)
  BY DEF FinishMemo
<1>2. /\ Top \in Frame /\ Top = stack[Len(stack)] /\ Len(stack) \in Nat \ {0}
      /\ Len(stack) # 1
      /\ Len(stack) \in 1..Len(stack) /\ Top.fresh \in BOOLEAN /\ KeyOf(Top) \in Key
  BY <1>1, TopFrame DEF Top, Frame
<1>3. /\ y \in Nodes \X Fields /\ PlaceOf(KeyOf(Top)) = y
      /\ Val(field, y) = "none" /\ KeyOf(Top)[2] = CodeOf[Top.node] /\ Known(CodeOf[Top.node])
      /\ \A x \in Nodes \X Fields : x # y => Val(field', x) = Val(field, x)
      /\ Val(field', y) = IF Top.phase = "zero" THEN "none" ELSE Result(Top)
      /\ AnswerRight(rules, field', KeyOf(Top), Top.fresh)
      /\ RulelessRight(rules, field')
  BY FinishedField DEF KeyOf
<1>4. /\ s \in Seq(Frame) /\ s # <<>> /\ s[Len(s)].todo # <<>>
      /\ Len(s) = Len(stack) - 1
      /\ \A i \in 1..Len(s) : s[i] = stack[i]
      /\ \A i \in 1..Len(s) : i \in 1..Len(stack)
  BY <1>1, PoppedStack
<1>5. Head(s[Len(s)].todo) = KeyOf(Top)
  BY <1>1, PopKeepsShape DEF IInv, CallInv, TypeOK, Top
<1>6. TypeOK /\ CallInv
  BY DEF IInv
<1> HIDE DEF y, s
<1>7. \A x \in Nodes \X Fields : Val(field, x) # "none" => Val(field', x) = Val(field, x)
  BY <1>3
<1>8. ASSUME NEW i \in 1..Len(s)
      PROVE  FrameReads(rules, field', s[i]) /\ FrameAbsent(rules, field', s[i])
  <2>1. /\ s[i] \in Frame /\ FrameOK(s[i])
        /\ FrameReads(rules, field, s[i]) /\ FrameAbsent(rules, field, s[i])
    <3>1. s[i] \in Frame
      BY <1>4, ElementOfSeq
    <3> QED BY <1>4, <1>6, <3>1 DEF ReadInv, CallInv, StackOK
  <2>2. Reads(rules, s[i]) \subseteq Nodes \X Fields
    <3>1. s[i].phase = "rule" => s[i].fld \in Kinds
      BY <2>1 DEF FrameOK
    <3> QED BY <1>6, <2>1, <3>1, ReadsType
  <2>3. FrameReads(rules, field', s[i])
    BY <1>3, <1>7, <2>1, <2>2, ReadsGrow
  <2>4. s[i].op = "memo" => <<s[i].node, s[i].fld>> # y
    <3> SUFFICES ASSUME s[i].op = "memo", <<s[i].node, s[i].fld>> = y
                 PROVE  FALSE
      OBVIOUS
    <3>1. KeyOf(s[i]) = KeyOf(Top)
      BY DEF y, KeyOf
    <3>2. i # 1
      BY <1>4, <1>6 DEF CallInv, StackOK
    <3>3. Len(depStack) = Len(stack) - 1 /\ \A j \in 1..Len(depStack) : depStack[j] = KeyOf(stack[j + 1])
      BY <1>1, <1>6 DEF CallInv, Tracks
    <3>4. /\ i - 1 \in 1..Len(depStack) /\ (i - 1) + 1 = i
          /\ Len(stack) - 1 \in 1..Len(depStack) /\ (Len(stack) - 1) + 1 = Len(stack)
          /\ i - 1 # Len(stack) - 1
      BY <1>2, <1>4, <3>2, <3>3
    <3>5. depStack[i - 1] = depStack[Len(stack) - 1]
      BY <1>2, <1>4, <3>1, <3>3, <3>4
    <3> QED BY <1>6, <3>4, <3>5 DEF CallInv, Tracks
  <2>5. <<s[i].node, s[i].fld>> \in Nodes \X Fields
    BY <2>1 DEF Frame
  <2>6. FrameAbsent(rules, field', s[i])
    BY <1>3, <2>1, <2>4, <2>5 DEF FrameAbsent
  <2> QED BY <2>3, <2>6
<1>9. AnswerRight(rules, field', Head(s[Len(s)].todo), Top.fresh)
  BY <1>3, <1>5
<1>10. \A i \in 1..Len(stack') :
          FrameReads(rules, field', stack'[i]) /\ FrameAbsent(rules, field', stack'[i])
  BY <1>1, <1>2, <1>4, <1>8, <1>9, AnsweredReads
<1>11. \A x \in Nodes \X Fields : Val(field, x) # "none" => Val(field', x) # "none"
  BY <1>7
<1>12. CacheRight(rules, field', cache')
  <2>1. CacheRight(rules, field', cache)
    BY <1>11, GrowKeeps DEF ReadInv
  <2>2. cache \in [Key -> {"none", "stale", "fresh"}]
    BY <1>6 DEF TypeOK
  <2> SUFFICES ASSUME NEW k \in Key, Known(k[2]), cache'[k] # "none",
                      Val(field', PlaceOf(k)) = "none"
               PROVE  cache'[k] = "fresh" /\ Ready(rules, field', PlaceOf(k))
    BY DEF CacheRight
  <2>3. CASE k # KeyOf(Top)
    BY <1>1, <2>1, <2>2, <2>3 DEF CacheRight
  <2>4. CASE k = KeyOf(Top)
    <3>1. cache'[k] = Result(Top) /\ PlaceOf(k) = y
      BY <1>1, <1>2, <1>3, <2>2, <2>4
    <3>2. Ready(rules, field', y) /\ (Top.fresh <=> Val(field', y) # "stale")
      BY <1>3 DEF AnswerRight
    <3>3. Top.fresh
      BY <3>1, <3>2
    <3> QED BY <3>1, <3>2, <3>3 DEF Result
  <2> QED BY <2>3, <2>4
<1>13. \A x \in given : Val(field', x) # "none"
  BY <1>6, <1>11 DEF ReadInv, TypeOK
<1>14. \A p \in 1..Len(Agenda) : p < pos' => Passed(rules, field', Agenda[p])
  <2> SUFFICES ASSUME NEW p \in 1..Len(Agenda), p < pos
               PROVE  Passed(rules, field', Agenda[p])
    BY <1>1
  <2>1. Agenda[p] \in Nodes \X Kinds
    BY AgendaLength, ElementOfSeq
  <2>2. Passed(rules, field, Agenda[p])
    BY DEF ReadInv
  <2> QED BY <1>11, <2>1, <2>2, GrowKeeps
<1>15. mode' = "throwing" => Faulty(rules) \/ Cyclic(rules, given)
  BY <1>1
<1> QED BY <1>1, <1>3, <1>10, <1>12, <1>13, <1>14, <1>15, ReadKept

\* Every step keeps what has been read true.
LEMMA ReadStep ==
    ASSUME IInv, WalkInv, ReadInv, [Next]_vars
    PROVE  ReadInv'
<1>1. CASE UNCHANGED vars
  <2>1. UNCHANGED <<rules, given, field, cache, stack, pos, mode>>
    BY <1>1 DEF vars
  <2>2. /\ \A i \in 1..Len(stack') :
              FrameReads(rules, field', stack'[i]) /\ FrameAbsent(rules, field', stack'[i])
        /\ RulelessRight(rules, field') /\ CacheRight(rules, field', cache')
        /\ \A x \in given : Val(field', x) # "none"
        /\ \A p \in 1..Len(Agenda) : p < pos' => Passed(rules, field', Agenda[p])
        /\ mode' = "throwing" => Faulty(rules) \/ Cyclic(rules, given)
    BY <2>1 DEF ReadInv
  <2> QED BY <2>1, <2>2, ReadKept
<1>2. CASE Next
  BY <1>2, ReadQuiet, ReadAnswer, ReadProcessRule, ReadCleared, ReadCompute,
     ReadStartRule, ReadFinishMemo, ReadUnwindMemo DEF Next, Evaluate
<1> QED BY <1>1, <1>2

-----------------------------------------------------------------------------
(* Every step is one of evaluation in dependency order, or none.            *)

\* A frame that has read all it reads has the result its inputs define now.
LEMMA ReadIsComputed ==
    ASSUME IInv, ReadInv, stack # <<>>, Top.todo = <<>>,
           Top.phase = "rule" \/ (Top.phase = "args" /\ Top.fld = "weighted")
    PROVE  /\ \A x \in DepOrder!Inputs(rules, Top.node, Top.fld) : DepOrder!Available(x)
           /\ DepOrder!Computed(Top.node, Top.fld) = Result(Top)
<1> DEFINE I == Inputs(rules, Top.node, Top.fld)
<1>1. /\ Top \in Frame /\ FrameOK(Top) /\ Top = stack[Len(stack)]
      /\ Len(stack) \in 1..Len(stack) /\ Top.fresh \in BOOLEAN
  BY TopFrame DEF Top, Frame
<1>2. FrameReads(rules, field, Top)
  BY <1>1 DEF ReadInv
<1>3. Reads(rules, Top) = I
  <2>1. Top.fld = "weighted" => CalledInputs(rules, Top.node, Top.fld) = {}
    BY DEF CalledInputs
  <2> QED BY <2>1 DEF Reads, Inputs
<1>4. Reads(rules, Top) \subseteq Nodes \X Fields
  <2>1. TypeOK /\ (Top.phase = "rule" => Top.fld \in Kinds)
    BY <1>1 DEF IInv, FrameOK
  <2> QED BY <1>1, <2>1, ReadsType
<1>5. \A x : ~ Pending(Top, x)
  BY DEF Pending
<1>6. field \in [Nodes -> [Fields -> {"none", "stale", "fresh"}]]
  BY DEF IInv, TypeOK
<1>7. DepOrder!Inputs(rules, Top.node, Top.fld) = I
  BY SameRules
<1> HIDE DEF I
<1>8. ASSUME NEW x \in I
      PROVE  /\ DepOrder!Available(x)
             /\ DepOrder!Fresh(x) <=> Val(field, x) # "stale"
             /\ Top.fresh => Val(field, x) # "stale"
  <2>1. Ready(rules, field, x) /\ (Top.fresh => Val(field, x) # "stale")
    BY <1>2, <1>3, <1>5 DEF FrameReads
  <2>2. x[1] \in Nodes /\ x[2] \in Fields
    BY <1>3, <1>4
  <2>3. Val(field, x) \in {"none", "stale", "fresh"}
    BY <1>6, <2>2 DEF Val
  <2>4. DepOrder!Available(x)
    BY <2>1, SameRules DEF DepOrder!Available, Ready, Val
  <2>5. DepOrder!Fresh(x) <=> Val(field, x) # "stale"
    BY <2>3 DEF DepOrder!Fresh, Val
  <2> QED BY <2>1, <2>4, <2>5
<1>9. Top.fresh <=> \A x \in I : DepOrder!Fresh(x)
  <2>1. ~Top.fresh => \E x \in I : Val(field, x) = "stale"
    BY <1>2, <1>3 DEF FrameReads
  <2> QED BY <1>8, <2>1
<1>10. DepOrder!Computed(Top.node, Top.fld) = Result(Top)
  BY <1>7, <1>9 DEF DepOrder!Computed, Result
<1> QED BY <1>7, <1>8, <1>10

\* The walk's own result.
LEMMA RefineFinishProcess ==
    ASSUME IInv, ReadInv, FinishProcess
    PROVE  DepOrder!Next
<1> DEFINE n == Top.node
           f == Top.fld
           r == Result(Top)
<1>1. /\ stack # <<>> /\ Top.op = "process" /\ Top.todo = <<>> /\ mode = "running"
      /\ RuleAt(n, f).ends = "returns" /\ UNCHANGED <<rules, given, mode>>
      /\ field' = [field EXCEPT ![n] = [g \in Fields |->
                      IF g = f \/ (f = "score" /\ g = "weighted") THEN r ELSE @[g]]]
  BY DEF FinishProcess
<1>2. Top \in Frame /\ FrameOK(Top)
  BY <1>1, TopFrame
<1>3. n \in Nodes /\ f \in Kinds /\ f \in Fields /\ Top.phase = "rule"
  BY <1>1, <1>2 DEF Frame, FrameOK
<1>4. /\ \A x \in DepOrder!Inputs(rules, n, f) : DepOrder!Available(x)
      /\ DepOrder!Computed(n, f) = r
  BY <1>1, <1>3, ReadIsComputed
<1>5. DepOrder!RuleOf(rules, n, f).ends = "returns"
  BY <1>1, SameRules DEF RuleAt
<1>6. field \in [Nodes -> [Fields -> {"none", "stale", "fresh"}]]
  BY DEF IInv, TypeOK
<1> HIDE DEF n, f, r
<1>7. \/ field' = [field EXCEPT ![n][f] = r]
      \/ f = "score" /\ field' = [field EXCEPT ![n][f] = r, ![n]["weighted"] = r]
  <2>1. CASE f # "score"
    <3>1. [g \in Fields |-> IF g = f THEN r ELSE field[n][g]] = [field[n] EXCEPT ![f] = r]
      BY <1>3, <1>6
    <3> QED BY <1>1, <1>3, <1>6, <2>1, <3>1
  <2>2. CASE f = "score"
    <3>1. [g \in Fields |-> IF g = f \/ g = "weighted" THEN r ELSE field[n][g]]
            = [field[n] EXCEPT ![f] = r, !["weighted"] = r]
      BY <1>3, <1>6, <2>2
    <3>2. field' = [field EXCEPT ![n] = [field[n] EXCEPT ![f] = r, !["weighted"] = r]]
      BY <1>1, <1>3, <1>6, <2>2, <3>1
    <3>3. [field EXCEPT ![n][f] = r, ![n]["weighted"] = r]
            = [field EXCEPT ![n] = [field[n] EXCEPT ![f] = r, !["weighted"] = r]]
      BY <1>3, <1>6
    <3> QED BY <2>2, <3>2, <3>3
  <2> QED BY <2>1, <2>2
<1>8. DepOrder!Compute(n, f)
  BY <1>1, <1>4, <1>5, <1>7 DEF DepOrder!Compute
<1> QED BY <1>3, <1>8, SameFields DEF DepOrder!Next

\* A helper's result; without a rule it leaves none.
LEMMA RefineFinishMemo ==
    ASSUME IInv, ReadInv, FinishMemo
    PROVE  DepOrder!Next \/ UNCHANGED DepOrder!vars
<1> DEFINE n == Top.node
           f == Top.fld
<1>1. /\ stack # <<>> /\ Top.op = "memo" /\ Top.todo = <<>> /\ mode = "running"
      /\ UNCHANGED <<rules, given, mode>>
      /\ field' = IF Top.phase = "zero" THEN field
                  ELSE [field EXCEPT ![n][f] = Result(Top)]
      /\ \/ Top.phase = "zero" \/ f = "weighted"
         \/ Top.phase = "rule" /\ RuleAt(n, f).ends = "returns"
  BY DEF FinishMemo
<1>2. Top \in Frame /\ FrameOK(Top)
  BY <1>1, TopFrame
<1>3. n \in Nodes /\ f \in Fields /\ Top.phase \in {"args", "rule", "zero"}
  BY <1>2 DEF Frame
<1>4. CASE Top.phase = "zero"
  BY <1>1, <1>4 DEF DepOrder!vars
<1>5. CASE Top.phase # "zero" /\ f = "weighted"
  <2>1. Top.phase = "args"
    BY <1>2, <1>3, <1>5 DEF FrameOK, Kinds
  <2>2. /\ \A x \in DepOrder!Inputs(rules, n, f) : DepOrder!Available(x)
        /\ DepOrder!Computed(n, f) = Result(Top)
    BY <1>1, <1>5, <2>1, ReadIsComputed
  <2>3. <<n, "score">> \in DepOrder!Inputs(rules, n, f)
    BY <1>5, SameRules DEF Inputs, OwnInputs
  <2>4. DepOrder!Available(<<n, "score">>)
    BY <2>2, <2>3
  <2>5. DepOrder!ComputeWeighted(n)
    BY <1>1, <1>5, <2>2, <2>4 DEF DepOrder!ComputeWeighted
  <2> QED BY <1>3, <2>5 DEF DepOrder!Next
<1>6. CASE Top.phase # "zero" /\ f # "weighted"
  <2>1. Top.phase = "rule" /\ RuleAt(n, f).ends = "returns" /\ f \in Kinds
    BY <1>1, <1>3, <1>6 DEF Fields
  <2>2. /\ \A x \in DepOrder!Inputs(rules, n, f) : DepOrder!Available(x)
        /\ DepOrder!Computed(n, f) = Result(Top)
    BY <1>1, <2>1, ReadIsComputed
  <2>3. DepOrder!RuleOf(rules, n, f).ends = "returns"
    BY <2>1, SameRules DEF RuleAt
  <2>4. field' = [field EXCEPT ![n][f] = Result(Top)]
    BY <1>1, <1>6
  <2> HIDE DEF n, f
  <2>5. DepOrder!Compute(n, f)
    BY <1>1, <2>2, <2>3, <2>4 DEF DepOrder!Compute
  <2> QED BY <1>3, <2>1, <2>5, SameFields DEF DepOrder!Next
<1> QED BY <1>4, <1>5, <1>6

\* The end of an evaluation, and a new one.
LEMMA RefineEnds ==
    ASSUME IInv, ReadInv, Finish \/ Fail \/ EvaluateAgain
    PROVE  DepOrder!Next
<1>1. CASE Finish
  <2>1. pos > Len(Agenda) /\ mode = "running" /\ mode' = "done" /\ UNCHANGED <<rules, given, field>>
    BY <1>1 DEF Finish
  <2>2. ASSUME NEW n \in Nodes, NEW k \in Kinds PROVE Passed(rules, field, <<n, k>>)
    <3>1. PICK p \in 1..Len(Agenda) : Agenda[p] = <<n, k>>
      BY AgendaComplete
    <3>2. p < pos
      BY <2>1, <3>1, AgendaType DEF IInv, TypeOK
    <3> QED BY <3>1, <3>2 DEF ReadInv
  <2>3. ASSUME NEW n \in Nodes, NEW f \in Fields PROVE DepOrder!Available(<<n, f>>)
    <3>1. CASE f \in Kinds
      <4>1. Passed(rules, field, <<n, f>>)
        BY <2>2, <3>1
      <4> QED BY <4>1, SameRules DEF Passed, DepOrder!Available, Val
    <3>2. CASE f = "weighted"
      <4>1. Passed(rules, field, <<n, "score">>)
        BY <2>2 DEF Kinds
      <4>2. HasRule(rules, n, "weighted") <=> HasRule(rules, n, "score")
        BY DEF HasRule, RuleOf
      <4> QED BY <3>2, <4>1, <4>2, SameRules DEF Passed, DepOrder!Available, Val
    <3> QED BY <3>1, <3>2 DEF Fields
  <2>4. DepOrder!Finish
    BY <2>1, <2>3, SameFields DEF DepOrder!Finish
  <2> QED BY <2>4 DEF DepOrder!Next
<1>2. CASE Fail
  <2>1. mode = "throwing" /\ mode' = "failed" /\ UNCHANGED <<rules, given, field>>
    BY <1>2 DEF Fail
  <2>2. DepOrder!Faulty(rules) \/ DepOrder!Cyclic(rules, given)
    BY <2>1, SameFaults DEF ReadInv
  <2>3. DepOrder!Fail
    BY <2>1, <2>2 DEF DepOrder!Fail
  <2> QED BY <2>3 DEF DepOrder!Next
<1>3. CASE EvaluateAgain
  <2>1. mode \in {"done", "failed"} /\ mode' = "running" /\ UNCHANGED <<rules, given, field>>
    BY <1>3 DEF EvaluateAgain
  <2>2. DepOrder!EvaluateAgain
    BY <2>1 DEF DepOrder!EvaluateAgain
  <2> QED BY <2>2 DEF DepOrder!Next
<1> QED BY <1>1, <1>2, <1>3

\* Every step of the evaluator is one of DependencyOrder or changes nothing it sees.
LEMMA RefineStep ==
    ASSUME IInv, ReadInv, [Next]_vars
    PROVE  [DepOrder!Next]_(DepOrder!vars)
<1>1. CASE UNCHANGED vars
  BY <1>1 DEF vars, DepOrder!vars
<1>2. CASE FinishProcess \/ FinishMemo \/ Finish \/ Fail \/ EvaluateAgain
  BY <1>2, RefineFinishProcess, RefineFinishMemo, RefineEnds
<1>3. CASE \/ ProcessSkip \/ ProcessMalformed \/ ProcessRule
           \/ CallUnknown \/ CallPresent \/ CallCached \/ CallCycle \/ CallCompute
           \/ StartMalformed \/ StartRule \/ RuleThrows
  <2>1. mode = "running" /\ mode' \in {"running", "throwing"} /\ UNCHANGED <<rules, given, field>>
    BY <1>3 DEF ProcessSkip, ProcessMalformed, ProcessRule, CallUnknown, CallPresent,
       CallCached, CallCycle, CallCompute, StartMalformed, StartRule, RuleThrows,
       AtAgenda, AbsentField, Calling, AtRule
  <2> QED BY <2>1 DEF DepOrder!vars
<1>4. CASE UnwindMemo \/ UnwindProcess
  <2>1. UNCHANGED <<rules, given, field, mode>>
    BY <1>4 DEF UnwindMemo, UnwindProcess
  <2> QED BY <2>1 DEF DepOrder!vars
<1> QED BY <1>1, <1>2, <1>3, <1>4 DEF Next, Evaluate

(***************************************************************************)
(* The evaluator implements evaluation in dependency order: a computed      *)
(* field appears or is replaced only by the result its rule has for the     *)
(* inputs that are there, all of them; an evaluation succeeds only when     *)
(* every rule has its result and fails only for a faulty script or a cycle. *)
(***************************************************************************)
THEOREM EvaluatesInDependencyOrder == Spec => ImplementsDependencyOrder
<1>1. Init => ReadInv
  BY ReadInit
<1>2. SoundEvaluation /\ ReadInv /\ [Next]_vars => ReadInv'
  BY ReadStep DEF SoundEvaluation
<1>3. Init => DepOrder!Init
  BY RefineInit
<1>4. SoundEvaluation /\ ReadInv /\ [Next]_vars => [DepOrder!Next]_(DepOrder!vars)
  BY RefineStep DEF SoundEvaluation
<1> QED BY <1>1, <1>2, <1>3, <1>4, SoundEvaluationAlways, PTL
        DEF Spec, ImplementsDependencyOrder, DepOrder!Spec

-----------------------------------------------------------------------------
(* No cycle is missed: in dependency order none of the fields of a knot can *)
(* be the first to get a result.                                            *)

KnotInv ==
    \A S \in SUBSET (Nodes \X Fields) :
        Knot(rules, given, S) => \A x \in S : Val(field, x) = "none"

\* Nobody gave the fields of a knot.
LEMMA KnotInit == ASSUME Init PROVE KnotInv
<1> SUFFICES ASSUME NEW S \in SUBSET (Nodes \X Fields), Knot(rules, given, S), NEW x \in S
             PROVE  Val(field, x) = "none"
  BY DEF KnotInv
<1>1. x[1] \in Nodes /\ x[2] \in Fields /\ <<x[1], x[2]>> \notin given
  BY DEF Knot
<1> QED BY <1>1 DEF Init, Val

\* Every field of a knot has a rule and lacks an input.
LEMMA KnotLacks ==
    ASSUME NEW S \in SUBSET (Nodes \X Fields), Knot(rules, given, S),
           \A x \in S : Val(field, x) = "none", NEW n, NEW f, <<n, f>> \in S
    PROVE  /\ \E x \in DepOrder!Inputs(rules, n, f) : ~DepOrder!Available(x)
           /\ f = "weighted" => <<n, "score">> \in S
<1> DEFINE y == <<n, f>>
<1>1. y[1] = n /\ y[2] = f /\ Inputs(rules, y[1], y[2]) \cap S # {}
  BY DEF Knot
<1>2. PICK x \in S : x \in Inputs(rules, n, f)
  BY <1>1
<1>3. HasRule(rules, x[1], x[2]) /\ Val(field, x) = "none"
  BY DEF Knot
<1>4. ~DepOrder!Available(x) /\ x \in DepOrder!Inputs(rules, n, f)
  BY <1>2, <1>3, SameRules DEF DepOrder!Available, Val
<1>5. f = "weighted" => x = <<n, "score">>
  BY <1>2 DEF Inputs, OwnInputs, CalledInputs
<1> QED BY <1>4, <1>5

\* No step in dependency order gives a field of a knot a result.
LEMMA KnotStep ==
    ASSUME IInv, KnotInv, [DepOrder!Next]_(DepOrder!vars)
    PROVE  KnotInv'
<1>1. UNCHANGED <<rules, given>>
  BY DEF DepOrder!Next, DepOrder!vars, DepOrder!Compute, DepOrder!ComputeWeighted,
     DepOrder!Finish, DepOrder!Fail, DepOrder!EvaluateAgain
<1> SUFFICES ASSUME NEW S \in SUBSET (Nodes \X Fields), Knot(rules, given, S), NEW x \in S
             PROVE  Val(field', x) = "none"
  BY <1>1 DEF KnotInv, Val
<1>2. \A y \in S : Val(field, y) = "none"
  BY DEF KnotInv
<1>3. field \in [Nodes -> [Fields -> {"none", "stale", "fresh"}]]
  BY DEF IInv, TypeOK
<1>4. x[1] \in Nodes /\ x[2] \in Fields /\ x = <<x[1], x[2]>>
  OBVIOUS
<1>5. CASE \E n \in Nodes, f \in Kinds : DepOrder!Compute(n, f)
  <2>1. PICK n \in Nodes, f \in Kinds : DepOrder!Compute(n, f)
    BY <1>5
  <2>2. <<n, f>> \notin S
    BY <1>2, <2>1, KnotLacks DEF DepOrder!Compute
  <2>3. f = "score" => <<n, "weighted">> \notin S
    BY <1>2, <2>2, KnotLacks
  <2>4. \A g \in Fields, m \in Nodes :
           (m # n \/ (g # f /\ ~(f = "score" /\ g = "weighted"))) => field'[m][g] = field[m][g]
    BY <1>3, <2>1 DEF DepOrder!Compute
  <2> QED BY <1>2, <1>4, <2>2, <2>3, <2>4 DEF Val
<1>6. CASE \E n \in Nodes : DepOrder!ComputeWeighted(n)
  <2>1. PICK n \in Nodes : DepOrder!ComputeWeighted(n)
    BY <1>6
  <2>2. <<n, "weighted">> \notin S
    <3> SUFFICES ASSUME <<n, "weighted">> \in S PROVE FALSE
      OBVIOUS
    <3>1. <<n, "score">> \in S
      BY <1>2, KnotLacks
    <3>2. DepOrder!Available(<<n, "score">>)
      BY <2>1 DEF DepOrder!ComputeWeighted
    <3> DEFINE y == <<n, "score">>
    <3>3. y[1] = n /\ y[2] = "score" /\ HasRule(rules, y[1], y[2]) /\ Val(field, y) = "none"
      BY <1>2, <3>1 DEF Knot
    <3> QED BY <3>2, <3>3, SameRules DEF DepOrder!Available, Val
  <2>3. \A g \in Fields, m \in Nodes :
           (m # n \/ g # "weighted") => field'[m][g] = field[m][g]
    BY <1>3, <2>1 DEF DepOrder!ComputeWeighted
  <2> QED BY <1>2, <1>4, <2>2, <2>3 DEF Val
<1>7. CASE DepOrder!Finish \/ DepOrder!Fail \/ DepOrder!EvaluateAgain \/ UNCHANGED DepOrder!vars
  <2>1. field' = field
    BY <1>7 DEF DepOrder!Finish, DepOrder!Fail, DepOrder!EvaluateAgain, DepOrder!vars
  <2> QED BY <1>2, <2>1
<1> QED BY <1>5, <1>6, <1>7, SameFields DEF DepOrder!Next

\* Behind the last rule every field that has one is there.
LEMMA DoneWithoutKnot ==
    ASSUME IInv, ReadInv, KnotInv, DoneAtEnd
    PROVE  CyclesNeverSucceed
<1> SUFFICES ASSUME mode = "done", Cyclic(rules, given) PROVE FALSE
  BY DEF CyclesNeverSucceed
<1>1. PICK S \in SUBSET (Nodes \X Fields) : Knot(rules, given, S)
  BY DEF Cyclic
<1>2. \A x \in S : Val(field, x) = "none" /\ HasRule(rules, x[1], x[2])
  BY <1>1 DEF KnotInv, Knot
<1>3. ASSUME NEW n \in Nodes, NEW k \in Kinds PROVE Passed(rules, field, <<n, k>>)
  <2>1. PICK p \in 1..Len(Agenda) : Agenda[p] = <<n, k>>
    BY AgendaComplete
  <2>2. p < pos
    BY <2>1, AgendaType DEF DoneAtEnd, IInv, TypeOK
  <2> QED BY <2>1, <2>2 DEF ReadInv
<1>4. PICK n \in Nodes, f \in Fields : <<n, f>> \in S
  BY <1>1 DEF Knot
<1> DEFINE x == <<n, f>>
<1>5. x[1] = n /\ x[2] = f /\ Val(field, x) = "none" /\ HasRule(rules, x[1], x[2])
  BY <1>2, <1>4
<1>6. CASE f \in Kinds
  BY <1>3, <1>5, <1>6 DEF Passed
<1>7. CASE f = "weighted"
  <2>1. HasRule(rules, n, "score")
    BY <1>5, <1>7 DEF HasRule, RuleOf
  <2>2. Passed(rules, field, <<n, "score">>)
    BY <1>3 DEF Kinds
  <2> QED BY <1>5, <1>7, <2>1, <2>2 DEF Passed
<1> QED BY <1>6, <1>7 DEF Fields

(***************************************************************************)
(* A tree whose rules depend on each other in a circle is never evaluated   *)
(* with success, for every tree, rule table and input file.                 *)
(***************************************************************************)
THEOREM CyclesAreNeverMissed == Spec => []CyclesNeverSucceed
<1>1. Init => ReadInv /\ KnotInv
  BY ReadInit, KnotInit
<1>2. SoundEvaluation /\ ReadInv /\ KnotInv /\ [Next]_vars => ReadInv' /\ KnotInv'
  BY ReadStep, RefineStep, KnotStep DEF SoundEvaluation
<1>3. SoundEvaluation /\ ReadInv /\ KnotInv => CyclesNeverSucceed
  BY DoneWithoutKnot DEF SoundEvaluation
<1> QED BY <1>1, <1>2, <1>3, SoundEvaluationAlways, PTL DEF Spec

-----------------------------------------------------------------------------
(* A right result stays right: a field that has a rule is only right when   *)
(* everything it is computed from is there and right, and stays so.         *)

FreshInv ==
    \A n \in Nodes, f \in Fields :
        HasRule(rules, n, f) /\ Val(field, <<n, f>>) = "fresh" =>
            \A x \in Inputs(rules, n, f) : DepOrder!Available(x) /\ DepOrder!Fresh(x)

\* Fields of the input that have a rule are not right yet.
LEMMA FreshInit == ASSUME Init PROVE FreshInv
<1> SUFFICES ASSUME NEW n \in Nodes, NEW f \in Fields, HasRule(rules, n, f),
                    Val(field, <<n, f>>) = "fresh"
             PROVE  FALSE
  BY DEF FreshInv
<1>1. field[n][f] = IF <<n, f>> \notin given THEN "none"
                    ELSE IF HasRule(rules, n, f) THEN "stale" ELSE "fresh"
  BY DEF Init
<1> QED BY <1>1 DEF Val

\* What a field is computed from are fields of the tree.
LEMMA InputsType ==
    ASSUME TypeOK, NEW n \in Nodes, NEW f \in Fields
    PROVE  Inputs(rules, n, f) \subseteq Nodes \X Fields
<1>1. {<<n, g>> : g \in OwnInputs(f)} \subseteq Nodes \X Fields
  <2>1. OwnInputs(f) \subseteq Fields
    BY DEF OwnInputs, Fields, Kinds
  <2> QED BY <2>1
<1>2. CASE f = "weighted"
  BY <1>1, <1>2 DEF Inputs, CalledInputs
<1>3. CASE f # "weighted"
  <2>1. f \in Kinds /\ RuleOf(rules, n, f) = RuleAt(n, f) /\ RuleAt(n, f).calls \in Seq(Key)
    BY <1>3, RuleType DEF Fields, RuleAt
  <2>2. ASSUME NEW i \in 1..Len(RuleAt(n, f).calls), Known(RuleAt(n, f).calls[i][2])
        PROVE  <<NodeOf(RuleAt(n, f).calls[i][2]), RuleAt(n, f).calls[i][1]>> \in Nodes \X Fields
    <3>1. RuleAt(n, f).calls[i] \in Key
      BY <2>1, ElementOfSeq
    <3> QED BY <2>2, <3>1, NodeOfCode DEF Key
  <2> QED BY <1>1, <1>3, <2>1, <2>2 DEF Inputs, CalledInputs
<1> QED BY <1>2, <1>3

\* What a step in dependency order writes: the result that the inputs define,
\* into a field whose inputs are there.  With a score its weighted score may
\* be written.
Writes(n, f) ==
    /\ \A x \in Inputs(rules, n, f) : DepOrder!Available(x)
    /\ HasRule(rules, n, f) \/ f = "weighted"
    /\ \A m \in Nodes, g \in Fields :
          \/ Val(field', <<m, g>>) = Val(field, <<m, g>>)
          \/ <<m, g>> = <<n, f>> /\ Val(field', <<m, g>>) = DepOrder!Computed(n, f)
          \/ /\ <<m, g>> = <<n, "weighted">> /\ f = "score"
             /\ Val(field', <<m, g>>) = DepOrder!Computed(n, f)
             /\ Val(field', <<n, f>>) = DepOrder!Computed(n, f)

\* Every step writes so or not at all.
LEMMA StepWrites ==
    ASSUME IInv, [DepOrder!Next]_(DepOrder!vars)
    PROVE  /\ UNCHANGED <<rules, given>>
           /\ field' = field \/ \E n \in Nodes, f \in Fields : Writes(n, f)
<1>1. UNCHANGED <<rules, given>>
  BY DEF DepOrder!Next, DepOrder!vars, DepOrder!Compute, DepOrder!ComputeWeighted,
     DepOrder!Finish, DepOrder!Fail, DepOrder!EvaluateAgain
<1>2. field \in [Nodes -> [Fields -> {"none", "stale", "fresh"}]]
  BY DEF IInv, TypeOK
<1>3. CASE \E n \in Nodes, f \in Kinds : DepOrder!Compute(n, f)
  <2>1. PICK n \in Nodes, f \in Kinds : DepOrder!Compute(n, f)
    BY <1>3
  <2> DEFINE c == DepOrder!Computed(n, f)
  <2>2. /\ f \in Fields /\ "weighted" \in Fields
        /\ \A x \in Inputs(rules, n, f) : DepOrder!Available(x)
        /\ HasRule(rules, n, f)
        /\ \/ field' = [field EXCEPT ![n][f] = c]
           \/ f = "score" /\ field' = [field EXCEPT ![n][f] = c, ![n]["weighted"] = c]
    BY <2>1, SameRules DEF DepOrder!Compute, HasRule, Fields
  <2> HIDE DEF c
  <2>3. \A m \in Nodes, g \in Fields :
           \/ field'[m][g] = field[m][g]
           \/ m = n /\ g = f /\ field'[m][g] = c
           \/ m = n /\ g = "weighted" /\ f = "score" /\ field'[m][g] = c /\ field'[n][f] = c
    BY <1>2, <2>2 DEF Kinds
  <2>4. Writes(n, f)
    BY <2>2, <2>3 DEF Writes, Val, c
  <2> QED BY <1>1, <2>2, <2>4
<1>4. CASE \E n \in Nodes : DepOrder!ComputeWeighted(n)
  <2>1. PICK n \in Nodes : DepOrder!ComputeWeighted(n)
    BY <1>4
  <2> DEFINE c == DepOrder!Computed(n, "weighted")
  <2>2. /\ "weighted" \in Fields
        /\ Inputs(rules, n, "weighted") = {<<n, "score">>}
        /\ DepOrder!Available(<<n, "score">>)
        /\ field' = [field EXCEPT ![n]["weighted"] = c]
    BY <2>1 DEF DepOrder!ComputeWeighted, Fields, Inputs, OwnInputs, CalledInputs
  <2> HIDE DEF c
  <2>3. \A m \in Nodes, g \in Fields :
           field'[m][g] = field[m][g] \/ (m = n /\ g = "weighted" /\ field'[m][g] = c)
    BY <1>2, <2>2
  <2>4. Writes(n, "weighted")
    BY <2>2, <2>3 DEF Writes, Val, c
  <2> QED BY <1>1, <2>2, <2>4
<1>5. CASE DepOrder!Finish \/ DepOrder!Fail \/ DepOrder!EvaluateAgain \/ UNCHANGED DepOrder!vars
  BY <1>1, <1>5 DEF DepOrder!Finish, DepOrder!Fail, DepOrder!EvaluateAgain, DepOrder!vars
<1> QED BY <1>3, <1>4, <1>5, SameFields DEF DepOrder!Next

\* The result of a field without a rule, or of one that was right, is right.
LEMMA ComputedFresh ==
    ASSUME IInv, RulelessRight(rules, field), FreshInv, NEW n \in Nodes, NEW f \in Fields,
           Writes(n, f), NEW g \in Fields, g = f \/ (g = "weighted" /\ f = "score"),
           ~HasRule(rules, n, g) \/ Val(field, <<n, g>>) = "fresh"
    PROVE  DepOrder!Computed(n, f) = "fresh"
<1>1. SUFFICES \A x \in Inputs(rules, n, f) : DepOrder!Fresh(x)
  BY SameRules DEF DepOrder!Computed
<1>2. /\ Inputs(rules, n, "weighted") = {<<n, "score">>}
      /\ "score" \in Fields /\ "weighted" \in Fields
      /\ HasRule(rules, n, "weighted") <=> HasRule(rules, n, "score")
  BY DEF Inputs, OwnInputs, CalledInputs, Fields, Kinds, HasRule, RuleOf
<1>3. Val(field, <<n, "score">>) \in {"none", "stale", "fresh"}
  BY <1>2 DEF IInv, TypeOK, Val
<1>4. CASE ~HasRule(rules, n, g)
  <2>1. f = "weighted" /\ ~HasRule(rules, n, "score")
    BY <1>2, <1>4 DEF Writes
  <2>2. Val(field, <<n, "score">>) # "stale"
    BY <1>2, <2>1 DEF RulelessRight
  <2> QED BY <1>2, <1>3, <2>1, <2>2 DEF DepOrder!Fresh, Val
<1>5. CASE HasRule(rules, n, g) /\ Val(field, <<n, g>>) = "fresh"
  <2>1. \A x \in Inputs(rules, n, g) : DepOrder!Available(x) /\ DepOrder!Fresh(x)
    BY <1>5 DEF FreshInv
  <2>2. CASE g = f
    BY <2>1, <2>2
  <2>3. CASE g = "weighted" /\ f = "score"
    <3>1. DepOrder!Available(<<n, "score">>) /\ DepOrder!Fresh(<<n, "score">>)
      BY <1>2, <2>1, <2>3
    <3>2. Val(field, <<n, "score">>) = "fresh" /\ HasRule(rules, n, "score")
      BY <1>2, <1>5, <2>3, <3>1, SameRules DEF DepOrder!Available, DepOrder!Fresh, Val
    <3> QED BY <1>2, <2>3, <3>2 DEF FreshInv
  <2> QED BY <2>2, <2>3
<1> QED BY <1>4, <1>5

\* So a step keeps what is right, and writes what is right where no rule is.
LEMMA FreshKept ==
    ASSUME IInv, RulelessRight(rules, field), FreshInv, NEW n \in Nodes, NEW f \in Fields,
           Writes(n, f), NEW m \in Nodes, NEW g \in Fields
    PROVE  /\ Val(field, <<m, g>>) = "fresh" => Val(field', <<m, g>>) = "fresh"
           /\ Val(field, <<m, g>>) = "none" /\ ~HasRule(rules, m, g) =>
                Val(field', <<m, g>>) \in {"none", "fresh"}
<1>1. CASE Val(field', <<m, g>>) = Val(field, <<m, g>>)
  BY <1>1
<1>2. CASE m = n /\ (g = f \/ (g = "weighted" /\ f = "score"))
           /\ Val(field', <<m, g>>) = DepOrder!Computed(n, f)
  BY <1>2, ComputedFresh
<1> QED BY <1>1, <1>2 DEF Writes

\* And a field that is written right has right inputs.
LEMMA FreshWritten ==
    ASSUME IInv, RulelessRight(rules, field), FreshInv, UNCHANGED rules,
           NEW n \in Nodes, NEW f \in Fields, Writes(n, f)
    PROVE  FreshInv'
<1> SUFFICES ASSUME NEW m \in Nodes, NEW g \in Fields, HasRule(rules, m, g),
                    Val(field', <<m, g>>) = "fresh", NEW x \in Inputs(rules, m, g)
             PROVE  (DepOrder!Available(x) /\ DepOrder!Fresh(x))'
  <2>1. FreshInv' <=> \A m \in Nodes, g \in Fields :
           HasRule(rules, m, g) /\ Val(field', <<m, g>>) = "fresh" =>
               \A x \in Inputs(rules, m, g) : (DepOrder!Available(x) /\ DepOrder!Fresh(x))'
    BY DEF FreshInv, DepOrder!Available, DepOrder!Fresh, Val
  <2> QED BY <2>1
<1>1. /\ x = <<x[1], x[2]>> /\ x[1] \in Nodes /\ x[2] \in Fields
  BY InputsType DEF IInv
<1>2. Val(field, x) \in {"none", "stale", "fresh"}
  BY <1>1 DEF IInv, TypeOK, Val
<1>3. ASSUME DepOrder!Available(x), DepOrder!Fresh(x)
      PROVE  (DepOrder!Available(x) /\ DepOrder!Fresh(x))'
  <2>1. Val(field, x) = "fresh" \/ (Val(field, x) = "none" /\ ~HasRule(rules, x[1], x[2]))
    BY <1>2, <1>3, SameRules DEF DepOrder!Available, DepOrder!Fresh, Val
  <2>2. Val(field', x) = "fresh" \/ (Val(field', x) = "none" /\ ~HasRule(rules, x[1], x[2]))
    BY <1>1, <2>1, FreshKept
  <2> QED BY <2>2, SameRules DEF DepOrder!Available, DepOrder!Fresh, Val
<1>4. CASE Val(field', <<m, g>>) = Val(field, <<m, g>>)
  BY <1>3, <1>4 DEF FreshInv
<1>5. CASE m = n /\ g = f /\ Val(field', <<m, g>>) = DepOrder!Computed(n, f)
  <2>1. DepOrder!Available(x) /\ DepOrder!Fresh(x)
    BY <1>5, SameRules DEF Writes, DepOrder!Computed
  <2> QED BY <1>3, <2>1
<1>6. CASE m = n /\ g = "weighted" /\ f = "score" /\ Val(field', <<n, f>>) = DepOrder!Computed(n, f)
           /\ Val(field', <<m, g>>) = DepOrder!Computed(n, f)
  <2>1. x = <<n, "score">>
    BY <1>6 DEF Inputs, OwnInputs, CalledInputs
  <2> QED BY <1>6, <2>1 DEF DepOrder!Available, DepOrder!Fresh, Val
<1> QED BY <1>4, <1>5, <1>6 DEF Writes

\* A step in dependency order keeps right results and FreshInv.
LEMMA FreshStep ==
    ASSUME IInv, ReadInv, FreshInv, [DepOrder!Next]_(DepOrder!vars)
    PROVE  /\ FreshInv'
           /\ \A n \in Nodes, f \in Fields : field[n][f] = "fresh" => field'[n][f] = "fresh"
<1>1. UNCHANGED rules /\ RulelessRight(rules, field)
  BY StepWrites DEF ReadInv
<1>2. CASE field' = field
  <2>1. FreshInv'
    BY <1>1, <1>2 DEF FreshInv, DepOrder!Available, DepOrder!Fresh, Val
  <2> QED BY <1>2, <2>1
<1>3. CASE \E n \in Nodes, f \in Fields : Writes(n, f)
  <2>1. PICK n \in Nodes, f \in Fields : Writes(n, f)
    BY <1>3
  <2>2. \A m \in Nodes, g \in Fields : Val(field, <<m, g>>) = "fresh" => Val(field', <<m, g>>) = "fresh"
    BY <1>1, <2>1, FreshKept
  <2> QED BY <1>1, <2>1, <2>2, FreshWritten DEF Val
<1> QED BY <1>2, <1>3, StepWrites

(***************************************************************************)
(* The walk runs rules that helpers have run before, in this evaluation or  *)
(* an earlier one: no second execution replaces a right result by a wrong   *)
(* one, also when the input came with wrong ones.                           *)
(***************************************************************************)
THEOREM ResultsStayFresh == Spec => FreshStaysFresh
<1>1. Init => ReadInv /\ FreshInv
  BY ReadInit, FreshInit
<1>2. SoundEvaluation /\ ReadInv /\ FreshInv /\ [Next]_vars
        => /\ ReadInv' /\ FreshInv'
           /\ \A n \in Nodes, f \in Fields : field[n][f] = "fresh" => field'[n][f] = "fresh"
  BY ReadStep, RefineStep, FreshStep DEF SoundEvaluation
<1> QED BY <1>1, <1>2, SoundEvaluationAlways, PTL DEF Spec, FreshStaysFresh

-----------------------------------------------------------------------------
(* The work an evaluation does.                                             *)

\* No script of the tree can make an evaluation fail.
Clean == ~Faulty(rules) /\ ~Cyclic(rules, given)

\* The rules the walk has run in this evaluation: the one whose turn it is
\* when a frame of the walk is on the stack.
Walked(p, s) ==
    {x \in RulesPresent : \E q \in 1..Len(Agenda) :
        Agenda[q] = x /\ (q < p \/ (q = p /\ s # <<>>))}

RunsFor(f, x) == f.op = "memo" /\ f.phase = "rule" /\ f.node = x[1] /\ f.fld = x[2]

\* The rules helpers have run: their results are remembered from then on.
Helped(C, s) ==
    {x \in RulesPresent :
        C[<<x[2], CodeOf[x[1]]>>] # "none" \/ \E i \in 1..Len(s) : RunsFor(s[i], x)}

KnownKeys == {k \in Key : Known(k[2])}

WorkInv ==
    /\ \A k \in computing : cache[k] = "none"
    /\ telemetry.depth <= Cardinality(KnownKeys)
    /\ \A p \in 1..Len(Agenda) :
          p < pos => rules[Agenda[p][1]][Agenda[p][2]].ends \notin {"malformed", "throws"}
    /\ Clean => telemetry.executions <=
          (evaluations - 1) * Cardinality(RulesPresent)
            + Cardinality(Walked(pos, stack)) + Cardinality(Helped(cache, stack))

\* A tree has finitely many elements, rules and Profile_IDs.
LEMMA TreeIsFinite ==
    /\ IsFiniteSet(Nodes) /\ IsFiniteSet(RulesPresent) /\ IsFiniteSet(KnownKeys)
    /\ Cardinality(RulesPresent) \in Nat /\ Cardinality(KnownKeys) \in Nat
<1>1. IsFiniteSet(Nodes)
  <2> DEFINE g == [i \in 1..Len(Preorder) |-> Preorder[i]]
  <2>1. Len(Preorder) \in Nat /\ \A i \in 1..Len(Preorder) : Preorder[i] \in Nodes
    BY TreeAssumption, LenProperties, ElementOfSeq
  <2>2. g \in Surjection(1..Len(Preorder), Nodes)
    BY <2>1, TreeAssumption DEF Surjection
  <2>3. IsFiniteSet(1..Len(Preorder))
    BY <2>1, FS_Interval
  <2> HIDE DEF g
  <2> QED BY <2>2, <2>3, FS_Surjection
<1>2. IsFiniteSet(Kinds) /\ IsFiniteSet(Fields)
  <2>1. IsFiniteSet({}) /\ Kinds = (({} \cup {"value"}) \cup {"rating"}) \cup {"score"}
        /\ Fields = Kinds \cup {"weighted"}
    BY FS_EmptySet DEF Kinds, Fields
  <2> QED BY <2>1, FS_AddElement
<1>3. IsFiniteSet(RulesPresent)
  BY <1>1, <1>2, FS_Product, FS_Subset DEF RulesPresent
<1>4. IsFiniteSet(KnownKeys)
  <2> DEFINE C == {c \in Codes : Known(c)}
             h == [n \in {m \in Nodes : Known(CodeOf[m])} |-> CodeOf[n]]
  <2>1. h \in Surjection({m \in Nodes : Known(CodeOf[m])}, C)
    <3>1. \A c \in C : NodeOf(c) \in Nodes /\ CodeOf[NodeOf(c)] = c
      BY NodeOfCode
    <3> QED BY <3>1, TreeAssumption DEF Surjection
  <2>2. IsFiniteSet({m \in Nodes : Known(CodeOf[m])})
    BY <1>1, FS_Subset
  <2>3. IsFiniteSet(C)
    <3> HIDE DEF C, h
    <3> QED BY <2>1, <2>2, FS_Surjection
  <2>4. IsFiniteSet(Fields \X C) /\ KnownKeys \in SUBSET (Fields \X C)
    BY <1>2, <2>3, FS_Product DEF KnownKeys, Key
  <2> HIDE DEF C
  <2> QED BY <2>4, FS_Subset
<1> QED BY <1>1, <1>3, <1>4, FS_CardinalityType

\* The call stack is not nested deeper than the tree has keys, also when the
\* next helper is entered.
LEMMA NestingIsBounded ==
    ASSUME NEW d \in Seq(Key), \A i, j \in 1..Len(d) : d[i] = d[j] => i = j,
           \A i \in 1..Len(d) : d[i] \in KnownKeys
    PROVE  Len(d) <= Cardinality(KnownKeys)
<1> DEFINE g == [i \in 1..Len(d) |-> d[i]]
<1>1. Len(d) \in Nat
  BY LenProperties
<1>2. IsFiniteSet(1..Len(d)) /\ Cardinality(1..Len(d)) = Len(d)
  <2> DEFINE n == Len(d)
  <2> HIDE DEF n
  <2>1. n \in Int /\ 1 \in Int /\ n >= 0
    BY <1>1 DEF n
  <2>2. IsFiniteSet(1..n) /\ Cardinality(1..n) = IF 1 > n THEN 0 ELSE n - 1 + 1
    BY <2>1, FS_Interval
  <2>3. Cardinality(1..n) = n
    BY <2>1, <2>2
  <2> QED BY <2>2, <2>3 DEF n
<1>3. g \in [1..Len(d) -> KnownKeys]
  OBVIOUS
<1>4. \A i, j \in 1..Len(d) : g[i] = g[j] => i = j
  OBVIOUS
<1> HIDE DEF g
<1>5. g \in Injection(1..Len(d), KnownKeys)
  BY <1>3, <1>4 DEF Injection, IsInjective
<1> QED BY <1>2, <1>5, TreeIsFinite, FS_Injection

\* What runs on the stack has a key of the tree.
LEMMA RunsKnownKeys ==
    ASSUME IInv
    PROVE  \A i \in 1..Len(depStack) : depStack[i] \in KnownKeys
<1> SUFFICES ASSUME NEW i \in 1..Len(depStack) PROVE depStack[i] \in KnownKeys
  OBVIOUS
<1>1. stack # <<>> /\ stack \in Seq(Frame) /\ depStack \in Seq(Key) /\ Len(depStack) \in Nat
  BY LenProperties DEF IInv, TypeOK, CallInv, Tracks
<1>2. Len(stack) \in Nat \ {0} /\ \A j \in 1..Len(stack) : stack[j] \in Frame
  BY <1>1, StackElement
<1>3. i + 1 \in 1..Len(stack) /\ depStack[i] = KeyOf(stack[i + 1])
  BY <1>1, <1>2 DEF IInv, CallInv, Tracks
<1>4. stack[i + 1] \in Frame /\ FrameOK(stack[i + 1]) /\ stack[i + 1].op = "memo"
  BY <1>1, <1>2, <1>3 DEF IInv, CallInv, StackOK, Frame
<1>5. depStack[i] \in Key
  BY <1>1, ElementOfSeq
<1> QED BY <1>3, <1>4, <1>5 DEF KnownKeys, FrameOK, KeyOf

LEMMA DepthStep ==
    ASSUME IInv, WorkInv, [Next]_vars
    PROVE  telemetry'.depth <= Cardinality(KnownKeys)
<1>1. telemetry \in Counters
  BY DEF IInv, TypeOK
<1>2. CASE CallCompute
  <2>1. /\ telemetry' = [telemetry EXCEPT !.recursive = @ + 1,
                           !.depth = IF @ < Len(depStack) + 1 THEN Len(depStack) + 1 ELSE @]
        /\ depStack' = Append(depStack, Wanted) /\ Wanted \notin computing
        /\ Known(Wanted[2]) /\ stack # <<>> /\ Top.todo # <<>>
    BY <1>2 DEF CallCompute, AbsentField, Calling
  <2>2. Wanted \in KnownKeys
    BY <2>1, HeadOfTodo DEF KnownKeys
  <2>3. /\ depStack \in Seq(Key) /\ Len(depStack) \in Nat /\ Wanted \in Key
        /\ \A i \in 1..Len(depStack) : depStack[i] # Wanted /\ depStack[i] \in KnownKeys
        /\ \A i, j \in 1..Len(depStack) : depStack[i] = depStack[j] => i = j
    BY <2>1, <2>2, RunsKnownKeys, LenProperties DEF IInv, TypeOK, CallInv, Tracks, KnownKeys
  <2> DEFINE d == Append(depStack, Wanted)
  <2>4. /\ d \in Seq(Key) /\ Len(d) = Len(depStack) + 1
        /\ \A i \in 1..Len(depStack) : d[i] = depStack[i]
        /\ d[Len(depStack) + 1] = Wanted
    BY <2>3, AppendProperties
  <2> HIDE DEF d
  <2>5. \A i \in 1..Len(d) : i \in 1..Len(depStack) \/ i = Len(depStack) + 1
    BY <2>3, <2>4
  <2>6. /\ \A i, j \in 1..Len(d) : d[i] = d[j] => i = j
        /\ \A i \in 1..Len(d) : d[i] \in KnownKeys
    BY <2>2, <2>3, <2>4, <2>5
  <2>7. Len(depStack) + 1 <= Cardinality(KnownKeys)
    BY <2>4, <2>6, NestingIsBounded
  <2>8. telemetry'.depth = IF telemetry.depth < Len(depStack) + 1
                           THEN Len(depStack) + 1 ELSE telemetry.depth
    BY <1>1, <2>1 DEF Counters
  <2> QED BY <2>7, <2>8 DEF WorkInv
<1>3. CASE ~CallCompute
  <2>1. telemetry'.depth = telemetry.depth
    BY <1>1, <1>3 DEF Next, Evaluate, vars, ProcessSkip, ProcessMalformed, ProcessRule, FinishProcess,
       CallUnknown, CallPresent, CallCached, CallCycle, StartMalformed,
       StartRule, FinishMemo, RuleThrows, UnwindMemo, UnwindProcess, Fail, Finish,
       EvaluateAgain, Compile, Counters
  <2> QED BY <2>1 DEF WorkInv
<1> QED BY <1>2, <1>3

\* No helper is entered for a field that is remembered.
LEMMA UncachedStep ==
    ASSUME IInv, WorkInv, [Next]_vars
    PROVE  \A k \in computing' : cache'[k] = "none"
<1>1. \A k \in computing : cache[k] = "none"
  BY DEF WorkInv
<1>2. cache \in [Key -> {"none", "stale", "fresh"}] /\ computing \subseteq Key
  BY DEF IInv, TypeOK
<1>3. CASE CallCompute
  BY <1>1, <1>3 DEF CallCompute, AbsentField
<1>4. CASE FinishMemo
  <2>1. /\ cache' = [cache EXCEPT ![KeyOf(Top)] = Result(Top)]
        /\ computing' = computing \ {KeyOf(Top)}
    BY <1>4 DEF FinishMemo
  <2> QED BY <1>1, <1>2, <2>1
<1>5. CASE UnwindMemo
  <2>1. cache' = cache /\ computing' \subseteq computing
    BY <1>5 DEF UnwindMemo
  <2> QED BY <1>1, <2>1
<1>6. CASE UNCHANGED vars \/ (Next /\ ~CallCompute /\ ~FinishMemo /\ ~UnwindMemo)
  <2>1. cache' = cache /\ computing' = computing
    BY <1>6 DEF Next, Evaluate, vars, ProcessSkip, ProcessMalformed, ProcessRule, FinishProcess,
       CallUnknown, CallPresent, CallCached, CallCycle, StartMalformed,
       StartRule, RuleThrows, UnwindProcess, Fail, Finish, EvaluateAgain
  <2> QED BY <1>1, <2>1
<1> QED BY <1>3, <1>4, <1>5, <1>6

\* The walk does not get past a script that is faulty.
LEMMA PastStep ==
    ASSUME IInv, WalkInv, WorkInv, [Next]_vars
    PROVE  \A p \in 1..Len(Agenda) :
              p < pos' => rules'[Agenda[p][1]][Agenda[p][2]].ends \notin {"malformed", "throws"}
<1> SUFFICES ASSUME NEW p \in 1..Len(Agenda), p < pos'
             PROVE  rules'[Agenda[p][1]][Agenda[p][2]].ends \notin {"malformed", "throws"}
  OBVIOUS
<1>1. rules' = rules
  BY DEF Next, Evaluate, vars, ProcessSkip, ProcessMalformed, ProcessRule, FinishProcess,
     CallUnknown, CallPresent, CallCached, CallCycle, CallCompute, StartMalformed,
     StartRule, FinishMemo, RuleThrows, UnwindMemo, UnwindProcess, Fail, Finish, EvaluateAgain
<1>2. pos \in 1..Len(Agenda) + 1 /\ Len(Agenda) \in Nat
  BY AgendaType DEF IInv, TypeOK
<1>3. CASE p < pos
  BY <1>1, <1>3 DEF WorkInv
<1>4. CASE ~(p < pos)
  <2>1. ProcessSkip \/ FinishProcess
    <3>1. pos' # pos /\ pos' # 1
      BY <1>2, <1>4
    <3> QED BY <3>1 DEF Next, Evaluate, vars, ProcessMalformed, ProcessRule,
         CallUnknown, CallPresent, CallCached, CallCycle, CallCompute, StartMalformed,
         StartRule, FinishMemo, RuleThrows, UnwindMemo, UnwindProcess, Fail, Finish, EvaluateAgain
  <2>2. p = pos
    BY <1>2, <1>4, <2>1 DEF ProcessSkip, FinishProcess
  <2>3. Agenda[p][1] \in Nodes /\ Agenda[p][2] \in Kinds
    BY AgendaType
  <2>4. RuleAt(Agenda[p][1], Agenda[p][2]) = rules[Agenda[p][1]][Agenda[p][2]]
    BY <2>3, RuleType DEF IInv
  <2>5. CASE ProcessSkip
    BY <1>1, <2>2, <2>4, <2>5 DEF ProcessSkip, HasRule, RuleAt
  <2>6. CASE FinishProcess
    <3>1. stack # <<>> /\ Top.op = "process" /\ RuleAt(Top.node, Top.fld).ends = "returns"
      BY <2>6 DEF FinishProcess
    <3>2. Top = stack[1]
      BY <3>1, TopFrame DEF Top
    <3>3. Top.node = Agenda[p][1] /\ Top.fld = Agenda[p][2]
      BY <2>2, <3>1, <3>2 DEF WalkInv
    <3> QED BY <1>1, <2>4, <3>1, <3>3
  <2> QED BY <2>1, <2>5, <2>6
<1> QED BY <1>3, <1>4

\* Every rule has one turn.
LEMMA AgendaOnce ==
    ASSUME NEW p \in 1..Len(Agenda), NEW q \in 1..Len(Agenda), Agenda[p] = Agenda[q]
    PROVE  p = q
<1>1. PICK i \in 1..Len(Postorder), r \in 1..3 : p = 3 * (i - 1) + r
  BY AgendaPlace
<1>2. PICK j \in 1..Len(Postorder), s \in 1..3 : q = 3 * (j - 1) + s
  BY AgendaPlace
<1>3. Agenda[p] = <<Postorder[i], KindSeq[r]>> /\ Agenda[q] = <<Postorder[j], KindSeq[s]>>
  BY <1>1, <1>2, AgendaSlot
<1> DEFINE x == Agenda[p]
<1>3b. x = <<Postorder[i], KindSeq[r]>> /\ x = <<Postorder[j], KindSeq[s]>>
  BY <1>3
<1> HIDE DEF x
<1>5. Postorder[i] = Postorder[j] /\ KindSeq[r] = KindSeq[s]
  BY <1>3b
<1>4. i = j
  BY <1>5, TreeAssumption
<1>6. r = s
  <2>1. KindSeq[1] = "value" /\ KindSeq[2] = "rating" /\ KindSeq[3] = "score"
    BY DEF KindSeq
  <2>2. r \in {1, 2, 3} /\ s \in {1, 2, 3}
    OBVIOUS
  <2> QED BY <1>5, <2>1, <2>2
<1> QED BY <1>1, <1>2, <1>4, <1>6

\* More rules have been run when another one is.
LEMMA MoreRules ==
    ASSUME NEW W, NEW V, W \subseteq V, V \subseteq RulesPresent
    PROVE  /\ Cardinality(W) \in Nat /\ Cardinality(V) \in Nat
           /\ Cardinality(W) <= Cardinality(V)
           /\ Cardinality(V) <= Cardinality(RulesPresent)
           /\ W # V => Cardinality(W) + 1 <= Cardinality(V)
<1>1. IsFiniteSet(V) /\ Cardinality(V) <= Cardinality(RulesPresent)
  BY TreeIsFinite, FS_Subset
<1>2. /\ IsFiniteSet(W) /\ Cardinality(W) <= Cardinality(V)
      /\ Cardinality(V) = Cardinality(W) => V = W
  BY <1>1, FS_Subset
<1>3. Cardinality(W) \in Nat /\ Cardinality(V) \in Nat
  BY <1>1, <1>2, FS_CardinalityType
<1> QED BY <1>1, <1>2, <1>3

\* The executions that WorkInv allows.
Allowed(e, p, C, s) ==
    (e - 1) * Cardinality(RulesPresent) + Cardinality(Walked(p, s)) + Cardinality(Helped(C, s))

\* It is enough that each further execution is of another rule.
LEMMA WorkKept ==
    ASSUME IInv, UNCHANGED <<rules, evaluations>>, telemetry.executions <= Allowed(evaluations, pos, cache, stack),
           telemetry'.executions \in Nat,
           Walked(pos, stack) \subseteq Walked(pos', stack'),
           Helped(cache, stack) \subseteq Helped(cache', stack'),
           \/ telemetry'.executions = telemetry.executions
           \/ /\ telemetry'.executions = telemetry.executions + 1
              /\ \/ Walked(pos, stack) # Walked(pos', stack')
                 \/ Helped(cache, stack) # Helped(cache', stack')
    PROVE  telemetry'.executions <= Allowed(evaluations, pos', cache', stack')
<1> DEFINE W == Walked(pos, stack)
           V == Walked(pos', stack')
           H == Helped(cache, stack)
           G == Helped(cache', stack')
           b == (evaluations - 1) * Cardinality(RulesPresent)
<1>1. V \subseteq RulesPresent /\ G \subseteq RulesPresent
  BY DEF Walked, Helped
<1>2. evaluations - 1 \in Nat /\ telemetry.executions \in Nat
  BY BoundAssumption DEF IInv, TypeOK, Counters
<1>3. b \in Nat
  BY <1>2, TreeIsFinite
<1> HIDE DEF W, V, H, G, b
<1>4. /\ Cardinality(W) \in Nat /\ Cardinality(V) \in Nat /\ Cardinality(W) <= Cardinality(V)
      /\ W # V => Cardinality(W) + 1 <= Cardinality(V)
  BY <1>1, MoreRules DEF W, V
<1>5. /\ Cardinality(H) \in Nat /\ Cardinality(G) \in Nat /\ Cardinality(H) <= Cardinality(G)
      /\ H # G => Cardinality(H) + 1 <= Cardinality(G)
  BY <1>1, MoreRules DEF H, G
<1>6. telemetry.executions <= b + Cardinality(W) + Cardinality(H)
  BY DEF Allowed, W, H, b
<1>7. telemetry'.executions <= b + Cardinality(V) + Cardinality(G)
  BY <1>2, <1>3, <1>4, <1>5, <1>6 DEF W, V, H, G
<1> QED BY <1>7 DEF Allowed, V, G, b

\* Helpers are not forgotten while frames stay and results are remembered.
LEMMA HelpedGrows ==
    ASSUME NEW C, NEW D, NEW s, NEW t, CodeOf \in [Nodes -> Codes],
           \A k \in Key : C[k] # "none" => D[k] # "none",
           \A i \in 1..Len(s), x \in RulesPresent :
               RunsFor(s[i], x) => \/ D[<<x[2], CodeOf[x[1]]>>] # "none"
                                   \/ \E j \in 1..Len(t) : RunsFor(t[j], x)
    PROVE  Helped(C, s) \subseteq Helped(D, t)
<1> SUFFICES ASSUME NEW x \in Helped(C, s) PROVE x \in Helped(D, t)
  OBVIOUS
<1>1. x \in RulesPresent /\ <<x[2], CodeOf[x[1]]>> \in Key
  BY DEF Helped, RulesPresent, Key, Fields
<1> QED BY <1>1 DEF Helped

\* Steps that run nothing.
LEMMA WorkQuiet ==
    ASSUME IInv, WorkInv, Clean,
           \/ ProcessMalformed \/ CallCycle \/ StartMalformed \/ RuleThrows
           \/ Fail \/ Finish \/ UNCHANGED vars
    PROVE  telemetry'.executions <= Allowed(evaluations', pos', cache', stack')
<1>1. telemetry.executions <= Allowed(evaluations, pos, cache, stack)
  BY DEF WorkInv, Allowed
<1>2. /\ UNCHANGED <<evaluations, pos, cache, stack>>
      /\ telemetry'.executions = telemetry.executions
  BY DEF ProcessMalformed, CallCycle, StartMalformed, RuleThrows, Fail, Finish, vars,
     IInv, TypeOK, Counters
<1> QED BY <1>1, <1>2 DEF Allowed, Walked, Helped

\* A call that is answered at once, and one for which a helper starts.
LEMMA WorkCall ==
    ASSUME IInv, IInv', WorkInv, Clean, CallUnknown \/ CallPresent \/ CallCached \/ CallCompute
    PROVE  telemetry'.executions <= Allowed(evaluations', pos', cache', stack')
<1>1. telemetry.executions <= Allowed(evaluations, pos, cache, stack)
  BY DEF WorkInv, Allowed
<1>2. /\ UNCHANGED <<rules, evaluations, pos, cache>> /\ Calling
      /\ telemetry'.executions = telemetry.executions
  BY DEF CallUnknown, CallPresent, CallCached, CallCompute, AbsentField, IInv, TypeOK, Counters
<1>3. telemetry'.executions \in Nat
  BY DEF IInv, TypeOK, Counters
<1>4. /\ stack \in Seq(Frame) /\ stack # <<>> /\ stack[Len(stack)].todo # <<>>
      /\ Len(stack) \in Nat \ {0}
  BY <1>2, StackElement DEF IInv, TypeOK, Calling, Top
<1>5. \A i \in 1..Len(stack) :
         /\ i \in 1..Len(stack')
         /\ \A x : RunsFor(stack[i], x) => RunsFor(stack'[i], x)
  <2>1. CASE CallCompute
    <3>1. PICK f : stack' = Append(stack, f)
      BY <2>1 DEF CallCompute
    <3>2. Len(stack') = Len(stack) + 1 /\ \A i \in 1..Len(stack) : stack'[i] = stack[i]
      BY <1>4, <3>1
    <3> QED BY <1>4, <3>2
  <2>2. CASE CallUnknown \/ CallPresent \/ CallCached
    <3>1. PICK b \in BOOLEAN : stack' = Answered(stack, b)
      BY <2>2 DEF CallUnknown, CallPresent, CallCached
    <3>2. /\ Len(stack') = Len(stack)
          /\ \A i \in 1..Len(stack) - 1 : stack'[i] = stack[i]
          /\ stack'[Len(stack)].op = stack[Len(stack)].op
          /\ stack'[Len(stack)].node = stack[Len(stack)].node
          /\ stack'[Len(stack)].fld = stack[Len(stack)].fld
          /\ stack'[Len(stack)].phase = stack[Len(stack)].phase
      BY <1>4, <3>1, AnsweredProperties
    <3>3. \A i \in 1..Len(stack) : i \in 1..Len(stack) - 1 \/ i = Len(stack)
      BY <1>4
    <3> QED BY <3>2, <3>3 DEF RunsFor
  <2> QED BY <2>1, <2>2
<1>6. Helped(cache, stack) \subseteq Helped(cache', stack')
  BY <1>2, <1>5, HelpedGrows, TreeAssumption
<1>7. Walked(pos, stack) \subseteq Walked(pos', stack')
  <2>1. stack' # <<>>
    <3>1. 1 \in 1..Len(stack')
      BY <1>4, <1>5
    <3> QED BY <3>1
  <2> QED BY <1>2, <1>4, <2>1 DEF Walked
<1> QED BY <1>1, <1>2, <1>3, <1>6, <1>7, WorkKept

\* The walk passes a rule that is not there, runs one, and has the result of one.
LEMMA WorkWalk ==
    ASSUME IInv, IInv', WorkInv, Clean, ProcessSkip \/ ProcessRule \/ FinishProcess
    PROVE  telemetry'.executions <= Allowed(evaluations', pos', cache', stack')
<1>1. telemetry.executions <= Allowed(evaluations, pos, cache, stack)
  BY DEF WorkInv, Allowed
<1>2. UNCHANGED <<rules, evaluations, cache>>
  BY DEF ProcessSkip, ProcessRule, FinishProcess
<1>3. telemetry'.executions \in Nat
  BY DEF IInv, TypeOK, Counters
<1>4. pos \in 1..Len(Agenda) + 1 /\ Len(Agenda) \in Nat
  BY AgendaType DEF IInv, TypeOK
<1>5. CASE ProcessSkip
  <2>1. /\ stack = <<>> /\ stack' = <<>> /\ pos' = pos + 1
        /\ telemetry'.executions = telemetry.executions
    BY <1>5 DEF ProcessSkip, AtAgenda
  <2>2. Walked(pos, stack) \subseteq Walked(pos', stack')
    BY <1>4, <2>1 DEF Walked
  <2>3. Helped(cache, stack) \subseteq Helped(cache', stack')
    BY <1>2, <2>1
  <2> QED BY <1>1, <1>2, <1>3, <2>1, <2>2, <2>3, WorkKept
<1>6. CASE FinishProcess
  <2>1. /\ stack # <<>> /\ stack' = <<>> /\ pos' = pos + 1 /\ Top.op = "process"
        /\ telemetry'.executions = telemetry.executions
    BY <1>6 DEF FinishProcess
  <2>2. Walked(pos, stack) \subseteq Walked(pos', stack')
    BY <1>4, <2>1 DEF Walked
  <2>3. \A i \in 1..Len(stack) : stack[i].op # "memo"
    <3>1. Len(stack) = 1 /\ Top = stack[1]
      BY <2>1, TopFrame DEF Top
    <3> QED BY <2>1, <3>1
  <2>4. Helped(cache, stack) \subseteq Helped(cache', stack')
    BY <1>2, <2>3, HelpedGrows, TreeAssumption DEF RunsFor
  <2> QED BY <1>1, <1>2, <1>3, <2>1, <2>2, <2>4, WorkKept
<1>7. CASE ProcessRule
  <2> DEFINE x == Agenda[pos]
  <2>1. /\ stack = <<>> /\ stack' # <<>> /\ pos' = pos /\ pos \in 1..Len(Agenda)
        /\ Len(stack') = 1 /\ stack'[1].op = "process"
        /\ Compile(x[1], x[2]) /\ HasRule(rules, x[1], x[2])
    BY <1>4, <1>7 DEF ProcessRule, AtAgenda, HasRule, RuleAt
  <2>2. telemetry'.executions = telemetry.executions + 1
    BY <2>1 DEF Compile, IInv, TypeOK, Counters
  <2>3. x \in RulesPresent
    <3>1. x \in Nodes \X Kinds
      BY <2>1, AgendaLength, ElementOfSeq
    <3> QED BY <2>1, <3>1 DEF RulesPresent
  <2>4. Walked(pos, stack) \subseteq Walked(pos', stack')
    BY <2>1 DEF Walked
  <2>5. x \in Walked(pos', stack')
    BY <2>1, <2>3 DEF Walked
  <2>6. x \notin Walked(pos, stack)
    <3> SUFFICES ASSUME NEW q \in 1..Len(Agenda), Agenda[q] = Agenda[pos], q < pos PROVE FALSE
      BY <2>1 DEF Walked
    <3> QED BY <1>4, <2>1, AgendaOnce
  <2>7. Helped(cache, stack) \subseteq Helped(cache', stack')
    <3>1. \A i \in 1..Len(stack) : FALSE
      BY <2>1
    <3> QED BY <1>2, <3>1, HelpedGrows, TreeAssumption
  <2> HIDE DEF x
  <2> QED BY <1>1, <1>2, <1>3, <2>2, <2>4, <2>5, <2>6, <2>7, WorkKept
<1> QED BY <1>5, <1>6, <1>7

\* A helper runs a rule that no helper has run.
LEMMA WorkStartRule ==
    ASSUME IInv, IInv', WorkInv, Clean, StartRule
    PROVE  telemetry'.executions <= Allowed(evaluations', pos', cache', stack')
<1> DEFINE n == Len(stack)
           x == <<Top.node, Top.fld>>
<1>1. telemetry.executions <= Allowed(evaluations, pos, cache, stack)
  BY DEF WorkInv, Allowed
<1>2. /\ UNCHANGED <<rules, evaluations, cache, pos>>
      /\ stack # <<>> /\ Top.op = "memo" /\ Top.phase = "args" /\ Top.fld # "weighted"
      /\ Compile(Top.node, Top.fld)
      /\ stack' = [stack EXCEPT ![n].phase = "rule", ![n].todo = RuleAt(Top.node, Top.fld).calls]
      /\ RuleAt(Top.node, Top.fld).ends \in {"throws", "returns"}
  BY DEF StartRule, AtRule
<1>3. telemetry'.executions \in Nat /\ telemetry'.executions = telemetry.executions + 1
  BY <1>2 DEF Compile, IInv, TypeOK, Counters
<1>4. /\ stack \in Seq(Frame) /\ n \in Nat \ {0} /\ n \in 1..n /\ n # 1
      /\ Top = stack[n] /\ Top \in Frame /\ KeyOf(Top) \in Key
      /\ \A i \in 1..n : stack[i] \in Frame
  BY <1>2, TopFrame, StackElement DEF Top
<1>5. Top.node \in Nodes /\ Top.fld \in Kinds
  BY <1>2, <1>4 DEF Frame, Fields
<1>6. x \in RulesPresent
  BY <1>2, <1>5 DEF RulesPresent, HasRule, RuleAt
<1>7. /\ Len(stack') = n /\ \A i \in 1..n : i # n => stack'[i] = stack[i]
      /\ stack'[n].op = "memo" /\ stack'[n].phase = "rule"
      /\ stack'[n].node = Top.node /\ stack'[n].fld = Top.fld
  BY <1>2, <1>4 DEF Frame
<1>8. x \in Helped(cache', stack')
  BY <1>4, <1>6, <1>7 DEF Helped, RunsFor
<1>9. x \notin Helped(cache, stack)
  <2>1. /\ Len(depStack) = n - 1 /\ \A i \in 1..n - 1 : depStack[i] = KeyOf(stack[i + 1])
        /\ computing = {depStack[i] : i \in 1..Len(depStack)}
        /\ \A i, j \in 1..Len(depStack) : depStack[i] = depStack[j] => i = j
    BY <1>2 DEF IInv, CallInv, Tracks
  <2>2. n - 1 \in 1..n - 1 /\ (n - 1) + 1 = n
    BY <1>4
  <2>3. KeyOf(Top) \in computing
    BY <1>4, <2>1, <2>2
  <2>4. cache[<<Top.fld, CodeOf[Top.node]>>] = "none"
    BY <2>3 DEF WorkInv, KeyOf
  <2>5. ASSUME NEW i \in 1..n, RunsFor(stack[i], x) PROVE FALSE
    <3>1. stack[i].op = "memo" /\ stack[i].phase = "rule" /\ KeyOf(stack[i]) = KeyOf(Top)
      BY <2>5 DEF RunsFor, KeyOf
    <3>2. i # 1 /\ i # n
      BY <1>2, <1>4, <3>1 DEF IInv, CallInv, StackOK
    <3>3. i - 1 \in 1..n - 1 /\ (i - 1) + 1 = i /\ i - 1 # n - 1
      BY <1>4, <3>2
    <3>4. depStack[i - 1] = KeyOf(stack[i]) /\ depStack[n - 1] = KeyOf(stack[n])
      BY <2>1, <2>2, <3>3
    <3> QED BY <1>4, <2>1, <2>2, <3>1, <3>3, <3>4
  <2> QED BY <2>4, <2>5 DEF Helped
<1>10. Helped(cache, stack) \subseteq Helped(cache', stack')
  <2>1. \A i \in 1..Len(stack) :
           /\ i \in 1..Len(stack')
           /\ \A y : RunsFor(stack[i], y) => RunsFor(stack'[i], y)
    BY <1>2, <1>4, <1>7 DEF RunsFor
  <2>2. \A k \in Key : cache[k] # "none" => cache'[k] # "none"
    BY <1>2
  <2> HIDE DEF n, x
  <2> QED BY <2>1, <2>2, HelpedGrows, TreeAssumption
<1>11. Walked(pos, stack) \subseteq Walked(pos', stack')
  <2>1. stack' # <<>>
    BY <1>4, <1>7
  <2> QED BY <1>2, <2>1 DEF Walked
<1> HIDE DEF x
<1> QED BY <1>1, <1>2, <1>3, <1>8, <1>9, <1>10, <1>11, WorkKept

\* What a helper has run is remembered when it ends.
LEMMA WorkFinishMemo ==
    ASSUME IInv, IInv', WorkInv, Clean, FinishMemo
    PROVE  telemetry'.executions <= Allowed(evaluations', pos', cache', stack')
<1> DEFINE n == Len(stack)
           s == Pop(stack)
<1>1. telemetry.executions <= Allowed(evaluations, pos, cache, stack)
  BY DEF WorkInv, Allowed
<1>2. /\ UNCHANGED <<rules, evaluations, pos, telemetry>>
      /\ stack # <<>> /\ Top.op = "memo"
      /\ cache' = [cache EXCEPT ![KeyOf(Top)] = Result(Top)]
      /\ stack' = Answered(s, Top.fresh)
  BY DEF FinishMemo
<1>3. telemetry'.executions \in Nat /\ telemetry'.executions = telemetry.executions
  BY <1>2 DEF IInv, TypeOK, Counters
<1>4. /\ stack \in Seq(Frame) /\ n \in Nat \ {0} /\ n \in 1..n
      /\ Top = stack[n] /\ Top \in Frame /\ KeyOf(Top) \in Key /\ Top.fresh \in BOOLEAN
      /\ StackOK(stack)
  BY <1>2, TopFrame DEF Top, Frame, IInv, CallInv
<1>5. /\ s \in Seq(Frame) /\ s # <<>> /\ Len(s) = n - 1 /\ s[Len(s)].todo # <<>>
      /\ \A i \in 1..n - 1 : s[i] = stack[i]
  BY <1>2, <1>4, PopKeepsShape
<1>6. /\ Len(stack') = n - 1
      /\ \A i \in 1..n - 1 : /\ stack'[i].op = stack[i].op /\ stack'[i].phase = stack[i].phase
                             /\ stack'[i].node = stack[i].node /\ stack'[i].fld = stack[i].fld
  <2> HIDE DEF s
  <2>1. /\ Len(stack') = Len(s)
        /\ \A i \in 1..Len(s) - 1 : stack'[i] = s[i]
        /\ stack'[Len(s)].op = s[Len(s)].op /\ stack'[Len(s)].phase = s[Len(s)].phase
        /\ stack'[Len(s)].node = s[Len(s)].node /\ stack'[Len(s)].fld = s[Len(s)].fld
    BY <1>2, <1>4, <1>5, AnsweredProperties
  <2>2. \A i \in 1..n - 1 : i \in 1..Len(s) - 1 \/ i = Len(s)
    BY <1>4, <1>5
  <2> QED BY <1>5, <2>1, <2>2
<1>7. cache \in [Key -> {"none", "stale", "fresh"}]
  BY DEF IInv, TypeOK
<1>8. \A k \in Key : cache[k] # "none" => cache'[k] # "none"
  BY <1>2, <1>7 DEF Result
<1>9. cache'[KeyOf(Top)] # "none"
  BY <1>2, <1>4, <1>7 DEF Result
<1>10. Helped(cache, stack) \subseteq Helped(cache', stack')
  <2>1. ASSUME NEW i \in 1..n, NEW y \in RulesPresent, RunsFor(stack[i], y)
        PROVE  \/ cache'[<<y[2], CodeOf[y[1]]>>] # "none"
               \/ \E j \in 1..Len(stack') : RunsFor(stack'[j], y)
    <3>1. CASE i = n
      BY <1>4, <1>9, <2>1, <3>1 DEF RunsFor, KeyOf
    <3>2. CASE i # n
      <4>1. i \in 1..n - 1
        BY <1>4, <3>2
      <4> QED BY <1>6, <2>1, <4>1 DEF RunsFor
    <3> QED BY <3>1, <3>2
  <2> QED BY <1>8, <2>1, HelpedGrows, TreeAssumption
<1>11. Walked(pos, stack) \subseteq Walked(pos', stack')
  <2>1. stack' # <<>>
    BY <1>5, <1>6
  <2> QED BY <1>2, <2>1 DEF Walked
<1> QED BY <1>1, <1>2, <1>3, <1>10, <1>11, WorkKept

\* A further evaluation may run every rule again.
LEMMA WorkAgain ==
    ASSUME IInv, IInv', WorkInv, Clean, EvaluateAgain
    PROVE  telemetry'.executions <= Allowed(evaluations', pos', cache', stack')
<1> DEFINE R == Cardinality(RulesPresent)
           W == Cardinality(Walked(pos, stack))
           V == Cardinality(Walked(pos', stack'))
           H == Cardinality(Helped(cache, stack))
<1>1. telemetry.executions <= (evaluations - 1) * R + W + H
  BY DEF WorkInv
<1>2. /\ evaluations' = evaluations + 1 /\ evaluations \in Nat \ {0}
      /\ telemetry' = telemetry /\ telemetry.executions \in Nat
      /\ cache' = cache /\ stack' = stack
  BY BoundAssumption DEF EvaluateAgain, IInv, TypeOK, Counters
<1>3. R \in Nat /\ W \in Nat /\ V \in Nat /\ H \in Nat /\ W <= R
  BY MoreRules, TreeIsFinite DEF Walked, Helped
<1> HIDE DEF R, W, V, H
<1>4. (evaluations - 1) * R + R = evaluations * R /\ (evaluations - 1) * R \in Nat
  BY <1>2, <1>3
<1>5. telemetry'.executions <= (evaluations' - 1) * R + V + H
  BY <1>1, <1>2, <1>3, <1>4
<1> QED BY <1>2, <1>5 DEF Allowed, R, V, H

\* Every step keeps the work within its bounds.
LEMMA WorkStep ==
    ASSUME IInv, IInv', WalkInv, ReadInv, WorkInv, [Next]_vars
    PROVE  WorkInv'
<1>1. UNCHANGED <<rules, given>>
  BY DEF Next, Evaluate, vars, ProcessSkip, ProcessMalformed, ProcessRule, FinishProcess,
     CallUnknown, CallPresent, CallCached, CallCycle, CallCompute, StartMalformed,
     StartRule, FinishMemo, RuleThrows, UnwindMemo, UnwindProcess, Fail, Finish, EvaluateAgain
<1>2. ASSUME Clean
      PROVE  telemetry'.executions <= Allowed(evaluations', pos', cache', stack')
  <2>1. mode # "throwing"
    BY <1>2 DEF ReadInv, Clean
  <2>2. ~UnwindMemo /\ ~UnwindProcess
    BY <2>1 DEF UnwindMemo, UnwindProcess
  <2> QED BY <1>2, <2>2, WorkQuiet, WorkCall, WorkWalk, WorkStartRule, WorkFinishMemo, WorkAgain
          DEF Next, Evaluate
<1>3. Clean' <=> Clean
  BY <1>1 DEF Clean, Faulty, Cyclic, Knot, HasRule, RuleOf, Inputs, CalledInputs
<1>4. /\ Walked(pos, stack)' = Walked(pos', stack')
      /\ Helped(cache, stack)' = Helped(cache', stack')
      /\ RulesPresent' = RulesPresent
  BY <1>1 DEF Walked, Helped, RulesPresent, HasRule, RuleOf
<1>5. (Clean => telemetry.executions <=
          (evaluations - 1) * Cardinality(RulesPresent)
            + Cardinality(Walked(pos, stack)) + Cardinality(Helped(cache, stack)))'
  BY <1>2, <1>3, <1>4 DEF Allowed
<1> QED BY <1>5, UncachedStep, DepthStep, PastStep DEF WorkInv

\* A new evaluator has done nothing.
LEMMA WorkInit == ASSUME Init PROVE WorkInv
<1>1. IInv
  BY InitIInv
<1>2. /\ computing = {} /\ telemetry.depth = 0 /\ telemetry.executions = 0
      /\ pos = 1 /\ evaluations = 1
  BY DEF Init
<1> DEFINE W == Walked(pos, stack)
           H == Helped(cache, stack)
<1>3. Cardinality(W) \in Nat /\ Cardinality(H) \in Nat
  BY MoreRules DEF Walked, Helped
<1>4. Cardinality(RulesPresent) \in Nat /\ Cardinality(KnownKeys) \in Nat
  BY TreeIsFinite
<1>5. 0 <= (1 - 1) * Cardinality(RulesPresent) + Cardinality(W) + Cardinality(H)
  <2> HIDE DEF W, H
  <2> QED BY <1>3, <1>4
<1> QED BY <1>2, <1>4, <1>5 DEF WorkInv

\* When an evaluation has succeeded no script can fail, now or before.
LEMMA DoneIsClean ==
    ASSUME IInv, WorkInv, DoneAtEnd, CyclesNeverSucceed, mode = "done"
    PROVE  Clean
<1>1. ~Cyclic(rules, given)
  BY DEF CyclesNeverSucceed
<1>2. ASSUME NEW n \in Nodes, NEW k \in Kinds, rules[n][k].ends \in {"malformed", "throws"}
      PROVE  FALSE
  <2>1. PICK p \in 1..Len(Agenda) : Agenda[p] = <<n, k>>
    BY AgendaComplete
  <2>2. p < pos
    BY <2>1, AgendaType DEF DoneAtEnd, IInv, TypeOK
  <2>3. rules[Agenda[p][1]][Agenda[p][2]].ends \notin {"malformed", "throws"}
    BY <2>2 DEF WorkInv
  <2> QED BY <1>2, <2>1, <2>3
<1> QED BY <1>1, <1>2 DEF Clean, Faulty

\* Then WorkInv is the bound.
LEMMA WorkIsWithinBounds ==
    ASSUME IInv, WorkInv, DoneAtEnd, CyclesNeverSucceed
    PROVE  WorkIsBounded
<1> DEFINE R == Cardinality(RulesPresent)
           W == Cardinality(Walked(pos, stack))
           H == Cardinality(Helped(cache, stack))
<1>1. telemetry.depth <= Cardinality({k \in Key : Known(k[2])})
  BY DEF WorkInv, KnownKeys
<1>2. ASSUME mode = "done" PROVE telemetry.executions <= (evaluations + 1) * R
  <2>1. telemetry.executions <= (evaluations - 1) * R + W + H
    BY <1>2, DoneIsClean DEF WorkInv
  <2>2. R \in Nat /\ W \in Nat /\ H \in Nat /\ W <= R /\ H <= R
    BY MoreRules, TreeIsFinite DEF Walked, Helped
  <2>3. evaluations \in Nat \ {0} /\ telemetry.executions \in Nat
    BY BoundAssumption DEF IInv, TypeOK, Counters
  <2> HIDE DEF R, W, H
  <2>4. (evaluations - 1) * R + R + R = (evaluations + 1) * R /\ (evaluations - 1) * R \in Nat
    BY <2>2, <2>3
  <2> QED BY <2>1, <2>2, <2>3, <2>4
<1> QED BY <1>1, <1>2 DEF WorkIsBounded

(***************************************************************************)
(* Memoization bounds the work, for every tree and rule table: a successful *)
(* evaluation has run each rule once per evaluation for the walk and at     *)
(* most once, in the lifetime of the evaluator, for all scripts that asked  *)
(* for it; and helpers are never nested deeper than the tree has keys.      *)
(***************************************************************************)
THEOREM WorkIsAlwaysBounded == Spec => []WorkIsBounded
<1>1. Init => ReadInv /\ KnotInv /\ WorkInv
  BY ReadInit, KnotInit, WorkInit
<1>2. SoundEvaluation /\ ReadInv /\ KnotInv /\ WorkInv /\ SoundEvaluation' /\ [Next]_vars
        => ReadInv' /\ KnotInv' /\ WorkInv'
  BY ReadStep, RefineStep, KnotStep, WorkStep DEF SoundEvaluation
<1>3. SoundEvaluation /\ ReadInv /\ KnotInv /\ WorkInv => WorkIsBounded
  BY DoneWithoutKnot, WorkIsWithinBounds DEF SoundEvaluation
<1> QED BY <1>1, <1>2, <1>3, SoundEvaluationAlways, PTL DEF Spec
=============================================================================
