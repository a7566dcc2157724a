---------------------- MODULE ProfileEvaluationProofs ----------------------
(***************************************************************************)
(* Which Profile_IDs the code takes for parent and child, for Profile_IDs   *)
(* of every length and segments of every value; and what the evaluation of  *)
(* a document does, for every document and every order of the hash table.   *)
(*                                                                         *)
(* BuildInv is about the tree: nodes holds the last element of each         *)
(* Profile_ID, order each of them once, and parent and kids are the links   *)
(* of the part of order that was linked so far.  As a link leads up, the    *)
(* tree is a forest of bounded height, of which the recursive walk is       *)
(* shown to list each node once and behind its children.                    *)
(* DocumentInv is about the document: what the nodes passed by the walk     *)
(* have left in their elements.                                             *)
(***************************************************************************)
EXTENDS ProfileEvaluation, FiniteSetTheorems, SequenceTheorems, WellFoundedInduction, TLAPS

(***************************************************************************)
(* A set of naturals has a smallest member: the position a search loop that *)
(* runs upwards stops at.                                                   *)
(***************************************************************************)
LEMMA SmallestExists ==
    ASSUME NEW S \in SUBSET Nat, S # {}
    PROVE  \E m \in S : \A n \in S : m <= n
<1> DEFINE R == OpToRel(<, Nat)
<1>1. IsWellFoundedOn(R, Nat)
  BY NatLessThanWellFounded
<1>2. PICK m \in S : \A y \in S : <<y, m>> \notin R
  <2> HIDE DEF R
  <2> QED
    BY <1>1, WFMin
<1>3. \A y \in S : ~ y < m
  BY <1>2 DEF OpToRel
<1> QED
  BY <1>3

(***************************************************************************)
(* The loop finds a difference between two Profile_IDs of one length.       *)
(***************************************************************************)
LEMMA FirstDiffFound ==
    ASSUME NEW p \in Id, NEW c \in Id, Len(p) = Len(c), p # c
    PROVE  /\ FirstDiff(p, c) \in 1..Len(p)
           /\ p[FirstDiff(p, c)] # c[FirstDiff(p, c)]
           /\ \A j \in 1..FirstDiff(p, c)-1 : p[j] = c[j]
<1> DEFINE S == {i \in 1..Len(p) : p[i] # c[i]}
<1>1. S # {}
  <2>1. p \in [1..Len(p) -> Nat] /\ c \in [1..Len(p) -> Nat] /\ Len(p) \in Nat
    BY DEF Id
  <2>2. \E i \in 1..Len(p) : p[i] # c[i]
    BY <2>1
  <2> QED
    BY <2>2
<1>2. S \in SUBSET Nat
  BY DEF Id
<1>3. PICK m \in S : \A n \in S : m <= n
  <2> HIDE DEF S
  <2> QED
    BY <1>1, <1>2, SmallestExists
<1>4. \A j \in 1..m-1 : p[j] = c[j]
  <2>1. SUFFICES ASSUME NEW j \in 1..m-1, p[j] # c[j] PROVE FALSE
    OBVIOUS
  <2>2. m \in 1..Len(p) /\ Len(p) \in Nat
    BY DEF Id
  <2>3. j \in S /\ j < m /\ j \in Nat
    BY <2>1, <2>2
  <2> QED
    BY <2>3, <1>3, <2>2
<1>5. \E i \in 1..Len(p) : p[i] # c[i] /\ \A j \in 1..i-1 : p[j] = c[j]
  BY <1>3, <1>4
<1> QED
  BY <1>5 DEF FirstDiff

(***************************************************************************)
(* There is only one first difference.                                      *)
(***************************************************************************)
LEMMA FirstDiffIs ==
    ASSUME NEW p \in Id, NEW c \in Id, Len(p) = Len(c),
           NEW d \in 1..Len(p), p[d] # c[d], \A j \in 1..d-1 : p[j] = c[j]
    PROVE  FirstDiff(p, c) = d
<1> DEFINE f == FirstDiff(p, c)
<1>1. p # c /\ Len(p) \in Nat
  BY DEF Id
<1>2. f \in 1..Len(p) /\ p[f] # c[f] /\ \A j \in 1..f-1 : p[j] = c[j]
  BY <1>1, FirstDiffFound
<1> HIDE DEF f
<1>3. ~ (f < d)
  <2>1. ASSUME f < d PROVE FALSE
    <3>1. f \in 1..d-1
      BY <2>1, <1>1, <1>2
    <3> QED
      BY <3>1, <1>2
  <2> QED
    BY <2>1
<1>4. ~ (d < f)
  <2>1. ASSUME d < f PROVE FALSE
    <3>1. d \in 1..f-1
      BY <2>1, <1>1, <1>2
    <3> QED
      BY <3>1, <1>2
  <2> QED
    BY <2>1
<1>5. f = d
  BY <1>1, <1>2, <1>3, <1>4
<1> QED
  BY <1>5 DEF f

(***************************************************************************)
(* is_parent_child_relation accepts a parent one or two levels up, and no   *)
(* other: where its comment and its test speak of the direct parent only.   *)
(***************************************************************************)
THEOREM RelationIsCut ==
    \A p, c \in Id :
        is_parent_child_relation(p, c) <=> Len(c) >= 2 /\ OneOrTwoLevelsUp(p, c)
<1> SUFFICES ASSUME NEW p \in Id, NEW c \in Id
             PROVE  is_parent_child_relation(p, c)
                        <=> Len(c) >= 2 /\ OneOrTwoLevelsUp(p, c)
  OBVIOUS
<1>t. /\ Len(p) \in Nat /\ Len(c) \in Nat
      /\ p \in [1..Len(p) -> Nat] /\ c \in [1..Len(c) -> Nat]
  BY DEF Id
<1>1. ASSUME is_parent_child_relation(p, c)
      PROVE  Len(c) >= 2 /\ OneOrTwoLevelsUp(p, c)
  <2> DEFINE d == FirstDiff(p, c)
  <2>1. /\ Len(p) = Len(c) /\ Len(c) >= 2 /\ p # c
        /\ p[d] = 0 /\ c[d] # 0
        /\ \A i \in d+1..Len(p) : p[i] = 0
        /\ \A i \in d+2..Len(c) : c[i] = 0
    BY <1>1, <1>t DEF is_parent_child_relation
  <2>2. d \in 1..Len(c) /\ \A j \in 1..d-1 : p[j] = c[j]
    BY <2>1, FirstDiffFound
  <2> HIDE DEF d
  <2>3. \A i \in 1..Len(c) : p[i] = IF i <= d-1 THEN c[i] ELSE 0
    <3> SUFFICES ASSUME NEW i \in 1..Len(c) PROVE p[i] = IF i <= d-1 THEN c[i] ELSE 0
      OBVIOUS
    <3>1. CASE i <= d-1
      <4>1. i \in 1..d-1
        BY <3>1, <2>2, <1>t
      <4> QED
        BY <4>1, <3>1, <2>2
    <3>2. CASE i = d
      BY <3>2, <2>1, <2>2, <1>t
    <3>3. CASE i > d
      <4>1. i \in d+1..Len(p)
        BY <3>3, <2>1, <2>2, <1>t
      <4> QED
        BY <4>1, <3>3, <2>1, <2>2, <1>t
    <3> QED
      BY <3>1, <3>2, <3>3, <2>2, <1>t
  <2>4. p = Cut(c, d-1)
    BY <2>1, <2>3, <1>t DEF Cut
  <2>5. CASE d+1 <= Len(c) /\ c[d+1] # 0
    <3>1. Level(c, d+1)
      BY <2>5, <2>1, <2>2, <1>t DEF Level
    <3>2. d+1 \in 1..Len(c) /\ (d+1) - 2 = d-1
      BY <2>5, <2>2, <1>t
    <3> QED
      BY <3>1, <3>2, <2>1, <2>4 DEF OneOrTwoLevelsUp
  <2>6. CASE ~ (d+1 <= Len(c) /\ c[d+1] # 0)
    <3>1. \A i \in d+1..Len(c) : c[i] = 0
      <4> SUFFICES ASSUME NEW i \in d+1..Len(c) PROVE c[i] = 0
        OBVIOUS
      <4>1. CASE i = d+1
        BY <4>1, <2>6, <2>2, <1>t
      <4>2. CASE i # d+1
        <5>1. i \in d+2..Len(c)
          BY <4>2, <2>2, <1>t
        <5> QED
          BY <5>1, <2>1
      <4> QED
        BY <4>1, <4>2
    <3>2. Level(c, d)
      BY <3>1, <2>1, <2>2 DEF Level
    <3> QED
      BY <3>2, <2>1, <2>2, <2>4 DEF OneOrTwoLevelsUp
  <2> QED
    BY <2>1, <2>5, <2>6
<1>2. ASSUME Len(c) >= 2, OneOrTwoLevelsUp(p, c)
      PROVE  is_parent_child_relation(p, c)
  <2>1. PICK k \in 1..Len(c) :
            Level(c, k) /\ p # c /\ p \in {Cut(c, k-1), Cut(c, k-2)}
    BY <1>2 DEF OneOrTwoLevelsUp
  <2>2. c[k] # 0 /\ \A i \in k+1..Len(c) : c[i] = 0
    BY <2>1 DEF Level
  <2>3. ASSUME NEW d \in 1..Len(c), p = Cut(c, d-1), c[d] # 0,
               \A i \in d+2..Len(c) : c[i] = 0
        PROVE  is_parent_child_relation(p, c)
    <3>1. Len(p) = Len(c)
      <4>1. DOMAIN p = 1..Len(c)
        BY <2>3 DEF Cut
      <4>2. DOMAIN p = 1..Len(p)
        BY <1>t
      <4> QED
        BY <4>1, <4>2, <1>t
    <3>2. \A i \in 1..Len(c) : p[i] = IF i <= d-1 THEN c[i] ELSE 0
      BY <2>3 DEF Cut
    <3>3. p[d] = 0
      BY <3>2, <1>t
    <3>4. \A j \in 1..d-1 : p[j] = c[j]
      BY <3>2, <1>t
    <3>5. \A i \in d+1..Len(p) : p[i] = 0
      BY <3>1, <3>2, <1>t
    <3>6. FirstDiff(p, c) = d
      BY <3>1, <3>3, <3>4, <2>3, FirstDiffIs
    <3> QED
      BY <3>1, <3>3, <3>5, <3>6, <2>1, <2>3, <1>2 DEF is_parent_child_relation
  <2>4. CASE p = Cut(c, k-1)
    <3>1. \A i \in k+2..Len(c) : c[i] = 0
      BY <2>2, <1>t
    <3> QED
      BY <3>1, <2>2, <2>3, <2>4
  <2>5. CASE p = Cut(c, k-2) /\ k >= 2 /\ c[k-1] # 0
    <3>1. k-1 \in 1..Len(c) /\ (k-1)-1 = k-2 /\ (k-1)+2 = k+1
      BY <2>5, <1>t
    <3>2. \A i \in (k-1)+2..Len(c) : c[i] = 0
      BY <3>1, <2>2
    <3>3. p = Cut(c, (k-1)-1) /\ c[k-1] # 0
      BY <3>1, <2>5
    <3> QED
      BY <3>1, <3>2, <3>3, <2>3
  <2>6. CASE p = Cut(c, k-2) /\ ~ (k >= 2 /\ c[k-1] # 0)
    <3>1. \A i \in 1..Len(c) : (IF i <= k-2 THEN c[i] ELSE 0) = (IF i <= k-1 THEN c[i] ELSE 0)
      BY <2>6, <1>t
    <3>2. p = Cut(c, k-1)
      BY <3>1, <2>6 DEF Cut
    <3> QED
      BY <3>2, <2>4
  <2> QED
    BY <2>1, <2>4, <2>5, <2>6
<1> QED
  BY <1>1, <1>2
(***************************************************************************)
(* Induction over the naturals, for a set of them.                          *)
(***************************************************************************)
LEMMA UpFromZero ==
    ASSUME NEW S, 0 \in S, \A k \in Nat : k \in S => k + 1 \in S
    PROVE  \A k \in Nat : k \in S
<1> DEFINE Bad == Nat \ S
<1> SUFFICES ASSUME Bad # {} PROVE FALSE
  OBVIOUS
<1>1. PICK m \in Bad : \A j \in Bad : m <= j
  <2>1. Bad \in SUBSET Nat
    OBVIOUS
  <2> HIDE DEF Bad
  <2> QED
    BY <2>1, SmallestExists
<1>2. m \in Nat /\ m \notin S /\ m # 0
  OBVIOUS
<1>3. m - 1 \in Nat /\ ~ m <= m - 1 /\ (m - 1) + 1 = m
  BY <1>2
<1>4. m - 1 \notin Bad
  <2> HIDE DEF Bad
  <2> QED
    BY <1>1, <1>3
<1> QED
  BY <1>2, <1>3, <1>4

-----------------------------------------------------------------------------
(* The walk over a forest, whatever it is made of.                          *)

\* The sequences ss[1], ss[1] \o ss[2], ... up to ss[1] \o .. \o ss[k].
Flat(g, ss, k) == g = [i \in 1..k |-> IF i = 1 THEN ss[i] ELSE g[i-1] \o ss[i]]

LEMMA FlatExists ==
    ASSUME NEW ss
    PROVE  \A k \in Nat : \E g : Flat(g, ss, k)
<1> DEFINE S == {k \in Nat : \E g : Flat(g, ss, k)}
<1>1. 0 \in S
  <2> DEFINE g == [i \in 1..0 |-> ss[i]]
  <2>1. g = [i \in 1..0 |-> IF i = 1 THEN ss[i] ELSE g[i-1] \o ss[i]]
    OBVIOUS
  <2> QED
    BY <2>1 DEF Flat
<1>2. ASSUME NEW k \in Nat, k \in S PROVE k + 1 \in S
  <2>1. PICK g : Flat(g, ss, k)
    BY <1>2
  <2>2. g = [i \in 1..k |-> IF i = 1 THEN ss[i] ELSE g[i-1] \o ss[i]]
    BY <2>1 DEF Flat
  <2> DEFINE f == [i \in 1..k+1 |-> IF i <= k THEN g[i]
                                    ELSE IF i = 1 THEN ss[i] ELSE g[i-1] \o ss[i]]
  <2>3. \A i \in 1..k+1 : f[i] = IF i = 1 THEN ss[i] ELSE f[i-1] \o ss[i]
    <3> SUFFICES ASSUME NEW i \in 1..k+1
                 PROVE  f[i] = IF i = 1 THEN ss[i] ELSE f[i-1] \o ss[i]
      OBVIOUS
    <3>1. i # 1 => i - 1 \in 1..k+1 /\ i - 1 <= k /\ f[i-1] = g[i-1]
      OBVIOUS
    <3>2. CASE i <= k
      <4>1. i \in 1..k /\ f[i] = g[i]
        BY <3>2
      <4>2. g[i] = IF i = 1 THEN ss[i] ELSE g[i-1] \o ss[i]
        BY <2>2, <4>1
      <4> QED
        BY <3>1, <4>1, <4>2
    <3>3. CASE ~ i <= k
      BY <3>1, <3>3
    <3> QED
      BY <3>2, <3>3
  <2>4. f = [i \in 1..k+1 |-> f[i]]
    OBVIOUS
  <2> HIDE DEF f
  <2>5. Flat(f, ss, k + 1)
    BY <2>3, <2>4 DEF Flat
  <2> QED
    BY <2>5
<1>3. \A k \in Nat : k \in S
  <2> HIDE DEF S
  <2> QED
    BY <1>1, <1>2, UpFromZero
<1> QED
  BY <1>3

\* Chaining N sequences is N steps, each of which appends one.
Steps(T, N, ss, g) ==
    /\ g[0] = <<>> /\ g[N] = FlattenSeq(ss)
    /\ \A i \in 1..N : g[i] = g[i-1] \o ss[i]
    /\ \A i \in 0..N : g[i] \in Seq(T)

LEMMA FlattenSteps ==
    ASSUME NEW T, NEW N \in Nat, NEW ss \in [1..N -> Seq(T)]
    PROVE  \E g : Steps(T, N, ss, g)
<1>1. Len(ss) = N
  OBVIOUS
<1> DEFINE f == CHOOSE g : Flat(g, ss, N)
<1>2. Flat(f, ss, N)
  BY FlatExists
<1>3. N # 0 => FlattenSeq(ss) = f[N]
  <2>1. N # 0 => FlattenSeq(ss) = LET g[i \in 1..Len(ss)] ==
                                          IF i = 1 THEN ss[i] ELSE g[i-1] \o ss[i]
                                  IN  g[Len(ss)]
    BY <1>1 DEF FlattenSeq
  <2>2. (CHOOSE g : g = [i \in 1..N |-> IF i = 1 THEN ss[i] ELSE g[i-1] \o ss[i]]) = f
    BY DEF Flat
  <2> QED
    BY <1>1, <2>1, <2>2
<1> HIDE DEF f
<1>4. \A i \in 1..N : f[i] = IF i = 1 THEN ss[i] ELSE f[i-1] \o ss[i]
  BY <1>2 DEF Flat
<1>5. N = 0 => FlattenSeq(ss) = <<>>
  <2>1. N = 0 => FlattenSeq(ss) = ss
    BY <1>1 DEF FlattenSeq
  <2>2. N = 0 => ss = <<>>
    OBVIOUS
  <2> QED
    BY <2>1, <2>2
<1> DEFINE h == [i \in 0..N |-> IF i = 0 THEN <<>> ELSE f[i]]
<1>6. \A i \in 1..N : h[i] = h[i-1] \o ss[i]
  <2> SUFFICES ASSUME NEW i \in 1..N PROVE h[i] = h[i-1] \o ss[i]
    OBVIOUS
  <2>1. i \in 0..N /\ i # 0 /\ h[i] = f[i]
    OBVIOUS
  <2>2. CASE i = 1
    <3>1. <<>> \o ss[1] = ss[1]
      BY <2>2, ConcatEmptySeq
    <3>2. h[0] = <<>> /\ i - 1 = 0
      BY <2>2
    <3> QED
      BY <1>4, <2>1, <2>2, <3>1, <3>2
  <2>3. CASE i # 1
    <3>1. i - 1 \in 0..N /\ i - 1 # 0 /\ h[i-1] = f[i-1]
      BY <2>3
    <3> QED
      BY <1>4, <2>1, <2>3, <3>1
  <2> QED
    BY <2>2, <2>3
<1>7. h[0] = <<>> /\ h[N] = FlattenSeq(ss)
  BY <1>3, <1>5
<1> HIDE DEF h
<1> DEFINE S == {k \in Nat : k <= N => h[k] \in Seq(T)}
<1>8. \A k \in Nat : k \in S
  <2>1. 0 \in S
    BY <1>7, EmptySeq
  <2>2. ASSUME NEW k \in Nat, k \in S PROVE k + 1 \in S
    <3> SUFFICES ASSUME k + 1 <= N PROVE h[k+1] \in Seq(T)
      OBVIOUS
    <3>1. k + 1 \in 1..N /\ h[k] \in Seq(T) /\ (k + 1) - 1 = k
      BY <2>2
    <3>2. h[k+1] = h[k] \o ss[k+1] /\ ss[k+1] \in Seq(T)
      BY <1>6, <3>1
    <3> QED
      BY <3>1, <3>2, ConcatProperties
  <2> HIDE DEF S
  <2> QED
    BY <2>1, <2>2, UpFromZero
<1>9. \A i \in 0..N : h[i] \in Seq(T)
  BY <1>8
<1>10. Steps(T, N, ss, h)
  BY <1>6, <1>7, <1>9 DEF Steps
<1> QED
  BY <1>10

In(s) == {s[i] : i \in 1..Len(s)}

\* s lists the members of S, each once.
Lists(S, s) ==
    /\ s \in Seq(S) /\ In(s) = S
    /\ \A i, j \in 1..Len(s) : s[i] = s[j] => i = j

\* E is a forest: K has the children of each element in order and P the parent
\* of those that have one, which has a smaller height h.
IsForest(E, K, P, h, B) ==
    /\ B \in Nat /\ \A n \in E : h[n] \in Nat /\ h[n] <= B
    /\ K \in [E -> Seq(E)]
    /\ DOMAIN P \subseteq E
    /\ \A c \in DOMAIN P : P[c] \in E /\ h[P[c]] < h[c]
    /\ \A n \in E : \A i \in 1..Len(K[n]) : K[n][i] \in DOMAIN P /\ P[K[n][i]] = n
    /\ \A n \in E : \A i, j \in 1..Len(K[n]) : K[n][i] = K[n][j] => i = j
    /\ \A c \in DOMAIN P : \E i \in 1..Len(K[P[c]]) : K[P[c]][i] = c

\* s is what hangs below the elements of R, and them: each once, and the
\* children of each before it.
Below(E, P, h, R, s) ==
    /\ s \in Seq(E)
    /\ \A i, j \in 1..Len(s) : s[i] = s[j] => i = j
    /\ R \subseteq In(s)
    /\ \A x \in In(s) \ R : /\ x \in DOMAIN P /\ P[x] \in In(s)
                            /\ \E r \in R : h[r] < h[x]
    /\ \A i \in 1..Len(s) : \A c \in DOMAIN P : P[c] = s[i] => \E j \in 1..i-1 : s[j] = c

\* Elements with one parent, or without one.
Siblings(P, R) ==
    \A a, b \in R : a \in DOMAIN P => b \in DOMAIN P /\ P[a] = P[b]

\* What hangs below one sibling does not hang below another.
LEMMA BelowIsDisjoint ==
    ASSUME NEW E, NEW K, NEW P, NEW h, NEW B, IsForest(E, K, P, h, B),
           NEW R, NEW U, Siblings(P, R \cup U), R \cap U = {},
           NEW s, Below(E, P, h, R, s), NEW u, Below(E, P, h, U, u)
    PROVE  In(s) \cap In(u) = {}
<1>1. /\ \A n \in E : h[n] \in Nat
      /\ \A c \in DOMAIN P : P[c] \in E /\ h[P[c]] < h[c]
      /\ In(s) \subseteq E /\ In(u) \subseteq E
  BY DEF IsForest, Below, In
<1>2. /\ R \subseteq In(s) /\ U \subseteq In(u)
      /\ \A x \in In(s) \ R : x \in DOMAIN P /\ P[x] \in In(s) /\ \E r \in R : h[r] < h[x]
      /\ \A x \in In(u) \ U : x \in DOMAIN P /\ P[x] \in In(u) /\ \E r \in U : h[r] < h[x]
  BY DEF Below
<1> HIDE DEF In
<1>3. ASSUME NEW x \in R, x \in In(u), x \notin U PROVE FALSE
  <2>1. x \in DOMAIN P /\ P[x] \in In(u) /\ P[x] \in E /\ h[P[x]] \in Nat
    BY <1>1, <1>2, <1>3
  <2>2. \A r \in U : r \in DOMAIN P /\ P[r] = P[x] /\ h[P[x]] < h[r] /\ h[r] \in Nat
    BY <1>1, <1>2, <2>1 DEF Siblings
  <2>3. P[x] \in U => FALSE
    BY <1>1, <2>1, <2>2
  <2>4. P[x] \notin U => FALSE
    <3>1. P[x] \notin U => \E r \in U : h[r] < h[P[x]]
      BY <1>2, <2>1
    <3> QED
      BY <2>1, <2>2, <3>1
  <2> QED
    BY <2>3, <2>4
<1>4. ASSUME NEW x \in U, x \in In(s), x \notin R PROVE FALSE
  <2>1. x \in DOMAIN P /\ P[x] \in In(s) /\ P[x] \in E /\ h[P[x]] \in Nat
    BY <1>1, <1>2, <1>4
  <2>2. \A r \in R : r \in DOMAIN P /\ P[r] = P[x] /\ h[P[x]] < h[r] /\ h[r] \in Nat
    BY <1>1, <1>2, <2>1 DEF Siblings
  <2>3. P[x] \in R => FALSE
    BY <1>1, <2>1, <2>2
  <2>4. P[x] \notin R => FALSE
    <3>1. P[x] \notin R => \E r \in R : h[r] < h[P[x]]
      BY <1>2, <2>1
    <3> QED
      BY <2>1, <2>2, <3>1
  <2> QED
    BY <2>3, <2>4
<1> DEFINE Both == In(s) \cap In(u)
           D == {h[x] : x \in Both}
<1>5. ASSUME Both # {} PROVE FALSE
  <2>1. D \in SUBSET Nat /\ D # {}
    BY <1>1, <1>5
  <2>2. PICK m \in D : \A n \in D : m <= n
    <3> HIDE DEF D
    <3> QED
      BY <2>1, SmallestExists
  <2>3. PICK x \in Both : m = h[x]
    OBVIOUS
  <2>4. \A y \in Both : h[x] <= h[y]
    BY <2>2, <2>3
  <2>5. x \notin R /\ x \notin U
    BY <1>2, <1>3, <1>4
  <2>6. x \in DOMAIN P /\ P[x] \in Both /\ h[P[x]] < h[x] /\ h[x] \in Nat /\ h[P[x]] \in Nat
    BY <1>1, <1>2, <2>5
  <2> HIDE DEF Both
  <2> QED
    BY <2>4, <2>6
<1> QED
  BY <1>5

\* The parts of two sequences one after the other.
LEMMA Chained ==
    ASSUME NEW E, NEW s \in Seq(E), NEW u \in Seq(E)
    PROVE  /\ s \o u \in Seq(E) /\ Len(s \o u) = Len(s) + Len(u)
           /\ Len(s) \in Nat /\ Len(u) \in Nat
           /\ \A i \in 1..Len(s) : i \in 1..Len(s \o u) /\ (s \o u)[i] = s[i]
           /\ \A i \in 1..Len(u) : /\ Len(s) + i \in 1..Len(s \o u)
                                   /\ (s \o u)[Len(s) + i] = u[i]
           /\ \A i \in 1..Len(s \o u) : \/ i \in 1..Len(s)
                                        \/ \E j \in 1..Len(u) : i = Len(s) + j
           /\ In(s \o u) = In(s) \cup In(u)
<1>1. /\ s \o u \in Seq(E) /\ Len(s \o u) = Len(s) + Len(u)
      /\ \A i \in 1..Len(s) + Len(u) :
            (s \o u)[i] = IF i <= Len(s) THEN s[i] ELSE u[i - Len(s)]
  BY ConcatProperties
<1> DEFINE a == Len(s)
           b == Len(u)
           t == s \o u
<1>2. a \in Nat /\ b \in Nat
  BY LenProperties
<1>3. \A i \in 1..a : i \in 1..a + b /\ t[i] = s[i]
  BY <1>1, <1>2
<1>4. ASSUME NEW i \in 1..b PROVE a + i \in 1..a + b /\ t[a + i] = u[i]
  <2> HIDE DEF a, b
  <2>1. a + i \in 1..a + b /\ ~ a + i <= a /\ (a + i) - a = i
    BY <1>2
  <2> QED
    BY <1>1, <2>1 DEF a, b
<1>5. ASSUME NEW i \in 1..a + b, i \notin 1..a PROVE \E j \in 1..b : i = a + j
  <2> HIDE DEF a, b
  <2>1. i - a \in 1..b /\ i = a + (i - a)
    BY <1>2, <1>5
  <2> QED
    BY <2>1
<1>6. Len(t) = a + b
  BY <1>1
<1> HIDE DEF a, b, t
<1>7. In(t) = In(s) \cup In(u)
  <2>1. ASSUME NEW x \in In(t) PROVE x \in In(s) \cup In(u)
    <3>1. PICK i \in 1..a + b : x = t[i]
      BY <1>6 DEF In
    <3> QED
      BY <1>3, <1>4, <1>5, <3>1 DEF In, a, b
  <2>2. ASSUME NEW x \in In(s) PROVE x \in In(t)
    BY <1>3, <1>6 DEF In, a
  <2>3. ASSUME NEW x \in In(u) PROVE x \in In(t)
    BY <1>4, <1>6 DEF In, b
  <2> QED
    BY <2>1, <2>2, <2>3
<1> QED
  BY <1>1, <1>2, <1>3, <1>4, <1>5, <1>6, <1>7 DEF a, b, t

\* One more sibling and what hangs below it.
LEMMA OneSiblingMore ==
    ASSUME NEW E, NEW K, NEW P, NEW h, NEW B, IsForest(E, K, P, h, B),
           NEW R, NEW U, Siblings(P, R \cup U), R \cap U = {},
           NEW s, Below(E, P, h, R, s), NEW u, Below(E, P, h, U, u)
    PROVE  Below(E, P, h, R \cup U, s \o u)
<1> DEFINE t == s \o u
           a == Len(s)
           b == Len(u)
<1>1. s \in Seq(E) /\ u \in Seq(E)
  BY DEF Below
<1>2. /\ t \in Seq(E) /\ Len(t) = a + b /\ a \in Nat /\ b \in Nat
      /\ \A i \in 1..a : i \in 1..Len(t) /\ t[i] = s[i]
      /\ \A i \in 1..b : a + i \in 1..Len(t) /\ t[a + i] = u[i]
      /\ \A i \in 1..Len(t) : i \in 1..a \/ \E j \in 1..b : i = a + j
      /\ In(t) = In(s) \cup In(u)
  BY <1>1, Chained
<1>3. In(s) \cap In(u) = {}
  BY BelowIsDisjoint
<1> HIDE DEF t, a, b
<1>4. /\ \A i \in 1..a : s[i] \in In(s)
      /\ \A i \in 1..b : u[i] \in In(u)
  BY DEF In, a, b
<1>5. /\ \A i, j \in 1..a : s[i] = s[j] => i = j
      /\ \A i, j \in 1..b : u[i] = u[j] => i = j
  BY DEF Below, a, b
<1>6. ASSUME NEW i \in 1..Len(t), NEW j \in 1..Len(t), t[i] = t[j] PROVE i = j
  <2>1. CASE i \in 1..a /\ j \in 1..a
    BY <1>2, <1>5, <1>6, <2>1
  <2>2. CASE i \in 1..a /\ j \notin 1..a
    BY <1>2, <1>3, <1>4, <1>6, <2>2
  <2>3. CASE i \notin 1..a /\ j \in 1..a
    BY <1>2, <1>3, <1>4, <1>6, <2>3
  <2>4. CASE i \notin 1..a /\ j \notin 1..a
    <3>1. PICK k, l \in 1..b : i = a + k /\ j = a + l
      BY <1>2, <2>4
    <3>2. u[k] = u[l]
      BY <1>2, <1>6, <3>1
    <3> QED
      BY <1>5, <3>1, <3>2
  <2> QED
    BY <2>1, <2>2, <2>3, <2>4
<1>7. R \cup U \subseteq In(t)
  BY <1>2 DEF Below
<1>8. ASSUME NEW x \in In(t) \ (R \cup U)
      PROVE  x \in DOMAIN P /\ P[x] \in In(t) /\ \E r \in R \cup U : h[r] < h[x]
  BY <1>2 DEF Below
<1>9. ASSUME NEW i \in 1..Len(t), NEW c \in DOMAIN P, P[c] = t[i]
      PROVE  \E j \in 1..i-1 : t[j] = c
  <2>1. CASE i \in 1..a
    <3>1. s[i] = P[c] /\ i \in 1..Len(s)
      BY <1>2, <1>9, <2>1 DEF a
    <3>3. PICK j \in 1..i-1 : s[j] = c
      BY <3>1 DEF Below
    <3>2. j \in 1..a
      BY <1>2, <2>1
    <3> QED
      BY <1>2, <3>2, <3>3
  <2>2. CASE i \notin 1..a
    <3>1. PICK k \in 1..b : i = a + k
      BY <1>2, <2>2
    <3>4. u[k] = P[c] /\ k \in 1..Len(u)
      BY <1>2, <1>9, <3>1 DEF b
    <3>2. PICK j \in 1..k-1 : u[j] = c
      BY <3>4 DEF Below
    <3>3. j \in 1..b /\ a + j \in 1..i-1
      BY <1>2, <3>1
    <3> QED
      BY <1>2, <3>2, <3>3
  <2> QED
    BY <2>1, <2>2
<1> QED
  BY <1>2, <1>6, <1>7, <1>8, <1>9 DEF Below, t

\* Nothing hangs below nothing.
LEMMA NothingBelow ==
    ASSUME NEW E, NEW P, NEW h
    PROVE  Below(E, P, h, {}, <<>>)
<1>1. <<>> \in Seq(E) /\ Len(<<>>) = 0
  BY EmptySeq
<1>2. In(<<>>) = {}
  BY <1>1 DEF In
<1> QED
  BY <1>1, <1>2 DEF Below

\* All siblings, one after the other.
LEMMA AllSiblings ==
    ASSUME NEW E, NEW K, NEW P, NEW h, NEW B, IsForest(E, K, P, h, B),
           NEW t \in Seq(E), \A i, j \in 1..Len(t) : t[i] = t[j] => i = j,
           Siblings(P, In(t)),
           NEW ss \in [1..Len(t) -> Seq(E)],
           \A i \in 1..Len(t) : Below(E, P, h, {t[i]}, ss[i])
    PROVE  Below(E, P, h, In(t), FlattenSeq(ss))
<1> DEFINE N == Len(t)
           First(k) == {t[i] : i \in 1..k}
<1>1. N \in Nat
  BY LenProperties
<1>2. PICK g : Steps(E, N, ss, g)
  <2>1. N \in Nat /\ ss \in [1..N -> Seq(E)]
    BY <1>1
  <2> HIDE DEF N
  <2> QED
    BY <2>1, FlattenSteps
<1>7. /\ g[0] = <<>> /\ g[N] = FlattenSeq(ss)
      /\ \A i \in 1..N : g[i] = g[i-1] \o ss[i]
  BY <1>2 DEF Steps
<1> DEFINE S == {k \in Nat : k <= N => Below(E, P, h, First(k), g[k])}
<1>3. 0 \in S
  <2>1. First(0) = {}
    OBVIOUS
  <2>2. Below(E, P, h, {}, <<>>)
    BY NothingBelow
  <2> HIDE DEF First
  <2> QED
    BY <1>7, <2>1, <2>2
<1>4. ASSUME NEW k \in Nat, k \in S PROVE k + 1 \in S
  <2> SUFFICES ASSUME k + 1 <= N PROVE Below(E, P, h, First(k + 1), g[k + 1])
    OBVIOUS
  <2>1. k + 1 \in 1..N /\ (k + 1) - 1 = k /\ k <= N
    BY <1>1
  <2>2. Below(E, P, h, First(k), g[k]) /\ Below(E, P, h, {t[k+1]}, ss[k+1])
    BY <1>4, <2>1
  <2>3. g[k+1] = g[k] \o ss[k+1]
    BY <1>7, <2>1
  <2>4. First(k + 1) = First(k) \cup {t[k+1]}
    <3>1. 1..k+1 = 1..k \cup {k+1}
      OBVIOUS
    <3> QED
      BY <3>1
  <2>5. First(k) \cap {t[k+1]} = {}
    <3>1. \A i \in 1..k : i \in 1..N /\ i # k + 1
      BY <1>1, <2>1
    <3> QED
      BY <2>1, <3>1
  <2>6. First(k + 1) \subseteq In(t)
    <3>1. \A i \in 1..k+1 : i \in 1..N
      BY <1>1, <2>1
    <3> QED
      BY <3>1 DEF In
  <2>7. Siblings(P, First(k) \cup {t[k+1]})
    BY <2>4, <2>6 DEF Siblings
  <2> HIDE DEF First
  <2>8. Below(E, P, h, First(k) \cup {t[k+1]}, g[k] \o ss[k+1])
    BY <2>2, <2>5, <2>7, OneSiblingMore
  <2> QED
    BY <2>3, <2>4, <2>8
<1>5. N \in S
  <2> HIDE DEF S, N
  <2> QED
    BY <1>1, <1>3, <1>4, UpFromZero
<1>6. First(N) = In(t)
  BY DEF In
<1> HIDE DEF First
<1> QED
  BY <1>1, <1>5, <1>6, <1>7

\* An element behind all that hangs below its children.
LEMMA OneElementMore ==
    ASSUME NEW E, NEW K, NEW P, NEW h, NEW B, IsForest(E, K, P, h, B),
           NEW n \in E, NEW s, Below(E, P, h, In(K[n]), s)
    PROVE  Below(E, P, h, {n}, s \o <<n>>)
<1> DEFINE u == <<n>>
           t == s \o u
           a == Len(s)
           C == In(K[n])
<1>1. s \in Seq(E) /\ u \in Seq(E) /\ Len(u) = 1 /\ u[1] = n
  BY DEF Below
<1>2. /\ t \in Seq(E) /\ Len(t) = a + 1 /\ a \in Nat
      /\ \A i \in 1..a : i \in 1..Len(t) /\ t[i] = s[i]
      /\ a + 1 \in 1..Len(t) /\ t[a + 1] = n
      /\ \A i \in 1..Len(t) : i \in 1..a \/ i = a + 1
      /\ In(t) = In(s) \cup In(u)
  <2> HIDE DEF u
  <2>0. s \in Seq(E) /\ u \in Seq(E)
    BY <1>1
  <2>1. /\ t \in Seq(E) /\ Len(t) = Len(s) + Len(u) /\ Len(s) \in Nat
        /\ \A i \in 1..Len(s) : i \in 1..Len(t) /\ t[i] = s[i]
        /\ \A i \in 1..Len(u) : Len(s) + i \in 1..Len(t) /\ t[Len(s) + i] = u[i]
        /\ \A i \in 1..Len(t) : i \in 1..Len(s) \/ \E j \in 1..Len(u) : i = Len(s) + j
        /\ In(t) = In(s) \cup In(u)
    BY ONLY <2>0, Chained
  <2> HIDE DEF t
  <2>2. 1..Len(u) = {1}
    BY <1>1
  <2> QED
    BY <1>1, <2>1, <2>2
<1>3. In(u) = {n}
  BY <1>1 DEF In
<1>4. /\ \A x \in E : h[x] \in Nat
      /\ \A x \in C : x \in DOMAIN P /\ P[x] = n /\ x \in E /\ h[n] < h[x]
      /\ \A c \in DOMAIN P : P[c] = n => c \in C
  <2>1. \A x \in E : h[x] \in Nat
    BY DEF IsForest
  <2>2. ASSUME NEW x \in C PROVE x \in DOMAIN P /\ P[x] = n /\ x \in E /\ h[n] < h[x]
    <3>1. PICK i \in 1..Len(K[n]) : x = K[n][i]
      BY DEF In
    <3>2. x \in DOMAIN P /\ P[x] = n
      BY <3>1 DEF IsForest
    <3> QED
      BY <3>2 DEF IsForest
  <2>3. ASSUME NEW c \in DOMAIN P, P[c] = n PROVE c \in C
    <3>1. PICK i \in 1..Len(K[n]) : K[n][i] = c
      BY <2>3 DEF IsForest
    <3> QED
      BY <3>1 DEF In
  <2> QED
    BY <2>1, <2>2, <2>3
<1>5. /\ C \subseteq In(s) /\ In(s) \subseteq E
      /\ \A x \in In(s) \ C : x \in DOMAIN P /\ P[x] \in In(s) /\ \E r \in C : h[r] < h[x]
  <2>1. In(s) \subseteq E
    BY <1>1 DEF In
  <2> QED
    BY <2>1 DEF Below
<1>6. \A x \in In(s) : h[n] < h[x]
  BY <1>4, <1>5
<1>7. n \notin In(s)
  BY <1>4, <1>6
<1> HIDE DEF t, u, a, C
<1>8. \A i \in 1..a : s[i] \in In(s)
  BY DEF In, a
<1>9. ASSUME NEW i \in 1..Len(t), NEW j \in 1..Len(t), t[i] = t[j] PROVE i = j
  <2>1. \A k, l \in 1..a : s[k] = s[l] => k = l
    BY DEF Below, a
  <2> QED
    BY <1>2, <1>7, <1>8, <1>9, <2>1
<1>10. {n} \subseteq In(t)
  BY <1>2, <1>3
<1>11. ASSUME NEW x \in In(t) \ {n}
       PROVE  x \in DOMAIN P /\ P[x] \in In(t) /\ h[n] < h[x]
  <2>1. x \in In(s)
    BY <1>2, <1>3
  <2> QED
    BY <1>2, <1>3, <1>4, <1>5, <1>6, <2>1
<1>12. ASSUME NEW i \in 1..Len(t), NEW c \in DOMAIN P, P[c] = t[i]
       PROVE  \E j \in 1..i-1 : t[j] = c
  <2>1. CASE i \in 1..a
    <3>1. s[i] = P[c] /\ i \in 1..Len(s)
      BY <1>2, <1>12, <2>1 DEF a
    <3>2. PICK j \in 1..i-1 : s[j] = c
      BY <3>1 DEF Below
    <3>3. j \in 1..a
      BY <1>2, <2>1
    <3> QED
      BY <1>2, <3>2, <3>3
  <2>2. CASE i = a + 1
    <3>1. c \in In(s)
      BY <1>2, <1>4, <1>5, <1>12, <2>2
    <3>2. PICK j \in 1..a : s[j] = c
      BY <3>1 DEF In, a
    <3>3. j \in 1..i-1
      BY <1>2, <2>2
    <3> QED
      BY <1>2, <3>2, <3>3
  <2> QED
    BY <1>2, <2>1, <2>2
<1> QED
  BY <1>2, <1>9, <1>10, <1>11, <1>12 DEF Below, t, u

\* An element's children and what hangs below them, then the element.
Visit(K, f, n) == FlattenSeq([i \in 1..Len(K[n]) |-> f[K[n][i]]]) \o <<n>>

\* The recursive walk ends: the heights of a forest are bounded.
LEMMA WalkExists ==
    ASSUME NEW E, NEW K, NEW P, NEW h, NEW B, IsForest(E, K, P, h, B)
    PROVE  \E f : f = [n \in E |-> Visit(K, f, n)]
<1> DEFINE D(k) == {n \in E : B < k + h[n]}
           S == {k \in Nat : \E f : f = [n \in D(k) |-> Visit(K, f, n)]}
<1>1. /\ B \in Nat /\ \A n \in E : h[n] \in Nat /\ h[n] <= B
      /\ \A n \in E : \A i \in 1..Len(K[n]) : K[n][i] \in E /\ h[n] < h[K[n][i]]
  <2>1. B \in Nat /\ \A n \in E : h[n] \in Nat /\ h[n] <= B
    BY DEF IsForest
  <2>2. ASSUME NEW n \in E, NEW i \in 1..Len(K[n]) PROVE K[n][i] \in E /\ h[n] < h[K[n][i]]
    <3>1. K[n][i] \in DOMAIN P /\ P[K[n][i]] = n
      BY DEF IsForest
    <3> QED
      BY <3>1 DEF IsForest
  <2> QED
    BY <2>1, <2>2
<1>2. 0 \in S
  <2>1. D(0) = {}
    BY <1>1
  <2> DEFINE f == [n \in D(0) |-> n]
  <2>2. f = [n \in D(0) |-> Visit(K, f, n)]
    BY <2>1
  <2> QED
    BY <2>2
<1>3. ASSUME NEW k \in Nat, k \in S PROVE k + 1 \in S
  <2>1. PICK g : g = [n \in D(k) |-> Visit(K, g, n)]
    BY <1>3
  <2> DEFINE f == [n \in D(k+1) |-> Visit(K, g, n)]
  <2>2. \A n \in D(k) : n \in D(k+1) /\ f[n] = g[n]
    <3>1. \A n \in D(k) : n \in D(k+1)
      BY <1>1
    <3>2. \A n \in D(k) : g[n] = Visit(K, g, n)
      <4> HIDE DEF D
      <4> QED
        BY <2>1
    <3> HIDE DEF D
    <3> QED
      BY <3>1, <3>2
  <2>3. \A n \in D(k+1) : \A i \in 1..Len(K[n]) : K[n][i] \in D(k)
    BY <1>1
  <2>4. ASSUME NEW n \in D(k+1) PROVE f[n] = Visit(K, f, n)
    <3> HIDE DEF D
    <3>1. f[n] = Visit(K, g, n)
      OBVIOUS
    <3> HIDE DEF f
    <3>2. [i \in 1..Len(K[n]) |-> f[K[n][i]]] = [i \in 1..Len(K[n]) |-> g[K[n][i]]]
      BY <2>2, <2>3
    <3> QED
      BY <3>1, <3>2 DEF Visit
  <2>5. f = [n \in D(k+1) |-> f[n]]
    OBVIOUS
  <2> HIDE DEF f, D
  <2>6. f = [n \in D(k+1) |-> Visit(K, f, n)]
    BY <2>4, <2>5
  <2> QED
    BY <2>6
<1>4. \A k \in Nat : k \in S
  <2> HIDE DEF S
  <2> QED
    BY <1>2, <1>3, UpFromZero
<1>5. D(B + 1) = E /\ B + 1 \in Nat
  BY <1>1
<1> HIDE DEF D
<1> QED
  BY <1>4, <1>5

\* What the recursive walk finds below each element.
LEMMA WalkIsBelow ==
    ASSUME NEW E, NEW K, NEW P, NEW h, NEW B, IsForest(E, K, P, h, B),
           NEW f, f = [n \in E |-> Visit(K, f, n)]
    PROVE  \A n \in E : Below(E, P, h, {n}, f[n])
<1> DEFINE S == {k \in Nat : \A n \in E : B < k + h[n] => Below(E, P, h, {n}, f[n])}
<1>1. /\ B \in Nat /\ \A n \in E : h[n] \in Nat /\ h[n] <= B
      /\ K \in [E -> Seq(E)]
  BY DEF IsForest
<1>2. 0 \in S
  BY <1>1
<1>3. ASSUME NEW k \in Nat, k \in S PROVE k + 1 \in S
  <2> SUFFICES ASSUME NEW n \in E, B < k + 1 + h[n] PROVE Below(E, P, h, {n}, f[n])
    BY <1>1
  <2> DEFINE t == K[n]
             ss == [i \in 1..Len(t) |-> f[t[i]]]
  <2>1. t \in Seq(E) /\ \A i, j \in 1..Len(t) : t[i] = t[j] => i = j
    BY <1>1 DEF IsForest
  <2>2. \A i \in 1..Len(t) : t[i] \in DOMAIN P /\ P[t[i]] = n /\ t[i] \in E /\ h[n] < h[t[i]]
    <3> SUFFICES ASSUME NEW i \in 1..Len(t)
                 PROVE  t[i] \in DOMAIN P /\ P[t[i]] = n /\ t[i] \in E /\ h[n] < h[t[i]]
      OBVIOUS
    <3>1. t[i] \in DOMAIN P /\ P[t[i]] = n
      BY DEF IsForest
    <3> QED
      BY <3>1 DEF IsForest
  <2>3. \A i \in 1..Len(t) : Below(E, P, h, {t[i]}, f[t[i]])
    <3> SUFFICES ASSUME NEW i \in 1..Len(t) PROVE Below(E, P, h, {t[i]}, f[t[i]])
      OBVIOUS
    <3>1. B < k + h[t[i]] /\ t[i] \in E
      <4>1. t[i] \in E /\ h[n] < h[t[i]] /\ h[n] \in Nat /\ h[t[i]] \in Nat
        BY <1>1, <2>2
      <4> QED
        BY <1>1, <4>1
    <3> QED
      BY <1>3, <3>1
  <2>4. Siblings(P, In(t))
    BY <2>2 DEF Siblings, In
  <2>5. ss \in [1..Len(t) -> Seq(E)]
    BY <2>3 DEF Below
  <2>6. \A i \in 1..Len(t) : Below(E, P, h, {t[i]}, ss[i])
    BY <2>3
  <2>7. f[n] = FlattenSeq(ss) \o <<n>>
    BY DEF Visit
  <2> HIDE DEF ss
  <2>8. Below(E, P, h, In(K[n]), FlattenSeq(ss))
    BY <2>1, <2>4, <2>5, <2>6, AllSiblings
  <2> QED
    BY <2>7, <2>8, OneElementMore
<1>4. \A k \in Nat : k \in S
  <2> HIDE DEF S
  <2> QED
    BY <1>2, <1>3, UpFromZero
<1>5. B + 1 \in S /\ \A n \in E : B < (B + 1) + h[n]
  BY <1>1, <1>4
<1> QED
  BY <1>5

\* Each element of s stands behind those it is the parent of.
ChildrenFirst(P, s) ==
    \A i \in 1..Len(s) : \A c \in DOMAIN P : P[c] = s[i] => \E j \in 1..i-1 : s[j] = c

\* The walk from the elements without a parent: each element once, and behind
\* its children.
LEMMA WholeWalk ==
    ASSUME NEW E, NEW K, NEW P, NEW h, NEW B, IsForest(E, K, P, h, B),
           NEW f, f = [n \in E |-> Visit(K, f, n)],
           NEW t, Lists(E \ DOMAIN P, t),
           NEW s, s = FlattenSeq([i \in 1..Len(t) |-> f[t[i]]])
    PROVE  Lists(E, s) /\ ChildrenFirst(P, s)
<1>0. /\ t \in Seq(E) /\ \A i, j \in 1..Len(t) : t[i] = t[j] => i = j
      /\ In(t) = E \ DOMAIN P
  BY SeqMonotonic DEF Lists
<1> DEFINE ss == [i \in 1..Len(t) |-> f[t[i]]]
<1>1. \A i \in 1..Len(t) : t[i] \in E /\ Below(E, P, h, {t[i]}, f[t[i]])
  <2>1. \A n \in E : Below(E, P, h, {n}, f[n])
    BY WalkIsBelow
  <2> QED
    BY <1>0, <2>1, ElementOfSeq
<1>2. ss \in [1..Len(t) -> Seq(E)] /\ \A i \in 1..Len(t) : Below(E, P, h, {t[i]}, ss[i])
  BY <1>1 DEF Below
<1>3. Siblings(P, In(t))
  BY <1>0 DEF Siblings
<1> HIDE DEF ss
<1>4. Below(E, P, h, In(t), FlattenSeq(ss))
  BY <1>0, <1>2, <1>3, AllSiblings
<1>5. Below(E, P, h, In(t), s)
  BY <1>4 DEF ss
<1>6. In(s) \subseteq E
  BY <1>5 DEF Below, In
<1>7. ASSUME E \ In(s) # {} PROVE FALSE
  <2> DEFINE Out == E \ In(s)
             D == {h[x] : x \in Out}
  <2>1. D \in SUBSET Nat /\ D # {}
    <3>1. \A x \in Out : h[x] \in Nat
      BY DEF IsForest
    <3>2. PICK x \in Out : TRUE
      BY <1>7
    <3> HIDE DEF Out
    <3> QED
      BY <3>1, <3>2
  <2>2. PICK m \in D : \A n \in D : m <= n
    <3> HIDE DEF D
    <3> QED
      BY <2>1, SmallestExists
  <2>3. PICK x \in Out : m = h[x]
    OBVIOUS
  <2>4. \A y \in Out : h[x] <= h[y]
    BY <2>2, <2>3
  <2>5. x \in E /\ x \notin In(s) /\ x \in DOMAIN P
    BY <1>0, <1>5 DEF Below
  <2>6. P[x] \in E /\ h[P[x]] < h[x] /\ h[x] \in Nat /\ h[P[x]] \in Nat
    BY <2>5 DEF IsForest
  <2>7. P[x] \in In(s)
    <3> HIDE DEF Out, D
    <3>1. P[x] \notin Out
      BY <2>4, <2>6
    <3> QED
      BY <2>6, <3>1 DEF Out
  <2>8. PICK i \in 1..Len(s) : P[x] = s[i]
    BY <2>7 DEF In
  <2>9. PICK j \in 1..i-1 : s[j] = x
    <3>1. \A c \in DOMAIN P : P[c] = s[i] => \E j \in 1..i-1 : s[j] = c
      BY <1>5 DEF Below
    <3> QED
      BY <2>5, <2>8, <3>1
  <2>10. Len(s) \in Nat
    BY <1>5, LenProperties DEF Below
  <2>11. j \in 1..Len(s)
    BY <2>10
  <2> QED
    BY <2>5, <2>9, <2>11 DEF In
<1> QED
  BY <1>5, <1>6, <1>7 DEF Below, Lists, ChildrenFirst

-----------------------------------------------------------------------------
(* The heights of Profile_IDs.                                              *)

\* The last segment in use, 0 if none is.
Height(c) == IF \E k \in 1..Len(c) : Level(c, k)
             THEN CHOOSE k \in 1..Len(c) : Level(c, k) ELSE 0

Heights == [c \in Ids(doc) |-> Height(c)]

LEMMA HeightIs ==
    ASSUME NEW c \in Id
    PROVE  /\ Height(c) \in Nat /\ Height(c) <= Len(c)
           /\ \A k \in 1..Len(c) : Level(c, k) => Height(c) = k
           /\ Height(c) # 0 => Level(c, Height(c))
<1>1. Len(c) \in Nat
  BY DEF Id
<1>2. CASE \E k \in 1..Len(c) : Level(c, k)
  <2>1. Height(c) \in 1..Len(c) /\ Level(c, Height(c))
    BY <1>2 DEF Height
  <2>2. ASSUME NEW k \in 1..Len(c), Level(c, k) PROVE Height(c) = k
    <3> DEFINE l == Height(c)
    <3>1. l \in 1..Len(c) /\ c[l] # 0 /\ \A i \in l+1..Len(c) : c[i] = 0
      BY <2>1 DEF Level
    <3>2. c[k] # 0 /\ \A i \in k+1..Len(c) : c[i] = 0
      BY <2>2 DEF Level
    <3> HIDE DEF l
    <3>3. ~ l < k
      <4>1. l < k => k \in l+1..Len(c)
        BY <1>1, <3>1
      <4> QED
        BY <3>1, <3>2, <4>1
    <3>4. ~ k < l
      <4>1. k < l => l \in k+1..Len(c)
        BY <1>1, <3>1
      <4> QED
        BY <3>1, <3>2, <4>1
    <3>5. l = k
      BY <1>1, <3>1, <3>3, <3>4
    <3> QED
      BY <3>5 DEF l
  <2> QED
    BY <1>1, <2>1, <2>2
<1>3. CASE ~ \E k \in 1..Len(c) : Level(c, k)
  BY <1>1, <1>3 DEF Height
<1> QED
  BY <1>2, <1>3

\* A parent is of smaller height.
LEMMA ParentsAreLower ==
    ASSUME NEW c \in Id, NEW p \in Id, OneOrTwoLevelsUp(p, c)
    PROVE  Height(p) < Height(c)
<1>1. PICK k \in 1..Len(c) : Level(c, k) /\ p \in {Cut(c, k-1), Cut(c, k-2)}
  BY DEF OneOrTwoLevelsUp
<1>2. Height(c) = k /\ Len(c) \in Nat /\ Len(p) \in Nat
  BY <1>1, HeightIs DEF Id
<1>3. Height(p) \in Nat /\ (Height(p) # 0 => Level(p, Height(p)))
  BY HeightIs
<1>4. ASSUME Height(p) # 0, ~ Height(p) < k PROVE FALSE
  <2> DEFINE l == Height(p)
  <2>1. l \in 1..Len(p) /\ p[l] # 0
    BY <1>3, <1>4 DEF Level
  <2>2. DOMAIN p = 1..Len(c) /\ DOMAIN p = 1..Len(p)
    <3>1. DOMAIN Cut(c, k-1) = 1..Len(c) /\ DOMAIN Cut(c, k-2) = 1..Len(c)
      BY DEF Cut
    <3> QED
      BY <1>1, <3>1 DEF Id
  <2>3. l \in 1..Len(c)
    BY <2>1, <2>2
  <2>4. ~ l <= k-1 /\ ~ l <= k-2
    BY <1>2, <1>3, <1>4
  <2> HIDE DEF l
  <2>5. Cut(c, k-1)[l] = 0 /\ Cut(c, k-2)[l] = 0
    BY <2>3, <2>4 DEF Cut
  <2> QED
    BY <1>1, <2>1, <2>5
<1> QED
  BY <1>2, <1>3, <1>4

\* The heights of a document are bounded.
LEMMA HeightsAreBounded ==
    ASSUME doc \in Documents
    PROVE  \E B \in Nat : \A c \in Ids(doc) : Height(c) \in Nat /\ Height(c) <= B
<1>1. doc \in Seq(Element)
  BY DocumentAssumption
<1>2. Len(doc) \in Nat /\ \A e \in 1..Len(doc) : doc[e] \in Element
  BY <1>1
<1> DEFINE S == {k \in Nat : \E B \in Nat : \A e \in 1..Len(doc) :
                    e <= k /\ doc[e].id # NoId => Height(doc[e].id) <= B}
<1>3. 0 \in S
  <2>1. \A e \in 1..Len(doc) : ~ e <= 0
    BY <1>2
  <2> QED
    BY <2>1
<1>4. \A e \in 1..Len(doc) : doc[e].id # NoId => doc[e].id \in Id /\ Height(doc[e].id) \in Nat
  BY <1>2, HeightIs DEF Element
<1>5. ASSUME NEW k \in Nat, k \in S PROVE k + 1 \in S
  <2>1. PICK B \in Nat : \A e \in 1..Len(doc) :
            e <= k /\ doc[e].id # NoId => Height(doc[e].id) <= B
    BY <1>5
  <2>2. CASE k + 1 \in 1..Len(doc) /\ doc[k+1].id # NoId
    <3> DEFINE C == B + Height(doc[k+1].id)
    <3>1. C \in Nat /\ B <= C /\ Height(doc[k+1].id) <= C
      BY <1>4, <2>2
    <3> HIDE DEF C
    <3>2. ASSUME NEW e \in 1..Len(doc), e <= k + 1, doc[e].id # NoId
          PROVE  Height(doc[e].id) <= C
      <4>1. CASE e = k + 1
        BY <3>1, <4>1
      <4>2. CASE e # k + 1
        <5>1. e <= k
          BY <1>2, <3>2, <4>2
        <5>2. Height(doc[e].id) <= B /\ Height(doc[e].id) \in Nat
          BY <1>4, <2>1, <3>2, <5>1
        <5> QED
          BY <3>1, <5>2
      <4> QED
        BY <4>1, <4>2
    <3> QED
      BY <3>1, <3>2
  <2>3. CASE ~ (k + 1 \in 1..Len(doc) /\ doc[k+1].id # NoId)
    <3>1. ASSUME NEW e \in 1..Len(doc), e <= k + 1, doc[e].id # NoId
          PROVE  Height(doc[e].id) <= B
      <4>1. e <= k
        BY <1>2, <2>3, <3>1
      <4> QED
        BY <2>1, <3>1, <4>1
    <3> QED
      BY <3>1
  <2> QED
    BY <2>2, <2>3
<1>6. \A k \in Nat : k \in S
  <2> HIDE DEF S
  <2> QED
    BY <1>3, <1>5, UpFromZero
<1>7. PICK B \in Nat : \A e \in 1..Len(doc) :
            e <= Len(doc) /\ doc[e].id # NoId => Height(doc[e].id) <= B
  BY <1>2, <1>6
<1>8. ASSUME NEW c \in Ids(doc) PROVE Height(c) \in Nat /\ Height(c) <= B
  <2>1. PICK e \in 1..Len(doc) : c = doc[e].id /\ doc[e].id # NoId
    BY DEF Ids, Positions
  <2>2. e <= Len(doc)
    BY <1>2
  <2> QED
    BY <1>4, <1>7, <2>1, <2>2
<1> QED
  BY <1>8

-----------------------------------------------------------------------------
(* The tree.                                                                *)

LEMMA DocumentShape ==
    ASSUME doc \in Documents
    PROVE  /\ doc \in Seq(Element) /\ Len(doc) \in Nat /\ Positions(doc) = 1..Len(doc)
           /\ \A e \in Positions(doc) : doc[e] \in Element
           /\ \A e \in Positions(doc) : doc[e].id # NoId => doc[e].id \in Ids(doc)
           /\ \A c \in Ids(doc) : c \in Id /\ c # NoId /\ \E e \in Positions(doc) : doc[e].id = c
<1>1. doc \in Seq(Element)
  BY DocumentAssumption
<1>2. Len(doc) \in Nat /\ Positions(doc) = 1..Len(doc)
  BY <1>1 DEF Positions
<1>3. \A e \in Positions(doc) : doc[e] \in Element
  BY <1>1, <1>2
<1>4. \A e \in Positions(doc) : doc[e].id # NoId => doc[e].id \in Ids(doc)
  BY DEF Ids
<1>5. ASSUME NEW c \in Ids(doc)
      PROVE  c \in Id /\ c # NoId /\ \E e \in Positions(doc) : doc[e].id = c
  <2>1. PICK e \in Positions(doc) : doc[e].id = c /\ c # NoId
    BY DEF Ids
  <2> QED
    BY <1>3, <2>1 DEF Element
<1> QED
  BY <1>1, <1>2, <1>3, <1>4, <1>5

\* Every order of a finite set holds each of its elements once.
LEMMA EveryOrder ==
    ASSUME NEW S, IsFiniteSet(S), NEW s \in SetToSeqs(S)
    PROVE  Lists(S, s)
<1> DEFINE n == Cardinality(S)
<1>1. n \in Nat
  BY FS_CardinalityType
<1>2. s \in [1..n -> S] /\ \A i, j \in 1..n : i # j => s[i] # s[j]
  BY DEF SetToSeqs
<1>3. s \in Seq(S) /\ Len(s) = n
  <2> HIDE DEF n
  <2> QED
    BY <1>1, <1>2, SeqDef
<1>4. ASSUME NEW x \in S, \A i \in 1..n : s[i] # x PROVE FALSE
  <2> DEFINE T == S \ {x}
             I == 1..n
  <2>1. IsFiniteSet(T) /\ Cardinality(T) = n - 1
    BY FS_RemoveElement
  <2>2. IsFiniteSet(I) /\ Cardinality(I) = n
    <3> HIDE DEF n
    <3>1. Cardinality(I) = IF 1 > n THEN 0 ELSE n - 1 + 1
      BY <1>1, FS_Interval
    <3> QED
      BY <1>1, <3>1, FS_Interval
  <2>3. Cardinality(T) < Cardinality(I)
    BY <1>1, <2>1, <2>2
  <2>4. s \in [I -> T]
    BY <1>2, <1>4
  <2> HIDE DEF T, I
  <2>5. \E i, j \in I : i # j /\ s[i] = s[j]
    BY <2>1, <2>2, <2>3, <2>4, FS_PigeonHole
  <2> QED
    BY <1>2, <2>5 DEF I
<1>5. In(s) = S
  BY <1>2, <1>3, <1>4 DEF In
<1> QED
  BY <1>2, <1>3, <1>5 DEF Lists

\* ns holds the last of the first k elements of d that have a Profile_ID.
Keeps(d, ns, k) ==
    /\ IsFiniteSet(DOMAIN ns)
    /\ \A c \in DOMAIN ns : /\ c \in Ids(d) /\ ns[c] \in Positions(d)
                            /\ ns[c] <= k /\ d[ns[c]].id = c
    /\ \A e \in Positions(d) :
          e <= k /\ d[e].id # NoId => d[e].id \in DOMAIN ns /\ e <= ns[d[e].id]

\* Each link is in P and in K, and is one the relation accepts.
Links(I, P, K) ==
    /\ DOMAIN P \subseteq I
    /\ \A c \in DOMAIN P : P[c] \in I /\ is_parent_child_relation(P[c], c)
    /\ K \in [I -> Seq(I)]
    /\ \A n \in I : \A i \in 1..Len(K[n]) : K[n][i] \in DOMAIN P /\ P[K[n][i]] = n
    /\ \A n \in I : \A i, j \in 1..Len(K[n]) : K[n][i] = K[n][j] => i = j
    /\ \A c \in DOMAIN P : \E i \in 1..Len(K[P[c]]) : K[P[c]][i] = c

\* The first k nodes of the iteration have a parent in P, if there is one.
Linked(o, P, k) ==
    \A i \in 1..Len(o) :
        o[i] \in DOMAIN P <=>
            i <= k /\ \E j \in 1..Len(o) : is_parent_child_relation(o[j], o[i])

Walking == {"walk", "map", "done", "aborted"}

BuildInv ==
    /\ doc \in Documents
    /\ pc \in {"create", "link", "walk", "map", "done", "failed", "aborted"}
    /\ next \in Nat \ {0}
    /\ Links(Ids(doc), parent, kids)
    /\ pc \in {"create", "failed"} =>
          /\ next <= Len(doc) + 1 /\ Keeps(doc, nodes, next - 1)
          /\ order = <<>> /\ DOMAIN parent = {}
    /\ pc \in {"link"} \cup Walking =>
          Keeps(doc, nodes, Len(doc)) /\ Lists(Ids(doc), order)
    /\ pc = "link" => next <= Len(order) + 1 /\ Linked(order, parent, next - 1)
    /\ pc \in Walking => Linked(order, parent, Len(order))

LEMMA BuildInit == Init => BuildInv
<1> SUFFICES ASSUME Init PROVE BuildInv
  OBVIOUS
<1>1. /\ doc \in Documents /\ pc = "create" /\ next = 1 /\ order = <<>>
      /\ DOMAIN nodes = {} /\ DOMAIN parent = {} /\ kids = [i \in Ids(doc) |-> <<>>]
  BY DEF Init
<1>2. Len(doc) \in Nat /\ Positions(doc) = 1..Len(doc)
  BY <1>1, DocumentShape
<1>3. Links(Ids(doc), parent, kids)
  <2>1. kids \in [Ids(doc) -> Seq(Ids(doc))] /\ \A n \in Ids(doc) : Len(kids[n]) = 0
    BY <1>1, EmptySeq
  <2> QED
    BY <1>1, <2>1 DEF Links
<1>4. Keeps(doc, nodes, 0)
  <2>1. IsFiniteSet(DOMAIN nodes)
    BY <1>1, FS_EmptySet
  <2>2. \A e \in Positions(doc) : ~ e <= 0
    BY <1>2
  <2> QED
    BY <1>1, <2>1, <2>2 DEF Keeps
<1> QED
  BY <1>1, <1>2, <1>3, <1>4 DEF BuildInv, Walking

\* One more element.
LEMMA OneNodeMore ==
    ASSUME doc \in Documents, NEW k \in Positions(doc), NEW ns, Keeps(doc, ns, k - 1)
    PROVE  /\ doc[k].id = NoId => Keeps(doc, ns, k)
           /\ doc[k].id # NoId => Keeps(doc, Put(ns, doc[k].id, k), k)
<1>1. /\ Len(doc) \in Nat /\ Positions(doc) = 1..Len(doc) /\ k \in Nat
      /\ \A e \in Positions(doc) : doc[e].id # NoId => doc[e].id \in Ids(doc)
  BY DocumentShape
<1>2. \A e \in Positions(doc) : e \in Nat /\ (e <= k <=> e <= k - 1 \/ e = k)
  BY <1>1
<1>3. /\ IsFiniteSet(DOMAIN ns)
      /\ \A c \in DOMAIN ns : /\ c \in Ids(doc) /\ ns[c] \in Positions(doc)
                              /\ ns[c] <= k - 1 /\ doc[ns[c]].id = c
      /\ \A e \in Positions(doc) :
            e <= k - 1 /\ doc[e].id # NoId => doc[e].id \in DOMAIN ns /\ e <= ns[doc[e].id]
  BY DEF Keeps
<1>4. ASSUME doc[k].id = NoId PROVE Keeps(doc, ns, k)
  BY <1>2, <1>3, <1>4 DEF Keeps
<1>5. ASSUME doc[k].id # NoId PROVE Keeps(doc, Put(ns, doc[k].id, k), k)
  <2> DEFINE x == doc[k].id
             ms == Put(ns, x, k)
  <2>1. /\ DOMAIN ms = DOMAIN ns \cup {x}
        /\ \A c \in DOMAIN ms : ms[c] = IF c = x THEN k ELSE ns[c]
    BY DEF Put
  <2>2. x \in Ids(doc)
    BY <1>1, <1>5
  <2> HIDE DEF ms
  <2>3. IsFiniteSet(DOMAIN ms)
    BY <1>3, <2>1, FS_AddElement
  <2>4. ASSUME NEW c \in DOMAIN ms
        PROVE  /\ c \in Ids(doc) /\ ms[c] \in Positions(doc)
               /\ ms[c] <= k /\ doc[ms[c]].id = c
    <3>1. CASE c = x
      BY <1>1, <2>1, <2>2, <3>1
    <3>2. CASE c # x
      BY <1>2, <1>3, <2>1, <3>2
    <3> QED
      BY <3>1, <3>2
  <2>5. ASSUME NEW e \in Positions(doc), e <= k, doc[e].id # NoId
        PROVE  doc[e].id \in DOMAIN ms /\ e <= ms[doc[e].id]
    <3>1. CASE doc[e].id = x
      BY <2>1, <2>5, <3>1
    <3>2. CASE doc[e].id # x
      BY <1>2, <1>3, <2>1, <2>5, <3>2
    <3> QED
      BY <3>1, <3>2
  <2>6. Keeps(doc, ms, k)
    BY <2>3, <2>4, <2>5 DEF Keeps
  <2> QED
    BY <2>6 DEF ms
<1> QED
  BY <1>4, <1>5

LEMMA CreateNodeBuilds == BuildInv /\ CreateNode => BuildInv'
<1> SUFFICES ASSUME BuildInv, CreateNode PROVE BuildInv'
  OBVIOUS
<1>1. /\ pc = "create" /\ next \in Positions(doc) /\ next' = next + 1
      /\ nodes' = IF doc[next].id = NoId THEN nodes ELSE Put(nodes, doc[next].id, next)
      /\ UNCHANGED <<doc, pc, order, parent, kids>>
  BY DEF CreateNode
<1>2. /\ doc \in Documents /\ next \in Nat \ {0} /\ Links(Ids(doc), parent, kids)
      /\ Keeps(doc, nodes, next - 1) /\ order = <<>> /\ DOMAIN parent = {}
  BY <1>1 DEF BuildInv
<1>3. Keeps(doc, nodes', next)
  BY <1>1, <1>2, OneNodeMore
<1>4. next' <= Len(doc) + 1 /\ next' - 1 = next /\ next' \in Nat \ {0}
  BY <1>1, <1>2, DocumentShape
<1> QED
  BY <1>1, <1>2, <1>3, <1>4 DEF BuildInv, Walking

LEMMA StartLinkingBuilds == BuildInv /\ StartLinking => BuildInv'
<1> SUFFICES ASSUME BuildInv, StartLinking PROVE BuildInv'
  OBVIOUS
<1>1. /\ pc = "create" /\ next = Len(doc) + 1 /\ pc' = "link" /\ next' = 1
      /\ order' \in SetToSeqs(DOMAIN nodes)
      /\ UNCHANGED <<doc, nodes, parent, kids>>
  BY DEF StartLinking
<1>2. /\ doc \in Documents /\ Links(Ids(doc), parent, kids)
      /\ Keeps(doc, nodes, next - 1) /\ DOMAIN parent = {}
  BY <1>1 DEF BuildInv
<1>3. /\ Len(doc) \in Nat /\ Positions(doc) = 1..Len(doc)
      /\ \A c \in Ids(doc) : c # NoId /\ \E e \in Positions(doc) : doc[e].id = c
  BY <1>2, DocumentShape
<1>4. Keeps(doc, nodes, Len(doc))
  BY <1>1, <1>2, <1>3
<1>5. DOMAIN nodes = Ids(doc) /\ IsFiniteSet(DOMAIN nodes)
  <2>1. ASSUME NEW c \in Ids(doc) PROVE c \in DOMAIN nodes
    <3>1. PICK e \in Positions(doc) : doc[e].id = c /\ c # NoId
      BY <1>3
    <3>2. e <= Len(doc)
      BY <1>3
    <3> QED
      BY <1>4, <3>1, <3>2 DEF Keeps
  <2> QED
    BY <1>4, <2>1 DEF Keeps
<1>6. Lists(Ids(doc), order')
  BY <1>1, <1>5, EveryOrder
<1>7. Len(order') \in Nat
  BY <1>6, LenProperties DEF Lists
<1>8. Linked(order', parent, 0)
  BY <1>2, <1>7 DEF Linked
<1>9. 1 \in Nat \ {0} /\ 1 <= Len(order') + 1 /\ 1 - 1 = 0
  BY <1>7
<1> QED
  BY <1>1, <1>2, <1>4, <1>6, <1>8, <1>9 DEF BuildInv, Walking

\* One more link.
LEMMA OneLinkMore ==
    ASSUME NEW I, NEW P, NEW K, Links(I, P, K), NEW c \in I \ DOMAIN P, NEW p \in I,
           is_parent_child_relation(p, c)
    PROVE  Links(I, Put(P, c, p), [K EXCEPT ![p] = Append(@, c)])
<1> DEFINE Q == Put(P, c, p)
           L == [K EXCEPT ![p] = Append(@, c)]
<1>1. DOMAIN Q = DOMAIN P \cup {c} /\ \A x \in DOMAIN Q : Q[x] = IF x = c THEN p ELSE P[x]
  BY DEF Put
<1>2. /\ DOMAIN P \subseteq I /\ K \in [I -> Seq(I)]
      /\ \A x \in DOMAIN P : P[x] \in I /\ is_parent_child_relation(P[x], x)
      /\ \A n \in I : \A i \in 1..Len(K[n]) : K[n][i] \in DOMAIN P /\ P[K[n][i]] = n
      /\ \A n \in I : \A i, j \in 1..Len(K[n]) : K[n][i] = K[n][j] => i = j
      /\ \A x \in DOMAIN P : \E i \in 1..Len(K[P[x]]) : K[P[x]][i] = x
  BY DEF Links
<1>3. \A n \in I : L[n] = IF n = p THEN Append(K[p], c) ELSE K[n]
  BY <1>2
<1>4. /\ Append(K[p], c) \in Seq(I) /\ Len(Append(K[p], c)) = Len(K[p]) + 1 /\ Len(K[p]) \in Nat
      /\ \A i \in 1..Len(K[p]) : Append(K[p], c)[i] = K[p][i]
      /\ Append(K[p], c)[Len(K[p]) + 1] = c
  <2>1. K[p] \in Seq(I)
    BY <1>2
  <2> QED
    BY <2>1, AppendProperties
<1>5. L \in [I -> Seq(I)]
  BY <1>2, <1>4
<1> HIDE DEF Q, L
<1>11. /\ Len(L[p]) = Len(K[p]) + 1 /\ L[p][Len(K[p]) + 1] = c
       /\ \A i \in 1..Len(K[p]) : L[p][i] = K[p][i]
  BY <1>3, <1>4
<1>12. \A n \in I : n # p => L[n] = K[n]
  BY <1>3
<1>6. \A x \in DOMAIN Q : Q[x] \in I /\ is_parent_child_relation(Q[x], x)
  BY <1>1, <1>2
<1>7. ASSUME NEW n \in I, NEW i \in 1..Len(L[n])
      PROVE  L[n][i] \in DOMAIN Q /\ Q[L[n][i]] = n
  <2>1. CASE n # p
    <3>1. L[n] = K[n]
      BY <1>12, <2>1
    <3>2. i \in 1..Len(K[n]) /\ L[n][i] = K[n][i]
      BY <3>1
    <3>4. K[n][i] \in DOMAIN P /\ P[K[n][i]] = n
      BY <3>2 DEF Links
    <3>3. K[n][i] \in DOMAIN P /\ P[K[n][i]] = n /\ K[n][i] # c
      BY <3>4
    <3> QED
      BY <1>1, <3>2, <3>3
  <2>2. CASE n = p /\ i \in 1..Len(K[p])
    <3>1. L[n][i] = K[p][i] /\ K[p][i] \in DOMAIN P /\ P[K[p][i]] = p
      BY <1>2, <1>3, <1>4, <2>2
    <3> QED
      BY <1>1, <2>2, <3>1
  <2>3. CASE n = p /\ i \notin 1..Len(K[p])
    <3>1. i = Len(K[p]) + 1
      BY <1>4, <1>11, <2>3
    <3>2. L[n][i] = c
      BY <1>11, <2>3, <3>1
    <3> QED
      BY <1>1, <2>3, <3>2
  <2> QED
    BY <2>1, <2>2, <2>3
<1>8. ASSUME NEW n \in I, NEW i \in 1..Len(L[n]), NEW j \in 1..Len(L[n]), L[n][i] = L[n][j]
      PROVE  i = j
  <2>1. CASE n # p
    BY <1>2, <1>3, <1>8, <2>1
  <2>2. CASE n = p
    <3>1. L[n] = Append(K[p], c) /\ i \in 1..Len(K[p]) + 1 /\ j \in 1..Len(K[p]) + 1
      BY <1>3, <1>4, <2>2
    <3>2. \A k \in 1..Len(K[p]) : K[p][k] # c
      BY <1>2
    <3>3. CASE i \in 1..Len(K[p]) /\ j \in 1..Len(K[p])
      BY <1>2, <1>4, <1>8, <3>1, <3>3
    <3>4. CASE i \in 1..Len(K[p]) /\ j \notin 1..Len(K[p])
      <4>1. j = Len(K[p]) + 1
        BY <1>4, <3>1, <3>4
      <4> QED
        BY <1>4, <1>8, <3>1, <3>2, <3>4, <4>1
    <3>5. CASE i \notin 1..Len(K[p]) /\ j \in 1..Len(K[p])
      <4>1. i = Len(K[p]) + 1
        BY <1>4, <3>1, <3>5
      <4> QED
        BY <1>4, <1>8, <3>1, <3>2, <3>5, <4>1
    <3>6. CASE i \notin 1..Len(K[p]) /\ j \notin 1..Len(K[p])
      BY <1>4, <3>1, <3>6
    <3> QED
      BY <3>3, <3>4, <3>5, <3>6
  <2> QED
    BY <2>1, <2>2
<1>9. ASSUME NEW x \in DOMAIN Q PROVE \E i \in 1..Len(L[Q[x]]) : L[Q[x]][i] = x
  <2>1. CASE x = c
    <3>1. Q[x] = p /\ Len(K[p]) + 1 \in 1..Len(L[p]) /\ L[p][Len(K[p]) + 1] = c
      BY <1>1, <1>4, <1>11, <2>1
    <3> QED
      BY <2>1, <3>1
  <2>2. CASE x # c
    <3>1. Q[x] = P[x] /\ P[x] \in I
      BY <1>1, <1>2, <2>2
    <3>2. PICK i \in 1..Len(K[P[x]]) : K[P[x]][i] = x
      BY <1>1, <1>2, <2>2
    <3>3. i \in 1..Len(L[P[x]]) /\ L[P[x]][i] = x
      <4>1. CASE P[x] = p
        BY <1>4, <1>11, <3>2, <4>1
      <4>2. CASE P[x] # p
        BY <1>12, <3>1, <3>2, <4>2
      <4> QED
        BY <4>1, <4>2
    <3> QED
      BY <3>1, <3>3
  <2> QED
    BY <2>1, <2>2
<1>10. Links(I, Q, L)
  BY <1>1, <1>2, <1>5, <1>6, <1>7, <1>8, <1>9 DEF Links
<1> QED
  BY <1>10 DEF Q, L

LEMMA LinkBuilds == BuildInv /\ Link => BuildInv'
<1> SUFFICES ASSUME BuildInv, Link PROVE BuildInv'
  OBVIOUS
<1> DEFINE c == order[next]
           at == Candidates(c)
           k == CHOOSE i \in at : \A j \in at : i <= j
           I == Ids(doc)
<1>1. /\ pc = "link" /\ next \in 1..Len(order) /\ next' = next + 1
      /\ UNCHANGED <<doc, pc, nodes, order>>
      /\ at = {} => UNCHANGED <<parent, kids>>
      /\ at # {} => /\ parent' = Put(parent, c, order[k])
                    /\ kids' = [kids EXCEPT ![order[k]] = Append(@, c)]
  BY DEF Link
<1>2. /\ doc \in Documents /\ next \in Nat \ {0} /\ Links(I, parent, kids)
      /\ Keeps(doc, nodes, Len(doc)) /\ Lists(I, order)
      /\ Linked(order, parent, next - 1)
  BY <1>1 DEF BuildInv
<1>3. /\ order \in Seq(I) /\ Len(order) \in Nat
      /\ \A i \in 1..Len(order) : order[i] \in I
      /\ \A i, j \in 1..Len(order) : order[i] = order[j] => i = j
  BY <1>2, LenProperties DEF Lists
<1>4. at # {} => /\ k \in 1..Len(order) /\ order[k] \in I
                 /\ is_parent_child_relation(order[k], c)
  <2> SUFFICES ASSUME at # {} PROVE k \in at
    <3> HIDE DEF k
    <3> QED
      BY <1>3 DEF Candidates
  <2>1. at \in SUBSET Nat
    BY DEF Candidates
  <2> HIDE DEF at
  <2> QED
    BY <2>1, SmallestExists
<1> HIDE DEF k
<1>5. c \in I \ DOMAIN parent
  <2>1. ~ next <= next - 1
    BY <1>2
  <2> QED
    BY <1>1, <1>2, <1>3, <2>1 DEF Linked
<1>6. Links(I, parent', kids')
  <2>1. CASE at = {}
    BY <1>1, <1>2, <2>1
  <2>2. CASE at # {}
    <3> HIDE DEF c, at, I
    <3>1. Links(I, Put(parent, c, order[k]), [kids EXCEPT ![order[k]] = Append(@, c)])
      BY <1>2, <1>4, <1>5, <2>2, OneLinkMore
    <3> QED
      BY <1>1, <2>2, <3>1
  <2> QED
    BY <2>1, <2>2
<1>7. Linked(order, parent', next)
  <2> SUFFICES ASSUME NEW i \in 1..Len(order)
               PROVE  order[i] \in DOMAIN parent' <=>
                        i <= next /\ \E j \in 1..Len(order) :
                                        is_parent_child_relation(order[j], order[i])
    BY DEF Linked
  <2>1. order[i] \in DOMAIN parent <=>
            i <= next - 1 /\ \E j \in 1..Len(order) : is_parent_child_relation(order[j], order[i])
    BY <1>2 DEF Linked
  <2>2. i <= next <=> i <= next - 1 \/ i = next
    BY <1>2, <1>3
  <2>3. order[i] \in DOMAIN parent' <=> order[i] \in DOMAIN parent \/ (at # {} /\ i = next)
    <3>1. order[i] = c <=> i = next
      BY <1>1, <1>3
    <3>2. at # {} => DOMAIN parent' = DOMAIN parent \cup {c}
      BY <1>1 DEF Put
    <3> HIDE DEF at, c
    <3> QED
      BY <1>1, <3>1, <3>2
  <2>4. at # {} <=> \E j \in 1..Len(order) : is_parent_child_relation(order[j], order[next])
    BY DEF Candidates
  <2> HIDE DEF at, c
  <2> QED
    BY <1>1, <1>2, <2>1, <2>2, <2>3, <2>4
<1>8. next' \in Nat \ {0} /\ next' - 1 = next /\ next' <= Len(order) + 1
  BY <1>1, <1>2, <1>3
<1> QED
  BY <1>1, <1>2, <1>6, <1>7, <1>8 DEF BuildInv, Walking

LEMMA BuildStep == BuildInv /\ [Next]_vars => BuildInv'
<1> SUFFICES ASSUME BuildInv, [Next]_vars PROVE BuildInv'
  OBVIOUS
<1>1. CASE CreateNode
  BY <1>1, CreateNodeBuilds
<1>2. CASE StartLinking
  BY <1>2, StartLinkingBuilds
<1>3. CASE Link
  BY <1>3, LinkBuilds
<1>4. CASE NoTree
  BY <1>4 DEF NoTree, BuildInv, Walking, tree
<1>5. CASE UNCHANGED vars
  BY <1>5 DEF vars, BuildInv
<1>6. CASE StartWalk
  <2>1. /\ pc = "link" /\ next = Len(order) + 1 /\ pc' = "walk" /\ next' = 1
        /\ UNCHANGED <<doc, nodes, order, parent, kids>>
    BY <1>6 DEF StartWalk, tree
  <2>2. Len(order) \in Nat
    BY <2>1, LenProperties DEF BuildInv, Lists
  <2>3. next - 1 = Len(order)
    BY <2>1, <2>2
  <2> QED
    BY <2>1, <2>3 DEF BuildInv, Walking
<1>7. CASE Run
  BY <1>7 DEF Run, tree, BuildInv, Walking
<1>8. CASE StartMapping \/ Finish \/ MapRating
  BY <1>8 DEF StartMapping, Finish, MapRating, tree, BuildInv, Walking
<1> QED
  BY <1>1, <1>2, <1>3, <1>4, <1>5, <1>6, <1>7, <1>8 DEF Next

-----------------------------------------------------------------------------
(* The post-order walk of the tree.                                         *)

\* What a filter over a sequence of different elements leaves.
LEMMA FilterShape ==
    ASSUME NEW I, NEW o, Lists(I, o), NEW D,
           NEW r, r = FlattenSeq([i \in 1..Len(o) |-> IF o[i] \in D THEN <<>> ELSE <<o[i]>>])
    PROVE  Lists(I \ D, r)
<1> DEFINE N == Len(o)
           ss == [i \in 1..N |-> IF o[i] \in D THEN <<>> ELSE <<o[i]>>]
           Left(k) == {o[i] : i \in 1..k} \ D
<1>1. /\ o \in Seq(I) /\ N \in Nat /\ In(o) = I /\ \A i \in 1..N : o[i] \in I
      /\ \A i, j \in 1..N : o[i] = o[j] => i = j
  BY LenProperties DEF Lists
<1>2. ss \in [1..N -> Seq(I)]
  BY <1>1
<1>3. \A i \in 1..N : ss[i] = IF o[i] \in D THEN <<>> ELSE <<o[i]>>
  OBVIOUS
<1>4. r = FlattenSeq(ss)
  OBVIOUS
<1> HIDE DEF ss
<1>12. PICK g : Steps(I, N, ss, g)
  <2>1. N \in Nat /\ ss \in [1..N -> Seq(I)]
    BY <1>1, <1>2
  <2> HIDE DEF N
  <2> QED
    BY <2>1, FlattenSteps
<1>5. /\ g[0] = <<>> /\ g[N] = FlattenSeq(ss)
      /\ \A i \in 1..N : g[i] = g[i-1] \o ss[i]
      /\ \A i \in 0..N : g[i] \in Seq(I)
  BY <1>12 DEF Steps
<1> DEFINE S == {k \in Nat : k <= N => /\ In(g[k]) = Left(k)
                                       /\ \A i, j \in 1..Len(g[k]) : g[k][i] = g[k][j] => i = j}
<1>6. 0 \in S
  <2>1. Len(g[0]) = 0 /\ Left(0) = {}
    BY <1>5, EmptySeq
  <2>2. In(g[0]) = {}
    BY <2>1 DEF In
  <2> QED
    BY <2>1, <2>2
<1>7. ASSUME NEW k \in Nat, k \in S PROVE k + 1 \in S
  <2> SUFFICES ASSUME k + 1 <= N
               PROVE  /\ In(g[k+1]) = Left(k+1)
                      /\ \A i, j \in 1..Len(g[k+1]) : g[k+1][i] = g[k+1][j] => i = j
    OBVIOUS
  <2>1. k + 1 \in 1..N /\ (k + 1) - 1 = k /\ k \in 0..N /\ k <= N
    BY <1>1
  <2>2. g[k+1] = g[k] \o ss[k+1] /\ g[k] \in Seq(I) /\ o[k+1] \in I
    BY <1>1, <1>5, <2>1
  <2>3. In(g[k]) = Left(k) /\ \A i, j \in 1..Len(g[k]) : g[k][i] = g[k][j] => i = j
    BY <1>7, <2>1
  <2>4. Left(k+1) = Left(k) \cup ({o[k+1]} \ D)
    <3>1. 1..k+1 = 1..k \cup {k+1}
      OBVIOUS
    <3> QED
      BY <3>1
  <2>5. o[k+1] \notin Left(k)
    <3>1. \A i \in 1..k : i \in 1..N /\ i # k + 1
      BY <1>1, <2>1
    <3> QED
      BY <1>1, <2>1, <3>1
  <2> HIDE DEF Left, S
  <2>6. CASE o[k+1] \in D
    <3>1. ss[k+1] = <<>>
      BY <1>3, <2>1, <2>6
    <3>2. g[k+1] = g[k]
      BY <2>2, <3>1, ConcatEmptySeq
    <3> QED
      BY <2>3, <2>4, <2>6, <3>2
  <2>7. CASE o[k+1] \notin D
    <3> DEFINE u == <<o[k+1]>>
    <3>1. ss[k+1] = u /\ u \in Seq(I) /\ Len(u) = 1 /\ u[1] = o[k+1]
      BY <1>3, <2>1, <2>2, <2>7
    <3>2. In(u) = {o[k+1]} /\ 1..Len(u) = {1}
      BY <3>1 DEF In
    <3> HIDE DEF u
    <3> DEFINE s == g[k]
               t == g[k+1]
    <3>3. s \in Seq(I) /\ u \in Seq(I) /\ t = s \o u
      BY <2>2, <3>1
    <3> HIDE DEF s, t
    <3>4. /\ Len(s) \in Nat /\ In(t) = In(s) \cup In(u)
          /\ \A i \in 1..Len(s) : t[i] = s[i]
          /\ \A i \in 1..Len(u) : t[Len(s) + i] = u[i]
          /\ \A i \in 1..Len(t) : i \in 1..Len(s) \/ \E j \in 1..Len(u) : i = Len(s) + j
      BY ONLY <3>3, Chained
    <3>5. /\ t[Len(s) + 1] = o[k+1]
          /\ \A i \in 1..Len(t) : i \in 1..Len(s) \/ i = Len(s) + 1
      BY <3>1, <3>2, <3>4
    <3>6. \A i \in 1..Len(s) : s[i] # o[k+1]
      BY <2>3, <2>5 DEF s, In
    <3>7. \A i, j \in 1..Len(s) : s[i] = s[j] => i = j
      BY <2>3 DEF s
    <3>8. ASSUME NEW i \in 1..Len(t), NEW j \in 1..Len(t), t[i] = t[j] PROVE i = j
      <4>1. CASE i \in 1..Len(s) /\ j \in 1..Len(s)
        BY <3>4, <3>7, <3>8, <4>1
      <4>2. CASE i \in 1..Len(s) /\ j \notin 1..Len(s)
        <5>1. t[i] = s[i] /\ s[i] # o[k+1]
          BY <3>4, <3>6, <4>2
        <5>2. t[j] = o[k+1]
          BY <3>5, <4>2
        <5> QED
          BY <3>8, <5>1, <5>2
      <4>3. CASE i \notin 1..Len(s) /\ j \in 1..Len(s)
        <5>1. t[j] = s[j] /\ s[j] # o[k+1]
          BY <3>4, <3>6, <4>3
        <5>2. t[i] = o[k+1]
          BY <3>5, <4>3
        <5> QED
          BY <3>8, <5>1, <5>2
      <4>4. CASE i \notin 1..Len(s) /\ j \notin 1..Len(s)
        BY <3>5, <4>4
      <4> QED
        BY <4>1, <4>2, <4>3, <4>4
    <3>9. In(t) = Left(k+1)
      BY <2>3, <2>4, <2>7, <3>2, <3>4 DEF s
    <3> QED
      BY <3>8, <3>9 DEF t
  <2> QED
    BY <2>6, <2>7
<1>8. N \in S
  <2> HIDE DEF S, N
  <2> QED
    BY <1>1, <1>6, <1>7, UpFromZero
<1>9. Left(N) = I \ D
  BY <1>1 DEF In
<1>10. r = g[N] /\ g[N] \in Seq(I)
  BY <1>1, <1>4, <1>5
<1>11. In(g[N]) = Left(N) /\ \A i, j \in 1..Len(g[N]) : g[N][i] = g[N][j] => i = j
  BY <1>1, <1>8
<1> HIDE DEF Left, N
<1>13. r \in Seq(I) /\ In(r) = I \ D /\ \A i, j \in 1..Len(r) : r[i] = r[j] => i = j
  BY <1>9, <1>10, <1>11
<1>14. r \in Seq(I \ D)
  <2>1. Len(r) \in Nat /\ r \in [1..Len(r) -> I]
    BY <1>13, LenProperties
  <2>2. r \in [1..Len(r) -> I \ D]
    BY <1>13, <2>1 DEF In
  <2> QED
    BY <2>1, <2>2, SeqDef
<1> QED
  BY <1>13, <1>14 DEF Lists

\* The tree is a forest.
LEMMA TreeIsForest ==
    ASSUME doc \in Documents, Links(Ids(doc), parent, kids)
    PROVE  \E B : IsForest(Ids(doc), kids, parent, Heights, B)
<1> DEFINE I == Ids(doc)
           h == Heights
<1>1. PICK B \in Nat : \A c \in I : Height(c) \in Nat /\ Height(c) <= B
  BY HeightsAreBounded
<1>2. \A c \in I : h[c] = Height(c) /\ c \in Id
  BY DocumentShape DEF Heights
<1>3. /\ DOMAIN parent \subseteq I
      /\ \A c \in DOMAIN parent : parent[c] \in I /\ is_parent_child_relation(parent[c], c)
      /\ kids \in [I -> Seq(I)]
      /\ \A n \in I : \A i \in 1..Len(kids[n]) : kids[n][i] \in DOMAIN parent /\ parent[kids[n][i]] = n
      /\ \A n \in I : \A i, j \in 1..Len(kids[n]) : kids[n][i] = kids[n][j] => i = j
      /\ \A c \in DOMAIN parent : \E i \in 1..Len(kids[parent[c]]) : kids[parent[c]][i] = c
  BY DEF Links
<1> HIDE DEF h, I
<1>4. ASSUME NEW c \in DOMAIN parent PROVE h[parent[c]] < h[c]
  <2> DEFINE p == parent[c]
  <2>1. p \in I /\ c \in I /\ is_parent_child_relation(p, c)
    BY <1>3
  <2>2. p \in Id /\ c \in Id /\ h[p] = Height(p) /\ h[c] = Height(c)
    BY <1>2, <2>1
  <2> HIDE DEF p
  <2>3. OneOrTwoLevelsUp(p, c)
    BY <2>1, <2>2, RelationIsCut
  <2>4. Height(p) < Height(c)
    BY <2>2, <2>3, ParentsAreLower
  <2> QED
    BY <2>2, <2>4 DEF p
<1>5. B \in Nat /\ \A n \in I : h[n] \in Nat /\ h[n] <= B
  BY <1>1, <1>2
<1>6. IsForest(I, kids, parent, h, B)
  BY <1>3, <1>4, <1>5 DEF IsForest
<1> QED
  BY <1>6 DEF I, h

\* TreeWalk has the operator from the same library.
LEMMA SameFlatten == \A ss : Walk!FlattenSeq(ss) = FlattenSeq(ss)
  BY DEF Walk!FlattenSeq, FlattenSeq

\* The walk runs each node once, and behind its children.
LEMMA PostOrderShape ==
    ASSUME doc \in Documents, Links(Ids(doc), parent, kids), Lists(Ids(doc), order)
    PROVE  Lists(Ids(doc), PostOrder) /\ ChildrenFirst(parent, PostOrder)
<1> DEFINE I == Ids(doc)
           h == Heights
<1>1. PICK B : IsForest(I, kids, parent, h, B)
  BY TreeIsForest
<1>2. Lists(I \ DOMAIN parent, Roots)
  <2> DEFINE D == DOMAIN parent
             r == Roots
  <2>1. r = FlattenSeq([i \in 1..Len(order) |-> IF order[i] \in D THEN <<>> ELSE <<order[i]>>])
    BY DEF Roots
  <2> HIDE DEF D, r, I
  <2>2. Lists(I \ D, r)
    BY <2>1, FilterShape DEF I
  <2> QED
    BY <2>2 DEF D, r
<1> DEFINE f == Walk!PostorderFrom
<1>3. f = [n \in I |-> Visit(kids, f, n)]
  <2>1. \E g : g = [n \in I |-> Visit(kids, g, n)]
    <3> HIDE DEF I, h
    <3> QED
      BY <1>1, WalkExists
  <2>2. f = CHOOSE g : g = [n \in I |-> Visit(kids, g, n)]
    <3> DEFINE Body(g, n) ==
            Walk!FlattenSeq([i \in 1..Len(kids[n]) |-> g[kids[n][i]]]) \o <<n>>
    <3>1. f = CHOOSE g : g = [n \in I |-> Body(g, n)]
      BY DEF Walk!PostorderFrom
    <3>2. \A g, n : Body(g, n) = Visit(kids, g, n)
      BY SameFlatten DEF Visit
    <3> HIDE DEF Body
    <3>3. \A g : (g = [n \in I |-> Body(g, n)]) <=> (g = [n \in I |-> Visit(kids, g, n)])
      BY <3>2
    <3> QED
      BY <3>1, <3>3
  <2> HIDE DEF f
  <2> QED
    BY <2>1, <2>2
<1>4. PostOrder = FlattenSeq([i \in 1..Len(Roots) |-> f[Roots[i]]])
  BY SameFlatten DEF PostOrder, Walk!RuleWalk
<1> HIDE DEF f, h, I
<1> QED
  <2> DEFINE t == Roots
             s == PostOrder
  <2> HIDE DEF t, s
  <2>1. Lists(I \ DOMAIN parent, t) /\ s = FlattenSeq([i \in 1..Len(t) |-> f[t[i]]])
    BY <1>2, <1>4 DEF t, s
  <2>2. Lists(I, s) /\ ChildrenFirst(parent, s)
    BY <1>1, <1>3, <2>1, WholeWalk
  <2> QED
    BY <2>2 DEF s, I

\* The walk is over the finished tree: it stays what it is.
LEMMA PostOrderStays ==
    ASSUME UNCHANGED <<doc, tree>>
    PROVE  PostOrder' = PostOrder
<1>1. doc' = doc /\ order' = order /\ parent' = parent /\ kids' = kids
  BY DEF tree
<1>2. Ids(doc)' = Ids(doc)
  BY <1>1
<1>3. Roots' = Roots
  BY <1>1 DEF Roots
<1> QED
  BY <1>1, <1>2, <1>3 DEF PostOrder, Walk!RuleWalk, Walk!PostorderFrom

-----------------------------------------------------------------------------
(* The evaluation.                                                          *)

\* What the scripts of the nodes r have added up: the results of the children,
\* which have one.
Aggregated(d, ns, P, r, res) ==
    \A i \in 1..Len(r) : d[ns[r[i]]].logic = "aggregates" =>
        /\ res[ns[r[i]]] # <<>>
        /\ \A c \in DOMAIN P :
              P[c] = r[i] /\ OneSegmentUp(r[i], c) /\ d[ns[c]].logic = "aggregates" =>
                  ns[c] \in Last(res[ns[r[i]]])

\* The one rating of an element of a new document is that of its script.
Rated(d, ns, r, rat) ==
    (\A e \in Positions(d) : d[e].results = <<>> /\ d[e].ratings = <<>>) =>
        \A e \in Positions(d) :
            rat[e] = IF /\ \E i \in 1..Len(r) : ns[r[i]] = e
                        /\ d[e].logic = "aggregates" /\ d[e].threshold = "returns"
                     THEN <<d[e].rating>> ELSE <<>>

\* The score of each of the first k elements is that of its first rating.
Scored(d, rat, sc, k) ==
    \A e \in Positions(d) :
        sc[e] = IF e <= k /\ rat[e] # <<>> /\ Head(rat[e]) \in 10..50
                THEN <<Head(rat[e]) \div 10>> ELSE <<>>

DocumentInv ==
    /\ results \in [Positions(doc) -> Seq(SUBSET Nat)]
    /\ ratings \in [Positions(doc) -> Seq(Nat)]
    /\ scores \in [Positions(doc) -> Seq(Nat)]
    /\ ran \in Seq(Ids(doc))
    /\ pc \notin Walking => ran = <<>>
    /\ pc \in Walking => /\ Len(ran) <= Len(PostOrder)
                         /\ \A i \in 1..Len(ran) : ran[i] = PostOrder[i]
    /\ pc = "walk" => next = Len(ran) + 1
    /\ pc \in {"map", "done"} => Len(ran) = Len(PostOrder)
    /\ Aggregated(doc, nodes, parent, ran, results)
    /\ Rated(doc, nodes, ran, ratings)
    /\ pc = "map" => next <= Len(doc) + 1
    /\ Scored(doc, ratings, scores,
              CASE pc = "map" -> next - 1 [] pc = "done" -> Len(doc) [] OTHER -> 0)

\* Every Profile_ID has its node.
LEMMA NodesShape ==
    ASSUME doc \in Documents, Keeps(doc, nodes, Len(doc))
    PROVE  /\ DOMAIN nodes = Ids(doc)
           /\ \A c \in Ids(doc) : /\ nodes[c] \in Positions(doc) /\ doc[nodes[c]].id = c
                                  /\ c # NoId /\ doc[nodes[c]] \in Element
<1>1. /\ Len(doc) \in Nat /\ Positions(doc) = 1..Len(doc)
      /\ \A e \in Positions(doc) : doc[e] \in Element
      /\ \A c \in Ids(doc) : c # NoId /\ \E e \in Positions(doc) : doc[e].id = c
  BY DocumentShape
<1>2. /\ \A c \in DOMAIN nodes : c \in Ids(doc) /\ nodes[c] \in Positions(doc) /\ doc[nodes[c]].id = c
      /\ \A e \in Positions(doc) : e <= Len(doc) /\ doc[e].id # NoId => doc[e].id \in DOMAIN nodes
  BY DEF Keeps
<1>3. ASSUME NEW c \in Ids(doc) PROVE c \in DOMAIN nodes
  <2>1. PICK e \in Positions(doc) : doc[e].id = c /\ c # NoId
    BY <1>1
  <2>2. e <= Len(doc)
    BY <1>1
  <2> QED
    BY <1>2, <2>1, <2>2
<1> QED
  BY <1>1, <1>2, <1>3

LEMMA DocumentInit == Init => DocumentInv
<1> SUFFICES ASSUME Init PROVE DocumentInv
  OBVIOUS
<1>1. /\ doc \in Documents /\ pc = "create" /\ ran = <<>>
      /\ results = [e \in Positions(doc) |-> doc[e].results]
      /\ ratings = [e \in Positions(doc) |-> doc[e].ratings]
      /\ scores = [e \in Positions(doc) |-> <<>>]
  BY DEF Init
<1>2. Positions(doc) = 1..Len(doc) /\ \A e \in Positions(doc) : doc[e] \in Element
  BY <1>1, DocumentShape
<1>3. results \in [Positions(doc) -> Seq(SUBSET Nat)] /\ ratings \in [Positions(doc) -> Seq(Nat)]
  BY <1>1, <1>2 DEF Element
<1>4. scores \in [Positions(doc) -> Seq(Nat)] /\ ran \in Seq(Ids(doc)) /\ Len(ran) = 0
  BY <1>1, EmptySeq
<1>5. Aggregated(doc, nodes, parent, ran, results) /\ Rated(doc, nodes, ran, ratings)
  BY <1>1, <1>4 DEF Aggregated, Rated
<1>6. \A e \in Positions(doc) : ~ e <= 0
  BY <1>2
<1>7. Scored(doc, ratings, scores, 0)
  BY <1>1, <1>6 DEF Scored
<1> QED
  BY <1>1, <1>3, <1>4, <1>5, <1>7 DEF DocumentInv, Walking

\* Before the walk nothing is written.
LEMMA NothingRan ==
    ASSUME NEW d, NEW ns, NEW P, NEW r, NEW rat, NEW ms, NEW Q, NEW res,
           Rated(d, ns, r, rat), r = <<>>
    PROVE  Aggregated(d, ms, Q, r, res) /\ Rated(d, ms, r, rat)
<1>1. Len(r) = 0
  BY EmptySeq
<1> QED
  BY <1>1 DEF Aggregated, Rated

LEMMA BeforeTheWalk ==
    ASSUME BuildInv, DocumentInv, CreateNode \/ StartLinking \/ Link \/ NoTree
    PROVE  DocumentInv'
<1>1. /\ pc \in {"create", "link"} /\ pc' \in {"create", "link", "failed"}
      /\ UNCHANGED <<doc, ran, results, ratings, scores>>
  BY DEF CreateNode, StartLinking, Link, NoTree, xml
<1>2. /\ ran = <<>> /\ Rated(doc, nodes, ran, ratings) /\ Scored(doc, ratings, scores, 0)
  BY <1>1 DEF DocumentInv, Walking
<1>3. Aggregated(doc, nodes', parent', ran, results) /\ Rated(doc, nodes', ran, ratings)
  BY <1>2, NothingRan
<1> QED
  BY <1>1, <1>2, <1>3 DEF DocumentInv, Walking

LEMMA StartWalkKeeps == BuildInv /\ DocumentInv /\ StartWalk => DocumentInv'
<1> SUFFICES ASSUME BuildInv, DocumentInv, StartWalk PROVE DocumentInv'
  OBVIOUS
<1>1. /\ pc = "link" /\ pc' = "walk" /\ next' = 1
      /\ UNCHANGED <<doc, nodes, parent, ran, results, ratings, scores>>
  BY DEF StartWalk, tree, xml
<1>2. PostOrder' = PostOrder
  BY PostOrderStays DEF StartWalk
<1>3. Len(PostOrder) \in Nat
  <2>1. Lists(Ids(doc), PostOrder)
    BY <1>1, PostOrderShape DEF BuildInv
  <2> QED
    BY <2>1, LenProperties DEF Lists
<1>4. ran = <<>> /\ Len(ran) = 0
  BY <1>1, EmptySeq DEF DocumentInv, Walking
<1> QED
  BY <1>1, <1>2, <1>3, <1>4 DEF DocumentInv, Walking

LEMMA StartMappingKeeps == BuildInv /\ DocumentInv /\ StartMapping => DocumentInv'
<1> SUFFICES ASSUME BuildInv, DocumentInv, StartMapping PROVE DocumentInv'
  OBVIOUS
<1>1. /\ pc = "walk" /\ pc' = "map" /\ next' = 1 /\ next = Len(PostOrder) + 1
      /\ UNCHANGED <<doc, nodes, parent, ran, results, ratings, scores>>
  BY DEF StartMapping, tree, xml
<1>2. PostOrder' = PostOrder
  BY PostOrderStays DEF StartMapping
<1>3. /\ Len(ran) \in Nat /\ Len(PostOrder) \in Nat /\ Len(doc) \in Nat
  <2>1. Lists(Ids(doc), PostOrder)
    BY <1>1, PostOrderShape DEF BuildInv, Walking
  <2>2. ran \in Seq(Ids(doc)) /\ doc \in Documents
    BY DEF DocumentInv, BuildInv
  <2> QED
    BY <2>1, <2>2, LenProperties, DocumentShape DEF Lists
<1>4. Len(ran) = Len(PostOrder)
  BY <1>1, <1>3 DEF DocumentInv
<1> QED
  BY <1>1, <1>2, <1>3, <1>4 DEF DocumentInv, Walking

\* One more element mapped.
LEMMA MapRatingKeeps == BuildInv /\ DocumentInv /\ MapRating => DocumentInv'
<1> SUFFICES ASSUME BuildInv, DocumentInv, MapRating PROVE DocumentInv'
  OBVIOUS
<1>1. /\ pc = "map" /\ next \in Positions(doc) /\ next' = next + 1
      /\ scores' = IF ratings[next] # <<>> /\ Head(ratings[next]) \in 10..50
                   THEN [scores EXCEPT ![next] = Append(@, Head(ratings[next]) \div 10)]
                   ELSE scores
      /\ UNCHANGED <<doc, pc, nodes, parent, ran, results, ratings>>
  BY DEF MapRating, tree
<1>2. PostOrder' = PostOrder
  BY PostOrderStays DEF MapRating
<1>3. Len(doc) \in Nat /\ Positions(doc) = 1..Len(doc) /\ next \in Nat
  BY <1>1, DocumentShape DEF BuildInv
<1>4. /\ scores \in [Positions(doc) -> Seq(Nat)] /\ ratings \in [Positions(doc) -> Seq(Nat)]
      /\ Scored(doc, ratings, scores, next - 1)
  BY <1>1 DEF DocumentInv
<1>5. scores[next] = <<>>
  BY <1>1, <1>3, <1>4 DEF Scored
<1> DEFINE x == Head(ratings[next]) \div 10
<1>6. Head(ratings[next]) \in 10..50 => x \in Nat /\ Append(<<>>, x) = <<x>> /\ <<x>> \in Seq(Nat)
  OBVIOUS
<1> HIDE DEF x
<1>7. scores' = IF ratings[next] # <<>> /\ Head(ratings[next]) \in 10..50
                THEN [scores EXCEPT ![next] = <<x>>] ELSE scores
  BY <1>1, <1>4, <1>5, <1>6 DEF x
<1>8. scores' \in [Positions(doc) -> Seq(Nat)]
  BY <1>4, <1>6, <1>7
<1>9. Scored(doc, ratings, scores', next)
  <2> SUFFICES ASSUME NEW e \in Positions(doc)
               PROVE  scores'[e] = IF e <= next /\ ratings[e] # <<>> /\ Head(ratings[e]) \in 10..50
                                   THEN <<Head(ratings[e]) \div 10>> ELSE <<>>
    BY DEF Scored
  <2>1. CASE e = next
    BY <1>1, <1>3, <1>4, <1>5, <1>7, <2>1 DEF x
  <2>2. CASE e # next
    <3>1. scores'[e] = scores[e] /\ (e <= next <=> e <= next - 1)
      BY <1>3, <1>4, <1>7, <2>2
    <3> QED
      BY <1>4, <3>1 DEF Scored
  <2> QED
    BY <2>1, <2>2
<1>10. next' - 1 = next /\ next' <= Len(doc) + 1
  BY <1>1, <1>3
<1> QED
  BY <1>1, <1>2, <1>8, <1>9, <1>10 DEF DocumentInv, Walking

LEMMA FinishKeeps == BuildInv /\ DocumentInv /\ Finish => DocumentInv'
<1> SUFFICES ASSUME BuildInv, DocumentInv, Finish PROVE DocumentInv'
  OBVIOUS
<1>1. /\ pc = "map" /\ pc' = "done" /\ next = Len(doc) + 1
      /\ UNCHANGED <<doc, nodes, parent, ran, results, ratings, scores>>
  BY DEF Finish, tree, xml
<1>2. PostOrder' = PostOrder
  BY PostOrderStays DEF Finish
<1>3. next - 1 = Len(doc)
  BY <1>1, DocumentShape DEF BuildInv
<1> QED
  BY <1>1, <1>2, <1>3 DEF DocumentInv, Walking

\* The scripts of one more node.
LEMMA RunKeeps == BuildInv /\ DocumentInv /\ Run => DocumentInv'
<1> SUFFICES ASSUME BuildInv, DocumentInv, Run PROVE DocumentInv'
  OBVIOUS
<1> DEFINE s == PostOrder
           c == s[next]
           e == nodes[c]
           n == Len(ran)
           F == Found(c)
<1>1. /\ pc = "walk" /\ next \in 1..Len(s) /\ next' = next + 1
      /\ doc[e].logic = "aggregates" =>
            /\ results' = [results EXCEPT ![e] = Append(@, F)]
            /\ ratings' = IF doc[e].threshold = "returns"
                          THEN [ratings EXCEPT ![e] = Append(@, doc[e].rating)] ELSE ratings
      /\ doc[e].logic # "aggregates" => UNCHANGED <<results, ratings>>
      /\ ran' = Append(ran, c) /\ pc' \in {"walk", "aborted"}
      /\ UNCHANGED <<doc, nodes, parent, scores>>
  BY DEF Run, tree
<1>2. PostOrder' = PostOrder
  BY PostOrderStays DEF Run
<1>3. /\ doc \in Documents /\ Keeps(doc, nodes, Len(doc))
      /\ Lists(Ids(doc), s) /\ ChildrenFirst(parent, s)
      /\ DOMAIN parent \subseteq Ids(doc)
  <2>1. /\ doc \in Documents /\ Keeps(doc, nodes, Len(doc)) /\ Lists(Ids(doc), order)
        /\ Links(Ids(doc), parent, kids)
    BY <1>1 DEF BuildInv, Walking
  <2> QED
    BY <2>1, PostOrderShape DEF Links
<1>4. /\ \A x \in Ids(doc) : /\ nodes[x] \in Positions(doc) /\ doc[nodes[x]].id = x
                             /\ x # NoId /\ doc[nodes[x]] \in Element
  BY <1>3, NodesShape
<1>5. /\ results \in [Positions(doc) -> Seq(SUBSET Nat)] /\ ratings \in [Positions(doc) -> Seq(Nat)]
      /\ scores \in [Positions(doc) -> Seq(Nat)] /\ ran \in Seq(Ids(doc))
      /\ n <= Len(s) /\ next = n + 1
      /\ \A i \in 1..n : ran[i] = s[i]
      /\ Aggregated(doc, nodes, parent, ran, results)
      /\ Rated(doc, nodes, ran, ratings) /\ Scored(doc, ratings, scores, 0)
  BY <1>1 DEF DocumentInv, Walking
<1>6. /\ s \in Seq(Ids(doc)) /\ Len(s) \in Nat /\ n \in Nat
      /\ \A i \in 1..Len(s) : s[i] \in Ids(doc)
      /\ \A i, j \in 1..Len(s) : s[i] = s[j] => i = j
  BY <1>3, <1>5, LenProperties DEF Lists
<1>7. c \in Ids(doc) /\ e \in Positions(doc) /\ doc[e].id = c /\ doc[e] \in Element
  BY <1>1, <1>4, <1>6
<1>8. Positions(doc) = 1..Len(doc)
  BY <1>3, DocumentShape
<1>9. F \in SUBSET Nat
  BY <1>8 DEF Found
<1> HIDE DEF s, c, e, F
<1>10. /\ ran' \in Seq(Ids(doc)) /\ Len(ran') = n + 1
       /\ \A i \in 1..n : ran'[i] = ran[i]
       /\ ran'[n + 1] = c
  BY <1>1, <1>5, <1>7, AppendProperties
<1> HIDE DEF n
<1>11. \A i \in 1..n + 1 : ran'[i] = s[i]
  BY <1>1, <1>5, <1>6, <1>10 DEF c
<1>12. \A i \in 1..n : ran[i] \in Ids(doc) /\ ran[i] # c /\ nodes[ran[i]] # e
  <2> SUFFICES ASSUME NEW i \in 1..n PROVE ran[i] \in Ids(doc) /\ ran[i] # c /\ nodes[ran[i]] # e
    OBVIOUS
  <2>1. ran[i] = s[i] /\ i \in 1..Len(s) /\ i # next
    BY <1>1, <1>5, <1>6
  <2>2. s[i] \in Ids(doc) /\ s[i] # c
    BY <1>1, <1>6, <2>1 DEF c
  <2> QED
    BY <1>4, <1>7, <2>1, <2>2
<1>13. /\ results' \in [Positions(doc) -> Seq(SUBSET Nat)]
       /\ \A x \in Positions(doc) : x # e => results'[x] = results[x]
       /\ doc[e].logic = "aggregates" => results'[e] # <<>> /\ Last(results'[e]) = F
  <2>1. results[e] \in Seq(SUBSET Nat)
    BY <1>5, <1>7
  <2> DEFINE a == Append(results[e], F)
  <2>2. a \in Seq(SUBSET Nat) /\ a # <<>> /\ Last(a) = F
    BY <1>9, <2>1, AppendProperties DEF Last
  <2> HIDE DEF a
  <2>3. doc[e].logic = "aggregates" => results' = [results EXCEPT ![e] = a]
    BY <1>1, <1>5, <1>7 DEF a
  <2> QED
    BY <1>1, <1>5, <1>7, <2>2, <2>3
<1>14. Aggregated(doc, nodes, parent, ran', results')
  <2> SUFFICES ASSUME NEW i \in 1..n + 1, doc[nodes[ran'[i]]].logic = "aggregates"
               PROVE  /\ results'[nodes[ran'[i]]] # <<>>
                      /\ \A x \in DOMAIN parent :
                            /\ parent[x] = ran'[i] /\ OneSegmentUp(ran'[i], x)
                            /\ doc[nodes[x]].logic = "aggregates"
                            => nodes[x] \in Last(results'[nodes[ran'[i]]])
    BY <1>10 DEF Aggregated
  <2>1. CASE i \in 1..n
    <3>1. ran'[i] = ran[i] /\ results'[nodes[ran[i]]] = results[nodes[ran[i]]]
      BY <1>4, <1>10, <1>12, <1>13, <2>1
    <3> QED
      BY <1>5, <2>1, <3>1 DEF Aggregated, n
  <2>2. CASE i \notin 1..n
    <3>1. i = n + 1 /\ ran'[i] = c /\ nodes[ran'[i]] = e
      BY <1>6, <1>10, <2>2 DEF e
    <3>2. ASSUME NEW x \in DOMAIN parent, parent[x] = c, OneSegmentUp(c, x),
                 doc[nodes[x]].logic = "aggregates"
          PROVE  nodes[x] \in F
      <4>1. \E j \in 1..next-1 : s[j] = x
        BY <1>1, <1>3, <3>2 DEF ChildrenFirst, c
      <4>2. PICK j \in 1..n : ran[j] = x
        BY <1>5, <1>6, <4>1
      <4>3. results[nodes[x]] # <<>>
        BY <1>5, <3>2, <4>2 DEF Aggregated, n
      <4>4. nodes[x] \in Positions(doc) /\ doc[nodes[x]].id = x /\ x # NoId
        BY <1>3, <1>4
      <4> QED
        BY <3>2, <4>3, <4>4 DEF F, Found
    <3> QED
      BY <1>13, <3>1, <3>2
  <2> QED
    BY <2>1, <2>2
<1>15. ratings' \in [Positions(doc) -> Seq(Nat)]
  <2>1. ratings[e] \in Seq(Nat) /\ doc[e].rating \in Nat
    BY <1>5, <1>7 DEF Element
  <2>2. Append(ratings[e], doc[e].rating) \in Seq(Nat)
    BY <2>1, AppendProperties
  <2> QED
    BY <1>1, <1>5, <1>7, <2>2
<1>16. Rated(doc, nodes, ran', ratings')
  <2> SUFFICES ASSUME \A x \in Positions(doc) : doc[x].results = <<>> /\ doc[x].ratings = <<>>,
                      NEW x \in Positions(doc)
               PROVE  ratings'[x] = IF /\ \E i \in 1..n + 1 : nodes[ran'[i]] = x
                                       /\ doc[x].logic = "aggregates"
                                       /\ doc[x].threshold = "returns"
                                    THEN <<doc[x].rating>> ELSE <<>>
    BY <1>10 DEF Rated
  <2>1. ratings[x] = IF /\ \E i \in 1..n : nodes[ran[i]] = x
                        /\ doc[x].logic = "aggregates" /\ doc[x].threshold = "returns"
                     THEN <<doc[x].rating>> ELSE <<>>
    BY <1>5 DEF Rated, n
  <2>2. CASE x = e
    <3>1. ~ \E i \in 1..n : nodes[ran[i]] = x
      BY <1>12, <2>2
    <3>2. ratings[x] = <<>>
      BY <2>1, <3>1
    <3>3. nodes[ran'[n + 1]] = x /\ n + 1 \in 1..n + 1
      BY <1>6, <1>10, <2>2 DEF e
    <3>4. ratings'[x] = IF doc[x].logic = "aggregates" /\ doc[x].threshold = "returns"
                        THEN Append(<<>>, doc[x].rating) ELSE <<>>
      BY <1>1, <1>5, <1>7, <2>2, <3>2
    <3> QED
      BY <3>3, <3>4
  <2>3. CASE x # e
    <3>1. ratings'[x] = ratings[x]
      BY <1>1, <1>5, <1>7, <2>3
    <3>2. (\E i \in 1..n + 1 : nodes[ran'[i]] = x) <=> \E i \in 1..n : nodes[ran[i]] = x
      <4>1. \A i \in 1..n : i \in 1..n + 1 /\ ran'[i] = ran[i]
        BY <1>6, <1>10
      <4>2. \A i \in 1..n + 1 : i \in 1..n \/ nodes[ran'[i]] = e
        <5>1. \A i \in 1..n + 1 : i \in 1..n \/ i = n + 1
          BY <1>6
        <5> QED
          BY <1>10, <5>1 DEF e
      <4> QED
        BY <2>3, <4>1, <4>2
    <3> QED
      BY <2>1, <3>1, <3>2
  <2> QED
    BY <2>2, <2>3
<1>17. Scored(doc, ratings', scores, 0)
  <2>1. \A x \in Positions(doc) : ~ x <= 0
    BY <1>8
  <2> QED
    BY <1>5, <2>1 DEF Scored
<1>18. n + 1 <= Len(s) /\ next' = (n + 1) + 1
  BY <1>1, <1>5, <1>6
<1> QED
  BY <1>1, <1>2, <1>5, <1>10, <1>11, <1>13, <1>14, <1>15, <1>16, <1>17, <1>18
     DEF DocumentInv, Walking, s, n

LEMMA DocumentStep == BuildInv /\ DocumentInv /\ [Next]_vars => DocumentInv'
<1> SUFFICES ASSUME BuildInv, DocumentInv, [Next]_vars PROVE DocumentInv'
  OBVIOUS
<1>1. CASE CreateNode \/ StartLinking \/ Link \/ NoTree
  BY <1>1, BeforeTheWalk
<1>2. CASE StartWalk
  BY <1>2, StartWalkKeeps
<1>3. CASE Run
  BY <1>3, RunKeeps
<1>4. CASE StartMapping
  BY <1>4, StartMappingKeeps
<1>5. CASE MapRating
  BY <1>5, MapRatingKeeps
<1>6. CASE Finish
  BY <1>6, FinishKeeps
<1>7. CASE UNCHANGED vars
  <2>1. PostOrder' = PostOrder
    BY <1>7, PostOrderStays DEF vars, tree
  <2> QED
    BY <1>7, <2>1 DEF vars, DocumentInv
<1> QED
  BY <1>1, <1>2, <1>3, <1>4, <1>5, <1>6, <1>7 DEF Next

-----------------------------------------------------------------------------
(* The properties.                                                          *)

ProfileInv == BuildInv /\ DocumentInv

LEMMA ProfileInvHolds == Spec => []ProfileInv
<1>1. Init => ProfileInv
  BY BuildInit, DocumentInit DEF ProfileInv
<1>2. ProfileInv /\ [Next]_vars => ProfileInv'
  BY BuildStep, DocumentStep DEF ProfileInv
<1> QED
  BY <1>1, <1>2, PTL DEF Spec

(***************************************************************************)
(* The types of the variables.                                              *)
(***************************************************************************)
THEOREM ProfileEvaluationTypes == Spec => []TypeOK
<1>1. ASSUME ProfileInv PROVE TypeOK
  <2>1. BuildInv /\ DocumentInv
    BY <1>1 DEF ProfileInv
  <2>2. \E k : Keeps(doc, nodes, k)
    BY <2>1 DEF BuildInv, Walking
  <2>3. /\ DOMAIN nodes \subseteq Ids(doc)
        /\ \A c \in DOMAIN nodes : nodes[c] \in Positions(doc) /\ doc[nodes[c]].id = c
    BY <2>2 DEF Keeps
  <2>4. order \in Seq(Ids(doc))
    BY <2>1, EmptySeq DEF BuildInv, Walking, Lists
  <2>5. /\ DOMAIN parent \subseteq Ids(doc)
        /\ \A c \in DOMAIN parent : parent[c] \in Ids(doc)
        /\ kids \in [Ids(doc) -> Seq(Ids(doc))]
    BY <2>1 DEF BuildInv, Links
  <2>6. /\ doc \in Documents /\ next \in Nat \ {0}
        /\ pc \in {"create", "link", "walk", "map", "done", "failed", "aborted"}
    BY <2>1 DEF BuildInv
  <2>7. /\ ran \in Seq(Ids(doc)) /\ results \in [Positions(doc) -> Seq(SUBSET Nat)]
        /\ ratings \in [Positions(doc) -> Seq(Nat)] /\ scores \in [Positions(doc) -> Seq(Nat)]
    BY <2>1 DEF DocumentInv
  <2> QED
    BY <2>3, <2>4, <2>5, <2>6, <2>7 DEF TypeOK
<1> QED
  BY <1>1, ProfileInvHolds, PTL

(***************************************************************************)
(* Every link of every tree leads one or two levels up: the links form no   *)
(* ring, so no node is cut off from the virtual root.                       *)
(***************************************************************************)
THEOREM LinksLeadUp == Spec => []ParentsAreAbove
<1>1. ASSUME ProfileInv PROVE ParentsAreAbove
  <2> SUFFICES ASSUME NEW c \in DOMAIN parent PROVE OneOrTwoLevelsUp(parent[c], c)
    BY DEF ParentsAreAbove
  <2>1. /\ doc \in Documents /\ c \in Ids(doc) /\ parent[c] \in Ids(doc)
        /\ is_parent_child_relation(parent[c], c)
    BY <1>1 DEF ProfileInv, BuildInv, Links
  <2>2. c \in Id /\ parent[c] \in Id
    BY <2>1, DocumentShape
  <2> QED
    BY <2>1, <2>2, RelationIsCut
<1> QED
  BY <1>1, ProfileInvHolds, PTL

\* When the walk is over it has run what PostOrder lists.
LEMMA AllRan ==
    ASSUME ProfileInv, pc \in {"map", "done"}
    PROVE  /\ doc \in Documents /\ Keeps(doc, nodes, Len(doc))
           /\ Lists(Ids(doc), ran)
<1>1. /\ doc \in Documents /\ Keeps(doc, nodes, Len(doc)) /\ Lists(Ids(doc), order)
      /\ Links(Ids(doc), parent, kids)
  BY DEF ProfileInv, BuildInv, Walking
<1>2. Lists(Ids(doc), PostOrder)
  BY <1>1, PostOrderShape
<1>3. /\ ran \in Seq(Ids(doc)) /\ Len(ran) = Len(PostOrder)
      /\ \A i \in 1..Len(ran) : ran[i] = PostOrder[i]
  BY DEF ProfileInv, DocumentInv, Walking
<1>4. ran = PostOrder
  BY <1>2, <1>3, SeqEqual DEF Lists
<1> QED
  BY <1>1, <1>2, <1>4

(***************************************************************************)
(* In every hash order and for every document the walk runs the scripts of  *)
(* each Profile_ID once: EveryProfileRunsOnce.                              *)
(***************************************************************************)
THEOREM ProfilesAlwaysRunOnce == Spec => []EveryProfileRunsOnce
<1>1. ASSUME ProfileInv PROVE EveryProfileRunsOnce
  <2> SUFFICES ASSUME pc \in {"map", "done"}
               PROVE  IsInjective(ran) /\ {ran[i] : i \in 1..Len(ran)} = Ids(doc)
    BY DEF EveryProfileRunsOnce
  <2>1. Lists(Ids(doc), ran)
    BY <1>1, AllRan
  <2>2. DOMAIN ran = 1..Len(ran)
    BY <2>1, LenProperties DEF Lists
  <2> QED
    BY <2>1, <2>2 DEF Lists, In, IsInjective
<1> QED
  BY <1>1, ProfileInvHolds, PTL

(***************************************************************************)
(* The result of a node is computed from those of its children, wherever a  *)
(* child has no other parent to be hung under: ChildrenAreAggregated.       *)
(***************************************************************************)
THEOREM ChildrenAreAlwaysAggregated == Spec => []ChildrenAreAggregated
<1>1. ASSUME ProfileInv PROVE ChildrenAreAggregated
  <2> SUFFICES ASSUME pc \in {"map", "done"}, NEW c \in Ids(doc), NEW p \in Ids(doc),
                      is_parent_child_relation(p, c), OneSegmentUp(p, c), Unambiguous(c),
                      doc[nodes[p]].logic = "aggregates", doc[nodes[c]].logic = "aggregates"
               PROVE  nodes[c] \in Last(results[nodes[p]])
    BY DEF ChildrenAreAggregated
  <2>1. /\ Lists(Ids(doc), order) /\ Linked(order, parent, Len(order))
        /\ Links(Ids(doc), parent, kids)
    BY <1>1 DEF ProfileInv, BuildInv, Walking
  <2>2. PICK i \in 1..Len(order) : order[i] = c
    BY <2>1 DEF Lists, In
  <2>3. PICK j \in 1..Len(order) : order[j] = p
    BY <2>1 DEF Lists, In
  <2>4. i <= Len(order)
    BY <2>1, <2>2, LenProperties DEF Lists
  <2>5. c \in DOMAIN parent
    BY <2>1, <2>2, <2>3, <2>4 DEF Linked
  <2>6. parent[c] = p
    <3>1. parent[c] \in Ids(doc) /\ is_parent_child_relation(parent[c], c)
      BY <2>1, <2>5 DEF Links
    <3> QED
      BY <3>1 DEF Unambiguous
  <2>7. PICK k \in 1..Len(ran) : ran[k] = p
    <3>1. Lists(Ids(doc), ran)
      BY <1>1, AllRan
    <3> QED
      BY <3>1 DEF Lists, In
  <2>8. Aggregated(doc, nodes, parent, ran, results)
    BY <1>1 DEF ProfileInv, DocumentInv
  <2> QED
    BY <2>5, <2>6, <2>7, <2>8 DEF Aggregated
<1> QED
  BY <1>1, ProfileInvHolds, PTL

(***************************************************************************)
(* In a new document an element has the score of the rating of its own      *)
(* script, and a duplicate that no node was kept for has none:              *)
(* ScoresFollowRatings.                                                     *)
(***************************************************************************)
THEOREM ScoresAlwaysFollowRatings == Spec => []ScoresFollowRatings
<1>1. ASSUME ProfileInv PROVE ScoresFollowRatings
  <2> SUFFICES ASSUME pc = "done", Fresh, NEW e \in Positions(doc)
               PROVE  scores[e] = IF /\ doc[e].id # NoId
                                     /\ \A f \in Positions(doc) : f > e => doc[f].id # doc[e].id
                                     /\ doc[e].logic = "aggregates"
                                     /\ doc[e].threshold = "returns"
                                     /\ doc[e].rating \in 10..50
                                  THEN <<doc[e].rating \div 10>>
                                  ELSE <<>>
    BY DEF ScoresFollowRatings
  <2>1. /\ doc \in Documents /\ Keeps(doc, nodes, Len(doc)) /\ Lists(Ids(doc), ran)
    BY <1>1, AllRan
  <2>2. /\ Rated(doc, nodes, ran, ratings) /\ Scored(doc, ratings, scores, Len(doc))
    BY <1>1 DEF ProfileInv, DocumentInv
  <2>3. /\ Len(doc) \in Nat /\ Positions(doc) = 1..Len(doc)
        /\ doc[e] \in Element /\ (doc[e].id # NoId => doc[e].id \in Ids(doc))
    BY <2>1, DocumentShape
  <2>4. \A c \in Ids(doc) : nodes[c] \in Positions(doc) /\ doc[nodes[c]].id = c /\ c # NoId
    BY <2>1, NodesShape
  <2> DEFINE Kept == doc[e].id # NoId /\ \A f \in Positions(doc) : f > e => doc[f].id # doc[e].id
  <2>5. Kept <=> \E i \in 1..Len(ran) : nodes[ran[i]] = e
    <3>1. ASSUME Kept PROVE \E i \in 1..Len(ran) : nodes[ran[i]] = e
      <4> DEFINE x == doc[e].id
      <4>1. x \in Ids(doc) /\ nodes[x] \in Positions(doc) /\ doc[nodes[x]].id = x
        BY <2>3, <2>4, <3>1
      <4>2. e <= nodes[x] /\ ~ nodes[x] > e
        BY <2>1, <2>3, <3>1, <4>1 DEF Keeps
      <4>3. nodes[x] = e
        BY <2>3, <4>1, <4>2
      <4>4. PICK i \in 1..Len(ran) : ran[i] = x
        BY <2>1, <4>1 DEF Lists, In
      <4> QED
        BY <4>3, <4>4
    <3>2. ASSUME NEW i \in 1..Len(ran), nodes[ran[i]] = e PROVE Kept
      <4> DEFINE x == ran[i]
      <4>1. x \in Ids(doc)
        BY <2>1 DEF Lists
      <4>2. doc[e].id = x /\ x # NoId /\ nodes[x] = e
        BY <2>4, <3>2, <4>1
      <4> HIDE DEF x
      <4>3. ASSUME NEW f \in Positions(doc), f > e, doc[f].id = x PROVE FALSE
        <5>1. f <= Len(doc) /\ f \in Nat /\ e \in Nat
          BY <2>3
        <5>2. f <= nodes[x]
          BY <2>1, <4>2, <4>3, <5>1 DEF Keeps
        <5> QED
          BY <4>2, <4>3, <5>1, <5>2
      <4> QED
        BY <4>2, <4>3
    <3> QED
      BY <3>1, <3>2
  <2> HIDE DEF Kept
  <2> DEFINE Has == Kept /\ doc[e].logic = "aggregates" /\ doc[e].threshold = "returns"
  <2>6. ratings[e] = IF Has THEN <<doc[e].rating>> ELSE <<>>
    BY <2>2, <2>5 DEF Rated, Fresh
  <2>7. e <= Len(doc)
    BY <2>3
  <2>8. scores[e] = IF ratings[e] # <<>> /\ Head(ratings[e]) \in 10..50
                    THEN <<Head(ratings[e]) \div 10>> ELSE <<>>
    BY <2>2, <2>7 DEF Scored
  <2> HIDE DEF Has
  <2>9. CASE Has
    <3>1. ratings[e] # <<>> /\ Head(ratings[e]) = doc[e].rating
      BY <2>6, <2>9
    <3>2. scores[e] = IF doc[e].rating \in 10..50 THEN <<doc[e].rating \div 10>> ELSE <<>>
      BY <2>8, <3>1
    <3> QED
      BY <2>9, <3>2 DEF Has, Kept
  <2>10. CASE ~ Has
    <3>1. scores[e] = <<>>
      BY <2>6, <2>8, <2>10
    <3> QED
      BY <2>10, <3>1 DEF Has, Kept
  <2> QED
    BY <2>9, <2>10
<1> QED
  BY <1>1, ProfileInvHolds, PTL
=============================================================================
