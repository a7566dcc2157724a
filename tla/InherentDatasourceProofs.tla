---------------------- MODULE InherentDatasourceProofs ----------------------
(***************************************************************************)
(* For every document, rule table, stack size and number of evaluations.    *)
(*                                                                         *)
(* StackInv is the shape of the C++ stack: the script at the bottom is that *)
(* of the rule at pos, every other one is a consolidation that the script   *)
(* below it waits for, and is reached from all scripts below it.  By the    *)
(* pigeonhole principle a stack with more frames than items is of a circle. *)
(* DoomInv: a script whose rule gets into a circle always has a call in     *)
(* front of it that does, so that it never returns.                         *)
(*                                                                         *)
(* RowsInv says what evaluate has made of the rows it has passed and which  *)
(* of the others still are as they were given; ReadInv, that the scripts    *)
(* run for a rule that looks back have read settled rows only.  InputInv    *)
(* and UpdateInv do the same for the inputs of the companies.               *)
(***************************************************************************)
EXTENDS InherentDatasource, FiniteSetTheorems, SequenceTheorems, WellFoundedInduction, TLAPS

-----------------------------------------------------------------------------
(* The document.                                                            *)

\* A non-empty set of naturals has a smallest element.
LEMMA SmallestOf ==
    ASSUME NEW S \in SUBSET Nat, S # {}
    PROVE  \E m \in S : \A j \in S : m <= j
<1> DEFINE R == OpToRel(<, Nat)
<1>1. IsWellFoundedOn(R, Nat)
  BY NatLessThanWellFounded
<1>2. PICK x \in S : \A y \in S : <<y, x>> \notin R
  <2> HIDE DEF R
  <2> QED BY <1>1, WFMin
<1>3. \A y \in S : ~ y < x
  BY <1>2 DEF OpToRel
<1> QED BY <1>3

\* And a bounded one a largest.
LEMMA LargestOf ==
    ASSUME NEW N \in Nat, NEW S, S \subseteq 1..N, S # {}
    PROVE  \E m \in S : \A j \in S : j <= m
<1> DEFINE T == {N - j : j \in S}
<1>1. T \in SUBSET Nat /\ T # {}
  <2>1. \A j \in S : N - j \in Nat
    OBVIOUS
  <2> QED BY <2>1
<1>2. PICK t \in T : \A u \in T : t <= u
  <2> HIDE DEF T
  <2> QED BY <1>1, SmallestOf
<1>3. PICK m \in S : t = N - m
  OBVIOUS
<1>4. ASSUME NEW j \in S PROVE j <= m
  <2>1. N - m <= N - j
    BY <1>2, <1>3
  <2> QED BY <2>1
<1> QED BY <1>4

LEMMA IntervalSize ==
    ASSUME NEW n \in Nat
    PROVE  IsFiniteSet(1..n) /\ Cardinality(1..n) = n
<1>1. Cardinality(1..n) = IF 1 > n THEN 0 ELSE n - 1 + 1
  BY FS_Interval
<1> QED BY <1>1, FS_Interval

\* Items and rows.
LEMMA DocumentShape ==
    /\ Len(CodeOf) \in Nat /\ Items = 1..Len(CodeOf) /\ IsFiniteSet(Items)
    /\ Cardinality(Items) = Len(CodeOf)
    /\ \A i \in Items : /\ Rows[i] \in Seq(Names) /\ Len(Rows[i]) \in Nat
                        /\ DOMAIN Rows[i] = 1..Len(Rows[i])
                        /\ \A r \in DOMAIN Rows[i] : <<i, r>> \in AllRows
    /\ \A x \in AllRows : /\ x = <<x[1], x[2]>> /\ x[1] \in Items /\ x[2] \in DOMAIN Rows[x[1]]
                          /\ x[1] \in Nat /\ x[2] \in Nat \ {0} /\ Rows[x[1]][x[2]] \in Names
<1>1. /\ CodeOf \in Seq(Codes) /\ Rows \in Seq(Seq(Names)) /\ Len(Rows) = Len(CodeOf)
  BY DatasourceAssumption
<1>2. Len(CodeOf) \in Nat /\ Items = 1..Len(CodeOf)
  BY <1>1 DEF Items
<1>3. IsFiniteSet(Items) /\ Cardinality(Items) = Len(CodeOf)
  <2> DEFINE n == Len(CodeOf)
  <2>1. n \in Nat /\ Items = 1..n
    BY <1>2
  <2> HIDE DEF n
  <2>2. IsFiniteSet(Items) /\ Cardinality(Items) = n
    BY <2>1, IntervalSize
  <2> QED BY <2>2 DEF n
<1>4. \A i \in Items : /\ Rows[i] \in Seq(Names) /\ Len(Rows[i]) \in Nat
                       /\ DOMAIN Rows[i] = 1..Len(Rows[i])
  BY <1>1, <1>2
<1>5. \A i \in Items : \A r \in DOMAIN Rows[i] : <<i, r>> \in AllRows
  BY DEF AllRows
<1>6. ASSUME NEW x \in AllRows
      PROVE  /\ x = <<x[1], x[2]>> /\ x[1] \in Items /\ x[2] \in DOMAIN Rows[x[1]]
             /\ x[1] \in Nat /\ x[2] \in Nat \ {0} /\ Rows[x[1]][x[2]] \in Names
  <2>1. PICK i \in Items : x \in {<<i, r>> : r \in DOMAIN Rows[i]}
    BY DEF AllRows
  <2>2. PICK r \in DOMAIN Rows[i] : x = <<i, r>>
    BY <2>1
  <2>3. Rows[i][r] \in Names
    BY <1>4, <2>2
  <2>4. r \in Nat \ {0} /\ i \in Nat
    BY <1>2, <1>4
  <2> QED BY <2>2, <2>3, <2>4
<1> QED BY <1>2, <1>3, <1>4, <1>5, <1>6

-----------------------------------------------------------------------------
(* The rules in the order in which evaluate runs them.                      *)

\* s is the rows of the first k items, in document order.
Enumerates(s, k) ==
    /\ s \in Seq(AllRows)
    /\ \A n \in 1..Len(s) : s[n][1] <= k
    /\ \A x \in AllRows : x[1] <= k => \E n \in 1..Len(s) : s[n] = x
    /\ \A m, n \in 1..Len(s) : m < n => IsBefore(s[m], s[n])

\* The rows of one more item.
LEMMA OneItemMore ==
    ASSUME NEW k \in Items, NEW s, Enumerates(s, k - 1)
    PROVE  Enumerates(s \o RowsOf(k), k)
<1> DEFINE t == RowsOf(k)
           b == Len(Rows[k])
           a == Len(s)
           u == s \o t
<1>1. k \in Nat /\ b \in Nat /\ DOMAIN Rows[k] = 1..b
  BY DocumentShape
<1>2. t \in Seq(AllRows) /\ Len(t) = b /\ \A n \in 1..b : t[n] = <<k, n>>
  <2>1. t = [r \in 1..b |-> <<k, r>>]
    BY <1>1 DEF RowsOf
  <2>2. \A r \in 1..b : <<k, r>> \in AllRows
    BY <1>1, DocumentShape
  <2> HIDE DEF t, b
  <2>3. t \in [1..b -> AllRows]
    BY <2>1, <2>2
  <2>4. t \in Seq(AllRows)
    BY <1>1, <2>3, SeqDef
  <2> QED BY <1>1, <2>1, <2>4
<1>3. s \in Seq(AllRows) /\ a \in Nat
  BY LenProperties DEF Enumerates
<1> HIDE DEF t, b, a, u
<1>4. /\ u \in Seq(AllRows) /\ Len(u) = a + b
      /\ \A n \in 1..a + b : u[n] = IF n <= a THEN s[n] ELSE t[n - a]
  BY <1>2, <1>3, ConcatProperties DEF a, u
<1>5. /\ \A n \in 1..a : u[n] = s[n] /\ n \in 1..a + b
      /\ \A n \in 1..b : u[a + n] = <<k, n>> /\ a + n \in 1..a + b
      /\ \A n \in 1..a + b : n \in 1..a \/ (n - a \in 1..b /\ u[n] = <<k, n - a>>)
  <2>1. ASSUME NEW n \in 1..a PROVE u[n] = s[n] /\ n \in 1..a + b
    BY <1>1, <1>3, <1>4
  <2>2. ASSUME NEW n \in 1..b PROVE u[a + n] = <<k, n>> /\ a + n \in 1..a + b
    <3>1. a + n \in 1..a + b /\ ~ a + n <= a /\ (a + n) - a = n
      BY <1>1, <1>3
    <3> QED BY <1>2, <1>4, <3>1
  <2>3. ASSUME NEW n \in 1..a + b, n \notin 1..a PROVE n - a \in 1..b /\ u[n] = <<k, n - a>>
    <3>1. n - a \in 1..b /\ ~ n <= a
      BY <1>1, <1>3, <2>3
    <3> QED BY <1>2, <1>4, <3>1
  <2> QED BY <2>1, <2>2, <2>3
<1>6. \A n \in 1..a : s[n] \in AllRows /\ s[n][1] \in Nat /\ s[n][1] <= k - 1 /\ s[n][1] <= k
  <2>1. \A n \in 1..a : s[n] \in AllRows
    BY <1>3 DEF a
  <2> QED BY <1>1, <2>1, DocumentShape DEF Enumerates, a
<1>7. \A n \in 1..a + b : u[n][1] <= k
  BY <1>1, <1>5, <1>6
<1>8. ASSUME NEW x \in AllRows, x[1] <= k PROVE \E n \in 1..a + b : u[n] = x
  <2>1. x = <<x[1], x[2]>> /\ x[1] \in Nat /\ x[2] \in DOMAIN Rows[x[1]]
    BY DocumentShape
  <2>2. CASE x[1] <= k - 1
    <3>1. PICK n \in 1..a : s[n] = x
      BY <2>2 DEF Enumerates, a
    <3> QED BY <1>5, <3>1
  <2>3. CASE x[1] = k
    <3>1. x[2] \in 1..b /\ x = <<k, x[2]>>
      BY <1>1, <2>1, <2>3
    <3> QED BY <1>5, <3>1
  <2> QED BY <1>1, <1>8, <2>1, <2>2, <2>3
<1>9. ASSUME NEW m \in 1..a + b, NEW n \in 1..a + b, m < n PROVE IsBefore(u[m], u[n])
  <2>1. CASE n \in 1..a
    <3>1. m \in 1..a
      BY <1>1, <1>3, <1>9, <2>1
    <3> QED BY <1>5, <1>9, <2>1, <3>1 DEF Enumerates, a
  <2>2. CASE n \notin 1..a /\ m \in 1..a
    <3>1. u[n][1] = k /\ u[m][1] <= k - 1 /\ u[m][1] \in Nat
      BY <1>5, <1>6, <2>2
    <3> QED BY <1>1, <3>1 DEF IsBefore
  <2>3. CASE n \notin 1..a /\ m \notin 1..a
    <3>1. u[n] = <<k, n - a>> /\ u[m] = <<k, m - a>> /\ m - a < n - a
      BY <1>1, <1>3, <1>5, <1>9, <2>3
    <3> QED BY <3>1 DEF IsBefore
  <2> QED BY <2>1, <2>2, <2>3
<1> QED BY <1>4, <1>7, <1>8, <1>9 DEF Enumerates, t, u

\* The function FlattenSeq is defined by, up to an item.
Flat(f, k) ==
    f = [i \in 1..k |-> IF i = 1 THEN RowsOf(i) ELSE f[i - 1] \o RowsOf(i)]

LEMMA FlatExists == \A k \in Nat \ {0} : \E f : Flat(f, k)
<1> DEFINE Bad == {k \in Nat \ {0} : ~ \E f : Flat(f, k)}
<1> SUFFICES ASSUME Bad # {} PROVE FALSE
  OBVIOUS
<1>1. PICK m \in Bad : \A j \in Bad : m <= j
  <2>1. Bad \in SUBSET Nat
    OBVIOUS
  <2> HIDE DEF Bad
  <2> QED BY <2>1, SmallestOf
<1>2. m \in Nat \ {0} /\ ~ \E f : Flat(f, m)
  OBVIOUS
<1>3. CASE m = 1
  <2> DEFINE f == [i \in 1..1 |-> RowsOf(1)]
  <2>1. f = [i \in 1..1 |-> IF i = 1 THEN RowsOf(i) ELSE f[i - 1] \o RowsOf(i)]
    OBVIOUS
  <2>2. Flat(f, m)
    BY <1>3, <2>1 DEF Flat
  <2> QED BY <1>2, <2>2
<1>4. CASE m # 1
  <2>1. m - 1 \in Nat \ {0} /\ m - 1 \notin Bad
    <3>1. m - 1 \in Nat \ {0} /\ ~ m <= m - 1
      BY <1>2, <1>4
    <3> HIDE DEF Bad
    <3> QED BY <1>1, <3>1
  <2>2. PICK g : Flat(g, m - 1)
    BY <2>1
  <2>3. g = [i \in 1..m - 1 |-> IF i = 1 THEN RowsOf(i) ELSE g[i - 1] \o RowsOf(i)]
    BY <2>2 DEF Flat
  <2> DEFINE f == [i \in 1..m |-> IF i = m THEN g[m - 1] \o RowsOf(m) ELSE g[i]]
  <2>4. \A i \in 1..m : f[i] = IF i = 1 THEN RowsOf(i) ELSE f[i - 1] \o RowsOf(i)
    <3> SUFFICES ASSUME NEW i \in 1..m
                 PROVE  f[i] = IF i = 1 THEN RowsOf(i) ELSE f[i - 1] \o RowsOf(i)
      OBVIOUS
    <3>1. CASE i = m
      <4>1. m - 1 \in 1..m /\ m - 1 # m
        BY <1>2, <1>4
      <4>2. f[m - 1] = g[m - 1] /\ f[m] = g[m - 1] \o RowsOf(m)
        BY <1>2, <4>1
      <4> QED BY <1>4, <3>1, <4>2
    <3>2. CASE i # m
      <4>1. i \in 1..m - 1 /\ f[i] = g[i]
        BY <1>2, <3>2
      <4>2. g[i] = IF i = 1 THEN RowsOf(i) ELSE g[i - 1] \o RowsOf(i)
        BY <2>3, <4>1
      <4>3. i # 1 => i - 1 \in 1..m /\ i - 1 # m /\ f[i - 1] = g[i - 1]
        BY <1>2, <3>2
      <4> QED BY <4>1, <4>2, <4>3
    <3> QED BY <3>1, <3>2
  <2>5. DOMAIN f = 1..m /\ f = [i \in 1..m |-> f[i]]
    OBVIOUS
  <2> HIDE DEF f
  <2>6. Flat(f, m)
    BY <2>4, <2>5 DEF Flat
  <2> QED BY <1>2, <2>6
<1> QED BY <1>3, <1>4

\* The loop over the items.
LEMMA FsiJobsShape == Enumerates(FsiJobs, Len(CodeOf))
<1> DEFINE seqs == [i \in Items |-> RowsOf(i)]
           N == Len(CodeOf)
<1>1. N \in Nat /\ Items = 1..N
  BY DocumentShape
<1>2. Len(seqs) = N
  BY <1>1
<1>3. Enumerates(<<>>, 0)
  BY DocumentShape DEF Enumerates
<1>4. CASE N = 0
  <2>1. FsiJobs = <<>>
    <3>1. seqs = <<>>
      BY <1>1, <1>4
    <3>2. FsiJobs = seqs
      BY <1>2, <1>4 DEF FsiJobs, FlattenSeq
    <3> QED BY <3>1, <3>2
  <2> QED BY <1>3, <1>4, <2>1
<1>5. CASE N # 0
  <2> DEFINE f == CHOOSE g : Flat(g, N)
  <2>1. Flat(f, N)
    BY <1>1, <1>5, FlatExists
  <2>2. FsiJobs = f[N]
    <3>1. FlattenSeq(seqs) = LET g[i \in 1..Len(seqs)] ==
                                     IF i = 1 THEN seqs[i] ELSE g[i - 1] \o seqs[i]
                             IN  g[Len(seqs)]
      BY <1>2, <1>5 DEF FlattenSeq
    <3>2. \A g : (g = [i \in 1..N |-> IF i = 1 THEN seqs[i] ELSE g[i - 1] \o seqs[i]]) <=> Flat(g, N)
      <4>1. \A g : [i \in 1..N |-> IF i = 1 THEN seqs[i] ELSE g[i - 1] \o seqs[i]]
                 = [i \in 1..N |-> IF i = 1 THEN RowsOf(i) ELSE g[i - 1] \o RowsOf(i)]
        BY <1>1
      <4> QED BY <4>1 DEF Flat
    <3>3. (CHOOSE g : g = [i \in 1..N |-> IF i = 1 THEN seqs[i] ELSE g[i - 1] \o seqs[i]]) = f
      BY <3>2
    <3> QED BY <1>2, <3>1, <3>3 DEF FsiJobs
  <2> HIDE DEF f
  <2>3. \A i \in 1..N : f[i] = IF i = 1 THEN RowsOf(i) ELSE f[i - 1] \o RowsOf(i)
    BY <2>1 DEF Flat
  <2> DEFINE Bad == {k \in 1..N : ~ Enumerates(f[k], k)}
  <2>4. ASSUME Bad # {} PROVE FALSE
    <3>1. PICK m \in Bad : \A j \in Bad : m <= j
      <4>1. Bad \in SUBSET Nat
        BY <1>1
      <4> HIDE DEF Bad
      <4> QED BY <2>4, <4>1, SmallestOf
    <3>2. m \in 1..N /\ m \in Items /\ ~ Enumerates(f[m], m)
      BY <1>1
    <3>3. CASE m = 1
      <4>1. Enumerates(<<>> \o RowsOf(1), 1)
        <5>1. 1 \in Items /\ 1 - 1 = 0
          BY <3>2, <3>3
        <5> QED BY <1>3, <5>1, OneItemMore
      <4>2. <<>> \o RowsOf(1) = RowsOf(1)
        <5>1. RowsOf(1) = [r \in 1..Len(Rows[1]) |-> <<1, r>>] /\ Len(Rows[1]) \in Nat
          BY <3>2, <3>3, DocumentShape DEF RowsOf
        <5>2. RowsOf(1) \in Seq({1} \X Nat)
          BY <5>1
        <5> QED BY <5>2, ConcatEmptySeq
      <4> QED BY <2>3, <3>2, <3>3, <4>1, <4>2
    <3>4. CASE m # 1
      <4>1. m - 1 \in 1..N /\ ~ m <= m - 1
        BY <1>1, <3>2, <3>4
      <4>2. m - 1 \notin Bad
        <5> HIDE DEF Bad
        <5> QED BY <3>1, <4>1
      <4>3. Enumerates(f[m - 1], m - 1)
        BY <4>1, <4>2
      <4>4. Enumerates(f[m - 1] \o RowsOf(m), m)
        BY <3>2, <4>3, OneItemMore
      <4> QED BY <2>3, <3>2, <3>4, <4>4
    <3> QED BY <3>3, <3>4
  <2>5. N \in 1..N
    BY <1>1, <1>5
  <2> QED BY <2>2, <2>4, <2>5
<1> QED BY <1>4, <1>5

\* Every row has one place, and behind the rows come the items.
LEMMA JobsShape ==
    /\ Len(FsiJobs) \in Nat /\ DOMAIN FsiJobs = 1..Len(FsiJobs)
    /\ \A n \in 1..Len(FsiJobs) : FsiJobs[n] \in AllRows /\ Jobs[n] = FsiJobs[n]
    /\ \A x \in AllRows : \E n \in 1..Len(FsiJobs) : FsiJobs[n] = x
    /\ \A m, n \in 1..Len(FsiJobs) : m < n => IsBefore(FsiJobs[m], FsiJobs[n])
    /\ \A m, n \in 1..Len(FsiJobs) : IsBefore(FsiJobs[m], FsiJobs[n]) => m < n
    /\ \A m, n \in 1..Len(FsiJobs) : FsiJobs[m] = FsiJobs[n] => m = n
    /\ Len(Jobs) = Len(FsiJobs) + Len(CodeOf) /\ Len(Jobs) \in Nat /\ DOMAIN Jobs = 1..Len(Jobs)
    /\ \A n \in 1..Len(Jobs) :
          \/ n \in 1..Len(FsiJobs)
          \/ n - Len(FsiJobs) \in Items /\ Jobs[n] = <<n - Len(FsiJobs), 0>>
    /\ \A i \in Items : /\ Len(FsiJobs) + i \in 1..Len(Jobs)
                        /\ Jobs[Len(FsiJobs) + i] = <<i, 0>>
    /\ \A n \in 1..Len(Jobs) : Jobs[n] \in AllRows \cup (Items \X {0})
<1> DEFINE N == Len(CodeOf)
           L == Len(FsiJobs)
           s == [i \in Items |-> <<i, 0>>]
           J == AllRows \cup (Items \X {0})
<1>1. N \in Nat /\ Items = 1..N
  BY DocumentShape
<1>2. FsiJobs \in Seq(AllRows) /\ L \in Nat /\ DOMAIN FsiJobs = 1..L
  BY FsiJobsShape, LenProperties DEF Enumerates
<1>3. \A n \in 1..L : FsiJobs[n] \in AllRows
  BY <1>2
<1>4. \A x \in AllRows : \E n \in 1..L : FsiJobs[n] = x
  BY <1>1, FsiJobsShape, DocumentShape DEF Enumerates
<1>5. \A m, n \in 1..L : m < n => IsBefore(FsiJobs[m], FsiJobs[n])
  BY FsiJobsShape DEF Enumerates
<1>6. \A x, y \in AllRows : IsBefore(x, y) => ~ IsBefore(y, x) /\ x # y
  BY DocumentShape DEF IsBefore
<1> HIDE DEF N, L
<1>7. /\ \A m, n \in 1..L : IsBefore(FsiJobs[m], FsiJobs[n]) => m < n
      /\ \A m, n \in 1..L : FsiJobs[m] = FsiJobs[n] => m = n
  <2> SUFFICES ASSUME NEW m \in 1..L, NEW n \in 1..L
               PROVE  /\ IsBefore(FsiJobs[m], FsiJobs[n]) => m < n
                      /\ FsiJobs[m] = FsiJobs[n] => m = n
    OBVIOUS
  <2>1. m < n \/ m = n \/ n < m
    BY <1>2
  <2> QED BY <1>3, <1>5, <1>6, <2>1
<1>8. s \in Seq(J) /\ Len(s) = N /\ \A i \in 1..N : s[i] = <<i, 0>>
  <2>1. s \in [1..N -> J]
    BY <1>1
  <2>2. s \in Seq(J)
    BY <1>1, <2>1, SeqDef
  <2> QED BY <1>1, <2>2
<1>9. FsiJobs \in Seq(J)
  BY <1>2, SeqMonotonic
<1> HIDE DEF s
<1>10. /\ Jobs \in Seq(J) /\ Len(Jobs) = L + N
       /\ \A n \in 1..L + N : Jobs[n] = IF n <= L THEN FsiJobs[n] ELSE s[n - L]
  BY <1>8, <1>9, ConcatProperties DEF Jobs, s, L
<1>11. \A n \in 1..L : Jobs[n] = FsiJobs[n]
  BY <1>1, <1>2, <1>10
<1>12. ASSUME NEW n \in 1..L + N, n \notin 1..L PROVE n - L \in Items /\ Jobs[n] = <<n - L, 0>>
  <2>1. n - L \in 1..N /\ ~ n <= L
    BY <1>1, <1>2, <1>12
  <2> QED BY <1>1, <1>8, <1>10, <2>1
<1>13. ASSUME NEW i \in Items PROVE L + i \in 1..L + N /\ Jobs[L + i] = <<i, 0>>
  <2>1. L + i \in 1..L + N /\ ~ L + i <= L /\ (L + i) - L = i
    BY <1>1, <1>2
  <2> QED BY <1>1, <1>8, <1>10, <2>1
<1>14. Len(Jobs) \in Nat /\ DOMAIN Jobs = 1..Len(Jobs) /\ \A n \in 1..Len(Jobs) : Jobs[n] \in J
  BY <1>10, LenProperties, ElementOfSeq
<1> QED BY <1>2, <1>3, <1>4, <1>5, <1>7, <1>10, <1>11, <1>12, <1>13, <1>14 DEF N, L

-----------------------------------------------------------------------------
(* What a rule runs.                                                        *)

\* Of a code's items only the first is ever consolidated.
LEMMA RuledShape ==
    ASSUME NEW c
    PROVE  /\ Ruled(c) \subseteq Items
           /\ \A i \in Ruled(c) : HasRule(<<i, 0>>)
           /\ \A i, j \in Ruled(c) : i = j
BY DEF Ruled, Holding

LEMMA RunsShape ==
    ASSUME NEW job
    PROVE  /\ Runs(job) \subseteq Items
           /\ \A i \in Runs(job) : HasRule(<<i, 0>>)
BY RuledShape DEF Runs

LEMMA ReachedShape ==
    ASSUME NEW job
    PROVE  /\ Reached(job) \subseteq Items
           /\ Runs(job) \subseteq Reached(job)
           /\ \A i \in Reached(job) : Runs(<<i, 0>>) \subseteq Reached(job)
           /\ \A S \in SUBSET Items :
                 Runs(job) \subseteq S /\ (\A j \in S : Runs(<<j, 0>>) \subseteq S) =>
                     Reached(job) \subseteq S
<1>1. Reached(job) \subseteq Items
  BY DEF Reached
<1>2. \A S \in SUBSET Items :
          Runs(job) \subseteq S /\ (\A j \in S : Runs(<<j, 0>>) \subseteq S) =>
              Reached(job) \subseteq S
  BY DEF Reached
<1>3. Runs(job) \subseteq Reached(job)
  BY RunsShape DEF Reached
<1>4. ASSUME NEW i \in Reached(job), NEW x \in Runs(<<i, 0>>) PROVE x \in Reached(job)
  <2>1. x \in Items
    BY RunsShape
  <2>2. ASSUME NEW S \in SUBSET Items, Runs(job) \subseteq S,
               \A j \in S : Runs(<<j, 0>>) \subseteq S
        PROVE  x \in S
    <3>1. i \in S
      BY <1>2, <2>2
    <3> QED BY <2>2, <3>1
  <2> QED BY <2>1, <2>2 DEF Reached
<1> QED BY <1>1, <1>2, <1>3, <1>4

\* What is reached is run at once or reached from what is run.
LEMMA ReachedBelow ==
    ASSUME NEW job, NEW i \in Reached(job)
    PROVE  i \in Runs(job) \/ \E j \in Runs(job) : i \in Reached(<<j, 0>>)
<1> DEFINE S == Runs(job) \cup UNION {Reached(<<j, 0>>) : j \in Runs(job)}
<1>1. S \in SUBSET Items
  BY RunsShape, ReachedShape
<1>2. ASSUME NEW j \in S, NEW x \in Runs(<<j, 0>>) PROVE x \in S
  <2>1. CASE j \in Runs(job)
    BY <2>1, ReachedShape
  <2>2. CASE \E y \in Runs(job) : j \in Reached(<<y, 0>>)
    <3>1. PICK y \in Runs(job) : j \in Reached(<<y, 0>>)
      BY <2>2
    <3>2. x \in Reached(<<y, 0>>)
      BY <3>1, ReachedShape
    <3> QED BY <3>2
  <2> QED BY <2>1, <2>2
<1>3. Runs(job) \subseteq S
  OBVIOUS
<1> HIDE DEF S
<1>4. i \in S
  BY <1>1, <1>2, <1>3, ReachedShape
<1> QED BY <1>4 DEF S

\* The rules of a job.
LEMMA RuleType ==
    ASSUME rules \in RuleTables, NEW job \in AllRows \cup (Items \X {0})
    PROVE  /\ RuleOf(job) \in Rule
           /\ RuleOf(job).calls \in Seq(Call) /\ RuleOf(job).own \in BOOLEAN
           /\ RuleOf(job).ends \in {"absent", "throws", "either", "undefined", "number"}
           /\ job[1] \in Items
           /\ job[2] = 0 <=> job \notin AllRows
           /\ job[2] = 0 => /\ job = <<job[1], 0>> /\ ~RuleOf(job).own
                            /\ \A c \in Range(RuleOf(job).calls) :
                                  c[1] \in {"one", "update"} => c[3] # "companyName"
<1>1. job[1] \in Items /\ (job[2] = 0 <=> job \notin AllRows) /\ (job[2] = 0 => job = <<job[1], 0>>)
  BY DocumentShape
<1>2. /\ {rules[job[1]].fsi, rules[job[1]].consolidation} \subseteq Rule
      /\ ~rules[job[1]].consolidation.own
      /\ \A c \in Range(rules[job[1]].consolidation.calls) :
            c[1] \in {"one", "update"} => c[3] # "companyName"
  BY <1>1, DatasourceAssumption
<1>3. RuleOf(job) \in Rule
  BY <1>2 DEF RuleOf
<1>4. job[2] = 0 => RuleOf(job) = rules[job[1]].consolidation
  BY DEF RuleOf
<1> QED BY <1>1, <1>2, <1>3, <1>4 DEF Rule

-----------------------------------------------------------------------------
(* The scripts that are running.                                            *)

Job == AllRows \cup (Items \X {0})

\* What is left of a script is from its rule.
FrameOK(f) ==
    /\ HasRule(f.job)
    /\ \A k \in 1..Len(f.todo) : f.todo[k] \in Range(RuleOf(f.job).calls)

\* g is the consolidation that f waits for.
WaitsFor(f, g) ==
    /\ g.op = "call" /\ g.job[2] = 0
    /\ f.todo # <<>> /\ Head(f.todo)[1] = "consolidation"
    /\ g.job[1] \in Ruled(Head(f.todo)[2])

StackOK(s) ==
    /\ \A k \in 1..Len(s) : FrameOK(s[k]) /\ (s[k].op = "evaluate" <=> k = 1)
    /\ \A k \in 1..Len(s) - 1 : WaitsFor(s[k], s[k + 1])

\* Further up the stack is further down the calls.
Nested(s) ==
    \A a, b \in 1..Len(s) : a < b => s[b].job[1] \in Reached(s[a].job)

WalkInv ==
    /\ stack # <<>> => pos \in 1..Len(Jobs) /\ stack[1].job = Jobs[pos]
    /\ mode \in {"done", "failed"} => stack = <<>>
    /\ mode = "done" => pos > Len(Jobs)
    /\ mode = "crashed" => Circular

StackInv == TypeOK /\ StackOK(stack) /\ Nested(stack) /\ WalkInv

\* What the frame on top looks like.
LEMMA TopFrame ==
    ASSUME StackInv, stack # <<>>
    PROVE  /\ stack \in Seq(Frame) /\ Len(stack) \in Nat \ {0}
           /\ Len(stack) \in 1..Len(stack) /\ 1 \in 1..Len(stack)
           /\ \A k \in 1..Len(stack) : stack[k] \in Frame /\ stack[k].job \in Job
           /\ Top = stack[Len(stack)] /\ Top \in Frame /\ Top.job \in Job /\ FrameOK(Top)
           /\ Top.op = "evaluate" <=> Len(stack) = 1
           /\ Top.todo \in Seq(Call)
           /\ Top.todo # <<>> =>
                 /\ Head(Top.todo) \in Call /\ Head(Top.todo) \in Range(RuleOf(Top.job).calls)
                 /\ Head(Top.todo) = Top.todo[1] /\ 1 \in 1..Len(Top.todo)
<1>1. stack \in Seq(Frame)
  BY DEF StackInv, TypeOK
<1>2. Len(stack) \in Nat \ {0} /\ \A k \in 1..Len(stack) : stack[k] \in Frame
  BY <1>1, EmptySeq, ElementOfSeq
<1>3. Len(stack) \in 1..Len(stack) /\ 1 \in 1..Len(stack)
  BY <1>2
<1>4. Top = stack[Len(stack)] /\ Top \in Frame
  BY <1>2, <1>3 DEF Top
<1>5. FrameOK(Top) /\ (Top.op = "evaluate" <=> Len(stack) = 1)
  BY <1>3, <1>4 DEF StackInv, StackOK
<1>6. Top.todo \in Seq(Call)
  BY <1>4 DEF Frame
<1>7. \A k \in 1..Len(stack) : stack[k].job \in Job
  BY <1>2 DEF Frame, Job
<1>8. Top.todo # <<>> => /\ Head(Top.todo) \in Call /\ Head(Top.todo) = Top.todo[1]
                         /\ 1 \in 1..Len(Top.todo)
  BY <1>6, EmptySeq, HeadTailProperties
<1> QED BY <1>1, <1>2, <1>3, <1>4, <1>5, <1>6, <1>7, <1>8 DEF FrameOK

\* A frame that has an answer: it is the same script with one call less.
LEMMA AnsweredFrame ==
    ASSUME NEW f \in Frame, f.todo # <<>>, NEW good \in BOOLEAN
    PROVE  /\ Answered(f, good) \in Frame
           /\ Answered(f, good).op = f.op /\ Answered(f, good).job = f.job
           /\ Answered(f, good).todo = Tail(f.todo)
           /\ Answered(f, good).good <=> f.good /\ good
           /\ Len(f.todo) \in Nat /\ Len(Tail(f.todo)) = Len(f.todo) - 1
           /\ Head(f.todo) = f.todo[1]
           /\ \A k \in 1..Len(Tail(f.todo)) : k + 1 \in 1..Len(f.todo)
                                              /\ Tail(f.todo)[k] = f.todo[k + 1]
           /\ \A k \in 1..Len(f.todo) : k = 1 \/ (k - 1 \in 1..Len(Tail(f.todo))
                                                  /\ Tail(f.todo)[k - 1] = f.todo[k])
<1>1. f.todo \in Seq(Call) /\ f.good \in BOOLEAN
  BY DEF Frame
<1>2. /\ Tail(f.todo) \in Seq(Call) /\ Len(Tail(f.todo)) = Len(f.todo) - 1
      /\ Len(f.todo) \in Nat /\ Head(f.todo) = f.todo[1]
      /\ \A k \in 1..Len(Tail(f.todo)) : Tail(f.todo)[k] = f.todo[k + 1]
  BY <1>1, HeadTailProperties, LenProperties
<1>3. \A k \in 1..Len(Tail(f.todo)) : k + 1 \in 1..Len(f.todo)
  BY <1>2
<1>4. ASSUME NEW k \in 1..Len(f.todo), k # 1
      PROVE  k - 1 \in 1..Len(Tail(f.todo)) /\ Tail(f.todo)[k - 1] = f.todo[k]
  <2>1. k - 1 \in 1..Len(Tail(f.todo)) /\ (k - 1) + 1 = k
    BY <1>2, <1>4
  <2> QED BY <1>2, <2>1
<1>5. /\ Answered(f, good) \in Frame
      /\ Answered(f, good).op = f.op /\ Answered(f, good).job = f.job
      /\ Answered(f, good).todo = Tail(f.todo)
      /\ Answered(f, good).good <=> f.good /\ good
  <2>1. (f.good /\ good) \in BOOLEAN
    OBVIOUS
  <2> QED BY <1>2, <2>1 DEF Answered, Frame
<1> QED BY <1>2, <1>3, <1>4, <1>5

LEMMA AnsweredOK ==
    ASSUME NEW f \in Frame, f.todo # <<>>, NEW good \in BOOLEAN, FrameOK(f)
    PROVE  FrameOK(Answered(f, good))
<1> DEFINE a == Answered(f, good)
           calls == Range(RuleOf(f.job).calls)
<1>1. a.job = f.job /\ a.todo = Tail(f.todo)
  BY AnsweredFrame
<1>2. HasRule(f.job) /\ \A k \in 1..Len(f.todo) : f.todo[k] \in calls
  BY DEF FrameOK
<1>3. ASSUME NEW k \in 1..Len(Tail(f.todo)) PROVE Tail(f.todo)[k] \in calls
  <2>1. k + 1 \in 1..Len(f.todo) /\ Tail(f.todo)[k] = f.todo[k + 1]
    BY AnsweredFrame
  <2> QED BY <1>2, <2>1
<1>4. Range(RuleOf(a.job).calls) = calls
  BY <1>1
<1> HIDE DEF a, calls
<1> QED BY <1>1, <1>2, <1>3, <1>4 DEF FrameOK, a

\* A script starts with all the calls of its rule.
LEMMA EnterFrame ==
    ASSUME TypeOK, NEW job \in Job, HasRule(job), NEW op \in {"evaluate", "call"}
    PROVE  /\ Enter(op, job) \in Frame /\ FrameOK(Enter(op, job))
           /\ Enter(op, job).op = op /\ Enter(op, job).job = job
           /\ Enter(op, job).todo = RuleOf(job).calls
           /\ Enter(op, job).good <=> (RuleOf(job).own => row[job] = "given")
<1>1. RuleOf(job).calls \in Seq(Call) /\ RuleOf(job).own \in BOOLEAN
  BY RuleType DEF TypeOK, Job
<1>2. (RuleOf(job).own => row[job] = "given") \in BOOLEAN
  OBVIOUS
<1>3. /\ Enter(op, job) \in Frame
      /\ Enter(op, job).op = op /\ Enter(op, job).job = job
      /\ Enter(op, job).todo = RuleOf(job).calls
      /\ Enter(op, job).good <=> (RuleOf(job).own => row[job] = "given")
  BY <1>1, <1>2 DEF Enter, Frame, Job
<1>4. \A k \in 1..Len(RuleOf(job).calls) : RuleOf(job).calls[k] \in Range(RuleOf(job).calls)
  BY <1>1, LenProperties DEF Range
<1> QED BY <1>3, <1>4 DEF FrameOK

\* Replacing the frame on top.
LEMMA ReplaceShape ==
    ASSUME stack \in Seq(Frame), stack # <<>>, NEW f \in Frame
    PROVE  /\ Replace(f) \in Seq(Frame) /\ Len(Replace(f)) = Len(stack)
           /\ \A k \in 1..Len(stack) :
                 Replace(f)[k] = IF k = Len(stack) THEN f ELSE stack[k]
<1>1. Len(stack) \in 1..Len(stack)
  BY EmptySeq
<1> QED BY <1>1, ExceptSeq DEF Replace

\* Returning to the script below.
LEMMA ReturnShape ==
    ASSUME NEW s \in Seq(Frame), Len(s) >= 2, NEW f \in Frame,
           NEW t, t = SubSeq(s, 1, Len(s) - 2) \o <<f>>
    PROVE  /\ t \in Seq(Frame) /\ Len(t) = Len(s) - 1
           /\ \A k \in 1..Len(t) : t[k] = IF k = Len(t) THEN f ELSE s[k]
<1> DEFINE u == SubSeq(s, 1, Len(s) - 2)
<1>1. Len(s) \in Nat
  BY LenProperties
<1>2. u \in Seq(Frame) /\ Len(u) = Len(s) - 2 /\ \A k \in 1..Len(s) - 2 : u[k] = s[k]
  <2> DEFINE n == Len(s) - 2
  <2>1. n \in Int /\ n >= 0 /\ \A k \in 1..n : s[k] \in Frame
    BY <1>1, ElementOfSeq
  <2> HIDE DEF n
  <2>2. /\ SubSeq(s, 1, n) \in Seq(Frame)
        /\ Len(SubSeq(s, 1, n)) = IF 1 <= n THEN n - 1 + 1 ELSE 0
        /\ \A k \in 1..n - 1 + 1 : SubSeq(s, 1, n)[k] = s[1 + k - 1]
    BY <2>1, SubSeqProperties
  <2>3. Len(SubSeq(s, 1, n)) = n /\ \A k \in 1..n : SubSeq(s, 1, n)[k] = s[k]
    BY <2>1, <2>2
  <2> QED BY <2>2, <2>3 DEF n
<1> HIDE DEF u
<1>3. /\ <<f>> \in Seq(Frame) /\ Len(<<f>>) = 1 /\ <<f>>[1] = f
  OBVIOUS
<1>4. /\ t \in Seq(Frame) /\ Len(t) = Len(u) + 1
      /\ \A k \in 1..Len(u) + 1 : t[k] = IF k <= Len(u) THEN u[k] ELSE <<f>>[k - Len(u)]
  BY <1>2, <1>3, ConcatProperties DEF u
<1> QED BY <1>1, <1>2, <1>3, <1>4

-----------------------------------------------------------------------------
(* The rules are fixed, and with them what they run.                        *)

LEMMA RulesStay ==
    ASSUME rules' = rules
    PROVE  /\ \A job : RuleOf(job)' = RuleOf(job)
           /\ \A job : HasRule(job)' <=> HasRule(job)
           /\ \A job : ReturnsNumber(job)' <=> ReturnsNumber(job)
           /\ \A c : Ruled(c)' = Ruled(c)
           /\ \A job : Runs(job)' = Runs(job)
           /\ \A job : Reached(job)' = Reached(job)
           /\ Circular' <=> Circular
<1>1. \A job : RuleOf(job)' = RuleOf(job)
  BY DEF RuleOf
<1>2. \A job : HasRule(job)' <=> HasRule(job)
  BY <1>1 DEF HasRule
<1>a. \A job : ReturnsNumber(job)' <=> ReturnsNumber(job)
  BY <1>1 DEF ReturnsNumber
<1>3. \A c : Ruled(c)' = Ruled(c)
  BY <1>2 DEF Ruled
<1>4. \A job : Runs(job)' = Runs(job)
  BY <1>1, <1>3 DEF Runs
<1>5. \A job : Reached(job)' = Reached(job)
  BY <1>4 DEF Reached
<1>6. Circular' <=> Circular
  BY <1>2, <1>5 DEF Circular
<1> QED BY <1>1, <1>2, <1>3, <1>4, <1>5, <1>6, <1>a

\* A stack that is well formed is so with the rules of the next state.
LEMMA StackStays ==
    ASSUME rules' = rules, NEW s, stack' = s, StackOK(s), Nested(s)
    PROVE  StackOK(stack)' /\ Nested(stack)'
<1>1. StackOK(stack)'
  <2>1. \A k \in 1..Len(s) : FrameOK(s[k]) /\ (s[k].op = "evaluate" <=> k = 1)
    BY DEF StackOK
  <2>2. \A k \in 1..Len(s) - 1 : WaitsFor(s[k], s[k + 1])
    BY DEF StackOK
  <2>3. \A f : FrameOK(f)' <=> FrameOK(f)
    BY RulesStay DEF FrameOK
  <2>4. \A f, g : WaitsFor(f, g)' <=> WaitsFor(f, g)
    BY RulesStay DEF WaitsFor
  <2> QED BY <2>1, <2>2, <2>3, <2>4 DEF StackOK
<1>2. Nested(stack)'
  BY RulesStay DEF Nested
<1> QED BY <1>1, <1>2

-----------------------------------------------------------------------------
(* What a step makes of the stack.                                          *)

\* A call that is answered at once.
LEMMA AnswerKeeps ==
    ASSUME StackInv, stack # <<>>, Top.todo # <<>>, NEW good \in BOOLEAN,
           NEW s, s = Replace(Answered(Top, good))
    PROVE  /\ s \in Seq(Frame) /\ Len(s) = Len(stack) /\ s # <<>>
           /\ \A k \in 1..Len(s) : s[k] = IF k = Len(s) THEN Answered(Top, good) ELSE stack[k]
           /\ \A k \in 1..Len(s) : s[k].job = stack[k].job
           /\ StackOK(s) /\ Nested(s)
<1> DEFINE a == Answered(Top, good)
<1>1. /\ stack \in Seq(Frame) /\ Len(stack) \in Nat \ {0} /\ Len(stack) \in 1..Len(stack)
      /\ Top = stack[Len(stack)] /\ Top \in Frame /\ FrameOK(Top)
  BY TopFrame
<1>2. a \in Frame /\ a.op = Top.op /\ a.job = Top.job /\ FrameOK(a)
  BY <1>1, AnsweredFrame, AnsweredOK
<1> HIDE DEF a
<1>3. /\ s \in Seq(Frame) /\ Len(s) = Len(stack) /\ s # <<>>
      /\ \A k \in 1..Len(s) : s[k] = IF k = Len(s) THEN a ELSE stack[k]
  BY <1>1, <1>2, ReplaceShape DEF a
<1>4. \A k \in 1..Len(s) : s[k].job = stack[k].job /\ s[k].op = stack[k].op
  BY <1>1, <1>2, <1>3
<1>5. StackOK(stack) /\ Nested(stack)
  BY DEF StackInv
<1>6. StackOK(s)
  <2>1. \A k \in 1..Len(s) : FrameOK(s[k])
    BY <1>2, <1>3, <1>5 DEF StackOK
  <2>2. \A k \in 1..Len(s) : s[k].op = "evaluate" <=> k = 1
    BY <1>3, <1>4, <1>5 DEF StackOK
  <2>3. ASSUME NEW k \in 1..Len(s) - 1 PROVE WaitsFor(s[k], s[k + 1])
    <3>1. k \in 1..Len(s) /\ k + 1 \in 1..Len(s) /\ k # Len(s)
      BY <1>1, <1>3
    <3>2. WaitsFor(stack[k], stack[k + 1]) /\ s[k] = stack[k]
      BY <1>3, <1>5, <2>3, <3>1 DEF StackOK
    <3>3. s[k + 1].job = stack[k + 1].job /\ s[k + 1].op = stack[k + 1].op
      BY <1>4, <3>1
    <3> QED BY <3>2, <3>3 DEF WaitsFor
  <2> QED BY <2>1, <2>2, <2>3 DEF StackOK
<1>7. Nested(s)
  BY <1>3, <1>4, <1>5 DEF Nested
<1> QED BY <1>3, <1>4, <1>6, <1>7 DEF a

\* A consolidation that returns answers the script below.
LEMMA ReturnKeeps ==
    ASSUME StackInv, Returning("call"), NEW good \in BOOLEAN,
           NEW s, s = SubSeq(stack, 1, Len(stack) - 2)
                      \o <<Answered(stack[Len(stack) - 1], good)>>
    PROVE  /\ Len(stack) >= 2 /\ Len(stack) - 1 \in 1..Len(stack)
           /\ stack[Len(stack) - 1] \in Frame /\ WaitsFor(stack[Len(stack) - 1], Top)
           /\ stack[Len(stack) - 1].todo # <<>>
           /\ s \in Seq(Frame) /\ Len(s) = Len(stack) - 1 /\ s # <<>>
           /\ \A k \in 1..Len(s) :
                 s[k] = IF k = Len(s) THEN Answered(stack[k], good) ELSE stack[k]
           /\ \A k \in 1..Len(s) : s[k].job = stack[k].job
           /\ StackOK(s) /\ Nested(s)
<1> DEFINE n == Len(stack) - 1
           f == stack[n]
           a == Answered(f, good)
<1>1. stack # <<>> /\ Top.op = "call"
  BY DEF Returning
<1>2. /\ stack \in Seq(Frame) /\ Len(stack) \in Nat \ {0} /\ Top = stack[Len(stack)]
      /\ \A k \in 1..Len(stack) : stack[k] \in Frame
      /\ Len(stack) # 1
  BY <1>1, TopFrame
<1>3. n \in 1..Len(stack) /\ n \in 1..Len(stack) - 1 /\ n + 1 = Len(stack) /\ Len(stack) >= 2
  BY <1>2
<1>4. StackOK(stack) /\ Nested(stack)
  BY DEF StackInv
<1>5. f \in Frame /\ FrameOK(f) /\ WaitsFor(f, Top) /\ f.todo # <<>>
  <2>1. f \in Frame /\ FrameOK(f)
    BY <1>2, <1>3, <1>4 DEF StackOK
  <2>2. WaitsFor(f, stack[n + 1])
    BY <1>3, <1>4 DEF StackOK
  <2> QED BY <1>2, <1>3, <2>1, <2>2 DEF WaitsFor
<1>6. a \in Frame /\ a.op = f.op /\ a.job = f.job /\ FrameOK(a)
  BY <1>5, AnsweredFrame, AnsweredOK
<1> HIDE DEF a, f, n
<1>7. /\ s \in Seq(Frame) /\ Len(s) = Len(stack) - 1 /\ s # <<>>
      /\ \A k \in 1..Len(s) : s[k] = IF k = Len(s) THEN a ELSE stack[k]
  <2>1. s = SubSeq(stack, 1, Len(stack) - 2) \o <<a>>
    BY DEF a, f, n
  <2>2. /\ s \in Seq(Frame) /\ Len(s) = Len(stack) - 1
        /\ \A k \in 1..Len(s) : s[k] = IF k = Len(s) THEN a ELSE stack[k]
    BY <1>2, <1>3, <1>6, <2>1, ReturnShape
  <2>3. s # <<>>
    BY <1>2, <1>3, <2>2
  <2> QED BY <2>2, <2>3
<1>8. \A k \in 1..Len(s) : s[k].job = stack[k].job /\ s[k].op = stack[k].op
  BY <1>2, <1>6, <1>7 DEF f, n
<1>9. \A k \in 1..Len(s) : k \in 1..Len(stack)
  BY <1>2, <1>7
<1>10. StackOK(s)
  <2>1. \A k \in 1..Len(s) : FrameOK(s[k])
    BY <1>6, <1>7, <1>4, <1>9 DEF StackOK
  <2>2. \A k \in 1..Len(s) : s[k].op = "evaluate" <=> k = 1
    BY <1>7, <1>8, <1>4, <1>9 DEF StackOK
  <2>3. ASSUME NEW k \in 1..Len(s) - 1 PROVE WaitsFor(s[k], s[k + 1])
    <3>1. /\ k \in 1..Len(s) /\ k + 1 \in 1..Len(s) /\ k # Len(s)
          /\ k \in 1..Len(stack) - 1
      BY <1>2, <1>7
    <3>2. WaitsFor(stack[k], stack[k + 1]) /\ s[k] = stack[k]
      BY <1>7, <1>4, <3>1 DEF StackOK
    <3>3. s[k + 1].job = stack[k + 1].job /\ s[k + 1].op = stack[k + 1].op
      BY <1>8, <3>1
    <3> QED BY <3>2, <3>3 DEF WaitsFor
  <2> QED BY <2>1, <2>2, <2>3 DEF StackOK
<1>11. Nested(s)
  BY <1>4, <1>8, <1>9 DEF Nested
<1>12. \A k \in 1..Len(s) : s[k] = IF k = Len(s) THEN Answered(stack[k], good) ELSE stack[k]
  BY <1>7 DEF a, f, n
<1> QED BY <1>3, <1>5, <1>7, <1>8, <1>10, <1>11, <1>12 DEF f, n

\* What a script calls is among what its rule runs.
LEMMA WantedIsRun ==
    ASSUME StackInv, Calling({"consolidation"}), NEW i \in Ruled(Wanted)
    PROVE  /\ stack # <<>> /\ Top.todo # <<>> /\ Head(Top.todo)[1] = "consolidation"
           /\ i \in Items /\ HasRule(<<i, 0>>) /\ <<i, 0>> \in Job
           /\ i \in Runs(Top.job)
           /\ \A k \in 1..Len(stack) : i \in Reached(stack[k].job)
<1>1. stack # <<>> /\ Top.todo # <<>> /\ Head(Top.todo)[1] = "consolidation"
  BY DEF Calling
<1>2. i \in Items /\ HasRule(<<i, 0>>) /\ <<i, 0>> \in Job
  BY RuledShape DEF Job
<1>3. Head(Top.todo) \in Range(RuleOf(Top.job).calls)
  BY <1>1, TopFrame
<1>4. i \in Runs(Top.job)
  BY <1>1, <1>3 DEF Runs, Wanted
<1>5. ASSUME NEW k \in 1..Len(stack) PROVE i \in Reached(stack[k].job)
  <2>1. Len(stack) \in Nat /\ Len(stack) \in 1..Len(stack) /\ Top = stack[Len(stack)] /\ Top.job \in Job
    BY <1>1, TopFrame
  <2>2. CASE k = Len(stack)
    BY <1>4, <2>1, <2>2, ReachedShape
  <2>3. CASE k # Len(stack)
    <3>1. Top.job[1] \in Reached(stack[k].job)
      <4>1. k < Len(stack)
        BY <2>1, <2>3
      <4> QED BY <2>1, <4>1 DEF StackInv, Nested
    <3>2. Top.job = <<Top.job[1], 0>>
      <4>1. Top.op = "call" /\ Top.job[2] = 0
        <5>1. Len(stack) - 1 \in 1..Len(stack) - 1 /\ (Len(stack) - 1) + 1 = Len(stack)
          BY <2>1, <2>3
        <5>2. WaitsFor(stack[Len(stack) - 1], stack[(Len(stack) - 1) + 1])
          BY <5>1 DEF StackInv, StackOK
        <5> QED BY <2>1, <5>1, <5>2 DEF WaitsFor
      <4> QED BY <2>1, <4>1, DocumentShape DEF Job
    <3>3. i \in Runs(<<Top.job[1], 0>>)
      BY <1>4, <3>2
    <3> QED BY <3>1, <3>3, ReachedShape
  <2> QED BY <2>2, <2>3
<1> QED BY <1>1, <1>2, <1>4, <1>5

\* One script more.
LEMMA CallKeeps ==
    ASSUME StackInv, Calling({"consolidation"}), NEW i \in Ruled(Wanted),
           NEW s, s = Append(stack, Enter("call", <<i, 0>>))
    PROVE  /\ s \in Seq(Frame) /\ Len(s) = Len(stack) + 1 /\ s # <<>>
           /\ \A k \in 1..Len(s) :
                 s[k] = IF k = Len(s) THEN Enter("call", <<i, 0>>) ELSE stack[k]
           /\ StackOK(s) /\ Nested(s)
<1> DEFINE e == Enter("call", <<i, 0>>)
<1>1. /\ stack # <<>> /\ Top.todo # <<>> /\ Head(Top.todo)[1] = "consolidation"
      /\ i \in Items /\ HasRule(<<i, 0>>) /\ <<i, 0>> \in Job
      /\ \A k \in 1..Len(stack) : i \in Reached(stack[k].job)
  BY WantedIsRun
<1>2. e \in Frame /\ FrameOK(e) /\ e.op = "call" /\ e.job = <<i, 0>>
  BY <1>1, EnterFrame DEF StackInv
<1>3. stack \in Seq(Frame) /\ Len(stack) \in Nat \ {0} /\ Top = stack[Len(stack)]
  BY <1>1, TopFrame
<1> HIDE DEF e
<1>4. /\ s \in Seq(Frame) /\ Len(s) = Len(stack) + 1 /\ s # <<>>
      /\ \A k \in 1..Len(s) : s[k] = IF k = Len(s) THEN e ELSE stack[k]
  <2>1. s = Append(stack, e)
    BY DEF e
  <2>2. /\ s \in Seq(Frame) /\ Len(s) = Len(stack) + 1 /\ s[Len(stack) + 1] = e
        /\ \A k \in 1..Len(stack) : s[k] = stack[k]
    BY <1>2, <1>3, <2>1, AppendProperties
  <2>3. s # <<>>
    BY <1>3, <2>2
  <2>4. \A k \in 1..Len(s) : k # Len(s) => k \in 1..Len(stack)
    BY <1>3, <2>2
  <2>5. \A k \in 1..Len(s) : s[k] = IF k = Len(s) THEN e ELSE stack[k]
    BY <2>2, <2>4
  <2> QED BY <2>2, <2>3, <2>5
<1>5. StackOK(stack) /\ Nested(stack)
  BY DEF StackInv
<1>6. StackOK(s)
  <2>1. ASSUME NEW k \in 1..Len(s) PROVE FrameOK(s[k]) /\ (s[k].op = "evaluate" <=> k = 1)
    <3>1. CASE k = Len(s)
      <4>1. s[k] = e /\ k # 1
        BY <1>3, <1>4, <3>1
      <4>2. s[k].op = "call"
        BY <1>2, <4>1
      <4> QED BY <1>2, <4>1, <4>2
    <3>2. CASE k # Len(s)
      <4>1. k \in 1..Len(stack) /\ s[k] = stack[k]
        BY <1>3, <1>4, <3>2
      <4> QED BY <1>5, <4>1 DEF StackOK
    <3> QED BY <3>1, <3>2
  <2>2. ASSUME NEW k \in 1..Len(s) - 1 PROVE WaitsFor(s[k], s[k + 1])
    <3>1. k \in 1..Len(s) /\ k + 1 \in 1..Len(s) /\ k # Len(s) /\ k \in 1..Len(stack)
      BY <1>3, <1>4
    <3>2. CASE k = Len(stack)
      <4>1. s[k] = Top /\ s[k + 1] = e
        BY <1>3, <1>4, <3>1, <3>2
      <4>2. WaitsFor(Top, e)
        BY <1>1, <1>2 DEF WaitsFor, Wanted
      <4> QED BY <4>1, <4>2
    <3>3. CASE k # Len(stack)
      <4>1. s[k] = stack[k] /\ s[k + 1] = stack[k + 1] /\ k \in 1..Len(stack) - 1
        BY <1>3, <1>4, <3>1, <3>3
      <4> QED BY <1>5, <4>1 DEF StackOK
    <3> QED BY <3>2, <3>3
  <2> QED BY <2>1, <2>2 DEF StackOK
<1>7. Nested(s)
  <2> SUFFICES ASSUME NEW a \in 1..Len(s), NEW b \in 1..Len(s), a < b
               PROVE  s[b].job[1] \in Reached(s[a].job)
    BY DEF Nested
  <2>1. a \in 1..Len(stack) /\ s[a] = stack[a]
    BY <1>3, <1>4
  <2>2. CASE b = Len(s)
    <3>1. s[b] = e
      BY <1>4, <2>2
    <3>2. s[b].job[1] = i
      BY <1>2, <3>1
    <3> QED BY <1>1, <2>1, <3>2
  <2>3. CASE b # Len(s)
    <3>1. b \in 1..Len(stack) /\ s[b] = stack[b]
      BY <1>3, <1>4, <2>3
    <3> QED BY <1>5, <2>1, <3>1 DEF Nested
  <2> QED BY <2>2, <2>3
<1> QED BY <1>4, <1>6, <1>7 DEF e

\* Without a circle the stack is not exhausted: of the frames and the call
\* that no longer fits, two are of the same item.
LEMMA NoRoomMeansCircle ==
    ASSUME StackInv, Calling({"consolidation"}), NEW i \in Ruled(Wanted),
           ~ Len(stack) < StackLimit
    PROVE  Circular
<1> DEFINE L == Len(stack)
           item(k) == IF k = L THEN i ELSE stack[k + 1].job[1]
           f == [k \in 1..L |-> item(k)]
<1>1. /\ stack # <<>> /\ i \in Items
      /\ \A k \in 1..Len(stack) : i \in Reached(stack[k].job)
  BY WantedIsRun
<1>2. /\ L \in Nat \ {0} /\ 1 \in 1..L /\ \A k \in 1..L : stack[k].job \in Job
      /\ stack[1].job = Jobs[pos] /\ pos \in 1..Len(Jobs)
      /\ HasRule(stack[1].job)
  BY <1>1, TopFrame DEF StackInv, WalkInv, StackOK, FrameOK
<1>3. StackLimit \in Nat /\ StackLimit > Len(CodeOf) /\ L > Len(CodeOf)
  BY <1>2, DatasourceAssumption, DocumentShape
<1>4. IsFiniteSet(1..L) /\ Cardinality(1..L) = L
  <2> HIDE DEF L
  <2> QED BY <1>2, IntervalSize
<1>5. f \in [1..L -> Items]
  <2>1. ASSUME NEW k \in 1..L, k # L PROVE stack[k + 1].job[1] \in Items
    <3>1. k + 1 \in 1..L
      BY <1>2, <2>1
    <3>2. stack[k + 1].job \in Job
      BY <1>2, <3>1
    <3> QED BY <3>2, DocumentShape DEF Job
  <2> QED BY <1>1, <2>1
<1>6. PICK x, y \in 1..L : x < y /\ f[x] = f[y]
  <2> HIDE DEF f, L
  <2>1. IsFiniteSet(Items) /\ Cardinality(Items) < Cardinality(1..L)
    BY <1>2, <1>3, <1>4, DocumentShape
  <2>2. \E x, y \in 1..L : x # y /\ f[x] = f[y]
    BY <1>4, <1>5, <2>1, FS_PigeonHole
  <2> QED BY <1>2, <2>2
<1>7. x # L /\ x + 1 \in 1..L /\ f[x] = stack[x + 1].job[1]
  BY <1>2, <1>6
<1> DEFINE j == stack[x + 1].job[1]
<1>8. j \in Reached(stack[x + 1].job)
  <2>1. CASE y = L
    BY <1>1, <1>6, <1>7, <2>1
  <2>2. CASE y # L
    <3>1. y + 1 \in 1..L /\ x + 1 < y + 1 /\ f[y] = stack[y + 1].job[1]
      BY <1>2, <1>6, <2>2
    <3>2. stack[y + 1].job[1] \in Reached(stack[x + 1].job)
      BY <1>7, <3>1 DEF StackInv, Nested
    <3> QED BY <1>6, <1>7, <3>1, <3>2
  <2> QED BY <2>1, <2>2
<1>9. stack[x + 1].job = <<j, 0>>
  <2>1. x \in 1..Len(stack) - 1
    BY <1>2, <1>7
  <2>2. WaitsFor(stack[x], stack[x + 1])
    BY <2>1 DEF StackInv, StackOK
  <2>3. stack[x + 1].job \in Job /\ stack[x + 1].job[2] = 0
    BY <1>2, <1>7, <2>2 DEF WaitsFor
  <2> QED BY <2>3, DocumentShape DEF Job
<1>10. j \in Reached(Jobs[pos])
  <2>1. 1 < x + 1
    BY <1>2, <1>6
  <2> QED BY <1>2, <1>7, <2>1 DEF StackInv, Nested
<1>11. pos \in DOMAIN Jobs
  BY <1>2, JobsShape
<1> HIDE DEF j
<1> QED BY <1>2, <1>8, <1>9, <1>10, <1>11 DEF Circular

-----------------------------------------------------------------------------
(* Every step keeps the stack in order.                                     *)

LEMMA StackInit == Init => StackInv
<1> SUFFICES ASSUME Init PROVE StackInv
  OBVIOUS
<1>1. TypeOK
  <2>1. rules \in RuleTables /\ eligible \subseteq AllRows
    BY DEF Init
  <2>2. row \in [AllRows -> {"given", "early", "settled"}]
    BY DEF Init
  <2>3. /\ consolidated \in [Items -> {"none", "early", "right"}]
        /\ inputs \in [Names -> Job \cup {Nobody}]
    BY DEF Init
  <2>4. stack \in Seq(Frame) /\ Len(stack) <= StackLimit
    BY DatasourceAssumption DEF Init
  <2>5. pos \in 1..Len(Jobs) + 1
    BY JobsShape DEF Init
  <2>6. mode \in {"running", "done", "failed", "crashed"} /\ evaluations \in 1..MaxEvaluations
    BY DatasourceAssumption DEF Init
  <2> QED BY <2>1, <2>2, <2>3, <2>4, <2>5, <2>6 DEF TypeOK, Job
<1>2. stack = <<>> /\ Len(stack) = 0 /\ mode = "running"
  BY DEF Init
<1> QED BY <1>1, <1>2 DEF StackInv, StackOK, Nested, WalkInv

\* A step that changes the stack, and of the rest at most the inputs.
LEMMA StackMoves ==
    ASSUME StackInv, document' = document, NEW s \in Seq(Frame), stack' = s, s # <<>>,
           stack # <<>>, s[1].job = stack[1].job, Len(s) <= StackLimit,
           StackOK(s), Nested(s), mode = "running",
           inputs' \in [Names -> Job \cup {Nobody}],
           UNCHANGED <<pos, mode, evaluations>>
    PROVE  StackInv'
<1>1. /\ rules' = rules /\ row' = row /\ eligible' = eligible /\ consolidated' = consolidated
      /\ pos' = pos /\ mode' = mode /\ evaluations' = evaluations
  BY DEF document
<1>2. TypeOK'
  BY <1>1 DEF StackInv, TypeOK, Job
<1>3. StackOK(stack)' /\ Nested(stack)'
  BY <1>1, StackStays
<1>4. WalkInv'
  BY <1>1 DEF StackInv, WalkInv
<1> QED BY <1>2, <1>3, <1>4 DEF StackInv

\* The script that runs is ended, or the rest of evaluate goes on.
LEMMA StackEnds ==
    ASSUME StackInv, rules' = rules, stack' = <<>>, TypeOK',
           mode' = "done" => pos' > Len(Jobs), mode' # "crashed"
    PROVE  StackInv'
<1>1. StackOK(stack)' /\ Nested(stack)'
  <2>1. Len(<<>>) = 0 /\ <<>> \in Seq(Frame)
    OBVIOUS
  <2>2. StackOK(<<>>) /\ Nested(<<>>)
    BY <2>1 DEF StackOK, Nested
  <2> QED BY <2>2, StackStays
<1>2. WalkInv'
  BY DEF WalkInv
<1> QED BY <1>1, <1>2 DEF StackInv

LEMMA StackStep ==
    ASSUME StackInv, [Next]_vars
    PROVE  StackInv'
<1>0. TypeOK /\ WalkInv
  BY DEF StackInv
<1>1. ASSUME NEW good \in BOOLEAN, stack # <<>>, Top.todo # <<>>, mode = "running",
             stack' = Replace(Answered(Top, good)), document' = document,
             inputs' \in [Names -> Job \cup {Nobody}], UNCHANGED <<pos, mode, evaluations>>
      PROVE  StackInv'
  <2> DEFINE s == Replace(Answered(Top, good))
  <2>1. stack' = s
    BY <1>1
  <2> HIDE DEF s
  <2>2. /\ s \in Seq(Frame) /\ Len(s) = Len(stack) /\ s # <<>> /\ StackOK(s) /\ Nested(s)
        /\ \A k \in 1..Len(s) : s[k].job = stack[k].job
    BY <1>1, AnswerKeeps DEF s
  <2>3. Len(s) <= StackLimit /\ s[1].job = stack[1].job
    BY <1>0, <1>1, <2>2, TopFrame DEF TypeOK
  <2> QED BY <1>1, <2>1, <2>2, <2>3, StackMoves
<1>2. inputs \in [Names -> Job \cup {Nobody}]
  BY <1>0 DEF TypeOK, Job
<1>3. CASE ReadRows
  <2>1. (\A x \in Read(Head(Top.todo), Top.job) : row[x] = "settled") \in BOOLEAN
    OBVIOUS
  <2>2. /\ stack # <<>> /\ Top.todo # <<>> /\ mode = "running"
        /\ stack' = Replace(Answered(Top, \A x \in Read(Head(Top.todo), Top.job) : row[x] = "settled"))
        /\ document' = document /\ inputs' = inputs /\ UNCHANGED <<pos, mode, evaluations>>
    BY <1>3 DEF ReadRows, Calling
  <2> QED BY <1>1, <1>2, <2>1, <2>2
<1>4. CASE UpdateInput
  <2>1. /\ stack # <<>> /\ Top.todo # <<>> /\ mode = "running" /\ Head(Top.todo)[1] = "update"
        /\ stack' = Replace(Answered(Top, TRUE))
        /\ inputs' = [inputs EXCEPT ![NameIn(Head(Top.todo), Top.job)] = Top.job]
        /\ document' = document /\ UNCHANGED <<pos, mode, evaluations>>
    BY <1>4 DEF UpdateInput, Calling
  <2>2. Top.job \in Job
    BY <2>1, TopFrame
  <2>3. inputs' \in [Names -> Job \cup {Nobody}]
    BY <1>2, <2>1, <2>2
  <2> QED BY <1>1, <2>1, <2>3
<1>5. CASE ConsolidateNothing
  BY <1>1, <1>2, <1>5 DEF ConsolidateNothing, Calling
<1>6. CASE Consolidate
  <2>1. /\ Calling({"consolidation"}) /\ stack # <<>> /\ mode = "running"
        /\ document' = document /\ inputs' = inputs /\ pos' = pos /\ evaluations' = evaluations
    BY <1>6 DEF Consolidate, Calling
  <2>2. PICK i \in Ruled(Wanted) : RunBelow(i)
    BY <1>6 DEF Consolidate
  <2>3. CASE Len(stack) < StackLimit
    <3> DEFINE s == Append(stack, Enter("call", <<i, 0>>))
    <3>1. stack' = s /\ mode' = mode
      BY <2>2, <2>3 DEF RunBelow
    <3> HIDE DEF s
    <3>2. /\ s \in Seq(Frame) /\ Len(s) = Len(stack) + 1 /\ s # <<>> /\ StackOK(s) /\ Nested(s)
          /\ \A k \in 1..Len(s) : s[k] = IF k = Len(s) THEN Enter("call", <<i, 0>>) ELSE stack[k]
      BY <2>1, CallKeeps DEF s
    <3>3. Len(s) <= StackLimit /\ s[1].job = stack[1].job
      <4>1. Len(stack) \in Nat \ {0} /\ StackLimit \in Nat
        BY <2>1, TopFrame, DatasourceAssumption
      <4>2. 1 \in 1..Len(s) /\ 1 # Len(s)
        BY <3>2, <4>1
      <4> QED BY <2>3, <3>2, <4>1, <4>2
    <3> QED BY <1>2, <2>1, <3>1, <3>2, <3>3, StackMoves
  <2>4. CASE ~ Len(stack) < StackLimit
    <3>1. stack' = stack /\ mode' = "crashed"
      BY <2>2, <2>4 DEF RunBelow
    <3>2. rules' = rules
      BY <2>1 DEF document
    <3>3. Circular'
      BY <2>1, <2>4, <3>2, NoRoomMeansCircle, RulesStay
    <3>4. TypeOK'
      BY <1>0, <2>1, <3>1 DEF TypeOK, document
    <3>5. StackOK(stack)' /\ Nested(stack)'
      BY <1>0, <3>1, <3>2, StackStays DEF StackInv
    <3>6. WalkInv'
      BY <1>0, <2>1, <3>1, <3>3 DEF WalkInv
    <3> QED BY <3>4, <3>5, <3>6 DEF StackInv
  <2> QED BY <2>3, <2>4
<1>7. CASE Return
  <2>1. /\ Returning("call") /\ stack # <<>> /\ mode = "running"
        /\ document' = document /\ inputs' = inputs /\ UNCHANGED <<pos, mode, evaluations>>
        /\ stack' = SubSeq(stack, 1, Len(stack) - 2)
                    \o <<Answered(stack[Len(stack) - 1], IsRight(Top))>>
    BY <1>7 DEF Return, Returning
  <2> DEFINE good == IsRight(Top)
             s == SubSeq(stack, 1, Len(stack) - 2) \o <<Answered(stack[Len(stack) - 1], good)>>
  <2>2. good \in BOOLEAN
    BY <2>1, TopFrame DEF IsRight, Frame
  <2>3. stack' = s
    BY <2>1
  <2> HIDE DEF good
  <2>4. s = SubSeq(stack, 1, Len(stack) - 2) \o <<Answered(stack[Len(stack) - 1], good)>>
    OBVIOUS
  <2> HIDE DEF s
  <2>5. /\ s \in Seq(Frame) /\ Len(s) = Len(stack) - 1 /\ s # <<>> /\ StackOK(s) /\ Nested(s)
        /\ \A k \in 1..Len(s) : s[k].job = stack[k].job
        /\ Len(stack) >= 2
    BY <2>1, <2>2, <2>4, ReturnKeeps
  <2>6. Len(s) <= StackLimit /\ s[1].job = stack[1].job
    BY <1>0, <2>1, <2>5, TopFrame, DatasourceAssumption DEF TypeOK
  <2> QED BY <1>2, <2>1, <2>3, <2>5, <2>6, StackMoves
<1>8. CASE SkipRule
  <2>1. /\ stack' = stack /\ stack = <<>> /\ mode' = mode /\ mode = "running" /\ pos' = pos + 1
        /\ pos <= Len(Jobs) /\ document' = document /\ inputs' = inputs /\ evaluations' = evaluations
    BY <1>8 DEF SkipRule, AtJob
  <2>2. TypeOK'
    BY <1>0, <2>1, JobsShape DEF TypeOK, document
  <2> QED BY <2>1, <2>2, StackEnds DEF document
<1>9. CASE RunRule
  <2>1. /\ stack = <<>> /\ mode' = mode /\ mode = "running" /\ pos' = pos /\ HasRule(Jobs[pos])
        /\ pos <= Len(Jobs) /\ document' = document /\ inputs' = inputs /\ evaluations' = evaluations
        /\ stack' = <<Enter("evaluate", Jobs[pos])>>
    BY <1>9 DEF RunRule, AtJob
  <2> DEFINE e == Enter("evaluate", Jobs[pos])
             s == <<e>>
  <2>2. pos \in 1..Len(Jobs) /\ Jobs[pos] \in Job
    BY <1>0, <2>1, JobsShape DEF TypeOK, Job
  <2>3. e \in Frame /\ FrameOK(e) /\ e.op = "evaluate" /\ e.job = Jobs[pos]
    BY <1>0, <2>1, <2>2, EnterFrame
  <2>4. stack' = <<e>>
    BY <2>1
  <2> HIDE DEF e
  <2>5. s \in Seq(Frame) /\ Len(s) = 1 /\ s[1] = e /\ s # <<>>
    BY <2>3
  <2> HIDE DEF s
  <2>6. stack' = s /\ rules' = rules
    BY <2>1, <2>4 DEF s, document
  <2>7. StackOK(s) /\ Nested(s)
    <3>1. \A k \in 1..Len(s) : k = 1
      BY <2>5
    <3> QED BY <2>3, <2>5, <3>1 DEF StackOK, Nested
  <2>8. StackOK(stack)' /\ Nested(stack)'
    BY <2>6, <2>7, StackStays
  <2>9. TypeOK'
    BY <1>0, <2>1, <2>5, <2>6, DatasourceAssumption DEF TypeOK, document
  <2>10. WalkInv'
    BY <2>1, <2>2, <2>3, <2>5, <2>6 DEF WalkInv
  <2> QED BY <2>8, <2>9, <2>10 DEF StackInv
<1>10. ASSUME Returning("evaluate")
       PROVE  pos \in 1..Len(Jobs) /\ Top.job = Jobs[pos] /\ Top.job \in Job /\ Len(stack) = 1
  <2>1. stack # <<>> /\ Top.op = "evaluate"
    BY <1>10 DEF Returning
  <2> QED BY <1>0, <2>1, TopFrame DEF WalkInv
<1>11. CASE FinishRow
  <2>1. /\ Returning("evaluate") /\ Top.job[2] # 0 /\ stack' = <<>> /\ pos' = pos + 1
        /\ mode = "running" /\ rules' = rules /\ consolidated' = consolidated /\ inputs' = inputs
        /\ mode' = mode /\ evaluations' = evaluations
    BY <1>11 DEF FinishRow, Returning
  <2>2. Top.job \in AllRows
    BY <1>0, <1>10, <2>1, RuleType DEF Job, TypeOK
  <2>3. row' \in [AllRows -> {"given", "early", "settled"}]
    BY <1>0, <1>11 DEF FinishRow, TypeOK
  <2>4. eligible' \subseteq AllRows
    BY <1>0, <1>11, <2>2 DEF FinishRow, TypeOK
  <2>5. TypeOK'
    BY <1>0, <1>10, <2>1, <2>3, <2>4, JobsShape, DatasourceAssumption DEF TypeOK
  <2> QED BY <2>1, <2>5, StackEnds
<1>12. CASE FinishConsolidation
  <2>1. /\ Returning("evaluate") /\ stack' = <<>> /\ pos' = pos + 1
        /\ mode = "running" /\ rules' = rules /\ row' = row /\ eligible' = eligible
        /\ inputs' = inputs /\ mode' = mode /\ evaluations' = evaluations
    BY <1>12 DEF FinishConsolidation, Returning
  <2>2. consolidated' \in [Items -> {"none", "early", "right"}]
    BY <1>0, <1>12 DEF FinishConsolidation, TypeOK
  <2>3. TypeOK'
    BY <1>0, <1>10, <2>1, <2>2, JobsShape, DatasourceAssumption DEF TypeOK
  <2> QED BY <2>1, <2>3, StackEnds
<1>13. CASE Throws
  <2>1. /\ stack' = <<>> /\ mode' = "failed" /\ document' = document
        /\ inputs' = inputs /\ pos' = pos /\ evaluations' = evaluations
    BY <1>13 DEF Throws
  <2>2. TypeOK'
    BY <1>0, <2>1, DatasourceAssumption DEF TypeOK, document
  <2> QED BY <2>1, <2>2, StackEnds DEF document
<1>14. CASE Finish
  <2>1. /\ stack' = stack /\ stack = <<>> /\ mode' = "done" /\ document' = document
        /\ inputs' = inputs /\ pos' = pos /\ pos > Len(Jobs) /\ evaluations' = evaluations
    BY <1>14 DEF Finish
  <2>2. TypeOK'
    BY <1>0, <2>1 DEF TypeOK, document
  <2> QED BY <2>1, <2>2, StackEnds DEF document
<1>15. CASE EvaluateAgain
  <2>1. /\ mode \in {"done", "failed"} /\ mode' = "running" /\ document' = document
        /\ inputs' = inputs /\ pos' = 1 /\ stack' = stack
        /\ evaluations < MaxEvaluations /\ evaluations' = evaluations + 1
    BY <1>15 DEF EvaluateAgain
  <2>2. stack = <<>>
    BY <1>0, <2>1 DEF WalkInv
  <2>3. TypeOK'
    BY <1>0, <2>1, JobsShape, DatasourceAssumption DEF TypeOK, document
  <2> QED BY <2>1, <2>2, <2>3, StackEnds DEF document
<1>16. CASE UNCHANGED vars
  <2>1. /\ rules' = rules /\ row' = row /\ eligible' = eligible /\ consolidated' = consolidated
        /\ inputs' = inputs /\ stack' = stack /\ pos' = pos /\ mode' = mode
        /\ evaluations' = evaluations
    BY <1>16 DEF vars
  <2>2. TypeOK'
    BY <1>0, <2>1 DEF TypeOK
  <2>3. StackOK(stack)' /\ Nested(stack)'
    BY <2>1, StackStays DEF StackInv
  <2>4. WalkInv'
    BY <1>0, <2>1, RulesStay DEF WalkInv
  <2> QED BY <2>2, <2>3, <2>4 DEF StackInv
<1> QED BY <1>3, <1>4, <1>5, <1>6, <1>7, <1>8, <1>9, <1>11, <1>12, <1>13, <1>14, <1>15, <1>16
        DEF Next, Evaluate

\* The variables keep their types: the position stays within the rules, and
\* the stack within its limit.
THEOREM InherentDatasourceTypes == Spec => []TypeOK
<1>1. Init => StackInv
  BY StackInit
<1>2. StackInv /\ [Next]_vars => StackInv'
  BY StackStep
<1>3. StackInv => TypeOK
  BY DEF StackInv
<1> QED BY <1>1, <1>2, <1>3, PTL DEF Spec

-----------------------------------------------------------------------------
(* Circles of consolidation rules.                                          *)

\* A rule that gets into a circle.
Doomed(job) == \E i \in Reached(job) : i \in Reached(<<i, 0>>)

LEMMA DoomedBelow ==
    ASSUME NEW job, Doomed(job)
    PROVE  \E j \in Runs(job) : Doomed(<<j, 0>>)
<1>1. PICK i \in Reached(job) : i \in Reached(<<i, 0>>)
  BY DEF Doomed
<1>2. Doomed(<<i, 0>>)
  BY <1>1 DEF Doomed
<1>3. CASE i \in Runs(job)
  BY <1>2, <1>3
<1>4. CASE \E j \in Runs(job) : i \in Reached(<<j, 0>>)
  <2>1. PICK j \in Runs(job) : i \in Reached(<<j, 0>>)
    BY <1>4
  <2>2. Doomed(<<j, 0>>)
    BY <1>1, <2>1 DEF Doomed
  <2> QED BY <2>2
<1> QED BY <1>3, <1>4, ReachedBelow

\* A call that gets into a circle, and a script that still has one to make.
IsDoomed(call) ==
    call[1] = "consolidation" /\ \E j \in Ruled(call[2]) : Doomed(<<j, 0>>)
Owes(f) == \E n \in 1..Len(f.todo) : IsDoomed(f.todo[n])

\* A script whose rule gets into a circle has the call in front of it, so
\* that it does not return, and evaluate does not get past it.
OwesAll(s) == \A k \in 1..Len(s) : Doomed(s[k].job) => Owes(s[k])
DoomInv ==
    /\ OwesAll(stack)
    /\ mode # "crashed" =>
          \A n \in 1..Len(Jobs) : n < pos /\ HasRule(Jobs[n]) => ~Doomed(Jobs[n])

LEMMA DoomStays ==
    ASSUME rules' = rules
    PROVE  /\ \A job : Doomed(job)' <=> Doomed(job)
           /\ \A f : Owes(f)' <=> Owes(f)
           /\ \A s : stack' = s /\ OwesAll(s) => OwesAll(stack)'
<1>1. \A job : Doomed(job)' <=> Doomed(job)
  BY RulesStay DEF Doomed
<1>2. \A call : IsDoomed(call)' <=> IsDoomed(call)
  BY <1>1, RulesStay DEF IsDoomed
<1>3. \A f : Owes(f)' <=> Owes(f)
  BY <1>2 DEF Owes
<1> QED BY <1>1, <1>3 DEF OwesAll

\* An answer is not what a script owes, unless it is to the doomed call.
LEMMA AnswerOwes ==
    ASSUME NEW f \in Frame, f.todo # <<>>, NEW good \in BOOLEAN, Owes(f),
           ~IsDoomed(Head(f.todo))
    PROVE  Owes(Answered(f, good))
<1> DEFINE a == Answered(f, good)
<1>1. PICK n \in 1..Len(f.todo) : IsDoomed(f.todo[n])
  BY DEF Owes
<1>2. n # 1
  BY <1>1, AnsweredFrame
<1>3. n - 1 \in 1..Len(Tail(f.todo)) /\ Tail(f.todo)[n - 1] = f.todo[n]
  BY <1>2, AnsweredFrame
<1>4. a.todo = Tail(f.todo)
  BY AnsweredFrame
<1> HIDE DEF a
<1>5. Owes(a)
  BY <1>1, <1>3, <1>4 DEF Owes
<1> QED BY <1>5 DEF a

\* A script that starts has everything in front of it.
LEMMA EnterOwes ==
    ASSUME TypeOK, NEW job \in Job, HasRule(job), NEW op \in {"evaluate", "call"}, Doomed(job)
    PROVE  Owes(Enter(op, job))
<1> DEFINE e == Enter(op, job)
<1>1. PICK j \in Runs(job) : Doomed(<<j, 0>>)
  BY DoomedBelow
<1>2. PICK c \in Range(RuleOf(job).calls) : c[1] = "consolidation" /\ j \in Ruled(c[2])
  BY DEF Runs
<1>3. e.todo = RuleOf(job).calls /\ RuleOf(job).calls \in Seq(Call)
  BY EnterFrame, RuleType DEF TypeOK, Job
<1>4. PICK n \in 1..Len(RuleOf(job).calls) : RuleOf(job).calls[n] = c
  BY <1>2, <1>3 DEF Range
<1>5. IsDoomed(c)
  BY <1>1, <1>2 DEF IsDoomed
<1> HIDE DEF e
<1>6. Owes(e)
  BY <1>3, <1>4, <1>5 DEF Owes
<1> QED BY <1>6 DEF e

LEMMA DoomInit == Init => DoomInv
<1> SUFFICES ASSUME Init PROVE DoomInv
  OBVIOUS
<1>1. Len(stack) = 0 /\ pos = 1
  BY DEF Init
<1> QED BY <1>1 DEF DoomInv, OwesAll

LEMMA DoomStep ==
    ASSUME StackInv, DoomInv, [Next]_vars
    PROVE  DoomInv'
<1>0. TypeOK /\ WalkInv
  BY DEF StackInv
<1> DEFINE Past == \A n \in 1..Len(Jobs) : n < pos /\ HasRule(Jobs[n]) => ~Doomed(Jobs[n])
<1>a. OwesAll(stack) /\ (mode # "crashed" => Past)
  BY DEF DoomInv
<1>b. ASSUME NEW s, stack' = s, OwesAll(s), rules' = rules, mode # "crashed",
             \/ pos' = pos \/ pos' = 1
             \/ pos' = pos + 1 /\ (HasRule(Jobs[pos]) => ~Doomed(Jobs[pos]))
      PROVE  DoomInv'
  <2>1. OwesAll(stack)'
    BY <1>b, DoomStays
  <2>2. ASSUME NEW n \in 1..Len(Jobs), n < pos', HasRule(Jobs[n]) PROVE ~Doomed(Jobs[n])
    <3>1. pos \in Nat /\ n \in Nat /\ n >= 1
      BY <1>0, JobsShape DEF TypeOK
    <3>2. n < pos \/ (n = pos /\ (HasRule(Jobs[pos]) => ~Doomed(Jobs[pos])))
      BY <1>b, <2>2, <3>1
    <3> QED BY <1>a, <1>b, <2>2, <3>2
  <2>3. (\A n \in 1..Len(Jobs) : n < pos /\ HasRule(Jobs[n]) => ~Doomed(Jobs[n]))'
    BY <1>b, <2>2, RulesStay, DoomStays
  <2> QED BY <2>1, <2>3 DEF DoomInv
<1>c. OwesAll(<<>>)
  <2>1. Len(<<>>) = 0
    OBVIOUS
  <2> QED BY <2>1 DEF OwesAll
<1>1. ASSUME NEW good \in BOOLEAN, stack # <<>>, Top.todo # <<>>, mode = "running",
             stack' = Replace(Answered(Top, good)), document' = document,
             pos' = pos, ~IsDoomed(Head(Top.todo))
      PROVE  DoomInv'
  <2> DEFINE s == Replace(Answered(Top, good))
  <2>1. stack' = s /\ rules' = rules
    BY <1>1 DEF document
  <2> HIDE DEF s
  <2>2. /\ Len(s) = Len(stack) /\ \A k \in 1..Len(s) : s[k].job = stack[k].job
        /\ \A k \in 1..Len(s) : s[k] = IF k = Len(s) THEN Answered(Top, good) ELSE stack[k]
    BY <1>1, AnswerKeeps DEF s
  <2>3. /\ Top = stack[Len(stack)] /\ Top \in Frame
        /\ Doomed(Top.job) => Owes(Answered(Top, good))
    <3>1. Top = stack[Len(stack)] /\ Len(stack) \in 1..Len(stack) /\ Top \in Frame
      BY <1>1, TopFrame
    <3>2. Doomed(Top.job) => Owes(Top)
      BY <1>a, <3>1 DEF OwesAll
    <3> QED BY <1>1, <3>1, <3>2, AnswerOwes
  <2>4. OwesAll(s)
    <3>1. ASSUME NEW k \in 1..Len(s), Doomed(s[k].job) PROVE Owes(s[k])
      <4>1. CASE k = Len(s)
        BY <2>2, <2>3, <3>1, <4>1
      <4>2. CASE k # Len(s)
        BY <1>a, <2>2, <3>1, <4>2 DEF OwesAll
      <4> QED BY <4>1, <4>2
    <3> QED BY <3>1 DEF OwesAll
  <2> QED BY <1>1, <1>b, <2>1, <2>4
<1>2. ASSUME stack # <<>>, Top.todo = <<>> PROVE ~Doomed(Top.job)
  <2>1. Top = stack[Len(stack)] /\ Len(stack) \in 1..Len(stack)
    BY <1>2, TopFrame
  <2>2. Doomed(Top.job) => Owes(Top)
    BY <1>a, <2>1 DEF OwesAll
  <2> QED BY <1>2, <2>2 DEF Owes
<1>3. CASE ReadRows
  <2>1. (\A x \in Read(Head(Top.todo), Top.job) : row[x] = "settled") \in BOOLEAN
    OBVIOUS
  <2>2. /\ stack # <<>> /\ Top.todo # <<>> /\ mode = "running" /\ ~IsDoomed(Head(Top.todo))
        /\ stack' = Replace(Answered(Top, \A x \in Read(Head(Top.todo), Top.job) : row[x] = "settled"))
        /\ document' = document /\ pos' = pos
    BY <1>3 DEF ReadRows, Calling, IsDoomed
  <2> QED BY <1>1, <2>1, <2>2
<1>4. CASE UpdateInput
  BY <1>1, <1>4 DEF UpdateInput, Calling, IsDoomed
<1>5. CASE ConsolidateNothing
  BY <1>1, <1>5 DEF ConsolidateNothing, Calling, IsDoomed, Wanted
<1>6. CASE Consolidate
  <2>1. /\ Calling({"consolidation"}) /\ mode = "running" /\ rules' = rules /\ pos' = pos
    BY <1>6 DEF Consolidate, Calling, document
  <2>2. PICK i \in Ruled(Wanted) : RunBelow(i)
    BY <1>6 DEF Consolidate
  <2>3. CASE Len(stack) < StackLimit
    <3> DEFINE e == Enter("call", <<i, 0>>)
               s == Append(stack, e)
    <3>1. stack' = s
      BY <2>2, <2>3 DEF RunBelow
    <3>2. /\ Len(s) = Len(stack) + 1
          /\ \A k \in 1..Len(s) : s[k] = IF k = Len(s) THEN e ELSE stack[k]
      BY <2>1, CallKeeps
    <3>3. Doomed(e.job) => Owes(e)
      <4>1. HasRule(<<i, 0>>) /\ <<i, 0>> \in Job
        BY <2>1, WantedIsRun
      <4>2. e.job = <<i, 0>>
        BY DEF Enter
      <4>3. Doomed(<<i, 0>>) => Owes(Enter("call", <<i, 0>>))
        BY <1>0, <4>1, EnterOwes
      <4> QED BY <4>2, <4>3
    <3>4. Len(stack) \in Nat
      BY <1>0, LenProperties DEF TypeOK
    <3> HIDE DEF e, s
    <3>5. OwesAll(s)
      <4>1. ASSUME NEW k \in 1..Len(s), Doomed(s[k].job) PROVE Owes(s[k])
        <5>1. CASE k = Len(s)
          BY <3>2, <3>3, <4>1, <5>1
        <5>2. CASE k # Len(s)
          <6>1. k \in 1..Len(stack) /\ s[k] = stack[k]
            BY <3>2, <3>4, <5>2
          <6> QED BY <1>a, <4>1, <6>1 DEF OwesAll
        <5> QED BY <5>1, <5>2
      <4> QED BY <4>1 DEF OwesAll
    <3> QED BY <1>b, <2>1, <3>1, <3>5
  <2>4. CASE ~ Len(stack) < StackLimit
    <3>1. stack' = stack /\ mode' = "crashed"
      BY <2>2, <2>4 DEF RunBelow
    <3>2. OwesAll(stack)'
      BY <1>a, <2>1, <3>1, DoomStays
    <3> QED BY <3>1, <3>2 DEF DoomInv
  <2> QED BY <2>3, <2>4
<1>7. CASE Return
  <2> DEFINE good == IsRight(Top)
             n == Len(stack) - 1
             s == SubSeq(stack, 1, Len(stack) - 2) \o <<Answered(stack[n], good)>>
  <2>1. /\ Returning("call") /\ stack # <<>> /\ Top.todo = <<>> /\ mode = "running"
        /\ rules' = rules /\ pos' = pos /\ stack' = s
    BY <1>7 DEF Return, Returning, document
  <2>2. good \in BOOLEAN
    BY <2>1, TopFrame DEF IsRight, Frame
  <2> HIDE DEF good
  <2>3. s = SubSeq(stack, 1, Len(stack) - 2) \o <<Answered(stack[Len(stack) - 1], good)>>
    OBVIOUS
  <2> HIDE DEF s
  <2>4. /\ n \in 1..Len(stack) /\ stack[n] \in Frame /\ WaitsFor(stack[n], Top)
        /\ stack[n].todo # <<>>
        /\ Len(s) = n
        /\ \A k \in 1..Len(s) : s[k] = IF k = Len(s) THEN Answered(stack[k], good) ELSE stack[k]
        /\ \A k \in 1..Len(s) : s[k].job = stack[k].job
    BY <2>1, <2>2, <2>3, ReturnKeeps
  <2>5. ~IsDoomed(Head(stack[n].todo))
    <3>1. Top.job \in Job /\ Top.job[2] = 0 /\ Top.job[1] \in Ruled(Head(stack[n].todo)[2])
      BY <2>1, <2>4, TopFrame DEF WaitsFor
    <3>2. Top.job = <<Top.job[1], 0>>
      BY <3>1, DocumentShape DEF Job
    <3>3. ~Doomed(Top.job)
      BY <1>2, <2>1
    <3>4. \A j \in Ruled(Head(stack[n].todo)[2]) : j = Top.job[1]
      BY <3>1, RuledShape
    <3>5. \A j \in Ruled(Head(stack[n].todo)[2]) : <<j, 0>> = Top.job
      BY <3>2, <3>4
    <3> QED BY <3>3, <3>5 DEF IsDoomed
  <2> HIDE DEF n
  <2>6. OwesAll(s)
    <3>1. ASSUME NEW k \in 1..Len(s), Doomed(s[k].job) PROVE Owes(s[k])
      <4>1. k \in 1..Len(stack) /\ s[k].job = stack[k].job
        BY <2>4 DEF n
      <4>2. Owes(stack[k])
        BY <1>a, <3>1, <4>1 DEF OwesAll
      <4>3. CASE k = Len(s)
        BY <2>2, <2>4, <2>5, <4>2, <4>3, AnswerOwes
      <4>4. CASE k # Len(s)
        BY <2>4, <4>2, <4>4
      <4> QED BY <4>3, <4>4
    <3> QED BY <3>1 DEF OwesAll
  <2> QED BY <1>b, <2>1, <2>6
<1>8. CASE SkipRule
  BY <1>a, <1>b, <1>8 DEF SkipRule, AtJob, document
<1>9. CASE RunRule
  <2> DEFINE e == Enter("evaluate", Jobs[pos])
             s == <<e>>
  <2>1. /\ mode = "running" /\ rules' = rules /\ pos' = pos /\ HasRule(Jobs[pos])
        /\ pos <= Len(Jobs) /\ stack' = s
    BY <1>9 DEF RunRule, AtJob, document
  <2>2. pos \in 1..Len(Jobs) /\ Jobs[pos] \in Job
    BY <1>0, <2>1, JobsShape DEF TypeOK, Job
  <2>3. e.job = Jobs[pos]
    BY DEF Enter
  <2>4. Doomed(e.job) => Owes(e)
    <3>1. Doomed(Jobs[pos]) => Owes(Enter("evaluate", Jobs[pos]))
      BY <1>0, <2>1, <2>2, EnterOwes
    <3> QED BY <2>3, <3>1
  <2> HIDE DEF e
  <2>5. Len(s) = 1 /\ s[1] = e
    OBVIOUS
  <2> HIDE DEF s
  <2>6. OwesAll(s)
    <3>1. \A k \in 1..Len(s) : k = 1
      BY <2>5
    <3> QED BY <2>4, <2>5, <3>1 DEF OwesAll
  <2> QED BY <1>b, <2>1, <2>6
<1>10. ASSUME Returning("evaluate") PROVE ~Doomed(Jobs[pos])
  <2>1. stack # <<>> /\ Top.todo = <<>> /\ Top.op = "evaluate"
    BY <1>10 DEF Returning
  <2>2. Top.job = Jobs[pos]
    BY <1>0, <2>1, TopFrame DEF WalkInv
  <2> QED BY <1>2, <2>1, <2>2
<1>11. CASE FinishRow
  BY <1>b, <1>c, <1>10, <1>11 DEF FinishRow, Returning
<1>12. CASE FinishConsolidation
  BY <1>b, <1>c, <1>10, <1>12 DEF FinishConsolidation, Returning
<1>13. CASE Throws
  BY <1>b, <1>c, <1>13 DEF Throws, document
<1>14. CASE Finish
  BY <1>a, <1>b, <1>14 DEF Finish, document
<1>15. CASE EvaluateAgain
  BY <1>a, <1>b, <1>15 DEF EvaluateAgain, document
<1>16. CASE UNCHANGED vars
  <2>1. rules' = rules /\ stack' = stack /\ mode' = mode /\ pos' = pos
    BY <1>16 DEF vars
  <2>2. OwesAll(stack)'
    BY <1>a, <2>1, DoomStays
  <2>3. CASE mode = "crashed"
    BY <2>1, <2>2, <2>3 DEF DoomInv
  <2>4. CASE mode # "crashed"
    BY <1>a, <1>b, <2>1, <2>4
  <2> QED BY <2>3, <2>4
<1> QED BY <1>3, <1>4, <1>5, <1>6, <1>7, <1>8, <1>9, <1>11, <1>12, <1>13, <1>14, <1>15, <1>16
        DEF Next, Evaluate

\* Only a circle of consolidation rules exhausts the stack, however much of
\* it there is beyond the number of items, and an evaluation that succeeds
\* has met no rule that gets into one.
THEOREM OnlyCirclesOverflow == Spec => []CirclesOverflow
<1>1. Init => StackInv /\ DoomInv
  BY StackInit, DoomInit
<1>2. StackInv /\ DoomInv /\ [Next]_vars => StackInv' /\ DoomInv'
  BY StackStep, DoomStep
<1>3. StackInv /\ DoomInv => CirclesOverflow
  <2> SUFFICES ASSUME StackInv, DoomInv PROVE CirclesOverflow
    OBVIOUS
  <2>1. mode = "crashed" => Circular
    BY DEF StackInv, WalkInv
  <2>2. ASSUME mode = "done", Circular PROVE FALSE
    <3>1. PICK n \in DOMAIN Jobs : HasRule(Jobs[n]) /\ Doomed(Jobs[n])
      BY <2>2 DEF Circular, Doomed
    <3>2. n \in 1..Len(Jobs) /\ pos > Len(Jobs) /\ pos \in Nat /\ Len(Jobs) \in Nat
      BY <2>2, <3>1, JobsShape DEF StackInv, WalkInv, TypeOK
    <3>3. n < pos
      BY <3>2
    <3> QED BY <2>2, <3>1, <3>2, <3>3 DEF DoomInv
  <2> QED BY <2>1, <2>2 DEF CirclesOverflow
<1> QED BY <1>1, <1>2, <1>3, PTL DEF Spec

-----------------------------------------------------------------------------
(* Scripts that look back.                                                  *)

\* What a row reads is rows, whatever kind of row it is.
LEMMA ReadByShape ==
    ASSUME NEW job
    PROVE  /\ \A c \in Range(RuleOf(job).calls) : Read(c, job) \subseteq ReadBy(job)
           /\ \A i \in Reached(job) : \A c \in Range(RuleOf(<<i, 0>>).calls) :
                 Read(c, <<i, 0>>) \subseteq ReadBy(job)
<1>1. \A j : \A c \in Range(RuleOf(j).calls) : Read(c, j) \subseteq Reads(j)
  BY DEF Reads
<1>2. Reads(job) \subseteq ReadBy(job) /\ \A i \in Reached(job) : Reads(<<i, 0>>) \subseteq ReadBy(job)
  BY DEF ReadBy
<1>3. ASSUME NEW i \in Reached(job), NEW c \in Range(RuleOf(<<i, 0>>).calls)
      PROVE  Read(c, <<i, 0>>) \subseteq ReadBy(job)
  BY <1>1, <1>2
<1> QED BY <1>1, <1>2, <1>3

\* A row in Orderly looks back at such rows: without it the others were
\* closed as well.
LEMMA OrderlyLooksBack ==
    ASSUME NEW x \in Orderly
    PROVE  x \in AllRows /\ LooksBackAt(Orderly, x)
<1> DEFINE S == Orderly \ {x}
<1>1. x \in AllRows /\ Orderly \subseteq AllRows
  BY DEF Orderly
<1>2. \A T \in SUBSET AllRows :
         (\A y \in AllRows : LooksBackAt(T, y) => y \in T) => Orderly \subseteq T
  BY DEF Orderly
<1>3. ASSUME NEW T \in SUBSET AllRows, \A y \in AllRows : LooksBackAt(T, y) => y \in T,
             NEW y \in AllRows, LooksBackAt(Orderly, y)
      PROVE  y \in T
  <2>1. Orderly \subseteq T
    BY <1>2, <1>3
  <2>2. LooksBackAt(T, y)
    BY <1>3, <2>1 DEF LooksBackAt
  <2> QED BY <1>3, <2>2
<1>4. \A y \in AllRows : LooksBackAt(Orderly, y) => y \in Orderly
  BY <1>3 DEF Orderly
<1>5. SUFFICES ASSUME ~LooksBackAt(Orderly, x) PROVE FALSE
  BY <1>1
<1>6. ASSUME NEW y \in AllRows, LooksBackAt(S, y) PROVE y \in S
  <2>1. LooksBackAt(Orderly, y)
    BY <1>6 DEF LooksBackAt
  <2>2. y \in Orderly /\ y # x
    BY <1>4, <1>5, <2>1
  <2> QED BY <2>2
<1>7. S \in SUBSET AllRows
  BY <1>1
<1> HIDE DEF S
<1>8. x \in S
  BY <1>2, <1>6, <1>7
<1> QED BY <1>8 DEF S

\* A rule that reads rows in Orderly only.
Safe(job) ==
    /\ ReadBy(job) \subseteq Orderly
    /\ job \in AllRows => job \in Orderly

LEMMA OrderlyStays ==
    ASSUME rules' = rules, evaluations' = evaluations
    PROVE  /\ Orderly' = Orderly
           /\ \A job : ReadBy(job)' = ReadBy(job)
           /\ \A job : Safe(job)' <=> Safe(job)
<1>a. \A job : Reads(job)' = Reads(job)
  BY RulesStay DEF Reads
<1>b. \A job : Reached(job)' = Reached(job)
  BY RulesStay
<1>1. \A job : ReadBy(job)' = ReadBy(job)
  BY <1>a, <1>b DEF ReadBy
<1>2. \A S, x : LooksBackAt(S, x)' <=> LooksBackAt(S, x)
  BY <1>1, RulesStay DEF LooksBackAt
<1>3. Orderly' = Orderly
  BY <1>2 DEF Orderly
<1>4. \A job : Safe(job)' <=> Safe(job)
  BY <1>1, <1>3 DEF Safe
<1> QED BY <1>1, <1>3, <1>4

\* The rows before the position have what their rules return, and those
\* behind it, the first time, what they were given.
AreDone(p) ==
    \A n \in 1..Len(FsiJobs) : n < p /\ HasRule(FsiJobs[n]) =>
        /\ FsiJobs[n] \in Orderly => row[FsiJobs[n]] = "settled"
        /\ FsiJobs[n] \in eligible <=> ReturnsNumber(FsiJobs[n])
AreGiven(p) ==
    evaluations = 1 =>
        \A n \in 1..Len(FsiJobs) : n >= p /\ HasRule(FsiJobs[n]) => row[FsiJobs[n]] = "given"
AreConsolidated(p) ==
    \A i \in Items : Len(FsiJobs) + i < p /\ HasRule(<<i, 0>>) /\ Safe(<<i, 0>>) =>
        consolidated[i] = "right"
RowsInv ==
    /\ \A x \in AllRows : ~HasRule(x) => row[x] = "settled"
    /\ AreDone(pos)
    /\ AreGiven(pos)
    /\ AreConsolidated(pos)

\* The scripts of a safe rule have read nothing but settled rows.
AllGood(s) == s # <<>> /\ Safe(s[1].job) => \A k \in 1..Len(s) : s[k].good
ReadInv == AllGood(stack)

\* What the rule at the position reads is settled, if it is safe.
LEMMA SafeReadsAreSettled ==
    ASSUME StackInv, RowsInv, stack # <<>>, Safe(stack[1].job), NEW x \in ReadBy(stack[1].job)
    PROVE  row[x] = "settled"
<1> DEFINE job == stack[1].job
<1>1. pos \in 1..Len(Jobs) /\ job = Jobs[pos] /\ HasRule(job)
  BY TopFrame DEF StackInv, WalkInv, StackOK, FrameOK
<1>2. x \in Orderly /\ x \in AllRows
  BY OrderlyLooksBack DEF Safe
<1>3. CASE ~HasRule(x)
  BY <1>2, <1>3 DEF RowsInv
<1>4. CASE HasRule(x)
  <2>1. PICK m \in 1..Len(FsiJobs) : FsiJobs[m] = x
    BY <1>2, JobsShape
  <2>2. m < pos
    <3>1. CASE pos \in 1..Len(FsiJobs)
      <4>1. job = FsiJobs[pos] /\ job \in AllRows
        BY <1>1, <3>1, JobsShape
      <4>2. LooksBackAt(Orderly, job)
        BY <4>1, OrderlyLooksBack DEF Safe
      <4>3. IsBefore(x, job)
        BY <1>1, <1>4, <4>2 DEF LooksBackAt
      <4> QED BY <2>1, <3>1, <4>1, <4>3, JobsShape
    <3>2. CASE pos \notin 1..Len(FsiJobs)
      BY <1>1, <2>1, <3>2, JobsShape
    <3> QED BY <3>1, <3>2
  <2> QED BY <1>2, <1>4, <2>1, <2>2 DEF RowsInv, AreDone
<1> QED BY <1>3, <1>4

\* What a running script reads is read by the rule at the position.
LEMMA FramesReadForTheBase ==
    ASSUME StackInv, stack # <<>>, Top.todo # <<>>
    PROVE  Read(Head(Top.todo), Top.job) \subseteq ReadBy(stack[1].job)
<1>1. /\ Top = stack[Len(stack)] /\ Len(stack) \in Nat \ {0} /\ Len(stack) \in 1..Len(stack)
      /\ 1 \in 1..Len(stack) /\ Top.job \in Job
      /\ Head(Top.todo) \in Range(RuleOf(Top.job).calls)
  BY TopFrame
<1>2. CASE Len(stack) = 1
  <2>1. Top.job = stack[1].job
    BY <1>1, <1>2
  <2> QED BY <1>1, <2>1, ReadByShape
<1>3. CASE Len(stack) # 1
  <2>1. Top.job[1] \in Reached(stack[1].job)
    <3>1. 1 < Len(stack)
      BY <1>1, <1>3
    <3> QED BY <1>1, <3>1 DEF StackInv, Nested
  <2>2. Top.job[2] = 0
    <3>0. Len(stack) \in Nat \ {0} /\ Len(stack) # 1
      BY <1>1, <1>3
    <3>a. \A n \in Nat \ {0} : n # 1 => n - 1 \in 1..n - 1 /\ (n - 1) + 1 = n
      OBVIOUS
    <3>1. Len(stack) - 1 \in 1..Len(stack) - 1 /\ (Len(stack) - 1) + 1 = Len(stack)
      BY <3>0, <3>a
    <3>2. WaitsFor(stack[Len(stack) - 1], stack[(Len(stack) - 1) + 1])
      BY <3>1 DEF StackInv, StackOK
    <3> QED BY <1>1, <3>1, <3>2 DEF WaitsFor
  <2>3. Top.job = <<Top.job[1], 0>>
    BY <1>1, <2>2, DocumentShape DEF Job
  <2>4. Head(Top.todo) \in Range(RuleOf(<<Top.job[1], 0>>).calls)
    BY <1>1, <2>3
  <2>5. Read(Head(Top.todo), <<Top.job[1], 0>>) \subseteq ReadBy(stack[1].job)
    BY <2>1, <2>4, ReadByShape
  <2> QED BY <2>3, <2>5
<1> QED BY <1>2, <1>3

LEMMA RowsInit == Init => RowsInv /\ ReadInv
<1> SUFFICES ASSUME Init PROVE RowsInv /\ ReadInv
  OBVIOUS
<1>1. /\ row = [x \in AllRows |-> IF HasRule(x) THEN "given" ELSE "settled"]
      /\ pos = 1 /\ stack = <<>>
  BY DEF Init
<1>2. \A x \in AllRows : ~HasRule(x) => row[x] = "settled"
  BY <1>1
<1>3. AreDone(pos) /\ AreConsolidated(pos)
  <2>1. \A n \in 1..Len(FsiJobs) : ~ n < pos
    BY <1>1
  <2>2. \A i \in Items : ~ Len(FsiJobs) + i < pos
    BY <1>1, DocumentShape, JobsShape
  <2> QED BY <2>1, <2>2 DEF AreDone, AreConsolidated
<1>4. AreGiven(pos)
  BY <1>1, JobsShape DEF AreGiven
<1> QED BY <1>1, <1>2, <1>3, <1>4 DEF RowsInv, ReadInv, AllGood

\* A step that writes nothing, and passes a rule only if it is missing.
LEMMA RowsStay ==
    ASSUME TypeOK, RowsInv, document' = document, evaluations' = evaluations,
           \/ pos' = pos
           \/ pos' = pos + 1 /\ pos <= Len(Jobs) /\ ~HasRule(Jobs[pos])
    PROVE  RowsInv'
<1>1. rules' = rules /\ row' = row /\ eligible' = eligible /\ consolidated' = consolidated
  BY DEF document
<1>2. pos \in Nat \ {0} /\ pos' \in Nat
  BY JobsShape DEF TypeOK
<1>3. (\A x \in AllRows : ~HasRule(x) => row[x] = "settled")'
  BY <1>1, RulesStay DEF RowsInv
<1>4. AreDone(pos)'
  <2>1. ASSUME NEW n \in 1..Len(FsiJobs), n < pos', HasRule(FsiJobs[n])
        PROVE  n < pos
    <3>1. n \in Nat /\ n \in 1..Len(Jobs) /\ Jobs[n] = FsiJobs[n]
      BY JobsShape
    <3> QED BY <1>2, <2>1, <3>1
  <2>2. AreDone(pos)
    BY DEF RowsInv
  <2> QED BY <1>1, <2>1, <2>2, RulesStay, OrderlyStays DEF AreDone
<1>5. AreGiven(pos)'
  <2>1. \A n \in 1..Len(FsiJobs) : n >= pos' => n >= pos
    BY <1>2, JobsShape
  <2>2. AreGiven(pos)
    BY DEF RowsInv
  <2> QED BY <1>1, <2>1, <2>2, RulesStay DEF AreGiven
<1>6. AreConsolidated(pos)'
  <2>1. ASSUME NEW i \in Items, Len(FsiJobs) + i < pos', HasRule(<<i, 0>>)
        PROVE  Len(FsiJobs) + i < pos
    <3>1. /\ i \in Nat /\ Len(FsiJobs) \in Nat
          /\ Jobs[Len(FsiJobs) + i] = <<i, 0>>
      BY DocumentShape, JobsShape
    <3> QED BY <1>2, <2>1, <3>1
  <2>2. AreConsolidated(pos)
    BY DEF RowsInv
  <2> QED BY <1>1, <2>1, <2>2, RulesStay, OrderlyStays DEF AreConsolidated
<1> QED BY <1>3, <1>4, <1>5, <1>6 DEF RowsInv

LEMMA GoodStays ==
    ASSUME rules' = rules, evaluations' = evaluations, NEW s, stack' = s, AllGood(s)
    PROVE  ReadInv'
BY OrderlyStays DEF ReadInv, AllGood

\* A result is right if its script is good.
LEMMA GoodIsRight ==
    ASSUME StackInv, stack # <<>>
    PROVE  /\ IsRight(Top) \in BOOLEAN
           /\ ReadInv /\ Safe(stack[1].job) => IsRight(Top)
<1>1. Len(stack) \in 1..Len(stack) /\ Top = stack[Len(stack)] /\ Top \in Frame
  BY TopFrame
<1>2. Top.good \in BOOLEAN
  BY <1>1 DEF Frame
<1>3. ReadInv /\ Safe(stack[1].job) => Top.good
  BY <1>1 DEF ReadInv, AllGood
<1> QED BY <1>2, <1>3 DEF IsRight

LEMMA GoodStep ==
    ASSUME StackInv, RowsInv, ReadInv, [Next]_vars
    PROVE  ReadInv'
<1>0. TypeOK /\ WalkInv
  BY DEF StackInv
<1>1. ASSUME NEW good \in BOOLEAN, stack # <<>>, Top.todo # <<>>,
             stack' = Replace(Answered(Top, good)), rules' = rules, evaluations' = evaluations,
             Safe(stack[1].job) => good
      PROVE  ReadInv'
  <2> DEFINE s == Replace(Answered(Top, good))
  <2>1. stack' = s
    BY <1>1
  <2> HIDE DEF s
  <2>2. /\ Len(s) = Len(stack) /\ \A k \in 1..Len(s) : s[k].job = stack[k].job
        /\ \A k \in 1..Len(s) : s[k] = IF k = Len(s) THEN Answered(Top, good) ELSE stack[k]
    BY <1>1, AnswerKeeps DEF s
  <2>3. 1 \in 1..Len(stack) /\ Top = stack[Len(stack)] /\ Top \in Frame
    BY <1>1, TopFrame
  <2>4. Answered(Top, good).good <=> Top.good /\ good
    BY <1>1, <2>3, AnsweredFrame
  <2>5. AllGood(s)
    <3>1. ASSUME Safe(s[1].job), NEW k \in 1..Len(s) PROVE s[k].good
      <4>1. Safe(stack[1].job) /\ good /\ k \in 1..Len(stack)
        BY <1>1, <2>2, <2>3, <3>1
      <4>2. stack[k].good
        BY <1>1, <4>1 DEF ReadInv, AllGood
      <4>3. CASE k = Len(s)
        <5>1. s[k] = Answered(Top, good) /\ Top = stack[k]
          BY <2>2, <2>3, <4>3
        <5> QED BY <2>4, <4>1, <4>2, <5>1
      <4>4. CASE k # Len(s)
        BY <2>2, <4>2, <4>4
      <4> QED BY <4>3, <4>4
    <3> QED BY <3>1 DEF AllGood
  <2> QED BY <1>1, <2>1, <2>5, GoodStays
<1>2. CASE ReadRows
  <2> DEFINE good == \A x \in Read(Head(Top.todo), Top.job) : row[x] = "settled"
  <2>1. good \in BOOLEAN
    OBVIOUS
  <2>2. /\ stack # <<>> /\ Top.todo # <<>> /\ stack' = Replace(Answered(Top, good))
        /\ rules' = rules /\ evaluations' = evaluations
    BY <1>2 DEF ReadRows, Calling, document
  <2>3. Safe(stack[1].job) => good
    BY <2>2, FramesReadForTheBase, SafeReadsAreSettled
  <2> HIDE DEF good
  <2> QED BY <1>1, <2>1, <2>2, <2>3
<1>3. CASE UpdateInput
  BY <1>1, <1>3 DEF UpdateInput, Calling, document
<1>4. CASE ConsolidateNothing
  BY <1>1, <1>4 DEF ConsolidateNothing, Calling, document
<1>5. CASE Consolidate
  <2>1. /\ Calling({"consolidation"}) /\ rules' = rules /\ evaluations' = evaluations
    BY <1>5 DEF Consolidate, document
  <2>2. PICK i \in Ruled(Wanted) : RunBelow(i)
    BY <1>5 DEF Consolidate
  <2>3. CASE Len(stack) < StackLimit
    <3> DEFINE e == Enter("call", <<i, 0>>)
               s == Append(stack, e)
    <3>1. stack' = s
      BY <2>2, <2>3 DEF RunBelow
    <3>2. /\ Len(s) = Len(stack) + 1
          /\ \A k \in 1..Len(s) : s[k] = IF k = Len(s) THEN e ELSE stack[k]
      BY <2>1, CallKeeps
    <3>3. stack # <<>> /\ HasRule(<<i, 0>>) /\ <<i, 0>> \in Job
      BY <2>1, WantedIsRun
    <3>4. e.good
      <4>1. ~RuleOf(<<i, 0>>).own
        BY <1>0, <3>3, RuleType DEF TypeOK, Job
      <4> QED BY <1>0, <3>3, <4>1, EnterFrame
    <3>5. Len(stack) \in Nat \ {0}
      BY <3>3, TopFrame
    <3> HIDE DEF e, s
    <3>6. \A k \in 1..Len(s) : k # Len(s) => k \in 1..Len(stack) /\ s[k] = stack[k]
      BY <3>2, <3>5
    <3>7. 1 \in 1..Len(s) /\ 1 # Len(s) /\ Len(s) \in 1..Len(s)
      BY <3>2, <3>5
    <3>8. AllGood(s)
      <4>1. s[1] = stack[1]
        BY <3>6, <3>7
      <4>2. Safe(s[1].job) => \A k \in 1..Len(stack) : stack[k].good
        BY <3>3, <4>1 DEF ReadInv, AllGood
      <4>3. Safe(s[1].job) => \A k \in 1..Len(s) : s[k].good
        BY <3>2, <3>4, <3>6, <4>2
      <4> QED BY <4>3 DEF AllGood
    <3> QED BY <2>1, <3>1, <3>8, GoodStays
  <2>4. CASE ~ Len(stack) < StackLimit
    <3>1. stack' = stack
      BY <2>2, <2>4 DEF RunBelow
    <3> QED BY <2>1, <3>1, GoodStays DEF ReadInv
  <2> QED BY <2>3, <2>4
<1>6. CASE Return
  <2> DEFINE good == IsRight(Top)
             s == SubSeq(stack, 1, Len(stack) - 2) \o <<Answered(stack[Len(stack) - 1], good)>>
  <2>1. /\ Returning("call") /\ stack # <<>> /\ stack' = s
        /\ rules' = rules /\ evaluations' = evaluations
    BY <1>6 DEF Return, Returning, document
  <2>2. good \in BOOLEAN /\ (Safe(stack[1].job) => good)
    BY <2>1, GoodIsRight
  <2> HIDE DEF good
  <2>3. s = SubSeq(stack, 1, Len(stack) - 2) \o <<Answered(stack[Len(stack) - 1], good)>>
    OBVIOUS
  <2> HIDE DEF s
  <2>4. /\ Len(stack) >= 2 /\ stack[Len(stack) - 1] \in Frame
        /\ stack[Len(stack) - 1].todo # <<>>
        /\ Len(s) = Len(stack) - 1
        /\ \A k \in 1..Len(s) : s[k] = IF k = Len(s) THEN Answered(stack[k], good) ELSE stack[k]
        /\ \A k \in 1..Len(s) : s[k].job = stack[k].job
    BY <2>1, <2>2, <2>3, ReturnKeeps
  <2>5. Len(stack) \in Nat
    BY <1>0, LenProperties DEF TypeOK
  <2>6. AllGood(s)
    <3>1. ASSUME Safe(s[1].job), NEW k \in 1..Len(s) PROVE s[k].good
      <4>1. 1 \in 1..Len(s) /\ k \in 1..Len(stack)
        BY <2>4, <2>5
      <4>2. Safe(stack[1].job) /\ good
        BY <2>2, <2>4, <3>1, <4>1
      <4>3. stack[k].good
        BY <2>1, <4>1, <4>2 DEF ReadInv, AllGood
      <4>4. CASE k = Len(s)
        <5>1. stack[k] \in Frame /\ stack[k].todo # <<>> /\ s[k] = Answered(stack[k], good)
          BY <2>4, <4>4
        <5>2. s[k].good <=> stack[k].good /\ good
          BY <2>2, <5>1, AnsweredFrame
        <5> QED BY <4>2, <4>3, <5>2
      <4>5. CASE k # Len(s)
        BY <2>4, <4>3, <4>5
      <4> QED BY <4>4, <4>5
    <3> QED BY <3>1 DEF AllGood
  <2> QED BY <2>1, <2>6, GoodStays
<1>7. CASE RunRule
  <2> DEFINE e == Enter("evaluate", Jobs[pos])
             s == <<e>>
  <2>1. /\ rules' = rules /\ evaluations' = evaluations /\ HasRule(Jobs[pos])
        /\ pos <= Len(Jobs) /\ stack' = s
    BY <1>7 DEF RunRule, AtJob, document
  <2>2. pos \in 1..Len(Jobs) /\ Jobs[pos] \in Job
    BY <1>0, <2>1, JobsShape DEF TypeOK, Job
  <2>3. e.job = Jobs[pos] /\ (e.good <=> (RuleOf(Jobs[pos]).own => row[Jobs[pos]] = "given"))
    BY <1>0, <2>1, <2>2, EnterFrame
  <2>4. ASSUME Safe(Jobs[pos]), RuleOf(Jobs[pos]).own PROVE row[Jobs[pos]] = "given"
    <3>1. Jobs[pos] \in AllRows
      BY <1>0, <2>2, <2>4, RuleType DEF Job, TypeOK
    <3>2. pos \in 1..Len(FsiJobs) /\ FsiJobs[pos] = Jobs[pos]
      <4>1. Jobs[pos][2] # 0
        BY <3>1, DocumentShape
      <4> QED BY <2>2, <4>1, JobsShape
    <3>3. LooksBackAt(Orderly, Jobs[pos])
      BY <2>4, <3>1, OrderlyLooksBack DEF Safe
    <3>4. evaluations = 1
      BY <2>1, <2>4, <3>3 DEF LooksBackAt
    <3> QED BY <2>1, <3>2, <3>4 DEF RowsInv, AreGiven
  <2> HIDE DEF e
  <2>5. Len(s) = 1 /\ s[1] = e
    OBVIOUS
  <2> HIDE DEF s
  <2>6. AllGood(s)
    <3>1. \A k \in 1..Len(s) : k = 1
      BY <2>5
    <3>2. Safe(s[1].job) => e.good
      BY <2>3, <2>4, <2>5
    <3> QED BY <2>5, <3>1, <3>2 DEF AllGood
  <2> QED BY <2>1, <2>6, GoodStays
<1>8. CASE SkipRule \/ Finish
  <2>1. stack' = stack /\ rules' = rules /\ evaluations' = evaluations
    BY <1>8 DEF SkipRule, Finish, document
  <2> QED BY <2>1, GoodStays DEF ReadInv
<1>9. CASE FinishRow \/ FinishConsolidation \/ Throws \/ EvaluateAgain
  <2>1. stack' = <<>>
    BY <1>0, <1>9 DEF FinishRow, FinishConsolidation, Throws, EvaluateAgain, WalkInv
  <2> QED BY <2>1 DEF ReadInv, AllGood
<1>10. CASE UNCHANGED vars
  <2>1. stack' = stack /\ rules' = rules /\ evaluations' = evaluations
    BY <1>10 DEF vars
  <2> QED BY <2>1, GoodStays DEF ReadInv
<1> QED BY <1>2, <1>3, <1>4, <1>5, <1>6, <1>7, <1>8, <1>9, <1>10 DEF Next, Evaluate

\* The script that returns to evaluate is the one of the rule at the position.
LEMMA BaseReturns ==
    ASSUME StackInv, Returning("evaluate")
    PROVE  /\ stack # <<>> /\ stack[1].job = Top.job /\ Top.job = Jobs[pos] /\ Top.job \in Job
           /\ pos \in 1..Len(Jobs) /\ pos \in Nat \ {0} /\ HasRule(Top.job)
           /\ Top.job[2] # 0 => /\ Top.job \in AllRows
                                /\ pos \in 1..Len(FsiJobs) /\ FsiJobs[pos] = Top.job
           /\ Top.job[2] = 0 => /\ Top.job[1] \in Items /\ Top.job = <<Top.job[1], 0>>
                                /\ pos = Len(FsiJobs) + Top.job[1]
<1>1. stack # <<>> /\ Top.op = "evaluate"
  BY DEF Returning
<1>2. /\ Len(stack) = 1 /\ Top = stack[1] /\ Top.job = Jobs[pos] /\ Top.job \in Job
      /\ pos \in 1..Len(Jobs) /\ HasRule(Top.job)
  BY <1>1, TopFrame DEF StackInv, WalkInv, FrameOK
<1>3. pos \in Nat \ {0}
  BY <1>2, JobsShape
<1>4. ASSUME Top.job[2] # 0
      PROVE  Top.job \in AllRows /\ pos \in 1..Len(FsiJobs) /\ FsiJobs[pos] = Top.job
  <2>1. Top.job \in AllRows
    BY <1>2, <1>4, DocumentShape DEF Job
  <2> QED BY <1>2, <1>4, <2>1, JobsShape
<1>5. ASSUME Top.job[2] = 0
      PROVE  /\ Top.job[1] \in Items /\ Top.job = <<Top.job[1], 0>>
             /\ pos = Len(FsiJobs) + Top.job[1]
  <2>1. Top.job \notin AllRows
    BY <1>5, DocumentShape
  <2>2. pos - Len(FsiJobs) \in Items /\ Jobs[pos] = <<pos - Len(FsiJobs), 0>>
    BY <1>2, <2>1, JobsShape
  <2>3. Top.job[1] = pos - Len(FsiJobs) /\ Len(FsiJobs) \in Nat
    BY <1>2, <2>2, JobsShape
  <2> QED BY <1>2, <1>3, <2>2, <2>3
<1> QED BY <1>1, <1>2, <1>3, <1>4, <1>5

LEMMA RowsStep ==
    ASSUME StackInv, RowsInv, ReadInv, [Next]_vars
    PROVE  RowsInv'
<1>0. TypeOK /\ WalkInv
  BY DEF StackInv
<1>a. AreDone(pos) /\ AreGiven(pos) /\ AreConsolidated(pos)
  BY DEF RowsInv
<1>b. row \in [AllRows -> {"given", "early", "settled"}] /\ pos \in Nat /\ eligible \subseteq AllRows
  BY <1>0, JobsShape DEF TypeOK
<1>1. CASE ReadRows \/ UpdateInput \/ ConsolidateNothing \/ Consolidate \/ Return \/ RunRule
           \/ Throws \/ Finish
  <2>1. document' = document /\ evaluations' = evaluations /\ pos' = pos
    BY <1>1 DEF ReadRows, UpdateInput, ConsolidateNothing, Consolidate, Return, RunRule, Throws,
                Finish, document
  <2> QED BY <1>0, <2>1, RowsStay
<1>2. CASE SkipRule
  BY <1>0, <1>2, RowsStay DEF SkipRule, AtJob
<1>3. CASE FinishRow
  <2> DEFINE x == Top.job
             right == IsRight(Top)
  <2>1. /\ Returning("evaluate") /\ x[2] # 0 /\ pos' = pos + 1 /\ rules' = rules
        /\ consolidated' = consolidated /\ evaluations' = evaluations
        /\ row' = [row EXCEPT ![x] = IF right THEN "settled" ELSE "early"]
        /\ eligible' = IF ReturnsNumber(x) THEN eligible \cup {x} ELSE eligible \ {x}
    BY <1>3 DEF FinishRow
  <2>2. /\ x \in AllRows /\ pos \in 1..Len(FsiJobs) /\ FsiJobs[pos] = x /\ HasRule(x)
        /\ stack # <<>> /\ stack[1].job = x
    BY <2>1, BaseReturns
  <2>3. x \in Orderly => right
    <3>1. ASSUME x \in Orderly PROVE Safe(x)
      BY <2>2, <3>1, OrderlyLooksBack DEF Safe, LooksBackAt
    <3> QED BY <2>2, <3>1, GoodIsRight
  <2> HIDE DEF x, right
  <2>4. row'[x] = (IF right THEN "settled" ELSE "early") /\ \A y \in AllRows : y # x => row'[y] = row[y]
    BY <1>b, <2>1, <2>2
  <2>5. \A y \in AllRows : y # x => (y \in eligible' <=> y \in eligible)
    BY <2>1
  <2>6. x \in eligible' <=> ReturnsNumber(x)
    BY <2>1
  <2>7. (\A y \in AllRows : ~HasRule(y) => row[y] = "settled")'
    <3>1. ASSUME NEW y \in AllRows, ~HasRule(y) PROVE row'[y] = "settled"
      BY <2>2, <2>4, <3>1 DEF RowsInv
    <3> QED BY <2>1, <3>1, RulesStay
  <2>8. AreDone(pos)'
    <3>1. ASSUME NEW n \in 1..Len(FsiJobs), n < pos', HasRule(FsiJobs[n])
          PROVE  /\ FsiJobs[n] \in Orderly => row'[FsiJobs[n]] = "settled"
                 /\ FsiJobs[n] \in eligible' <=> ReturnsNumber(FsiJobs[n])
      <4>1. FsiJobs[n] \in AllRows /\ n \in Nat
        BY JobsShape
      <4>2. CASE n = pos
        BY <2>2, <2>3, <2>4, <2>6, <4>2
      <4>3. CASE n # pos
        <5>1. n < pos
          BY <1>b, <2>1, <3>1, <4>1, <4>3
        <5>2. FsiJobs[n] # x
          BY <2>2, <4>3, JobsShape
        <5>3. /\ FsiJobs[n] \in Orderly => row[FsiJobs[n]] = "settled"
              /\ FsiJobs[n] \in eligible <=> ReturnsNumber(FsiJobs[n])
          BY <1>a, <3>1, <5>1 DEF AreDone
        <5> QED BY <2>4, <2>5, <4>1, <5>2, <5>3
      <4> QED BY <4>2, <4>3
    <3> QED BY <2>1, <3>1, RulesStay, OrderlyStays DEF AreDone
  <2>9. AreGiven(pos)'
    <3>1. ASSUME evaluations = 1, NEW n \in 1..Len(FsiJobs), n >= pos', HasRule(FsiJobs[n])
          PROVE  row'[FsiJobs[n]] = "given"
      <4>1. FsiJobs[n] \in AllRows /\ n \in Nat
        BY JobsShape
      <4>2. n >= pos /\ n # pos
        BY <1>b, <2>1, <3>1, <4>1
      <4>3. FsiJobs[n] # x
        BY <2>2, <4>2, JobsShape
      <4>4. row[FsiJobs[n]] = "given"
        BY <1>a, <3>1, <4>2 DEF AreGiven
      <4> QED BY <2>4, <4>1, <4>3, <4>4
    <3> QED BY <2>1, <3>1, RulesStay DEF AreGiven
  <2>10. AreConsolidated(pos)'
    <3>1. ASSUME NEW i \in Items, Len(FsiJobs) + i < pos' PROVE FALSE
      <4>1. i \in Nat \ {0} /\ Len(FsiJobs) \in Nat
        BY DocumentShape, JobsShape
      <4> QED BY <1>b, <2>1, <2>2, <3>1, <4>1
    <3> QED BY <3>1 DEF AreConsolidated
  <2> QED BY <2>7, <2>8, <2>9, <2>10 DEF RowsInv
<1>4. CASE FinishConsolidation
  <2> DEFINE i == Top.job[1]
             right == IsRight(Top)
  <2>1. /\ Returning("evaluate") /\ Top.job[2] = 0 /\ pos' = pos + 1 /\ rules' = rules
        /\ row' = row /\ eligible' = eligible /\ evaluations' = evaluations
        /\ consolidated' = [consolidated EXCEPT ![i] = IF right THEN "right" ELSE "early"]
    BY <1>4 DEF FinishConsolidation
  <2>2. /\ i \in Items /\ Top.job = <<i, 0>> /\ pos = Len(FsiJobs) + i
        /\ stack # <<>> /\ stack[1].job = <<i, 0>>
    BY <2>1, BaseReturns
  <2>3. Safe(<<i, 0>>) => right
    BY <2>2, GoodIsRight DEF ReadInv
  <2>4. i \in Nat /\ Len(FsiJobs) \in Nat /\ \A k \in Items : k \in Nat
    BY <2>2, DocumentShape, JobsShape
  <2> HIDE DEF i, right
  <2>5. /\ consolidated'[i] = IF right THEN "right" ELSE "early"
        /\ \A k \in Items : k # i => consolidated'[k] = consolidated[k]
    BY <1>0, <2>1, <2>2 DEF TypeOK
  <2>6. (\A y \in AllRows : ~HasRule(y) => row[y] = "settled")'
    BY <2>1, RulesStay DEF RowsInv
  <2>7. AreDone(pos)'
    <3>1. \A n \in 1..Len(FsiJobs) : n < pos
      <4>1. i # 0
        BY <2>2, DocumentShape
      <4> QED BY <2>2, <2>4, <4>1
    <3> QED BY <1>a, <2>1, <3>1, RulesStay, OrderlyStays DEF AreDone
  <2>8. AreGiven(pos)'
    <3>1. \A n \in 1..Len(FsiJobs) : n >= pos' => n >= pos
      BY <1>b, <2>1, JobsShape
    <3> QED BY <1>a, <2>1, <3>1, RulesStay DEF AreGiven
  <2>9. AreConsolidated(pos)'
    <3>1. ASSUME NEW k \in Items, Len(FsiJobs) + k < pos', HasRule(<<k, 0>>), Safe(<<k, 0>>)
          PROVE  consolidated'[k] = "right"
      <4>1. CASE k = i
        BY <2>3, <2>5, <3>1, <4>1
      <4>2. CASE k # i
        <5>1. Len(FsiJobs) + k < pos
          BY <1>b, <2>1, <2>2, <2>4, <3>1, <4>2
        <5>2. consolidated[k] = "right"
          BY <1>a, <3>1, <5>1 DEF AreConsolidated
        <5> QED BY <2>5, <4>2, <5>2
      <4> QED BY <4>1, <4>2
    <3> QED BY <2>1, <3>1, RulesStay, OrderlyStays DEF AreConsolidated
  <2> QED BY <2>6, <2>7, <2>8, <2>9 DEF RowsInv
<1>5. CASE EvaluateAgain
  <2>1. /\ document' = document /\ evaluations' = evaluations + 1 /\ pos' = 1
        /\ evaluations \in Nat \ {0} /\ rules' = rules /\ row' = row
    BY <1>0, <1>5, DatasourceAssumption DEF EvaluateAgain, TypeOK, document
  <2>2. (\A y \in AllRows : ~HasRule(y) => row[y] = "settled")'
    BY <2>1, RulesStay DEF RowsInv
  <2>3. AreGiven(pos)'
    <3>1. evaluations' # 1
      BY <2>1
    <3> QED BY <3>1 DEF AreGiven
  <2>4. AreDone(pos)'
    <3>1. \A n \in 1..Len(FsiJobs) : ~ n < pos'
      BY <2>1
    <3> QED BY <3>1 DEF AreDone
  <2>5. AreConsolidated(pos)'
    <3>1. \A k \in Items : ~ Len(FsiJobs) + k < pos'
      BY <2>1, DocumentShape, JobsShape
    <3> QED BY <3>1 DEF AreConsolidated
  <2> QED BY <2>2, <2>3, <2>4, <2>5 DEF RowsInv
<1>6. CASE UNCHANGED vars
  BY <1>0, <1>6, RowsStay DEF vars, document
<1> QED BY <1>1, <1>2, <1>3, <1>4, <1>5, <1>6 DEF Next, Evaluate

\* Rows whose scripts look back are right when an evaluation succeeds,
\* whatever the other scripts do, and a row is eligible exactly if its rule
\* returned a number, also when an earlier evaluation broke off.
THEOREM ScriptsThatLookBackAreSafe == Spec => []LookingBackIsSafe
<1>1. Init => StackInv /\ RowsInv /\ ReadInv
  BY StackInit, RowsInit
<1>2. StackInv /\ RowsInv /\ ReadInv /\ [Next]_vars => StackInv' /\ RowsInv' /\ ReadInv'
  BY StackStep, RowsStep, GoodStep
<1>3. StackInv /\ RowsInv => LookingBackIsSafe
  <2> SUFFICES ASSUME StackInv, RowsInv, mode = "done", NEW x \in AllRows, HasRule(x)
               PROVE  /\ x \in Orderly => row[x] = "settled"
                      /\ (x \in eligible) = (ReturnsNumber(x))
    BY DEF LookingBackIsSafe
  <2>1. PICK n \in 1..Len(FsiJobs) : FsiJobs[n] = x
    BY JobsShape
  <2>2. n < pos
    BY JobsShape DEF StackInv, WalkInv, TypeOK
  <2>3. /\ x \in Orderly => row[x] = "settled"
        /\ x \in eligible <=> ReturnsNumber(x)
    BY <2>1, <2>2 DEF RowsInv, AreDone
  <2>4. ReturnsNumber(x) \in BOOLEAN
    BY DEF ReturnsNumber
  <2> QED BY <2>3, <2>4
<1> QED BY <1>1, <1>2, <1>3, PTL DEF Spec

\* A consolidation rule that reads such rows, itself and through the
\* consolidations it asks for, is right, wherever in the document they are.
THEOREM ConsolidationsAreRight == Spec => []ConsolidationsSeeEveryRow
<1>1. Init => StackInv /\ RowsInv /\ ReadInv
  BY StackInit, RowsInit
<1>2. StackInv /\ RowsInv /\ ReadInv /\ [Next]_vars => StackInv' /\ RowsInv' /\ ReadInv'
  BY StackStep, RowsStep, GoodStep
<1>3. StackInv /\ RowsInv => ConsolidationsSeeEveryRow
  <2> SUFFICES ASSUME StackInv, RowsInv, mode = "done", NEW i \in Items, HasRule(<<i, 0>>),
                      ReadBy(<<i, 0>>) \subseteq Orderly
               PROVE  consolidated[i] = "right"
    BY DEF ConsolidationsSeeEveryRow
  <2>1. Len(FsiJobs) + i < pos
    BY JobsShape DEF StackInv, WalkInv, TypeOK
  <2>2. Safe(<<i, 0>>)
    BY DocumentShape DEF Safe
  <2> QED BY <2>1, <2>2 DEF RowsInv, AreConsolidated
<1> QED BY <1>1, <1>2, <1>3, PTL DEF Spec

-----------------------------------------------------------------------------
(* Which script sets the input of a company last.                           *)

SettersStand ==
    /\ \A c, job, k : Sets(c, job, k)' <=> Sets(c, job, k)
    /\ \A job, k : Setting(job, k)' = Setting(job, k)
    /\ \A job, k : LastToSet(job, k)' = LastToSet(job, k)

LEMMA SettersStay == rules' = rules => SettersStand
<1> SUFFICES ASSUME rules' = rules PROVE SettersStand
  OBVIOUS
<1>1. \A job : RuleOf(job)' = RuleOf(job)
  BY RulesStay
<1>2. \A c : Ruled(c)' = Ruled(c)
  BY RulesStay
<1>3. \A job : Reached(job)' = Reached(job)
  BY RulesStay
<1>4. \A job : HasRule(job)' <=> HasRule(job)
  BY RulesStay
<1>5. \A job, k : Updates(job, k)' <=> Updates(job, k)
  BY <1>1 DEF Updates
<1>6. \A job, k : UpdatesBelow(job, k)' <=> UpdatesBelow(job, k)
  BY <1>3, <1>5 DEF UpdatesBelow
<1>7. \A c, job, k : Sets(c, job, k)' <=> Sets(c, job, k)
  BY <1>2, <1>5, <1>6 DEF Sets
<1>8. \A job, k : Setting(job, k)' = Setting(job, k)
  BY <1>1, <1>4, <1>7 DEF Setting
<1>9. \A job, k : LastSetting(job, k)' = LastSetting(job, k)
  BY <1>1, <1>8 DEF LastSetting
<1>10. \A job, k : SetsItself(job, k)' <=> SetsItself(job, k)
  BY <1>8, <1>9 DEF SetsItself
<1>11. \A job, k : Leads(job, k)' = Leads(job, k)
  BY <1>2, <1>8, <1>9, <1>10 DEF Leads
<1>12. \A job, k : LastBelow(job, k)' = LastBelow(job, k)
  BY <1>11 DEF LastBelow
<1>13. \A job, k : LastToSet(job, k)' = LastToSet(job, k)
  BY <1>10, <1>12 DEF LastToSet
<1> QED BY <1>7, <1>8, <1>13 DEF SettersStand

\* A name a script gives is a name.
LEMMA NameShape ==
    ASSUME rules \in RuleTables, NEW job \in Job, NEW c \in Range(RuleOf(job).calls),
           c[1] = "update"
    PROVE  NameIn(c, job) \in Names
<1>1. RuleOf(job).calls \in Seq(Call)
  BY RuleType DEF Job
<1>2. c \in Call
  BY <1>1, ElementOfSeq, LenProperties DEF Range
<1>3. c[3] \in Names \cup {"companyName"}
  <2>1. c \notin {"rows", "consolidation"} \X Codes
    OBVIOUS
  <2>2. c \in {"one", "update"} \X Codes \X (Names \cup {"companyName"})
    BY <1>2, <2>1 DEF Call
  <2> QED BY <2>2
<1>4. CASE job \in AllRows
  BY <1>3, <1>4, DocumentShape DEF NameIn
<1>5. CASE job \notin AllRows
  <2>1. c[3] # "companyName"
    BY <1>5, RuleType DEF Job
  <2> QED BY <1>3, <2>1 DEF NameIn
<1> QED BY <1>4, <1>5

\* A script that comes to an update, its own or below it, has a call for it.
LEMMA UpdatesAreSet ==
    ASSUME rules \in RuleTables, NEW job \in Job, HasRule(job), NEW k,
           Updates(job, k) \/ UpdatesBelow(job, k)
    PROVE  Setting(job, k) # {}
<1> DEFINE calls == RuleOf(job).calls
<1>1. calls \in Seq(Call) /\ DOMAIN calls = 1..Len(calls)
  BY RuleType, LenProperties DEF Job
<1>2. \E c \in Range(calls) : Sets(c, job, k)
  <2>1. CASE Updates(job, k)
    BY <2>1 DEF Updates, Sets
  <2>2. CASE UpdatesBelow(job, k)
    <3>1. PICK i \in Reached(job) : Updates(<<i, 0>>, k)
      BY <2>2 DEF UpdatesBelow
    <3>2. PICK j \in Runs(job) : i = j \/ i \in Reached(<<j, 0>>)
      BY <3>1, ReachedBelow
    <3>3. PICK c \in Range(calls) : c[1] = "consolidation" /\ j \in Ruled(c[2])
      BY <3>2 DEF Runs
    <3>4. Updates(<<j, 0>>, k) \/ UpdatesBelow(<<j, 0>>, k)
      BY <3>1, <3>2 DEF UpdatesBelow
    <3> QED BY <3>3, <3>4 DEF Sets
  <2> QED BY <2>1, <2>2
<1>3. PICK n \in DOMAIN calls : Sets(calls[n], job, k)
  BY <1>1, <1>2 DEF Range
<1> QED BY <1>3 DEF Setting

\* An update that is the script's own is followed no further.
LEMMA LastIsItself ==
    ASSUME NEW job, NEW k, SetsItself(job, k)
    PROVE  LastToSet(job, k) = {job}
<1>1. Leads(job, k) = {}
  BY DEF Leads
<1>2. LastBelow(job, k) = {}
  <2>1. {} \in SUBSET Items /\ Leads(job, k) \subseteq {}
        /\ \A j \in {} : Leads(<<j, 0>>, k) \subseteq {}
    BY <1>1
  <2> QED BY <2>1 DEF LastBelow
<1> QED BY <1>2 DEF LastToSet

LEMMA LastBelowShape ==
    ASSUME NEW job, NEW k
    PROVE  /\ LastBelow(job, k) \subseteq Items
           /\ Leads(job, k) \subseteq LastBelow(job, k)
           /\ \A i \in LastBelow(job, k) : Leads(<<i, 0>>, k) \subseteq LastBelow(job, k)
           /\ \A S \in SUBSET Items :
                 Leads(job, k) \subseteq S /\ (\A j \in S : Leads(<<j, 0>>, k) \subseteq S) =>
                     LastBelow(job, k) \subseteq S
<1>1. LastBelow(job, k) \subseteq Items
  BY DEF LastBelow
<1>2. \A S \in SUBSET Items :
          Leads(job, k) \subseteq S /\ (\A j \in S : Leads(<<j, 0>>, k) \subseteq S) =>
              LastBelow(job, k) \subseteq S
  BY DEF LastBelow
<1>a. \A j : Leads(j, k) \subseteq Items
  BY RuledShape DEF Leads
<1>3. Leads(job, k) \subseteq LastBelow(job, k)
  BY <1>a DEF LastBelow
<1>4. ASSUME NEW i \in LastBelow(job, k), NEW x \in Leads(<<i, 0>>, k) PROVE x \in LastBelow(job, k)
  <2>1. x \in Items
    BY <1>a
  <2>2. ASSUME NEW S \in SUBSET Items, Leads(job, k) \subseteq S,
               \A j \in S : Leads(<<j, 0>>, k) \subseteq S
        PROVE  x \in S
    <3>1. i \in S
      BY <1>2, <2>2
    <3> QED BY <2>2, <3>1
  <2> QED BY <2>1, <2>2 DEF LastBelow
<1> QED BY <1>1, <1>2, <1>3, <1>4

\* An update below a consolidation is the last of the consolidation.
LEMMA LastIsBelow ==
    ASSUME NEW job, NEW k, NEW i \in Items, Leads(job, k) = {i}
    PROVE  LastToSet(job, k) = LastToSet(<<i, 0>>, k)
<1> DEFINE B == LastBelow(job, k)
           C == LastBelow(<<i, 0>>, k)
           S == {i} \cup C
<1>1. B \subseteq S
  <2>1. S \in SUBSET Items
    BY LastBelowShape
  <2>2. Leads(job, k) \subseteq S
    OBVIOUS
  <2>3. Leads(<<i, 0>>, k) \subseteq C /\ \A j \in C : Leads(<<j, 0>>, k) \subseteq C
    BY LastBelowShape
  <2>4. \A j \in S : Leads(<<j, 0>>, k) \subseteq S
    BY <2>3
  <2> HIDE DEF S
  <2> QED BY <2>1, <2>2, <2>4, LastBelowShape
<1>2. i \in B
  BY LastBelowShape
<1>3. C \subseteq B
  <2>1. /\ B \in SUBSET Items /\ Leads(<<i, 0>>, k) \subseteq B
        /\ \A j \in B : Leads(<<j, 0>>, k) \subseteq B
    BY <1>2, LastBelowShape
  <2> HIDE DEF B
  <2> QED BY <2>1, LastBelowShape
<1>4. B = {i} \cup C
  BY <1>1, <1>2, <1>3
<1>5. ~SetsItself(job, k)
  BY DEF Leads
<1> HIDE DEF B, C
<1>6. LastToSet(job, k) = {x \in {job} \cup {<<j, 0>> : j \in B} : SetsItself(x, k)}
  BY DEF LastToSet, B
<1>7. LastToSet(<<i, 0>>, k) = {x \in {<<i, 0>>} \cup {<<j, 0>> : j \in C} : SetsItself(x, k)}
  BY DEF LastToSet, C
<1>8. \A x : x \in LastToSet(job, k) => x \in LastToSet(<<i, 0>>, k)
  BY <1>4, <1>5, <1>6, <1>7
<1>9. \A x : x \in LastToSet(<<i, 0>>, k) => x \in LastToSet(job, k)
  BY <1>4, <1>6, <1>7
<1> QED BY <1>8, <1>9

-----------------------------------------------------------------------------
(* The inputs of the companies.                                             *)

\* What is left of a script is the end of its calls, one of which sets the
\* input of company k.
IsRestOf(f) ==
    /\ Len(f.todo) <= Len(RuleOf(f.job).calls)
    /\ \A j \in 1..Len(f.todo) :
          f.todo[j] = RuleOf(f.job).calls[j + (Len(RuleOf(f.job).calls) - Len(f.todo))]
IsToSet(f, k) == \E j \in 1..Len(f.todo) : Sets(f.todo[j], f.job, k)

\* A script that sets an input is to do so, or did it last.
HasSet(f, in) ==
    \A k \in Names : Setting(f.job, k) # {} => IsToSet(f, k) \/ LastToSet(f.job, k) = {in[k]}
Knows(f, in) == IsRestOf(f) /\ HasSet(f, in)
UpdateInv == \A a \in 1..Len(stack) : Knows(stack[a], inputs)

\* An input nobody sets is not there.  One that a rule before the position
\* sets is of the last of these, unless the rule at the position, which is
\* running, sets it as well.
IsSetBefore(k, p, s, in) ==
    \A n \in 1..Len(Jobs) : n < p /\ HasRule(Jobs[n]) /\ Setting(Jobs[n], k) # {} =>
        \/ s # <<>> /\ Setting(Jobs[p], k) # {}
        \/ \E m \in 1..Len(Jobs) : /\ n <= m /\ m < p /\ Setting(Jobs[m], k) # {}
                                   /\ LastToSet(Jobs[m], k) = {in[k]}
InputInv ==
    /\ \A k \in Names :
          inputs[k] = Nobody \/ \E n \in 1..Len(Jobs) : Setting(Jobs[n], k) # {}
    /\ mode \in {"running", "done"} => \A k \in Names : IsSetBefore(k, pos, stack, inputs)

LEMMA KnowsStays ==
    ASSUME rules' = rules, NEW s, stack' = s, \A a \in 1..Len(s) : Knows(s[a], inputs')
    PROVE  UpdateInv'
<1>1. SettersStand
  BY SettersStay
<1>2. \A job : RuleOf(job)' = RuleOf(job)
  BY RulesStay
<1>3. ASSUME NEW a \in 1..Len(s) PROVE Knows(stack[a], inputs)'
  <2> DEFINE f == s[a]
  <2>1. IsRestOf(f) /\ HasSet(f, inputs')
    BY DEF Knows
  <2>2. stack'[a] = f
    OBVIOUS
  <2> HIDE DEF f
  <2>3. IsRestOf(stack[a])'
    BY <1>2, <2>1, <2>2 DEF IsRestOf
  <2>4. \A k : IsToSet(stack[a], k)' <=> IsToSet(f, k)
    BY <1>1, <2>2 DEF IsToSet, SettersStand
  <2>5. HasSet(stack[a], inputs)'
    BY <1>1, <2>1, <2>2, <2>4 DEF HasSet, SettersStand
  <2> QED BY <2>3, <2>5 DEF Knows
<1> QED BY <1>3 DEF UpdateInv

\* A script starts with all its calls in front of it.
LEMMA EnterKnows ==
    ASSUME TypeOK, NEW job \in Job, HasRule(job), NEW op \in {"evaluate", "call"}, NEW in
    PROVE  Knows(Enter(op, job), in)
<1> DEFINE e == Enter(op, job)
           calls == RuleOf(job).calls
<1>1. e.job = job /\ e.todo = calls
  BY EnterFrame
<1>2. calls \in Seq(Call) /\ Len(calls) \in Nat /\ DOMAIN calls = 1..Len(calls)
  BY RuleType, LenProperties DEF TypeOK, Job
<1> HIDE DEF e
<1>3. IsRestOf(e)
  <2>1. \A j \in 1..Len(calls) : j + (Len(calls) - Len(calls)) = j
    BY <1>2
  <2>2. Len(calls) <= Len(calls)
    BY <1>2
  <2> QED BY <1>1, <2>1, <2>2 DEF IsRestOf
<1>4. ASSUME NEW k \in Names, Setting(job, k) # {} PROVE IsToSet(e, k)
  <2>1. PICK n \in DOMAIN calls : Sets(calls[n], job, k)
    BY <1>4 DEF Setting
  <2> QED BY <1>1, <1>2, <2>1 DEF IsToSet
<1> QED BY <1>1, <1>3, <1>4 DEF Knows, HasSet, e

LEMMA AnsweredRest ==
    ASSUME NEW f \in Frame, f.todo # <<>>, NEW good \in BOOLEAN, IsRestOf(f), rules \in RuleTables
    PROVE  IsRestOf(Answered(f, good))
<1> DEFINE a == Answered(f, good)
           calls == RuleOf(f.job).calls
           t == Tail(f.todo)
<1>1. /\ a.job = f.job /\ a.todo = t /\ Len(f.todo) \in Nat /\ Len(t) = Len(f.todo) - 1
      /\ \A k \in 1..Len(t) : k + 1 \in 1..Len(f.todo) /\ t[k] = f.todo[k + 1]
  BY AnsweredFrame
<1>2. Len(calls) \in Nat
  BY RuleType, LenProperties DEF Frame, Job
<1>3. /\ Len(f.todo) <= Len(calls)
      /\ \A j \in 1..Len(f.todo) : f.todo[j] = calls[j + (Len(calls) - Len(f.todo))]
  BY DEF IsRestOf
<1>4. RuleOf(a.job).calls = calls
  BY <1>1
<1> HIDE DEF a, calls, t
<1>5. Len(t) <= Len(calls)
  BY <1>1, <1>2, <1>3
<1>6. ASSUME NEW j \in 1..Len(t) PROVE t[j] = calls[j + (Len(calls) - Len(t))]
  <2>1. (j + 1) + (Len(calls) - Len(f.todo)) = j + (Len(calls) - Len(t))
    BY <1>1, <1>2
  <2> QED BY <1>1, <1>3, <2>1
<1> QED BY <1>1, <1>4, <1>5, <1>6 DEF IsRestOf, a

\* A call that does not set the input leaves the one that does in front of
\* the script.
LEMMA AnsweredIsToSet ==
    ASSUME NEW f \in Frame, f.todo # <<>>, NEW good \in BOOLEAN, NEW k, IsToSet(f, k),
           ~Sets(Head(f.todo), f.job, k)
    PROVE  IsToSet(Answered(f, good), k)
<1> DEFINE a == Answered(f, good)
<1>1. PICK n \in 1..Len(f.todo) : Sets(f.todo[n], f.job, k)
  BY DEF IsToSet
<1>2. n # 1
  BY <1>1, AnsweredFrame
<1>3. n - 1 \in 1..Len(Tail(f.todo)) /\ Tail(f.todo)[n - 1] = f.todo[n]
  BY <1>2, AnsweredFrame
<1>4. a.todo = Tail(f.todo) /\ a.job = f.job
  BY AnsweredFrame
<1> HIDE DEF a
<1>5. IsToSet(a, k)
  BY <1>1, <1>3, <1>4 DEF IsToSet
<1> QED BY <1>5 DEF a

\* The call after which there is none that sets it is the last to do so.
LEMMA AnsweredLast ==
    ASSUME NEW f \in Frame, f.todo # <<>>, NEW good \in BOOLEAN, NEW k, IsRestOf(f), HasRule(f.job),
           rules \in RuleTables, Sets(Head(f.todo), f.job, k), ~IsToSet(Answered(f, good), k)
    PROVE  Setting(f.job, k) # {} /\ LastSetting(f.job, k) = Head(f.todo)
<1> DEFINE a == Answered(f, good)
           calls == RuleOf(f.job).calls
           t == Tail(f.todo)
           d == Len(calls) - Len(f.todo)
           S == Setting(f.job, k)
<1>1. /\ a.job = f.job /\ a.todo = t /\ Len(f.todo) \in Nat /\ Len(t) = Len(f.todo) - 1
      /\ \A j \in 1..Len(f.todo) : j = 1 \/ (j - 1 \in 1..Len(t) /\ t[j - 1] = f.todo[j])
      /\ Head(f.todo) = f.todo[1]
  BY AnsweredFrame
<1>2. Len(f.todo) # 0
  BY EmptySeq DEF Frame
<1>3. Len(calls) \in Nat /\ DOMAIN calls = 1..Len(calls)
  BY RuleType, LenProperties DEF Frame, Job
<1>4. Len(f.todo) <= Len(calls) /\ \A j \in 1..Len(f.todo) : f.todo[j] = calls[j + d]
  BY DEF IsRestOf
<1>5. S = {n \in 1..Len(calls) : Sets(calls[n], f.job, k)}
  BY <1>3 DEF Setting
<1>6. \A j \in 1..Len(t) : ~Sets(t[j], f.job, k)
  BY <1>1 DEF IsToSet
<1>7. LastSetting(f.job, k) = calls[Max(S)]
  BY DEF LastSetting
<1>8. d \in Int /\ d >= 0 /\ d + Len(f.todo) = Len(calls)
  BY <1>1, <1>3, <1>4
<1> HIDE DEF a, calls, t, d, S
<1>9. 1 \in 1..Len(f.todo) /\ 1 + d \in 1..Len(calls) /\ Head(f.todo) = calls[1 + d]
  BY <1>1, <1>2, <1>4, <1>8
<1>10. 1 + d \in S
  BY <1>5, <1>9
<1>11. ASSUME NEW n \in S PROVE n <= 1 + d /\ n \in Nat
  <2>1. n \in 1..Len(calls) /\ Sets(calls[n], f.job, k)
    BY <1>5
  <2>2. ASSUME n > 1 + d PROVE FALSE
    <3>1. n - d \in 1..Len(f.todo) /\ n - d # 1 /\ (n - d) + d = n
      BY <1>1, <1>3, <1>8, <2>1, <2>2
    <3>2. f.todo[n - d] = calls[n]
      BY <1>4, <3>1
    <3>3. (n - d) - 1 \in 1..Len(t) /\ t[(n - d) - 1] = f.todo[n - d]
      BY <1>1, <3>1
    <3> QED BY <1>6, <2>1, <3>2, <3>3
  <2>3. n \in Nat /\ n \in Int
    BY <1>3, <2>1
  <2>4. d + 1 \in Int
    BY <1>8
  <2> QED BY <1>8, <2>2, <2>3, <2>4
<1>12. 1 + d \in Nat
  BY <1>8
<1>13. \A j \in S : 1 + d >= j
  BY <1>11, <1>12
<1>14. \A n \in S : (\A j \in S : n >= j) => n = 1 + d
  BY <1>10, <1>11, <1>12
<1>15. Max(S) = 1 + d
  BY <1>10, <1>13, <1>14 DEF Max
<1> QED BY <1>7, <1>9, <1>10, <1>15 DEF S

\* A call that is answered.
LEMMA AnsweredKnows ==
    ASSUME NEW f \in Frame, f.todo # <<>>, NEW good \in BOOLEAN, HasRule(f.job),
           rules \in RuleTables, NEW in, Knows(f, in), NEW jn,
           \A k \in Names : ~Sets(Head(f.todo), f.job, k) => jn[k] = in[k],
           \A k \in Names : /\ Sets(Head(f.todo), f.job, k)
                            /\ Setting(f.job, k) # {} /\ LastSetting(f.job, k) = Head(f.todo)
                            => LastToSet(f.job, k) = {jn[k]}
    PROVE  Knows(Answered(f, good), jn)
<1> DEFINE a == Answered(f, good)
<1>1. IsRestOf(f) /\ HasSet(f, in)
  BY DEF Knows
<1>2. IsRestOf(a)
  BY <1>1, AnsweredRest
<1>3. a.job = f.job
  BY AnsweredFrame
<1>4. ASSUME NEW k \in Names, Setting(f.job, k) # {}, ~IsToSet(a, k)
      PROVE  LastToSet(f.job, k) = {jn[k]}
  <2>1. CASE Sets(Head(f.todo), f.job, k)
    BY <1>1, <1>4, <2>1, AnsweredLast
  <2>2. CASE ~Sets(Head(f.todo), f.job, k)
    <3>1. ~IsToSet(f, k)
      BY <1>4, <2>2, AnsweredIsToSet
    <3> QED BY <1>1, <1>4, <2>2, <3>1 DEF HasSet
  <2> QED BY <2>1, <2>2
<1> HIDE DEF a
<1>5. HasSet(a, jn)
  BY <1>3, <1>4 DEF HasSet
<1> QED BY <1>2, <1>5 DEF Knows, a

\* An update is below what every other script on the stack waits for.
LEMMA UpdateIsBelow ==
    ASSUME StackInv, stack # <<>>, NEW k, Updates(Top.job, k), NEW a \in 1..Len(stack),
           a # Len(stack)
    PROVE  /\ Sets(Head(stack[a].todo), stack[a].job, k) /\ IsToSet(stack[a], k)
           /\ Setting(stack[a].job, k) # {}
<1> DEFINE f == stack[a]
           g == stack[a + 1]
<1>1. /\ Len(stack) \in Nat \ {0} /\ Len(stack) \in 1..Len(stack) /\ Top = stack[Len(stack)]
      /\ \A b \in 1..Len(stack) : stack[b] \in Frame /\ stack[b].job \in Job
  BY TopFrame
<1>2. a + 1 \in 1..Len(stack) /\ a \in 1..Len(stack) - 1 /\ a < Len(stack) /\ a + 1 <= Len(stack)
  BY <1>1
<1>3. /\ WaitsFor(f, g) /\ f \in Frame /\ f.job \in Job /\ g.job \in Job /\ FrameOK(f)
  BY <1>1, <1>2 DEF StackInv, StackOK
<1>a. \A b \in 1..Len(stack) : b # 1 => stack[b].job[2] = 0
  <2> SUFFICES ASSUME NEW b \in 1..Len(stack), b # 1 PROVE stack[b].job[2] = 0
    OBVIOUS
  <2>1. b - 1 \in 1..Len(stack) - 1 /\ (b - 1) + 1 = b
    BY <1>1
  <2>2. WaitsFor(stack[b - 1], stack[(b - 1) + 1])
    BY <2>1 DEF StackInv, StackOK
  <2> QED BY <2>1, <2>2 DEF WaitsFor
<1>4. Top.job[2] = 0 /\ Top.job = <<Top.job[1], 0>>
  <2>1. Len(stack) # 1
    BY <1>1, <1>2
  <2> QED BY <1>1, <1>a, <2>1, DocumentShape DEF Job
<1>5. g.job = <<g.job[1], 0>>
  BY <1>3, DocumentShape DEF Job, WaitsFor
<1>6. Updates(<<g.job[1], 0>>, k) \/ UpdatesBelow(<<g.job[1], 0>>, k)
  <2>1. CASE a + 1 = Len(stack)
    BY <1>1, <1>5, <2>1
  <2>2. CASE a + 1 # Len(stack)
    <3>1. a + 1 < Len(stack)
      BY <1>1, <1>2, <2>2
    <3>2. Top.job[1] \in Reached(g.job)
      BY <1>1, <1>2, <3>1 DEF StackInv, Nested
    <3> QED BY <1>4, <1>5, <3>2 DEF UpdatesBelow
  <2> QED BY <2>1, <2>2
<1> HIDE DEF f, g
<1>7. Sets(Head(f.todo), f.job, k)
  BY <1>3, <1>6 DEF Sets, WaitsFor
<1>8. /\ f.todo # <<>> /\ f.todo \in Seq(Call)
  BY <1>3 DEF WaitsFor, Frame
<1>9. Head(f.todo) = f.todo[1] /\ 1 \in 1..Len(f.todo)
  BY <1>8, EmptySeq, HeadTailProperties
<1>10. IsToSet(f, k)
  BY <1>7, <1>9 DEF IsToSet
<1>11. Setting(f.job, k) # {}
  <2> DEFINE calls == RuleOf(f.job).calls
  <2>1. Head(f.todo) \in Range(calls) /\ HasRule(f.job)
    BY <1>3, <1>9 DEF FrameOK
  <2>2. PICK n \in DOMAIN calls : calls[n] = Head(f.todo)
    BY <2>1 DEF Range
  <2> QED BY <1>7, <2>1, <2>2 DEF Setting
<1> QED BY <1>7, <1>10, <1>11 DEF f

\* An update is one of the rule at the position.
LEMMA UpdateIsOfPosition ==
    ASSUME StackInv, stack # <<>>, Top.todo # <<>>, Head(Top.todo)[1] = "update"
    PROVE  /\ NameIn(Head(Top.todo), Top.job) \in Names
           /\ Updates(Top.job, NameIn(Head(Top.todo), Top.job))
           /\ pos \in 1..Len(Jobs) /\ HasRule(Jobs[pos])
           /\ Setting(Jobs[pos], NameIn(Head(Top.todo), Top.job)) # {}
<1> DEFINE k == NameIn(Head(Top.todo), Top.job)
<1>1. /\ Top.job \in Job /\ HasRule(Top.job) /\ Head(Top.todo) \in Range(RuleOf(Top.job).calls)
      /\ Len(stack) \in Nat \ {0} /\ Top = stack[Len(stack)] /\ 1 \in 1..Len(stack)
      /\ rules \in RuleTables /\ pos \in 1..Len(Jobs) /\ stack[1].job = Jobs[pos]
  BY TopFrame DEF FrameOK, StackInv, TypeOK, WalkInv
<1>2. k \in Names
  BY <1>1, NameShape
<1>3. Updates(Top.job, k)
  BY <1>1 DEF Updates
<1>4. HasRule(Jobs[pos])
  BY <1>1 DEF StackInv, StackOK, FrameOK
<1> HIDE DEF k
<1>5. Setting(Jobs[pos], k) # {}
  <2>1. CASE Len(stack) = 1
    BY <1>1, <1>3, <2>1, UpdatesAreSet
  <2>2. CASE Len(stack) # 1
    BY <1>1, <1>3, <2>2, UpdateIsBelow
  <2> QED BY <2>1, <2>2
<1> QED BY <1>1, <1>2, <1>3, <1>4, <1>5 DEF k

LEMMA InputInit == Init => InputInv /\ UpdateInv
<1> SUFFICES ASSUME Init PROVE InputInv /\ UpdateInv
  OBVIOUS
<1>1. inputs = [k \in Names |-> Nobody] /\ pos = 1 /\ stack = <<>> /\ Len(stack) = 0
  BY DEF Init
<1>2. \A n \in 1..Len(Jobs) : ~ n < pos
  BY <1>1, JobsShape
<1> QED BY <1>1, <1>2 DEF InputInv, UpdateInv, IsSetBefore

LEMMA UpdateStep ==
    ASSUME StackInv, UpdateInv, [Next]_vars
    PROVE  UpdateInv'
<1>0. TypeOK /\ WalkInv /\ rules \in RuleTables
  BY DEF StackInv, TypeOK
<1>1. \A a \in 1..Len(stack) : Knows(stack[a], inputs)
  BY DEF UpdateInv
<1>2. ASSUME stack # <<>>, Top.todo # <<>>, rules' = rules, inputs' = inputs,
             \E good \in BOOLEAN : stack' = Replace(Answered(Top, good)),
             Ruled(Wanted) = {} \/ Head(Top.todo)[1] # "consolidation",
             Head(Top.todo)[1] # "update"
      PROVE  UpdateInv'
  <2>1. PICK good \in BOOLEAN : stack' = Replace(Answered(Top, good))
    BY <1>2
  <2> DEFINE s == Replace(Answered(Top, good))
  <2>2. /\ Len(s) = Len(stack)
        /\ \A k \in 1..Len(s) : s[k] = IF k = Len(s) THEN Answered(Top, good) ELSE stack[k]
    BY <1>2, AnswerKeeps
  <2>3. /\ Top \in Frame /\ HasRule(Top.job) /\ Top = stack[Len(stack)] /\ Len(stack) \in 1..Len(stack)
    BY <1>2, TopFrame DEF FrameOK
  <2>4. \A k \in Names : ~Sets(Head(Top.todo), Top.job, k)
    BY <1>2 DEF Sets, Wanted
  <2>5. Knows(Answered(Top, good), inputs)
    BY <1>0, <1>1, <1>2, <2>3, <2>4, AnsweredKnows
  <2> HIDE DEF s
  <2>6. \A a \in 1..Len(s) : Knows(s[a], inputs)
    BY <1>1, <2>2, <2>5
  <2>7. stack' = s
    BY <2>1 DEF s
  <2> QED BY <1>2, <2>6, <2>7, KnowsStays
<1>3. CASE ReadRows
  <2>1. (\A x \in Read(Head(Top.todo), Top.job) : row[x] = "settled") \in BOOLEAN
    OBVIOUS
  <2>2. /\ stack # <<>> /\ Top.todo # <<>> /\ Head(Top.todo)[1] \in {"one", "rows"}
        /\ stack' = Replace(Answered(Top, \A x \in Read(Head(Top.todo), Top.job) : row[x] = "settled"))
        /\ rules' = rules /\ inputs' = inputs
    BY <1>3 DEF ReadRows, Calling, document
  <2>3. \E good \in BOOLEAN : stack' = Replace(Answered(Top, good))
    BY <2>1, <2>2
  <2> QED BY <1>2, <2>2, <2>3
<1>4. CASE UpdateInput
  <2> DEFINE c == Head(Top.todo)
             q == NameIn(c, Top.job)
             s == Replace(Answered(Top, TRUE))
  <2>1. /\ stack # <<>> /\ Top.todo # <<>> /\ c[1] = "update" /\ rules' = rules
        /\ inputs' = [inputs EXCEPT ![q] = Top.job] /\ stack' = s
    BY <1>4 DEF UpdateInput, Calling, document
  <2>2. q \in Names /\ Updates(Top.job, q)
    BY <2>1, UpdateIsOfPosition
  <2>3. /\ Len(s) = Len(stack)
        /\ \A k \in 1..Len(s) : s[k] = IF k = Len(s) THEN Answered(Top, TRUE) ELSE stack[k]
    BY <2>1, AnswerKeeps
  <2>4. /\ Top \in Frame /\ HasRule(Top.job) /\ Top = stack[Len(stack)] /\ Len(stack) \in 1..Len(stack)
    BY <2>1, TopFrame DEF FrameOK
  <2>5. \A k \in Names : Sets(c, Top.job, k) <=> q = k
    BY <2>1 DEF Sets
  <2>a. Top.todo # <<>>
    BY <2>1
  <2>b. Knows(Top, inputs)
    BY <1>1, <2>4
  <2> HIDE DEF q, s
  <2>6. inputs'[q] = Top.job /\ \A k \in Names : k # q => inputs'[k] = inputs[k]
    BY <1>0, <2>1, <2>2 DEF TypeOK
  <2>7. \A k \in Names : ~Sets(c, Top.job, k) => inputs'[k] = inputs[k]
    BY <2>5, <2>6
  <2>8. ASSUME NEW k \in Names, Sets(c, Top.job, k), Setting(Top.job, k) # {},
               LastSetting(Top.job, k) = c
        PROVE  LastToSet(Top.job, k) = {inputs'[k]}
    <3>1. k = q
      BY <2>5, <2>8
    <3>2. SetsItself(Top.job, k)
      BY <2>1, <2>8 DEF SetsItself
    <3> QED BY <2>6, <3>1, <3>2, LastIsItself
  <2>c. \A k \in Names : /\ Sets(c, Top.job, k)
                         /\ Setting(Top.job, k) # {} /\ LastSetting(Top.job, k) = c
                         => LastToSet(Top.job, k) = {inputs'[k]}
    BY <2>8
  <2>9. Knows(Answered(Top, TRUE), inputs')
    <3> DEFINE jn == inputs'
    <3>1. /\ \A k \in Names : ~Sets(Head(Top.todo), Top.job, k) => jn[k] = inputs[k]
          /\ \A k \in Names : /\ Sets(Head(Top.todo), Top.job, k)
                              /\ Setting(Top.job, k) # {} /\ LastSetting(Top.job, k) = Head(Top.todo)
                              => LastToSet(Top.job, k) = {jn[k]}
      BY <2>7, <2>c
    <3> HIDE DEF jn
    <3>2. \A good \in BOOLEAN : Knows(Answered(Top, good), jn)
      BY <1>0, <2>4, <2>a, <2>b, <3>1, AnsweredKnows
    <3> QED BY <3>2 DEF jn
  <2>10. ASSUME NEW a \in 1..Len(stack), a # Len(stack) PROVE Knows(stack[a], inputs')
    <3>1. IsToSet(stack[a], q)
      BY <2>1, <2>2, <2>10, UpdateIsBelow
    <3>2. IsRestOf(stack[a]) /\ HasSet(stack[a], inputs)
      BY <1>1 DEF Knows
    <3>3. HasSet(stack[a], inputs')
      BY <2>6, <3>1, <3>2 DEF HasSet
    <3> QED BY <3>2, <3>3 DEF Knows
  <2>11. \A a \in 1..Len(s) : Knows(s[a], inputs')
    BY <2>3, <2>9, <2>10
  <2> QED BY <2>1, <2>11, KnowsStays
<1>5. CASE ConsolidateNothing
  <2>1. /\ stack # <<>> /\ Top.todo # <<>> /\ Head(Top.todo)[1] = "consolidation"
        /\ Ruled(Wanted) = {} /\ stack' = Replace(Answered(Top, TRUE))
        /\ rules' = rules /\ inputs' = inputs
    BY <1>5 DEF ConsolidateNothing, Calling, document
  <2>2. \E good \in BOOLEAN : stack' = Replace(Answered(Top, good))
    BY <2>1
  <2> QED BY <1>2, <2>1, <2>2
<1>6. CASE Consolidate
  <2>1. /\ Calling({"consolidation"}) /\ rules' = rules /\ inputs' = inputs /\ stack # <<>>
    BY <1>6 DEF Consolidate, Calling, document
  <2>2. PICK i \in Ruled(Wanted) : RunBelow(i)
    BY <1>6 DEF Consolidate
  <2>3. CASE Len(stack) < StackLimit
    <3> DEFINE e == Enter("call", <<i, 0>>)
               s == Append(stack, e)
    <3>1. stack' = s
      BY <2>2, <2>3 DEF RunBelow
    <3>2. /\ Len(s) = Len(stack) + 1
          /\ \A k \in 1..Len(s) : s[k] = IF k = Len(s) THEN e ELSE stack[k]
      BY <2>1, CallKeeps
    <3>3. HasRule(<<i, 0>>) /\ <<i, 0>> \in Job
      BY <2>1, WantedIsRun
    <3>4. Knows(e, inputs)
      BY <1>0, <3>3, EnterKnows
    <3>5. Len(stack) \in Nat
      BY <2>1, TopFrame
    <3> HIDE DEF s, e
    <3>6. \A a \in 1..Len(s) : a = Len(s) \/ a \in 1..Len(stack)
      BY <3>2, <3>5
    <3>7. \A a \in 1..Len(s) : Knows(s[a], inputs)
      BY <1>1, <3>2, <3>4, <3>6
    <3> QED BY <2>1, <3>1, <3>7, KnowsStays
  <2>4. CASE ~ Len(stack) < StackLimit
    <3>1. stack' = stack
      BY <2>2, <2>4 DEF RunBelow
    <3> QED BY <1>1, <2>1, <3>1, KnowsStays
  <2> QED BY <2>3, <2>4
<1>7. CASE Return
  <2> DEFINE good == IsRight(Top)
             n == Len(stack) - 1
             f == stack[n]
             c == Head(f.todo)
             s == SubSeq(stack, 1, Len(stack) - 2) \o <<Answered(f, good)>>
  <2>1. /\ Returning("call") /\ stack # <<>> /\ stack' = s /\ Top.todo = <<>>
        /\ rules' = rules /\ inputs' = inputs
    BY <1>7 DEF Return, Returning, document
  <2>2. good \in BOOLEAN
    BY <2>1, GoodIsRight
  <2> HIDE DEF good
  <2>3. /\ Len(stack) >= 2 /\ n \in 1..Len(stack) /\ f \in Frame
        /\ f.todo # <<>> /\ WaitsFor(f, Top) /\ Len(s) = n
        /\ \A k \in 1..Len(s) : s[k] = IF k = Len(s) THEN Answered(stack[k], good) ELSE stack[k]
    BY <2>1, <2>2, ReturnKeeps
  <2>4. /\ Top.job \in Job /\ HasRule(Top.job) /\ Top = stack[Len(stack)]
        /\ Len(stack) \in 1..Len(stack) /\ Len(stack) \in Nat
    BY <2>1, TopFrame DEF FrameOK
  <2>5. HasRule(f.job)
    BY <2>3 DEF StackInv, StackOK, FrameOK
  <2>6. /\ c[1] = "consolidation" /\ Top.job[1] \in Ruled(c[2])
        /\ Top.job = <<Top.job[1], 0>> /\ Top.job[1] \in Items
    BY <2>3, <2>4, DocumentShape DEF WaitsFor, Job
  <2>7. Ruled(c[2]) = {Top.job[1]}
    BY <2>6, RuledShape
  <2>a. Knows(f, inputs) /\ HasSet(Top, inputs)
    BY <1>1, <2>3, <2>4 DEF Knows
  <2>b. \A k : ~IsToSet(Top, k)
    BY <2>1 DEF IsToSet
  <2> HIDE DEF f, c, s, n
  <2>8. ASSUME NEW k \in Names, Sets(c, f.job, k), Setting(f.job, k) # {},
               LastSetting(f.job, k) = c
        PROVE  LastToSet(f.job, k) = {inputs[k]}
    <3>1. Updates(Top.job, k) \/ UpdatesBelow(Top.job, k)
      <4>1. \E i \in Ruled(c[2]) : Updates(<<i, 0>>, k) \/ UpdatesBelow(<<i, 0>>, k)
        BY <2>6, <2>8 DEF Sets
      <4> QED BY <2>6, <2>7, <4>1
    <3>2. Setting(Top.job, k) # {}
      BY <1>0, <2>4, <3>1, UpdatesAreSet
    <3>3. LastToSet(Top.job, k) = {inputs[k]}
      BY <2>a, <2>b, <3>2 DEF HasSet
    <3>4. Leads(f.job, k) = {Top.job[1]}
      BY <2>6, <2>7, <2>8 DEF Leads, SetsItself
    <3>5. LastToSet(f.job, k) = LastToSet(<<Top.job[1], 0>>, k)
      BY <2>6, <3>4, LastIsBelow
    <3> QED BY <2>6, <3>3, <3>5
  <2>c. /\ \A k \in Names : ~Sets(Head(f.todo), f.job, k) => inputs[k] = inputs[k]
        /\ \A k \in Names : /\ Sets(Head(f.todo), f.job, k)
                            /\ Setting(f.job, k) # {} /\ LastSetting(f.job, k) = Head(f.todo)
                            => LastToSet(f.job, k) = {inputs[k]}
    BY <2>8 DEF c
  <2>9. Knows(Answered(f, good), inputs)
    BY <1>0, <2>2, <2>3, <2>5, <2>a, <2>c, AnsweredKnows
  <2>10. ASSUME NEW a \in 1..Len(s) PROVE Knows(s[a], inputs)
    <3>1. CASE a = Len(s)
      <4>1. s[a] = Answered(f, good)
        BY <2>3, <3>1 DEF f
      <4> QED BY <2>9, <4>1
    <3>2. CASE a # Len(s)
      <4>1. a \in 1..Len(stack)
        BY <2>3, <2>4 DEF n
      <4> QED BY <1>1, <2>3, <3>2, <4>1
    <3> QED BY <3>1, <3>2
  <2> QED BY <2>1, <2>10, KnowsStays
<1>8. CASE RunRule
  <2> DEFINE e == Enter("evaluate", Jobs[pos])
             s == <<e>>
  <2>1. /\ rules' = rules /\ HasRule(Jobs[pos]) /\ pos <= Len(Jobs) /\ stack' = s
    BY <1>8 DEF RunRule, AtJob, document
  <2>2. Jobs[pos] \in Job
    BY <1>0, <2>1, JobsShape DEF TypeOK, Job
  <2>3. Knows(e, inputs')
    BY <1>0, <2>1, <2>2, EnterKnows
  <2> HIDE DEF e
  <2>4. Len(s) = 1 /\ s[1] = e
    OBVIOUS
  <2>5. \A a \in 1..Len(s) : Knows(s[a], inputs')
    BY <2>3, <2>4
  <2> QED BY <2>1, <2>5, KnowsStays
<1>9. CASE SkipRule \/ Finish \/ FinishRow \/ FinishConsolidation \/ Throws \/ EvaluateAgain
  <2>1. stack' = <<>>
    BY <1>0, <1>9 DEF SkipRule, AtJob, Finish, FinishRow, FinishConsolidation, Throws,
                      EvaluateAgain, WalkInv
  <2> QED BY <2>1 DEF UpdateInv
<1>10. CASE UNCHANGED vars
  <2>1. stack' = stack /\ rules' = rules /\ inputs' = inputs
    BY <1>10 DEF vars
  <2> QED BY <1>1, <2>1, KnowsStays
<1> QED BY <1>3, <1>4, <1>5, <1>6, <1>7, <1>8, <1>9, <1>10 DEF Next, Evaluate

LEMMA IsSetStays ==
    ASSUME rules' = rules, NEW k, NEW p, NEW s, NEW in, pos' = p, stack' = s, inputs' = in,
           IsSetBefore(k, p, s, in)
    PROVE  IsSetBefore(k, pos, stack, inputs)'
<1>1. \A job : Setting(job, k)' = Setting(job, k)
  BY SettersStay DEF SettersStand
<1>2. \A job : LastToSet(job, k)' = LastToSet(job, k)
  BY SettersStay DEF SettersStand
<1>3. \A job : HasRule(job)' <=> HasRule(job)
  BY RulesStay
<1> QED BY <1>1, <1>2, <1>3 DEF IsSetBefore

LEMMA InputStep ==
    ASSUME StackInv, UpdateInv, InputInv, [Next]_vars
    PROVE  InputInv'
<1>0. TypeOK /\ WalkInv
  BY DEF StackInv
<1>1. pos \in Nat \ {0} /\ \A n \in 1..Len(Jobs) : n \in Nat
  BY <1>0, JobsShape DEF TypeOK
<1>2. \A k \in Names : inputs[k] = Nobody \/ \E n \in 1..Len(Jobs) : Setting(Jobs[n], k) # {}
  BY DEF InputInv
<1>3. ASSUME rules' = rules,
             \A k \in Names : inputs'[k] = Nobody \/ \E n \in 1..Len(Jobs) : Setting(Jobs[n], k) # {},
             mode' \in {"running", "done"} => \A k \in Names : IsSetBefore(k, pos', stack', inputs')
      PROVE  InputInv'
  <2>1. \A job, k : Setting(job, k)' = Setting(job, k)
    BY <1>3, SettersStay DEF SettersStand
  <2>4. \A k \in Names : (inputs[k] = Nobody \/ \E n \in 1..Len(Jobs) : Setting(Jobs[n], k) # {})'
    BY <1>3, <2>1
  <2>5. (mode \in {"running", "done"} => \A k \in Names : IsSetBefore(k, pos, stack, inputs))'
    <3>1. ASSUME mode' \in {"running", "done"}, NEW k \in Names
          PROVE  IsSetBefore(k, pos, stack, inputs)'
      <4> DEFINE p == pos'
                 s == stack'
                 in == inputs'
      <4>1. pos' = p /\ stack' = s /\ inputs' = in /\ IsSetBefore(k, p, s, in)
        BY <1>3, <3>1
      <4> HIDE DEF p, s, in
      <4> QED BY <1>3, <4>1, IsSetStays
    <3> QED BY <3>1
  <2> QED BY <2>4, <2>5 DEF InputInv
\* The position and the inputs stay.
<1>4. ASSUME rules' = rules, inputs' = inputs, pos' = pos, stack # <<>> => stack' # <<>>,
             mode' \in {"running", "done"} => mode \in {"running", "done"}
      PROVE  InputInv'
  <2>1. ASSUME mode' \in {"running", "done"}, NEW k \in Names
        PROVE  IsSetBefore(k, pos', stack', inputs')
    <3>1. IsSetBefore(k, pos, stack, inputs)
      BY <1>4, <2>1 DEF InputInv
    <3> QED BY <1>4, <3>1 DEF IsSetBefore
  <2> QED BY <1>2, <1>3, <1>4, <2>1
<1>5. CASE ReadRows \/ ConsolidateNothing
  <2>1. /\ rules' = rules /\ inputs' = inputs /\ pos' = pos /\ mode' = mode /\ stack # <<>>
        /\ Top.todo # <<>> /\ \E good \in BOOLEAN : stack' = Replace(Answered(Top, good))
    BY <1>5 DEF ReadRows, ConsolidateNothing, Calling, document
  <2>2. stack' # <<>>
    BY <2>1, AnswerKeeps
  <2> QED BY <1>4, <2>1, <2>2
<1>6. CASE UpdateInput
  <2> DEFINE c == Head(Top.todo)
             q == NameIn(c, Top.job)
  <2>1. /\ stack # <<>> /\ Top.todo # <<>> /\ c[1] = "update" /\ rules' = rules
        /\ inputs' = [inputs EXCEPT ![q] = Top.job] /\ stack' = Replace(Answered(Top, TRUE))
        /\ pos' = pos /\ mode' = mode /\ mode = "running"
    BY <1>6 DEF UpdateInput, Calling, document
  <2>2. stack' # <<>>
    BY <2>1, AnswerKeeps
  <2>3. q \in Names /\ pos \in 1..Len(Jobs) /\ Setting(Jobs[pos], q) # {}
    BY <2>1, UpdateIsOfPosition
  <2> HIDE DEF q
  <2>4. \A k \in Names : k # q => inputs'[k] = inputs[k]
    BY <1>0, <2>1, <2>3 DEF TypeOK
  <2>5. \A k \in Names : inputs'[k] = Nobody \/ \E n \in 1..Len(Jobs) : Setting(Jobs[n], k) # {}
    BY <1>2, <2>3, <2>4
  <2>6. ASSUME NEW k \in Names PROVE IsSetBefore(k, pos', stack', inputs')
    <3>1. CASE k = q
      BY <2>1, <2>2, <2>3, <3>1 DEF IsSetBefore
    <3>2. CASE k # q
      <4>1. IsSetBefore(k, pos, stack, inputs)
        BY <2>1 DEF InputInv
      <4>2. inputs'[k] = inputs[k]
        BY <2>4, <3>2
      <4> QED BY <2>1, <2>2, <4>1, <4>2 DEF IsSetBefore
    <3> QED BY <3>1, <3>2
  <2> QED BY <1>3, <2>1, <2>5, <2>6
<1>7. CASE Consolidate
  <2>1. /\ Calling({"consolidation"}) /\ rules' = rules /\ inputs' = inputs /\ pos' = pos
        /\ stack # <<>> /\ mode = "running"
    BY <1>7 DEF Consolidate, Calling, document
  <2>2. PICK i \in Ruled(Wanted) : RunBelow(i)
    BY <1>7 DEF Consolidate
  <2>3. stack' # <<>>
    <3>1. CASE Len(stack) < StackLimit
      BY <2>1, <2>2, <3>1, CallKeeps DEF RunBelow
    <3>2. CASE ~ Len(stack) < StackLimit
      BY <2>1, <2>2, <3>2 DEF RunBelow
    <3> QED BY <3>1, <3>2
  <2> QED BY <1>4, <2>1, <2>3
<1>8. CASE Return
  <2>1. /\ Returning("call") /\ rules' = rules /\ inputs' = inputs /\ pos' = pos /\ mode' = mode
        /\ stack # <<>>
        /\ stack' = SubSeq(stack, 1, Len(stack) - 2)
                    \o <<Answered(stack[Len(stack) - 1], IsRight(Top))>>
    BY <1>8 DEF Return, Returning, document
  <2>2. IsRight(Top) \in BOOLEAN
    BY <2>1, GoodIsRight
  <2>3. stack' # <<>>
    BY <2>1, <2>2, ReturnKeeps
  <2> QED BY <1>4, <2>1, <2>3
<1>9. CASE RunRule \/ Finish \/ UNCHANGED vars
  <2>1. /\ rules' = rules /\ inputs' = inputs /\ pos' = pos
        /\ stack # <<>> => stack' # <<>>
        /\ mode' \in {"running", "done"} => mode \in {"running", "done"}
    BY <1>9 DEF RunRule, Finish, AtJob, vars, document
  <2> QED BY <1>4, <2>1
<1>10. CASE Throws
  <2>1. rules' = rules /\ inputs' = inputs /\ mode' = "failed"
    BY <1>10 DEF Throws, document
  <2> QED BY <1>2, <1>3, <2>1
<1>11. CASE EvaluateAgain
  <2>1. rules' = rules /\ inputs' = inputs /\ pos' = 1
    BY <1>11 DEF EvaluateAgain, document
  <2>2. \A n \in 1..Len(Jobs) : ~ n < pos'
    BY <1>1, <2>1
  <2>3. \A k \in Names : IsSetBefore(k, pos', stack', inputs')
    BY <2>2 DEF IsSetBefore
  <2> QED BY <1>2, <1>3, <2>1, <2>3
<1>12. CASE SkipRule
  <2>1. /\ rules' = rules /\ inputs' = inputs /\ pos' = pos + 1 /\ ~HasRule(Jobs[pos])
        /\ stack = <<>> /\ mode = "running"
    BY <1>12 DEF SkipRule, AtJob, document
  <2>2. ASSUME NEW k \in Names PROVE IsSetBefore(k, pos', stack', inputs')
    <3>1. IsSetBefore(k, pos, stack, inputs)
      BY <2>1 DEF InputInv
    <3>2. ASSUME NEW n \in 1..Len(Jobs), n < pos', HasRule(Jobs[n]), Setting(Jobs[n], k) # {}
          PROVE  \E m \in 1..Len(Jobs) : /\ n <= m /\ m < pos' /\ Setting(Jobs[m], k) # {}
                                         /\ LastToSet(Jobs[m], k) = {inputs'[k]}
      <4>1. n < pos
        <5>1. n # pos
          BY <2>1, <3>2
        <5> QED BY <1>1, <2>1, <3>2, <5>1
      <4>2. PICK m \in 1..Len(Jobs) : /\ n <= m /\ m < pos /\ Setting(Jobs[m], k) # {}
                                      /\ LastToSet(Jobs[m], k) = {inputs[k]}
        BY <2>1, <3>1, <3>2, <4>1 DEF IsSetBefore
      <4>3. m < pos'
        BY <1>1, <2>1, <4>2
      <4> QED BY <2>1, <4>2, <4>3
    <3> QED BY <3>2 DEF IsSetBefore
  <2> QED BY <1>2, <1>3, <2>1, <2>2
<1>13. CASE FinishRow \/ FinishConsolidation
  <2>1. /\ Returning("evaluate") /\ rules' = rules /\ inputs' = inputs /\ pos' = pos + 1
        /\ stack # <<>> /\ Top.todo = <<>> /\ mode = "running" /\ stack' = <<>>
    BY <1>13 DEF FinishRow, FinishConsolidation, Returning
  <2>2. /\ Len(stack) = 1 /\ Top = stack[1] /\ 1 \in 1..Len(stack)
        /\ pos \in 1..Len(Jobs) /\ Top.job = Jobs[pos]
    BY <1>0, <2>1, TopFrame DEF Returning, WalkInv
  <2>3. Knows(Top, inputs) /\ \A k : ~IsToSet(Top, k)
    BY <2>1, <2>2 DEF UpdateInv, IsToSet
  <2>4. \A k \in Names : Setting(Jobs[pos], k) # {} => LastToSet(Jobs[pos], k) = {inputs[k]}
    BY <2>2, <2>3 DEF Knows, HasSet
  <2>5. ASSUME NEW k \in Names PROVE IsSetBefore(k, pos', stack', inputs')
    <3>1. IsSetBefore(k, pos, stack, inputs)
      BY <2>1 DEF InputInv
    <3>2. ASSUME NEW n \in 1..Len(Jobs), n < pos', HasRule(Jobs[n]), Setting(Jobs[n], k) # {}
          PROVE  \E m \in 1..Len(Jobs) : /\ n <= m /\ m < pos' /\ Setting(Jobs[m], k) # {}
                                         /\ LastToSet(Jobs[m], k) = {inputs'[k]}
      <4>1. n <= pos /\ pos < pos'
        BY <1>1, <2>1, <3>2
      <4>2. CASE Setting(Jobs[pos], k) # {}
        <5>1. LastToSet(Jobs[pos], k) = {inputs'[k]}
          BY <2>1, <2>4, <4>2
        <5> QED BY <2>2, <4>1, <4>2, <5>1
      <4>3. CASE Setting(Jobs[pos], k) = {}
        <5>0. n # pos
          BY <3>2, <4>3
        <5>1. n < pos
          BY <1>1, <4>1, <5>0
        <5>2. PICK m \in 1..Len(Jobs) : /\ n <= m /\ m < pos /\ Setting(Jobs[m], k) # {}
                                        /\ LastToSet(Jobs[m], k) = {inputs[k]}
          BY <3>1, <3>2, <4>3, <5>1 DEF IsSetBefore
        <5>3. m < pos'
          BY <1>1, <2>1, <5>2
        <5> QED BY <2>1, <5>2, <5>3
      <4> QED BY <4>2, <4>3
    <3> QED BY <3>2 DEF IsSetBefore
  <2> QED BY <1>2, <1>3, <2>1, <2>5
<1> QED BY <1>5, <1>6, <1>7, <1>8, <1>9, <1>10, <1>11, <1>12, <1>13 DEF Next, Evaluate

\* When an evaluation succeeds, the input of a company is that of the last
\* script to set it, in the order of evaluate and of the calls of a script,
\* whatever company and code the script is for and an earlier evaluation left.
THEOREM InputsAreOfTheLast == Spec => []InputsAreOfTheLastScript
<1>1. Init => StackInv /\ UpdateInv /\ InputInv
  BY StackInit, InputInit
<1>2. StackInv /\ UpdateInv /\ InputInv /\ [Next]_vars => StackInv' /\ UpdateInv' /\ InputInv'
  BY StackStep, UpdateStep, InputStep
<1>3. StackInv /\ InputInv => InputsAreOfTheLastScript
  <2> SUFFICES ASSUME StackInv, InputInv, mode = "done", NEW k \in Names
               PROVE  LET setting == {n \in DOMAIN Jobs : Setting(Jobs[n], k) # {}}
                      IN  IF setting = {} THEN inputs[k] = Nobody
                          ELSE LastToSet(Jobs[Max(setting)], k) = {inputs[k]}
    BY DEF InputsAreOfTheLastScript
  <2> DEFINE setting == {n \in DOMAIN Jobs : Setting(Jobs[n], k) # {}}
  <2>1. /\ \A n : n \in setting <=> n \in 1..Len(Jobs) /\ Setting(Jobs[n], k) # {}
        /\ \A n \in 1..Len(Jobs) : n \in Nat
    BY JobsShape
  <2>2. stack = <<>> /\ \A n \in 1..Len(Jobs) : n < pos
    BY JobsShape DEF StackInv, WalkInv, TypeOK
  <2>3. \A n : Setting(Jobs[n], k) # {} => HasRule(Jobs[n])
    BY DEF Setting
  <2> SUFFICES IF setting = {} THEN inputs[k] = Nobody
               ELSE LastToSet(Jobs[Max(setting)], k) = {inputs[k]}
    OBVIOUS
  <2> HIDE DEF setting
  <2>4. CASE setting = {}
    BY <2>1, <2>4 DEF InputInv
  <2>5. CASE setting # {}
    <3>1. ASSUME NEW n \in setting
          PROVE  \E m \in setting : n <= m /\ LastToSet(Jobs[m], k) = {inputs[k]}
      <4>1. IsSetBefore(k, pos, stack, inputs)
        BY DEF InputInv
      <4> QED BY <2>1, <2>2, <2>3, <3>1, <4>1 DEF IsSetBefore
    <3>2. PICK m \in setting : \A n \in setting : n <= m
      <4>1. setting \subseteq 1..Len(Jobs) /\ Len(Jobs) \in Nat
        BY <2>1, JobsShape
      <4> QED BY <2>5, <4>1, LargestOf
    <3>3. m \in Nat /\ \A n \in setting : n \in Nat
      BY <2>1, <3>2
    <3>4. LastToSet(Jobs[m], k) = {inputs[k]}
      <4>1. PICK l \in setting : m <= l /\ LastToSet(Jobs[l], k) = {inputs[k]}
        BY <3>1
      <4>2. l = m
        BY <3>2, <3>3, <4>1
      <4> QED BY <4>1, <4>2
    <3>5. \A n \in setting : (\A j \in setting : n >= j) => n = m
      BY <3>2, <3>3
    <3>6. \A j \in setting : m >= j
      BY <3>2, <3>3
    <3>7. Max(setting) = m
      BY <3>5, <3>6 DEF Max
    <3> QED BY <2>5, <3>4, <3>7
  <2> QED BY <2>4, <2>5
<1> QED BY <1>1, <1>2, <1>3, PTL DEF Spec
=============================================================================
