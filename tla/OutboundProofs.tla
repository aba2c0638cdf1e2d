----------------------------- MODULE OutboundProofs -----------------------------
(***************************************************************************)
(* Proofs about the redaction of a request: for every text, every set of   *)
(* spans and every policy, and for every conversation of such requests.    *)
(***************************************************************************)
EXTENDS Outbound, SequenceTheorems, InductionLemmas

Span == [start : Nat, end : Nat, type : EntityType, score : Nat, action : Action \cup {NoAction}]
Hidden == [ph : Placeholder, type : EntityType, start : Nat, end : Nat]
Token == Word \cup Placeholder

\* Spans lie within the text and are not empty.
Within(text, spans) ==
  \A n \in DOMAIN spans : spans[n].start < spans[n].end /\ spans[n].end <= Len(text)

\* One after the other.
Apart(spans) == \A m, n \in DOMAIN spans : m < n => spans[m].end <= spans[n].start
--------------------------------------------------------------------------------
(* The order of the spans. *)

\* Of two spans the surer goes first, then the longer, the earlier, the first.
LEMMA BeforeIs ==
  ASSUME NEW spans \in Seq(Span), NEW i \in DOMAIN spans, NEW j \in DOMAIN spans
  PROVE  Before(spans, i, j) <=>
           \/ spans[i].score > spans[j].score
           \/ /\ spans[i].score = spans[j].score
              /\ \/ spans[i].start - spans[i].end < spans[j].start - spans[j].end
                 \/ /\ spans[i].start - spans[i].end = spans[j].start - spans[j].end
                    /\ \/ spans[i].start < spans[j].start
                       \/ spans[i].start = spans[j].start /\ i < j
<1> DEFINE a == Key(spans, i)
           b == Key(spans, j)
<1>1. /\ a[1] = - spans[i].score /\ a[2] = spans[i].start - spans[i].end
      /\ a[3] = spans[i].start /\ a[4] = i
      /\ b[1] = - spans[j].score /\ b[2] = spans[j].start - spans[j].end
      /\ b[3] = spans[j].start /\ b[4] = j
  BY DEF Key
<1>2. /\ spans[i].score \in Nat /\ spans[j].score \in Nat
      /\ spans[i].start \in Nat /\ spans[j].start \in Nat
      /\ spans[i].end \in Nat /\ spans[j].end \in Nat
      /\ i \in Nat /\ j \in Nat
  <2>1. spans[i] \in Span /\ spans[j] \in Span /\ i \in Nat /\ j \in Nat
    BY LenProperties, ElementOfSeq
  <2> QED BY <2>1 DEF Span
<1>3. Before(spans, i, j) <=>
        \E n \in 1..4 : a[n] < b[n] /\ \A m \in 1..(n - 1) : a[m] = b[m]
  BY DEF Before
<1> HIDE DEF a, b
<1>4. (\E n \in 1..4 : a[n] < b[n] /\ \A m \in 1..(n - 1) : a[m] = b[m]) <=>
        \/ a[1] < b[1]
        \/ a[1] = b[1] /\ a[2] < b[2]
        \/ a[1] = b[1] /\ a[2] = b[2] /\ a[3] < b[3]
        \/ a[1] = b[1] /\ a[2] = b[2] /\ a[3] = b[3] /\ a[4] < b[4]
  <2> DEFINE At(n) == a[n] < b[n] /\ \A m \in 1..(n - 1) : a[m] = b[m]
  <2>1. At(1) <=> a[1] < b[1]
    OBVIOUS
  <2>2. At(2) <=> a[1] = b[1] /\ a[2] < b[2]
    <3>1. 1..(2 - 1) = {1}
      OBVIOUS
    <3> QED BY <3>1
  <2>3. At(3) <=> a[1] = b[1] /\ a[2] = b[2] /\ a[3] < b[3]
    <3>1. 1..(3 - 1) = {1, 2}
      OBVIOUS
    <3> QED BY <3>1
  <2>4. At(4) <=> a[1] = b[1] /\ a[2] = b[2] /\ a[3] = b[3] /\ a[4] < b[4]
    <3>1. 1..(4 - 1) = {1, 2, 3}
      OBVIOUS
    <3> QED BY <3>1
  <2>5. 1..4 = {1, 2, 3, 4}
    OBVIOUS
  <2> HIDE DEF At
  <2>6. (\E n \in 1..4 : At(n)) <=> At(1) \/ At(2) \/ At(3) \/ At(4)
    BY <2>5
  <2>7. (\E n \in 1..4 : At(n)) <=>
           (\E n \in 1..4 : a[n] < b[n] /\ \A m \in 1..(n - 1) : a[m] = b[m])
    BY DEF At
  <2> QED BY <2>1, <2>2, <2>3, <2>4, <2>6, <2>7
<1>5. /\ a[1] < b[1] <=> spans[i].score > spans[j].score
      /\ a[1] = b[1] <=> spans[i].score = spans[j].score
  BY <1>1, <1>2, SMTT(30)
<1> QED BY <1>1, <1>3, <1>4, <1>5

\* Ranks are a strict total order, so there is one best span of any that overlap.
LEMMA BeforeOrders ==
  ASSUME NEW spans \in Seq(Span)
  PROVE  /\ \A i \in DOMAIN spans : ~ Before(spans, i, i)
         /\ \A i, j \in DOMAIN spans : i = j \/ Before(spans, i, j) \/ Before(spans, j, i)
         /\ \A i, j, k \in DOMAIN spans :
              Before(spans, i, j) /\ Before(spans, j, k) => Before(spans, i, k)
<1>1. \A i \in DOMAIN spans : /\ spans[i].score \in Nat /\ spans[i].start \in Nat
                              /\ spans[i].end \in Nat /\ i \in Nat
  <2>1. \A i \in DOMAIN spans : spans[i] \in Span /\ i \in Nat
    BY LenProperties, ElementOfSeq
  <2> QED BY <2>1 DEF Span
<1> DEFINE s(i) == spans[i].score
           l(i) == spans[i].start - spans[i].end
           b(i) == spans[i].start
<1>2. \A i \in DOMAIN spans : s(i) \in Int /\ l(i) \in Int /\ b(i) \in Int /\ i \in Int
  BY <1>1
<1>3. \A i, j \in DOMAIN spans :
        Before(spans, i, j) <=>
          \/ s(i) > s(j)
          \/ s(i) = s(j) /\ l(i) < l(j)
          \/ s(i) = s(j) /\ l(i) = l(j) /\ b(i) < b(j)
          \/ s(i) = s(j) /\ l(i) = l(j) /\ b(i) = b(j) /\ i < j
  <2> TAKE i, j \in DOMAIN spans
  <2> QED BY BeforeIs
<1> HIDE DEF s, l, b
<1>4. ASSUME NEW i \in DOMAIN spans PROVE ~ Before(spans, i, i)
  BY <1>2, <1>3
<1>5. ASSUME NEW i \in DOMAIN spans, NEW j \in DOMAIN spans
      PROVE  i = j \/ Before(spans, i, j) \/ Before(spans, j, i)
  BY <1>2, <1>3
<1>6. ASSUME NEW i \in DOMAIN spans, NEW j \in DOMAIN spans, NEW k \in DOMAIN spans,
             Before(spans, i, j), Before(spans, j, k)
      PROVE  Before(spans, i, k)
  BY <1>2, <1>3, <1>6, SMTT(30)
<1> QED BY <1>4, <1>5, <1>6

\* So is the order in the text.
LEMMA SoonerOrders ==
  ASSUME NEW spans \in Seq(Span)
  PROVE  /\ \A i \in DOMAIN spans : ~ Sooner(spans, i, i)
         /\ \A i, j \in DOMAIN spans : i = j \/ Sooner(spans, i, j) \/ Sooner(spans, j, i)
         /\ \A i, j, k \in DOMAIN spans :
              Sooner(spans, i, j) /\ Sooner(spans, j, k) => Sooner(spans, i, k)
<1>1. \A i \in DOMAIN spans : spans[i].start \in Nat
  <2>1. \A i \in DOMAIN spans : spans[i] \in Span
    BY LenProperties, ElementOfSeq
  <2> QED BY <2>1 DEF Span
<1>2. ASSUME NEW i \in DOMAIN spans PROVE ~ Sooner(spans, i, i)
  BY <1>1, BeforeOrders DEF Sooner
<1>3. ASSUME NEW i \in DOMAIN spans, NEW j \in DOMAIN spans
      PROVE  i = j \/ Sooner(spans, i, j) \/ Sooner(spans, j, i)
  BY <1>1, BeforeOrders DEF Sooner
<1>4. ASSUME NEW i \in DOMAIN spans, NEW j \in DOMAIN spans, NEW k \in DOMAIN spans,
             Sooner(spans, i, j), Sooner(spans, j, k)
      PROVE  Sooner(spans, i, k)
  BY <1>1, <1>4, BeforeOrders DEF Sooner
<1> QED BY <1>2, <1>3, <1>4

\* Both sorts come out as they should.
LEMMA ByRankIs ==
  ASSUME NEW spans \in Seq(Span), NEW S \in SUBSET DOMAIN spans
  PROVE  LET order == ByRank(spans, S) IN
         /\ order \in Seq(S) /\ Len(order) \in Nat /\ DOMAIN order = 1..Len(order)
         /\ \A i, j \in 1..Len(order) : i < j => Before(spans, order[i], order[j])
         /\ \A x \in S : \E i \in 1..Len(order) : order[i] = x
<1> DEFINE R == {p \in S \X S : Before(spans, p[1], p[2])}
           n == Cardinality(S)
           order == ByRank(spans, S)
           Good(f) == \A i, j \in 1..n : i < j => Before(spans, f[i], f[j])
<1>1. IsFiniteSet(S) /\ n \in Nat
  <2>1. IsFiniteSet(1..Len(spans)) /\ DOMAIN spans = 1..Len(spans)
    BY LenProperties, FS_Interval
  <2> QED BY <2>1, FS_Subset, FS_CardinalityType
<1>2. \A x, y \in S : <<x, y>> \in R <=> Before(spans, x, y)
  OBVIOUS
<1> HIDE DEF R
<1>3. Orders(R, S)
  BY <1>2, BeforeOrders DEF Orders
<1>4. \A f \in [1..n -> S] : OrderedBy(f, R, n) <=> Good(f)
  BY <1>2 DEF OrderedBy
<1>5. \E f \in [1..n -> S] : Good(f)
  BY <1>1, <1>3, <1>4, Sorted
<1>6. order = CHOOSE f \in [1..n -> S] : Good(f)
  BY DEF ByRank
<1>7. order \in [1..n -> S] /\ Good(order)
  BY <1>5, <1>6
<1>8. \A x \in S : \E i \in 1..n : order[i] = x
  BY <1>1, <1>3, <1>4, <1>7, SortedAll
<1>9. order \in Seq(S) /\ Len(order) = n /\ DOMAIN order = 1..n
  BY <1>1, <1>7
<1> QED BY <1>1, <1>7, <1>8, <1>9

\* The same for the order of the text.
LEMMA ByStartIs ==
  ASSUME NEW spans \in Seq(Span), NEW S \in SUBSET DOMAIN spans
  PROVE  LET order == ByStart(spans, S) IN
         /\ order \in Seq(S) /\ Len(order) \in Nat /\ DOMAIN order = 1..Len(order)
         /\ \A i, j \in 1..Len(order) : i < j => Sooner(spans, order[i], order[j])
         /\ \A x \in S : \E i \in 1..Len(order) : order[i] = x
<1> DEFINE R == {p \in S \X S : Sooner(spans, p[1], p[2])}
           n == Cardinality(S)
           order == ByStart(spans, S)
           Good(f) == \A i, j \in 1..n : i < j => Sooner(spans, f[i], f[j])
<1>1. IsFiniteSet(S) /\ n \in Nat
  <2>1. IsFiniteSet(1..Len(spans)) /\ DOMAIN spans = 1..Len(spans)
    BY LenProperties, FS_Interval
  <2> QED BY <2>1, FS_Subset, FS_CardinalityType
<1>2. \A x, y \in S : <<x, y>> \in R <=> Sooner(spans, x, y)
  OBVIOUS
<1> HIDE DEF R
<1>3. Orders(R, S)
  BY <1>2, SoonerOrders DEF Orders
<1>4. \A f \in [1..n -> S] : OrderedBy(f, R, n) <=> Good(f)
  BY <1>2 DEF OrderedBy
<1>5. \E f \in [1..n -> S] : Good(f)
  BY <1>1, <1>3, <1>4, Sorted
<1>6. order = CHOOSE f \in [1..n -> S] : Good(f)
  BY DEF ByStart
<1>7. order \in [1..n -> S] /\ Good(order)
  BY <1>5, <1>6
<1>8. \A x \in S : \E i \in 1..n : order[i] = x
  BY <1>1, <1>3, <1>4, <1>7, SortedAll
<1>9. order \in Seq(S) /\ Len(order) = n /\ DOMAIN order = 1..n
  BY <1>1, <1>7
<1> QED BY <1>1, <1>7, <1>8, <1>9
--------------------------------------------------------------------------------
(* Which spans are kept. *)

\* K has the spans of S that no better one of K overlaps.
KeptAt(spans, S, K) ==
  /\ K \in SUBSET S
  /\ \A i, j \in K : i # j => ~ Overlap(spans[i], spans[j])
  /\ \A i \in S \ K : \E k \in K : Overlap(spans[i], spans[k]) /\ Before(spans, k, i)

\* To overlap is mutual.
LEMMA OverlapSymmetric ==
  \A s, k : Overlap(s, k) <=> s.start < k.end /\ k.start < s.end
  BY DEF Overlap

\* There is one such set at most.
LEMMA KeptOnce ==
  ASSUME NEW spans \in Seq(Span), NEW S \in SUBSET DOMAIN spans,
         NEW K, KeptAt(spans, S, K), NEW L, KeptAt(spans, S, L)
  PROVE  K = L
<1> DEFINE order == ByRank(spans, S)
           n == Len(order)
           Same(m) == \A i \in 1..n : i <= m => (order[i] \in K <=> order[i] \in L)
           P == {m \in Nat : Same(m)}
<1>1. /\ n \in Nat /\ \A i \in 1..n : order[i] \in S
      /\ \A x \in S : \E i \in 1..n : order[i] = x
      /\ \A i, j \in 1..n : i < j => Before(spans, order[i], order[j])
  BY ByRankIs
<1>2. \A i, j \in 1..n : Before(spans, order[i], order[j]) => i < j
  <2> SUFFICES ASSUME NEW i \in 1..n, NEW j \in 1..n, Before(spans, order[i], order[j]), ~ (i < j)
               PROVE  FALSE
    OBVIOUS
  <2> DEFINE x == order[i]
             y == order[j]
  <2>1. x \in DOMAIN spans /\ y \in DOMAIN spans
    BY <1>1
  <2>2. i = j \/ Before(spans, y, x)
    BY <1>1
  <2>3. i = j => x = y
    OBVIOUS
  <2>4. Before(spans, x, y)
    OBVIOUS
  <2> HIDE DEF x, y
  <2> QED BY <2>1, <2>2, <2>3, <2>4, BeforeOrders
<1> HIDE DEF order, n
\* What is kept of M but not of N is overlapped by something better of N, which
\* is of M too.
<1>3. ASSUME NEW M, KeptAt(spans, S, M), NEW N, KeptAt(spans, S, N),
             NEW m \in 1..n, \A i \in 1..n : i < m => (order[i] \in N => order[i] \in M),
             order[m] \in M
      PROVE  order[m] \in N
  <2>1. SUFFICES ASSUME order[m] \notin N PROVE FALSE
    OBVIOUS
  <2>2. order[m] \in S
    BY <1>1
  <2>3. PICK k \in N : Overlap(spans[order[m]], spans[k]) /\ Before(spans, k, order[m])
    BY <1>3, <2>1, <2>2 DEF KeptAt
  <2>4. k \in S
    BY <1>3 DEF KeptAt
  <2>5. PICK i \in 1..n : order[i] = k
    BY <1>1, <2>4
  <2>6. i < m
    BY <1>2, <2>3, <2>5
  <2>7. k \in M /\ k # order[m]
    BY <1>3, <2>1, <2>5, <2>6
  <2> QED BY <1>3, <2>3, <2>7 DEF KeptAt
<1>4. Same(0)
  OBVIOUS
<1>5. ASSUME NEW m \in Nat, Same(m) PROVE Same(m + 1)
  <2>1. SUFFICES ASSUME m + 1 \in 1..n PROVE order[m + 1] \in K <=> order[m + 1] \in L
    <3>1. \A i \in 1..n : i <= m + 1 => i <= m \/ i = m + 1
      BY <1>1
    <3> QED BY <1>5, <3>1
  <2>2. \A i \in 1..n : i < m + 1 => (order[i] \in K <=> order[i] \in L)
    BY <1>1, <1>5
  <2> HIDE DEF Same
  <2> QED BY <1>3, <2>1, <2>2
<1>6. P = Nat
  <2> HIDE DEF Same
  <2>1. P \in SUBSET Nat /\ 0 \in P /\ \A m \in P : m + 1 \in P
    BY <1>4, <1>5
  <2> HIDE DEF P
  <2> QED BY <2>1, NatSetInduction
<1>7. \A x \in S : x \in K <=> x \in L
  <2>1. Same(n)
    <3> HIDE DEF Same
    <3> QED BY <1>1, <1>6
  <2> QED BY <1>1, <2>1
<1> QED BY <1>7 DEF KeptAt

\* What Greedy computes.
IsGreedy(spans, order, g) ==
  g = [n \in 0..Len(order) |->
         IF n = 0 THEN << >>
         ELSE IF Fits(spans, g[n - 1], order[n]) THEN Append(g[n - 1], order[n])
         ELSE g[n - 1]]

\* The loop of _drop_overlaps, pass by pass.
LEMMA GreedyIs ==
  ASSUME NEW spans, NEW D, NEW order \in Seq(D)
  PROVE  \E g : /\ Greedy(spans, order) = g[Len(order)]
                /\ g[0] = << >>
                /\ \A n \in 1..Len(order) :
                     g[n] = IF Fits(spans, g[n - 1], order[n]) THEN Append(g[n - 1], order[n])
                            ELSE g[n - 1]
<1> DEFINE N == Len(order)
           A == Seq(D)
           More(n, kept) == IF Fits(spans, kept, order[n]) THEN Append(kept, order[n]) ELSE kept
           step == [p \in (1..N) \X A |-> More(p[1], p[2])]
<1>1. N \in Nat /\ << >> \in A /\ \A n \in 1..N : order[n] \in D
  BY LenProperties, ElementOfSeq, EmptySeq
<1>2. \A n \in 1..N, kept \in A : More(n, kept) \in A
  BY <1>1, AppendProperties
<1>3. step \in [(1..N) \X A -> A] /\ \A n \in 1..N, kept \in A : step[<<n, kept>>] = More(n, kept)
  <2> HIDE DEF More, A
  <2> QED BY <1>2
<1> DEFINE none == << >>
<1> HIDE DEF step, A, none, N
<1>4. PICK g \in [0..N -> A] : g[0] = none /\ \A i \in 1..N : g[i] = step[<<i, g[i - 1]>>]
  <2>1. N \in Nat /\ none \in A
    BY <1>1 DEF none
  <2>2. \E g \in [0..N -> A] : Iterates(g, none, N, step)
    BY <1>3, <2>1, Iterated, Zenon
  <2> QED BY <2>2 DEF Iterates
<1>5. \A i \in 1..N : g[i] = More(i, g[i - 1])
  <2> TAKE i \in 1..N
  <2>1. i - 1 \in 0..N
    BY <1>1
  <2>2. g[i - 1] \in A
    BY <2>1
  <2> HIDE DEF More
  <2> QED BY <1>3, <1>4, <2>2
<1>6. g = [n \in 0..N |-> IF n = 0 THEN << >> ELSE More(n, g[n - 1])]
  <2> HIDE DEF More
  <2> QED BY <1>1, <1>4, <1>5 DEF none
<1>7. IsGreedy(spans, order, g)
  BY <1>6 DEF IsGreedy, N
<1> DEFINE c == CHOOSE h : IsGreedy(spans, order, h)
<1>8. IsGreedy(spans, order, c)
  BY <1>7
<1>9. Greedy(spans, order) = c[N]
  BY DEF Greedy, IsGreedy, N
<1> HIDE DEF c
<1>10. c = [n \in 0..N |-> IF n = 0 THEN << >> ELSE More(n, c[n - 1])]
  BY <1>8 DEF IsGreedy, N
<1>11. c[0] = << >> /\ \A n \in 1..N : c[n] = More(n, c[n - 1])
  <2> HIDE DEF More
  <2> QED BY <1>1, <1>10
<1> QED BY <1>9, <1>11 DEF N

\* Greedy keeps the spans that no better one kept overlaps.
LEMMA GreedyKeeps ==
  ASSUME NEW spans \in Seq(Span), NEW S \in SUBSET DOMAIN spans
  PROVE  KeptAt(spans, S, ToSet(Greedy(spans, ByRank(spans, S))))
<1> DEFINE order == ByRank(spans, S)
           N == Len(order)
<1>1. /\ order \in Seq(S) /\ N \in Nat
      /\ \A i, j \in 1..N : i < j => Before(spans, order[i], order[j])
      /\ \A x \in S : \E i \in 1..N : order[i] = x
  BY ByRankIs
<1>2. \A i \in 1..N : order[i] \in S
  BY <1>1, ElementOfSeq
<1>3. PICK g : /\ Greedy(spans, order) = g[N]
               /\ g[0] = << >>
               /\ \A n \in 1..N :
                    g[n] = IF Fits(spans, g[n - 1], order[n]) THEN Append(g[n - 1], order[n])
                           ELSE g[n - 1]
  <2> HIDE DEF order
  <2> QED BY <1>1, GreedyIs
<1> HIDE DEF order, N
<1> DEFINE First(n) == {order[i] : i \in 1..n}
           Good(n) == n <= N => g[n] \in Seq(S) /\ KeptAt(spans, First(n), ToSet(g[n]))
           P == {n \in Nat : Good(n)}
<1>4. Good(0)
  <2>1. << >> \in Seq(S) /\ ToSet(<< >>) = {}
    BY EmptySeq DEF ToSet
  <2>2. First(0) = {}
    OBVIOUS
  <2>3. KeptAt(spans, {}, {})
    BY DEF KeptAt
  <2> HIDE DEF First
  <2> QED BY <1>3, <2>1, <2>2, <2>3
<1>5. ASSUME NEW n \in Nat, Good(n) PROVE Good(n + 1)
  <2>1. SUFFICES ASSUME n + 1 <= N
                 PROVE  g[n + 1] \in Seq(S) /\ KeptAt(spans, First(n + 1), ToSet(g[n + 1]))
    OBVIOUS
  <2> DEFINE k == g[n]
             x == order[n + 1]
             K == ToSet(k)
             F == First(n)
  <2>2. n <= N /\ n + 1 \in 1..N
    BY <1>1, <2>1, SMTT(30) DEF N
  <2>3. k \in Seq(S) /\ KeptAt(spans, F, K)
    BY <1>5, <2>2
  <2>4. g[n + 1] = IF Fits(spans, k, x) THEN Append(k, x) ELSE k
    <3>1. n + 1 - 1 = n
      OBVIOUS
    <3> QED BY <1>3, <2>2, <3>1
  <2>5. x \in S /\ First(n + 1) = F \cup {x}
    <3>1. 1..n + 1 = 1..n \cup {n + 1}
      OBVIOUS
    <3> QED BY <1>2, <2>2, <3>1
  <2>6. \A y \in F : y \in S /\ y # x /\ Before(spans, y, x)
    <3>1. SUFFICES ASSUME NEW i \in 1..n PROVE order[i] \in S /\ order[i] # x /\ Before(spans, order[i], x)
      OBVIOUS
    <3>2. i \in 1..N /\ i < n + 1
      BY <1>1, <2>2 DEF N
    <3>3. order[i] \in S /\ Before(spans, order[i], x)
      BY <1>1, <1>2, <2>2, <3>2 DEF N, order
    <3>4. ~ Before(spans, x, x)
      BY <2>5, BeforeOrders
    <3>5. order[i] = x => Before(spans, x, x)
      BY <3>3
    <3> QED BY <3>3, <3>4, <3>5
  <2>7. Fits(spans, k, x) <=> \A y \in K : ~ Overlap(spans[x], spans[y])
    BY DEF Fits, ToSet
  <2> HIDE DEF First, F, x
  <2>8. CASE Fits(spans, k, x)
    <3>1. Append(k, x) \in Seq(S) /\ ToSet(Append(k, x)) = K \cup {x}
      <4>1. /\ Append(k, x) \in Seq(S) /\ Len(Append(k, x)) = Len(k) + 1 /\ Len(k) \in Nat
            /\ \A i \in 1..Len(k) : Append(k, x)[i] = k[i]
            /\ Append(k, x)[Len(k) + 1] = x /\ DOMAIN k = 1..Len(k)
            /\ DOMAIN Append(k, x) = 1..Len(k) + 1
        BY <2>3, <2>5, AppendProperties, LenProperties
      <4> HIDE DEF k
      <4>2. 1..Len(k) + 1 = 1..Len(k) \cup {Len(k) + 1}
        BY <4>1
      <4> QED BY <4>1, <4>2 DEF ToSet
    <3> HIDE DEF K
    <3>2. K \subseteq F
      BY <2>3 DEF KeptAt
    <3>3. K \cup {x} \in SUBSET (F \cup {x})
      BY <3>2
    <3>4. ASSUME NEW i \in K \cup {x}, NEW j \in K \cup {x}, i # j PROVE ~ Overlap(spans[i], spans[j])
      <4>1. CASE i \in K /\ j \in K
        BY <2>3, <3>4, <4>1 DEF KeptAt
      <4>2. CASE i = x /\ j \in K
        BY <2>7, <2>8, <4>2
      <4>3. CASE i \in K /\ j = x
        BY <2>7, <2>8, <4>3, OverlapSymmetric DEF Overlap
      <4> QED BY <3>4, <4>1, <4>2, <4>3
    <3>5. ASSUME NEW i \in (F \cup {x}) \ (K \cup {x})
          PROVE  \E m \in K \cup {x} : Overlap(spans[i], spans[m]) /\ Before(spans, m, i)
      BY <2>3, <3>5 DEF KeptAt
    <3>6. KeptAt(spans, F \cup {x}, K \cup {x})
      BY <3>3, <3>4, <3>5 DEF KeptAt
    <3> QED BY <2>4, <2>5, <2>8, <3>1, <3>6
  <2>9. CASE ~ Fits(spans, k, x)
    <3> HIDE DEF K
    <3>1. PICK y \in K : Overlap(spans[x], spans[y])
      BY <2>7, <2>9
    <3>2. y \in F /\ Before(spans, y, x)
      BY <2>3, <2>6 DEF KeptAt
    <3>3. KeptAt(spans, F \cup {x}, K)
      BY <2>3, <3>1, <3>2 DEF KeptAt
    <3> QED BY <2>3, <2>4, <2>5, <2>9, <3>3 DEF K
  <2> QED BY <2>8, <2>9
<1>6. P = Nat
  <2> HIDE DEF Good
  <2>1. P \in SUBSET Nat /\ 0 \in P /\ \A n \in P : n + 1 \in P
    BY <1>4, <1>5
  <2> HIDE DEF P
  <2> QED BY <2>1, NatSetInduction
<1>7. Good(N)
  <2>1. N \in Nat
    BY <1>1 DEF N
  <2> HIDE DEF Good
  <2> QED BY <1>6, <2>1
<1>8. First(N) = S
  BY <1>1, <1>2 DEF N, order
<1>9. N <= N
  BY <1>1 DEF N
<1>10. KeptAt(spans, S, ToSet(g[N]))
  BY <1>7, <1>8, <1>9
<1> QED BY <1>3, <1>10 DEF order

\* What is left when overlaps are dropped: one after the other, the spans that
\* no better one overlaps.
LEMMA DropIs ==
  ASSUME NEW text, NEW spans \in Seq(Span), Within(text, spans), NEW S \in SUBSET DOMAIN spans
  PROVE  \E K : /\ KeptAt(spans, S, K)
                /\ DropOverlaps(spans, S) \in Seq(Span)
                /\ ToSet(DropOverlaps(spans, S)) = {spans[i] : i \in K}
                /\ Within(text, DropOverlaps(spans, S)) /\ Apart(DropOverlaps(spans, S))
<1> DEFINE K == ToSet(Greedy(spans, ByRank(spans, S)))
           order == ByStart(spans, K)
           N == Len(order)
           kept == DropOverlaps(spans, S)
<1>1. KeptAt(spans, S, K)
  BY GreedyKeeps
<1>2. K \in SUBSET DOMAIN spans
  BY <1>1 DEF KeptAt
<1>3. kept = [n \in DOMAIN order |-> spans[order[n]]]
  BY DEF DropOverlaps
<1> HIDE DEF K, kept
<1>4. /\ order \in Seq(K) /\ N \in Nat /\ DOMAIN order = 1..N
      /\ \A i, j \in 1..N : i < j => Sooner(spans, order[i], order[j])
      /\ \A x \in K : \E i \in 1..N : order[i] = x
  BY <1>2, ByStartIs
<1>5. \A i \in 1..N : order[i] \in K /\ order[i] \in DOMAIN spans
  BY <1>2, <1>4, ElementOfSeq
<1> HIDE DEF order, N
<1>6. \A i \in DOMAIN spans : /\ spans[i] \in Span /\ spans[i].start \in Nat /\ spans[i].end \in Nat
                              /\ spans[i].start < spans[i].end /\ spans[i].end <= Len(text)
  <2>1. \A i \in DOMAIN spans : spans[i] \in Span
    BY LenProperties, ElementOfSeq
  <2> QED BY <2>1 DEF Span, Within
<1>7. kept \in Seq(Span) /\ DOMAIN kept = 1..N /\ \A i \in 1..N : kept[i] = spans[order[i]]
  BY <1>3, <1>4, <1>5, <1>6
<1>8. ToSet(kept) = {spans[i] : i \in K}
  <2>1. ToSet(kept) = {kept[i] : i \in 1..N}
    BY <1>7 DEF ToSet
  <2>2. \A i \in 1..N : kept[i] = spans[order[i]] /\ order[i] \in K
    BY <1>5, <1>7
  <2>3. \A x \in K : \E i \in 1..N : order[i] = x
    BY <1>4 DEF N, order
  <2> QED BY <2>1, <2>2, <2>3
<1>9. Within(text, kept)
  BY <1>5, <1>6, <1>7 DEF Within
<1>10. Apart(kept)
  <2>1. SUFFICES ASSUME NEW m \in 1..N, NEW n \in 1..N, m < n
                 PROVE  spans[order[m]].end <= spans[order[n]].start
    BY <1>7 DEF Apart
  <2> DEFINE i == order[m]
             j == order[n]
  <2>2. i \in K /\ j \in K /\ i \in DOMAIN spans /\ j \in DOMAIN spans /\ Sooner(spans, i, j)
    BY <1>4, <1>5, <2>1
  <2> HIDE DEF i, j
  <2>3. i # j
    BY <2>2, SoonerOrders
  <2>4. ~ Overlap(spans[i], spans[j])
    BY <1>1, <2>2, <2>3 DEF KeptAt
  <2>5. spans[i].start <= spans[j].start
    BY <1>6, <2>2 DEF Sooner
  <2>6. spans[i].end <= spans[j].start
    BY <1>6, <2>2, <2>4, <2>5 DEF Overlap
  <2> QED BY <2>6 DEF i, j
<1> QED BY <1>1, <1>7, <1>8, <1>9, <1>10 DEF kept
--------------------------------------------------------------------------------
(* Numbering. *)

\* One placeholder one value; and one value one placeholder, unless the first
\* that it got could not be found again by the gateway's hash.
OneToOne(E) ==
  \A e, f \in E :
    /\ e.ph = f.ph => SameValue(e, f)
    /\ SameValue(e, f) /\ HashesMatch(e) => e.ph = f.ph \/ f.ph.index < e.ph.index

Known(E) ==
  /\ E \in SUBSET Entry
  /\ IsFiniteSet(E)
  /\ OneToOne(E)
  /\ \A e \in E : e.ph.type = e.type

\* The entry e is of the value that s hides in text.
Stands(e, text, s) ==
  e.ph = s.ph /\ e.type = s.type /\ Normalize(e.val) = Normalize(Slice(text, s))

Numbering == [entities : Seq(Hidden), new : Seq(Entry), failed : BOOLEAN]

\* What a span within a text hides is a text.
LEMMA SliceIs ==
  ASSUME NEW text \in Seq(Word), NEW s, s.start \in Nat, s.end \in Nat, s.end <= Len(text)
  PROVE  Slice(text, s) \in Seq(Word)
<1>1. \A i \in s.start + 1..s.end : text[i] \in Word
  BY ElementOfSeq, LenProperties
<1>2. s.start + 1 \in Int /\ s.end \in Int
  OBVIOUS
<1> QED BY <1>1, <1>2, SubSeqProperties DEF Slice

\* The next index is above every one that the type has.
LEMMA NextIndexIs ==
  ASSUME NEW E, \A e \in E : e.ph \in Placeholder, NEW type
  PROVE  /\ NextIndex(E, type) \in Nat \ {0}
         /\ \A e \in E : e.ph.type = type => e.ph.index < NextIndex(E, type)
<1> DEFINE I == {0} \cup {e.ph.index : e \in {f \in E : f.ph.type = type}}
<1>1. I \in SUBSET (0..MaxIndex) /\ 0 \in I
  <2>1. \A e \in E : e.ph.index \in 1..MaxIndex
    BY DEF Placeholder
  <2> QED BY <2>1, MaxIndexNat
<1>2. \A e \in E : e.ph.type = type => e.ph.index \in I
  OBVIOUS
<1>3. NextIndex(E, type) = Max(I) + 1
  BY DEF NextIndex
<1> HIDE DEF I
<1>4. IsFiniteSet(I) /\ I \in SUBSET Int /\ I # {}
  <2>1. IsFiniteSet(0..MaxIndex)
    BY MaxIndexNat, FS_Interval
  <2>2. IsFiniteSet(I)
    BY <1>1, <2>1, FS_Subset
  <2> QED BY <1>1, <2>2
<1>5. Max(I) \in I /\ \A y \in I : Max(I) >= y
  BY <1>4, MaxOfFinite
<1>6. \A y \in I : y \in Nat
  BY <1>1, MaxIndexNat
<1> DEFINE m == Max(I)
<1>7. m \in I /\ m \in Nat /\ \A y \in I : m >= y
  BY <1>5, <1>6
<1> HIDE DEF m
<1>8. m + 1 \in Nat \ {0} /\ \A y \in I : y < m + 1
  BY <1>6, <1>7
<1> QED BY <1>2, <1>3, <1>8 DEF m

\* After one entity more, next is acc with an entity whose placeholder is that
\* of the entry e, or a new one.
Entity(ph, s) == [ph |-> ph, type |-> s.type, start |-> s.start, end |-> s.end]
Has(E, type, raw) == {e \in E : e.type = type /\ Normalize(e.val) = Normalize(raw)}
Reuses(acc, next, s, e) ==
  /\ ~ acc.failed
  /\ next = [entities |-> Append(acc.entities, Entity(e.ph, s)), new |-> acc.new, failed |-> FALSE]
Adds(acc, next, s, raw, ph) ==
  /\ ~ acc.failed
  /\ next = [entities |-> Append(acc.entities, Entity(ph, s)),
             new |-> Append(acc.new, [ph |-> ph, type |-> s.type, val |-> raw]), failed |-> FALSE]

\* A placeholder for a value that no hash found: its index is above the others'.
Unfound(E, type, raw, ph) ==
  /\ \A e \in Has(E, type, raw) : ~ HashesMatch(e)
  /\ ph.type = type
  /\ \A e \in E : e.ph.type = type => e.ph.index < ph.index

\* What the two normalisations make of a text is equal only if the redactor's
\* makes the same of the texts.
LEMMA HashFinds ==
  ASSUME NEW e \in Entry, NEW type, NEW raw \in Seq(Word)
  PROVE  /\ MatchHash(e.type, e.val) = ValueHash(type, raw) =>
              e.type = type /\ Normalize(e.val) = Normalize(raw)
         /\ ValueHash(e.type, e.val) = ValueHash(type, raw) <=>
              e.type = type /\ Normalize(e.val) = Normalize(raw)
         /\ e.type = type /\ Normalize(e.val) = Normalize(raw) /\ HashesMatch(e) =>
              MatchHash(e.type, e.val) = ValueHash(type, raw)
<1>1. /\ e.val \in Seq(Word) /\ DOMAIN e.val = 1..Len(e.val) /\ DOMAIN raw = 1..Len(raw)
      /\ \A i \in DOMAIN e.val : e.val[i] \in Word
      /\ \A i \in DOMAIN raw : raw[i] \in Word
  BY LenProperties, ElementOfSeq DEF Entry
<1> DEFINE G == [i \in DOMAIN e.val |-> GatewayCanon[e.val[i]]]
<1>2. ASSUME G = Normalize(raw) PROVE Normalize(e.val) = Normalize(raw)
  <2>1. DOMAIN e.val = DOMAIN raw
    <3>1. DOMAIN G = DOMAIN e.val /\ DOMAIN Normalize(raw) = DOMAIN raw
      BY DEF Normalize
    <3> HIDE DEF G
    <3> QED BY <1>2, <3>1
  <2>2. ASSUME NEW i \in DOMAIN raw PROVE Canon[e.val[i]] = Canon[raw[i]]
    <3>1. G[i] = GatewayCanon[e.val[i]] /\ Normalize(raw)[i] = Canon[raw[i]]
      BY <2>1 DEF Normalize
    <3> HIDE DEF G
    <3>2. GatewayCanon[e.val[i]] = Canon[raw[i]]
      BY <1>2, <3>1
    <3>3. Canon[GatewayCanon[e.val[i]]] = Canon[e.val[i]] /\ Canon[Canon[raw[i]]] = Canon[raw[i]]
      BY <1>1, <2>1, GatewayFoldsLess, CanonIdempotent
    <3> QED BY <3>2, <3>3
  <2> QED BY <2>1, <2>2 DEF Normalize
<1>3. MatchHash(e.type, e.val) = <<e.type, G>> /\ ValueHash(type, raw) = <<type, Normalize(raw)>>
      /\ ValueHash(e.type, e.val) = <<e.type, Normalize(e.val)>>
  BY DEF MatchHash, ValueHash
<1> HIDE DEF G
<1> QED BY <1>2, <1>3 DEF HashesMatch

\* An entity fails, reuses an entry of its value, or adds one with a new placeholder.
LEMMA NumberCases ==
  ASSUME NEW text \in Seq(Word), NEW known \in SUBSET Entry, NEW acc \in Numbering,
         NEW s \in Span, s.end <= Len(text),
         NEW E, E = known \cup ToSet(acc.new), NEW raw, raw = Slice(text, s),
         NEW next, next = Number(text, Told(known), acc, s)
  PROVE  \/ next = [acc EXCEPT !.failed = TRUE]
         \/ \E e \in Has(E, s.type, raw) : Reuses(acc, next, s, e)
         \/ \E ph \in Placeholder : Unfound(E, s.type, raw, ph) /\ Adds(acc, next, s, raw, ph)
<1> DEFINE own == {[ph |-> e.ph, hash |-> ValueHash(e.type, e.val)] : e \in ToSet(acc.new)}
           reuse == Told(known) \cup own
           same == {k \in reuse : k.hash = ValueHash(s.type, raw)}
           index == NextIndex(reuse, s.type)
           ph == IF same # {} THEN (CHOOSE e \in same : TRUE).ph
                 ELSE [type |-> s.type, index |-> index]
           entity == Entity(ph, s)
<1>1. next = IF acc.failed \/ (same = {} /\ index > MaxIndex)
               THEN [acc EXCEPT !.failed = TRUE]
               ELSE [acc EXCEPT !.entities = Append(@, entity),
                                !.new = IF same # {} THEN @
                                        ELSE Append(@, [ph |-> ph, type |-> s.type, val |-> raw])]
  BY DEF Number, Entity
<1>3. E \in SUBSET Entry
  <2>1. acc.new \in Seq(Entry)
    BY DEF Numbering
  <2>2. ToSet(acc.new) \in SUBSET Entry
    BY <2>1, LenProperties, ElementOfSeq DEF ToSet
  <2> QED BY <2>2
<1>4. s.type \in EntityType
  BY DEF Span
<1>5. raw \in Seq(Word)
  <2>1. s.start \in Nat /\ s.end \in Nat
    BY DEF Span
  <2> QED BY <2>1, SliceIs
<1>2. /\ \A k \in same : \E e \in Has(E, s.type, raw) : e.ph = k.ph
      /\ same = {} => \A e \in Has(E, s.type, raw) : ~ HashesMatch(e)
  <2>1. ASSUME NEW e \in known PROVE [ph |-> e.ph, hash |-> MatchHash(e.type, e.val)] \in reuse
    BY DEF Told
  <2>2. ASSUME NEW e \in ToSet(acc.new)
        PROVE  [ph |-> e.ph, hash |-> ValueHash(e.type, e.val)] \in reuse
    OBVIOUS
  <2>3. ASSUME NEW k \in reuse
        PROVE  \E e \in E : /\ k.ph = e.ph
                            /\ \/ k.hash = MatchHash(e.type, e.val)
                               \/ k.hash = ValueHash(e.type, e.val)
    BY DEF Told
  <2> HIDE DEF reuse
  <2>4. ASSUME NEW k \in same PROVE \E e \in Has(E, s.type, raw) : e.ph = k.ph
    <3>1. PICK e \in E : /\ k.ph = e.ph
                         /\ \/ k.hash = MatchHash(e.type, e.val)
                            \/ k.hash = ValueHash(e.type, e.val)
      BY <2>3
    <3>2. k.hash = ValueHash(s.type, raw)
      OBVIOUS
    <3>3. e.type = s.type /\ Normalize(e.val) = Normalize(raw)
      BY <1>3, <1>5, <3>1, <3>2, HashFinds
    <3> QED BY <3>1, <3>3 DEF Has
  <2>5. ASSUME NEW e \in Has(E, s.type, raw), HashesMatch(e) PROVE same # {}
    <3>1. e \in E /\ e.type = s.type /\ Normalize(e.val) = Normalize(raw)
      BY DEF Has
    <3>2. MatchHash(e.type, e.val) = ValueHash(s.type, raw)
          /\ ValueHash(e.type, e.val) = ValueHash(s.type, raw)
      BY <1>3, <1>5, <2>5, <3>1, HashFinds
    <3>3. [ph |-> e.ph, hash |-> ValueHash(s.type, raw)] \in reuse
      BY <2>1, <2>2, <3>1, <3>2
    <3> QED BY <3>3
  <2> HIDE DEF same
  <2> QED BY <2>4, <2>5
<1>6. index \in Nat \ {0} /\ \A e \in E : e.ph.type = s.type => e.ph.index < index
  <2>1. \A k \in reuse : k.ph \in Placeholder
    BY <1>3 DEF Told, Entry
  <2>2. ASSUME NEW e \in E PROVE \E k \in reuse : k.ph = e.ph
    <3>1. CASE e \in known
      <4>1. [ph |-> e.ph, hash |-> MatchHash(e.type, e.val)] \in reuse
        BY <3>1 DEF Told
      <4> QED BY <4>1
    <3>2. CASE e \in ToSet(acc.new)
      <4>1. [ph |-> e.ph, hash |-> ValueHash(e.type, e.val)] \in reuse
        BY <3>2
      <4> QED BY <4>1
    <3> QED BY <3>1, <3>2
  <2> HIDE DEF reuse
  <2>3. index \in Nat \ {0} /\ \A k \in reuse : k.ph.type = s.type => k.ph.index < index
    BY <2>1, NextIndexIs
  <2> HIDE DEF index
  <2> QED BY <2>2, <2>3
<1>7. acc = [entities |-> acc.entities, new |-> acc.new, failed |-> acc.failed]
  BY DEF Numbering
<1>8. acc.failed \in BOOLEAN
  BY DEF Numbering
<1> HIDE DEF same, index
<1>9. CASE acc.failed \/ (same = {} /\ index > MaxIndex)
  BY <1>1, <1>9
<1>10. CASE ~ acc.failed /\ same # {}
  <2> DEFINE e == CHOOSE x \in same : TRUE
  <2>1. e \in same
    BY <1>10
  <2>2. ph = e.ph
    BY <1>10
  <2> HIDE DEF e, ph
  <2>3. PICK f \in Has(E, s.type, raw) : f.ph = e.ph
    BY <1>2, <2>1
  <2>4. next = [acc EXCEPT !.entities = Append(@, entity), !.new = @]
    BY <1>1, <1>10
  <2>5. next = [entities |-> Append(acc.entities, entity), new |-> acc.new, failed |-> FALSE]
    BY <1>7, <1>8, <1>10, <2>4
  <2>6. Reuses(acc, next, s, f)
    BY <1>10, <2>2, <2>3, <2>5 DEF Reuses
  <2> QED BY <2>3, <2>6
<1>11. CASE ~ acc.failed /\ same = {} /\ ~ (index > MaxIndex)
  <2>1. ph = [type |-> s.type, index |-> index]
    BY <1>11
  <2> HIDE DEF ph
  <2>2. ph \in Placeholder /\ ph.type = s.type /\ ph.index = index
    <3>1. index \in 1..MaxIndex
      BY <1>6, <1>11, MaxIndexNat
    <3> QED BY <1>4, <2>1, <3>1 DEF Placeholder
  <2>3. Unfound(E, s.type, raw, ph)
    BY <1>2, <1>6, <1>11, <2>2 DEF Unfound
  <2> DEFINE entry == [ph |-> ph, type |-> s.type, val |-> raw]
  <2>5. next = [acc EXCEPT !.entities = Append(@, entity), !.new = Append(@, entry)]
    BY <1>1, <1>11
  <2>6. next = [entities |-> Append(acc.entities, entity), new |-> Append(acc.new, entry),
                failed |-> FALSE]
    BY <1>7, <1>8, <1>11, <2>5
  <2>7. Adds(acc, next, s, raw, ph)
    BY <1>11, <2>6 DEF Adds
  <2> QED BY <2>2, <2>3, <2>7
<1> QED BY <1>8, <1>9, <1>10, <1>11

\* An entity has the place and the type of the span it was made of.
LEMMA EntityIs ==
  ASSUME NEW ph \in Placeholder, NEW s \in Span, NEW text
  PROVE  /\ Entity(ph, s) \in Hidden /\ Entity(ph, s).ph = ph /\ Entity(ph, s).type = s.type
         /\ Entity(ph, s).start = s.start /\ Entity(ph, s).end = s.end
         /\ Slice(text, Entity(ph, s)) = Slice(text, s)
<1>1. s.start \in Nat /\ s.end \in Nat /\ s.type \in EntityType
  BY DEF Span
<1> QED BY <1>1 DEF Entity, Hidden, Slice

\* Numbering keeps its accumulators' kinds.
LEMMA NumberTyped ==
  ASSUME NEW text \in Seq(Word), NEW known \in SUBSET Entry, NEW acc \in Numbering,
         NEW s \in Span, s.end <= Len(text)
  PROVE  Number(text, Told(known), acc, s) \in Numbering
<1> DEFINE next == Number(text, Told(known), acc, s)
           raw == Slice(text, s)
           E == known \cup ToSet(acc.new)
<1>1. /\ acc.entities \in Seq(Hidden) /\ acc.new \in Seq(Entry) /\ acc.failed \in BOOLEAN
      /\ acc = [entities |-> acc.entities, new |-> acc.new, failed |-> acc.failed]
  BY DEF Numbering
<1>2. s.start \in Nat /\ s.end \in Nat /\ s.type \in EntityType
  BY DEF Span
<1>3. raw \in Seq(Word)
  BY <1>2, SliceIs
<1>4. \A e \in E : e.ph \in Placeholder
  <2>1. ToSet(acc.new) \in SUBSET Entry
    BY <1>1, LenProperties, ElementOfSeq DEF ToSet
  <2> QED BY <2>1 DEF Entry
<1> HIDE DEF next, raw, E
<1>5. ASSUME NEW ph \in Placeholder
      PROVE  /\ Append(acc.entities, Entity(ph, s)) \in Seq(Hidden)
             /\ Append(acc.new, [ph |-> ph, type |-> s.type, val |-> raw]) \in Seq(Entry)
  <2>1. Entity(ph, s) \in Hidden
    BY EntityIs
  <2>2. [ph |-> ph, type |-> s.type, val |-> raw] \in Entry
    BY <1>2, <1>3 DEF Entry
  <2> QED BY <1>1, <2>1, <2>2, AppendProperties
<1>6. \/ next = [acc EXCEPT !.failed = TRUE]
      \/ \E e \in Has(E, s.type, raw) : Reuses(acc, next, s, e)
      \/ \E ph \in Placeholder : Unfound(E, s.type, raw, ph) /\ Adds(acc, next, s, raw, ph)
  BY NumberCases DEF next, raw, E
<1>7. ASSUME next = [acc EXCEPT !.failed = TRUE] PROVE next \in Numbering
  BY <1>1, <1>7 DEF Numbering
<1>8. ASSUME NEW e \in Has(E, s.type, raw), Reuses(acc, next, s, e) PROVE next \in Numbering
  <2>1. e.ph \in Placeholder
    BY <1>4 DEF Has
  <2> QED BY <1>1, <1>5, <1>8, <2>1 DEF Numbering, Reuses
<1>9. ASSUME NEW ph \in Placeholder, Adds(acc, next, s, raw, ph) PROVE next \in Numbering
  BY <1>5, <1>9 DEF Numbering, Adds
<1>10. next \in Numbering
  BY <1>6, <1>7, <1>8, <1>9
<1> QED BY <1>10 DEF next

\* A sequence with one element more.
LEMMA AddedToSet ==
  ASSUME NEW S, NEW s \in Seq(S), NEW x \in S
  PROVE  ToSet(Append(s, x)) = ToSet(s) \cup {x}
<1>1. /\ Append(s, x) \in Seq(S) /\ Len(Append(s, x)) = Len(s) + 1 /\ Len(s) \in Nat
      /\ \A i \in 1..Len(s) : Append(s, x)[i] = s[i]
      /\ Append(s, x)[Len(s) + 1] = x /\ DOMAIN s = 1..Len(s)
      /\ DOMAIN Append(s, x) = 1..Len(s) + 1
  BY AppendProperties, LenProperties
<1>2. 1..Len(s) + 1 = 1..Len(s) \cup {Len(s) + 1}
  BY <1>1
<1> QED BY <1>1, <1>2 DEF ToSet

\* A value that gets a placeholder of its own.
LEMMA KnownMore ==
  ASSUME NEW E, Known(E), NEW x \in Entry, Unfound(E, x.type, x.val, x.ph)
  PROVE  Known(E \cup {x})
<1>1. IsFiniteSet(E \cup {x})
  BY FS_AddElement DEF Known
<1>2. /\ x.ph.type = x.type /\ x.ph.index \in Int
      /\ \A e \in E : e.ph.type = e.type /\ e.ph.index \in Int
  BY MaxIndexNat DEF Known, Unfound, Entry, Placeholder
<1>3. \A e \in E : e.type = x.type => e.ph.index < x.ph.index
  BY <1>2 DEF Unfound
<1>4. \A e \in E : e.ph # x.ph
  BY <1>2, <1>3
<1>5. \A e \in E : SameValue(e, x) => ~ HashesMatch(e)
  BY DEF Unfound, Has, SameValue
<1>6. \A e \in E : SameValue(x, e) => e.ph.index < x.ph.index
  BY <1>3 DEF SameValue
<1>7. SameValue(x, x)
  BY DEF SameValue
<1>8. OneToOne(E)
  BY DEF Known
<1>9. ASSUME NEW e \in E \cup {x}, NEW f \in E \cup {x}
      PROVE  /\ e.ph = f.ph => SameValue(e, f)
             /\ SameValue(e, f) /\ HashesMatch(e) => e.ph = f.ph \/ f.ph.index < e.ph.index
  <2>1. CASE e \in E /\ f \in E
    BY <1>8, <2>1 DEF OneToOne
  <2>2. CASE e \in E /\ f = x
    BY <1>4, <1>5, <2>2
  <2>3. CASE e = x /\ f \in E
    BY <1>4, <1>6, <2>3
  <2>4. CASE e = x /\ f = x
    BY <1>7, <2>4
  <2> QED BY <2>1, <2>2, <2>3, <2>4
<1>10. OneToOne(E \cup {x})
  BY <1>9 DEF OneToOne
<1> QED BY <1>1, <1>2, <1>10 DEF Known

\* One step of the numbering: the map stays as it should be and has the entity.
LEMMA NumberIs ==
  ASSUME NEW text \in Seq(Word), NEW known \in SUBSET Entry, NEW acc \in Numbering,
         Known(known \cup ToSet(acc.new)), NEW s \in Span, s.end <= Len(text)
  PROVE  LET next == Number(text, Told(known), acc, s) IN
         /\ Known(known \cup ToSet(next.new))
         /\ ToSet(acc.new) \subseteq ToSet(next.new)
         /\ \/ next.failed /\ next.entities = acc.entities
            \/ \E x \in Hidden :
                 /\ ~ next.failed /\ ~ acc.failed /\ next.entities = Append(acc.entities, x)
                 /\ x.type = s.type /\ x.start = s.start /\ x.end = s.end
                 /\ \E e \in known \cup ToSet(next.new) : Stands(e, text, x)
<1> DEFINE next == Number(text, Told(known), acc, s)
           raw == Slice(text, s)
           E == known \cup ToSet(acc.new)
<1>1. /\ acc.entities \in Seq(Hidden) /\ acc.new \in Seq(Entry) /\ acc.failed \in BOOLEAN
      /\ acc = [entities |-> acc.entities, new |-> acc.new, failed |-> acc.failed]
  BY DEF Numbering
<1>2. s.start \in Nat /\ s.end \in Nat /\ s.type \in EntityType
  BY DEF Span
<1>3. raw \in Seq(Word)
  BY <1>2, SliceIs
<1>4. \A e \in E : e.ph \in Placeholder
  BY DEF Known, Entry
<1>5. Known(E)
  OBVIOUS
<1> HIDE DEF next, raw, E
<1>6. ASSUME next = [acc EXCEPT !.failed = TRUE]
      PROVE  /\ Known(known \cup ToSet(next.new))
             /\ ToSet(acc.new) \subseteq ToSet(next.new)
             /\ next.failed /\ next.entities = acc.entities
  <2>1. next.failed /\ next.entities = acc.entities /\ next.new = acc.new
    BY <1>1, <1>6
  <2> QED BY <1>5, <2>1 DEF E
<1>7. ASSUME NEW e \in Has(E, s.type, raw), Reuses(acc, next, s, e)
      PROVE  /\ Known(known \cup ToSet(next.new))
             /\ ToSet(acc.new) \subseteq ToSet(next.new)
             /\ \E x \in Hidden :
                  /\ ~ next.failed /\ ~ acc.failed /\ next.entities = Append(acc.entities, x)
                  /\ x.type = s.type /\ x.start = s.start /\ x.end = s.end
                  /\ \E f \in known \cup ToSet(next.new) : Stands(f, text, x)
  <2> DEFINE x == Entity(e.ph, s)
  <2>1. /\ ~ next.failed /\ ~ acc.failed /\ next.entities = Append(acc.entities, x)
        /\ next.new = acc.new
    BY <1>7 DEF Reuses
  <2>2. e \in E /\ e.type = s.type /\ Normalize(e.val) = Normalize(raw) /\ e.ph \in Placeholder
    BY <1>4 DEF Has
  <2>3. /\ x \in Hidden /\ x.ph = e.ph /\ x.type = s.type /\ x.start = s.start /\ x.end = s.end
        /\ Slice(text, x) = raw
    BY <2>2, EntityIs DEF raw
  <2> HIDE DEF x
  <2>4. Stands(e, text, x)
    BY <2>2, <2>3 DEF Stands
  <2>5. known \cup ToSet(next.new) = E
    BY <2>1 DEF E
  <2> QED BY <1>5, <2>1, <2>2, <2>3, <2>4, <2>5
<1>8. ASSUME NEW ph \in Placeholder, Unfound(E, s.type, raw, ph), Adds(acc, next, s, raw, ph)
      PROVE  /\ Known(known \cup ToSet(next.new))
             /\ ToSet(acc.new) \subseteq ToSet(next.new)
             /\ \E x \in Hidden :
                  /\ ~ next.failed /\ ~ acc.failed /\ next.entities = Append(acc.entities, x)
                  /\ x.type = s.type /\ x.start = s.start /\ x.end = s.end
                  /\ \E f \in known \cup ToSet(next.new) : Stands(f, text, x)
  <2> DEFINE x == Entity(ph, s)
             y == [ph |-> ph, type |-> s.type, val |-> raw]
  <2>1. y \in Entry /\ y.ph = ph /\ y.type = s.type /\ y.val = raw
    BY <1>2, <1>3 DEF Entry
  <2>2. /\ ~ next.failed /\ ~ acc.failed /\ next.entities = Append(acc.entities, x)
        /\ next.new = Append(acc.new, y)
    BY <1>8 DEF Adds
  <2>3. /\ x \in Hidden /\ x.ph = ph /\ x.type = s.type /\ x.start = s.start /\ x.end = s.end
        /\ Slice(text, x) = raw
    BY EntityIs DEF raw
  <2> HIDE DEF x, y
  <2>4. ToSet(next.new) = ToSet(acc.new) \cup {y}
    BY <1>1, <2>1, <2>2, AddedToSet
  <2>5. known \cup ToSet(next.new) = E \cup {y}
    BY <2>4 DEF E
  <2>6. Unfound(E, y.type, y.val, y.ph)
    BY <1>8, <2>1
  <2>7. Known(E \cup {y})
    BY <1>5, <2>1, <2>6, KnownMore
  <2>8. Stands(y, text, x)
    BY <2>1, <2>3 DEF Stands
  <2> QED BY <2>2, <2>3, <2>4, <2>5, <2>7, <2>8
<1>9. \/ next = [acc EXCEPT !.failed = TRUE]
      \/ \E e \in Has(E, s.type, raw) : Reuses(acc, next, s, e)
      \/ \E ph \in Placeholder : Unfound(E, s.type, raw, ph) /\ Adds(acc, next, s, raw, ph)
  BY NumberCases DEF next, raw, E
<1> QED BY <1>6, <1>7, <1>8, <1>9 DEF next
--------------------------------------------------------------------------------
(* The numbering of all entities. *)

IsNumbering(text, told, pol, kept, g) ==
  g = [n \in 0..Len(kept) |->
         IF n = 0 THEN [entities |-> << >>, new |-> << >>, failed |-> FALSE]
         ELSE IF ActionFor(pol, kept[n]) = "allow" THEN g[n - 1]
         ELSE Number(text, told, g[n - 1], kept[n])]

Nothing == [entities |-> << >>, new |-> << >>, failed |-> FALSE]
NumberOne(text, told, pol, acc, s) ==
  IF ActionFor(pol, s) = "allow" THEN acc ELSE Number(text, told, acc, s)

\* The loop over the kept spans, pass by pass.
LEMMA NumberedIs ==
  ASSUME NEW text \in Seq(Word), NEW known \in SUBSET Entry, NEW pol,
         NEW kept \in Seq(Span), Within(text, kept)
  PROVE  \E g : /\ Numbered(text, Told(known), pol, kept) = g[Len(kept)]
                /\ g[0] = Nothing
                /\ \A n \in 1..Len(kept) : g[n] = NumberOne(text, Told(known), pol, g[n - 1], kept[n])
<1> DEFINE N == Len(kept)
           A == Numbering
           More(n, acc) == NumberOne(text, Told(known), pol, acc, kept[n])
           step == [p \in (1..N) \X A |-> More(p[1], p[2])]
<1>1. N \in Nat /\ Nothing \in A /\ \A n \in 1..N : kept[n] \in Span /\ kept[n].end <= Len(text)
  <2>1. N \in Nat /\ DOMAIN kept = 1..N /\ \A n \in 1..N : kept[n] \in Span
    BY LenProperties, ElementOfSeq
  <2>2. << >> \in Seq(Hidden) /\ << >> \in Seq(Entry)
    BY EmptySeq
  <2> QED BY <2>1, <2>2 DEF Within, Nothing, Numbering
<1>2. ASSUME NEW n \in 1..N, NEW acc \in A PROVE More(n, acc) \in A
  <2>1. Number(text, Told(known), acc, kept[n]) \in Numbering
    BY <1>1, NumberTyped
  <2> QED BY <2>1 DEF NumberOne
<1>3. step \in [(1..N) \X A -> A] /\ \A n \in 1..N, acc \in A : step[<<n, acc>>] = More(n, acc)
  <2> HIDE DEF More, A
  <2> QED BY <1>2
<1> HIDE DEF step, A, N
<1>4. PICK g \in [0..N -> A] : g[0] = Nothing /\ \A i \in 1..N : g[i] = step[<<i, g[i - 1]>>]
  <2>1. N \in Nat /\ Nothing \in A
    BY <1>1
  <2>2. \E g \in [0..N -> A] : Iterates(g, Nothing, N, step)
    BY <1>3, <2>1, Iterated, Zenon
  <2> QED BY <2>2 DEF Iterates
<1>5. \A i \in 1..N : g[i] = More(i, g[i - 1])
  <2> TAKE i \in 1..N
  <2>1. i - 1 \in 0..N
    BY <1>1
  <2>2. g[i - 1] \in A
    BY <2>1
  <2> HIDE DEF More
  <2> QED BY <1>3, <1>4, <2>2
<1>6. g = [n \in 0..N |-> IF n = 0 THEN Nothing ELSE More(n, g[n - 1])]
  <2> HIDE DEF More
  <2> QED BY <1>1, <1>4, <1>5
<1>7. IsNumbering(text, Told(known), pol, kept, g)
  BY <1>6 DEF IsNumbering, N, Nothing, NumberOne
<1> DEFINE c == CHOOSE h : IsNumbering(text, Told(known), pol, kept, h)
<1>8. IsNumbering(text, Told(known), pol, kept, c)
  BY <1>7
<1>9. Numbered(text, Told(known), pol, kept) = c[N]
  BY DEF Numbered, IsNumbering, N
<1> HIDE DEF c
<1>10. c = [n \in 0..N |-> IF n = 0 THEN Nothing ELSE More(n, c[n - 1])]
  BY <1>8 DEF IsNumbering, N, Nothing, NumberOne
<1>11. c[0] = Nothing /\ \A n \in 1..N : c[n] = More(n, c[n - 1])
  <2> HIDE DEF More
  <2> QED BY <1>1, <1>10
<1> QED BY <1>9, <1>11 DEF N

\* What the entities are after the first n spans.
Same(x, s) == x.type = s.type /\ x.start = s.start /\ x.end = s.end
ListsOnly(entities, pol, kept, n) ==
  \A m \in DOMAIN entities :
    \E i \in 1..n : Same(entities[m], kept[i]) /\ ActionFor(pol, kept[i]) # "allow"
ListsAll(entities, pol, kept, n) ==
  \A i \in 1..n :
    ActionFor(pol, kept[i]) # "allow" => \E m \in DOMAIN entities : Same(entities[m], kept[i])
AllStand(E, text, entities) ==
  \A m \in DOMAIN entities : \E e \in E : Stands(e, text, entities[m])

NumberedTo(text, known, pol, kept, n, acc) ==
  /\ acc \in Numbering
  /\ Known(known \cup ToSet(acc.new))
  /\ ListsOnly(acc.entities, pol, kept, n)
  /\ ~ acc.failed => ListsAll(acc.entities, pol, kept, n)
  /\ Apart(acc.entities)
  /\ AllStand(known \cup ToSet(acc.new), text, acc.entities)

\* One pass keeps what is true of the entities so far (see NumberedTo).
LEMMA NumberedMore ==
  ASSUME NEW text \in Seq(Word), NEW known \in SUBSET Entry, NEW pol,
         NEW kept \in Seq(Span), Within(text, kept), Apart(kept),
         NEW n \in 1..Len(kept), NEW acc, NumberedTo(text, known, pol, kept, n - 1, acc),
         NEW next, next = NumberOne(text, Told(known), pol, acc, kept[n])
  PROVE  NumberedTo(text, known, pol, kept, n, next)
<1>1. /\ kept[n] \in Span /\ kept[n].end <= Len(text) /\ DOMAIN kept = 1..Len(kept)
      /\ Len(kept) \in Nat /\ n \in Nat /\ n - 1 \in Nat
      /\ \A i \in 1..n - 1 : i \in 1..n /\ i \in DOMAIN kept /\ kept[i].end <= kept[n].start
      /\ 1..n = 1..n - 1 \cup {n}
  <2>1. DOMAIN kept = 1..Len(kept) /\ Len(kept) \in Nat /\ kept[n] \in Span
    BY LenProperties, ElementOfSeq
  <2>2. n \in Nat /\ n - 1 \in Nat /\ 1..n = 1..n - 1 \cup {n}
        /\ \A i \in 1..n - 1 : i \in 1..n /\ i \in 1..Len(kept) /\ i < n
    BY <2>1
  <2> QED BY <2>1, <2>2 DEF Within, Apart
<1>2. acc \in Numbering /\ Known(known \cup ToSet(acc.new))
  BY DEF NumberedTo
<1>3. /\ ListsOnly(acc.entities, pol, kept, n - 1)
      /\ ~ acc.failed => ListsAll(acc.entities, pol, kept, n - 1)
      /\ Apart(acc.entities)
      /\ AllStand(known \cup ToSet(acc.new), text, acc.entities)
  BY DEF NumberedTo
<1>4. ListsOnly(acc.entities, pol, kept, n)
  BY <1>1, <1>3 DEF ListsOnly
<1>5. ASSUME ActionFor(pol, kept[n]) = "allow" PROVE NumberedTo(text, known, pol, kept, n, next)
  <2>1. next = acc
    BY <1>5 DEF NumberOne
  <2>2. ~ acc.failed => ListsAll(acc.entities, pol, kept, n)
    BY <1>1, <1>3, <1>5 DEF ListsAll
  <2> QED BY <1>2, <1>3, <1>4, <2>1, <2>2 DEF NumberedTo
<1>6. ASSUME ActionFor(pol, kept[n]) # "allow" PROVE NumberedTo(text, known, pol, kept, n, next)
  <2>1. next = Number(text, Told(known), acc, kept[n])
    BY <1>6 DEF NumberOne
  <2>2. /\ Known(known \cup ToSet(next.new))
        /\ ToSet(acc.new) \subseteq ToSet(next.new)
        /\ \/ next.failed /\ next.entities = acc.entities
           \/ \E x \in Hidden :
                /\ ~ next.failed /\ ~ acc.failed /\ next.entities = Append(acc.entities, x)
                /\ x.type = kept[n].type /\ x.start = kept[n].start /\ x.end = kept[n].end
                /\ \E e \in known \cup ToSet(next.new) : Stands(e, text, x)
    <3> DEFINE z == Number(text, Told(known), acc, kept[n])
    <3>1. /\ Known(known \cup ToSet(z.new))
          /\ ToSet(acc.new) \subseteq ToSet(z.new)
          /\ \/ z.failed /\ z.entities = acc.entities
             \/ \E x \in Hidden :
                  /\ ~ z.failed /\ ~ acc.failed /\ z.entities = Append(acc.entities, x)
                  /\ x.type = kept[n].type /\ x.start = kept[n].start /\ x.end = kept[n].end
                  /\ \E e \in known \cup ToSet(z.new) : Stands(e, text, x)
      BY <1>1, <1>2, NumberIs
    <3> HIDE DEF z
    <3>2. next = z
      BY <2>1 DEF z
    <3> QED BY <3>1, <3>2
  <2>3. next \in Numbering
    BY <1>1, <1>2, <2>1, NumberTyped
  <2>4. AllStand(known \cup ToSet(next.new), text, acc.entities)
    BY <1>3, <2>2 DEF AllStand
  <2>5. CASE next.failed /\ next.entities = acc.entities
    BY <1>3, <1>4, <2>2, <2>3, <2>4, <2>5 DEF NumberedTo
  <2>6. ASSUME NEW x \in Hidden,
               ~ next.failed, ~ acc.failed, next.entities = Append(acc.entities, x),
               x.type = kept[n].type, x.start = kept[n].start, x.end = kept[n].end,
               \E e \in known \cup ToSet(next.new) : Stands(e, text, x)
        PROVE NumberedTo(text, known, pol, kept, n, next)
    <3> DEFINE a == acc.entities
               b == next.entities
               k == Len(a) + 1
    <3>1. /\ DOMAIN a = 1..Len(a) /\ Len(a) \in Nat /\ DOMAIN b = 1..k /\ b[k] = x
          /\ \A m \in 1..Len(a) : b[m] = a[m] /\ m \in 1..k
      <4>1. a \in Seq(Hidden)
        BY <1>2 DEF Numbering
      <4> QED BY <2>6, <4>1, LenProperties, AppendProperties
    <3>2. \A m \in DOMAIN b : (m \in DOMAIN a /\ b[m] = a[m]) \/ (m = k /\ b[m] = x)
      BY <3>1, SMTT(30)
    <3>3. Same(x, kept[n])
      BY <2>6 DEF Same
    <3> HIDE DEF a, b, k
    <3>4. ListsOnly(b, pol, kept, n)
      BY <1>1, <1>4, <1>6, <3>2, <3>3 DEF ListsOnly, a
    <3>5. ListsAll(b, pol, kept, n)
      <4>1. ListsAll(a, pol, kept, n - 1)
        BY <1>3, <2>6 DEF a
      <4>2. \A m \in DOMAIN a : m \in DOMAIN b /\ b[m] = a[m]
        BY <3>1
      <4>3. k \in DOMAIN b /\ b[k] = x
        BY <3>1 DEF k
      <4> QED BY <1>1, <3>3, <4>1, <4>2, <4>3 DEF ListsAll
    <3>6. Apart(b)
      <4>1. ASSUME NEW i \in DOMAIN b, NEW j \in DOMAIN b, i < j PROVE b[i].end <= b[j].start
        <5>1. i \in DOMAIN a /\ b[i] = a[i]
          BY <3>1, <3>2, <4>1 DEF k
        <5>2. CASE j \in DOMAIN a /\ b[j] = a[j]
          BY <1>3, <4>1, <5>1, <5>2 DEF Apart, a
        <5>3. CASE b[j] = x
          <6>1. PICK h \in 1..n - 1 : Same(a[i], kept[h])
            BY <1>3, <5>1 DEF ListsOnly, a
          <6> QED BY <1>1, <2>6, <5>1, <5>3, <6>1 DEF Same
        <5> QED BY <3>2, <5>2, <5>3
      <4> QED BY <4>1 DEF Apart
    <3>7. AllStand(known \cup ToSet(next.new), text, b)
      BY <2>4, <2>6, <3>2 DEF AllStand, a
    <3> QED BY <2>2, <2>3, <3>4, <3>5, <3>6, <3>7 DEF NumberedTo, b
  <2> QED BY <2>2, <2>5, <2>6
<1> QED BY <1>5, <1>6

\* Hence it is true of them all.
LEMMA NumberedAll ==
  ASSUME NEW text \in Seq(Word), NEW known, Known(known), NEW pol,
         NEW kept \in Seq(Span), Within(text, kept), Apart(kept)
  PROVE  NumberedTo(text, known, pol, kept, Len(kept), Numbered(text, Told(known), pol, kept))
<1>1. known \in SUBSET Entry
  BY DEF Known
<1>2. PICK g : /\ Numbered(text, Told(known), pol, kept) = g[Len(kept)]
               /\ g[0] = Nothing
               /\ \A n \in 1..Len(kept) : g[n] = NumberOne(text, Told(known), pol, g[n - 1], kept[n])
  BY <1>1, NumberedIs
<1> DEFINE Good(n) == n <= Len(kept) => NumberedTo(text, known, pol, kept, n, g[n])
           P == {n \in Nat : Good(n)}
<1>3. Good(0)
  <2>1. Nothing \in Numbering /\ Nothing.entities = << >> /\ Nothing.new = << >> /\ ~ Nothing.failed
    <3>1. << >> \in Seq(Hidden) /\ << >> \in Seq(Entry)
      BY EmptySeq
    <3> QED BY <3>1 DEF Nothing, Numbering
  <2> DEFINE none == << >>
  <2>2. DOMAIN none = {} /\ ToSet(none) = {}
    <3>1. Len(none) = 0 /\ DOMAIN none = 1..Len(none)
      OBVIOUS
    <3> QED BY <3>1 DEF ToSet
  <2>3. known \cup ToSet(none) = known
    BY <2>2
  <2>4. Nothing.entities = none /\ Nothing.new = none
    BY <2>1
  <2> HIDE DEF none
  <2>5. \A i \in 1..0 : FALSE
    OBVIOUS
  <2>6. /\ ListsOnly(none, pol, kept, 0) /\ ListsAll(none, pol, kept, 0) /\ Apart(none)
        /\ AllStand(known, text, none)
    BY <2>2, <2>5 DEF ListsOnly, ListsAll, Apart, AllStand
  <2> QED BY <1>2, <2>1, <2>3, <2>4, <2>6 DEF NumberedTo
<1>4. ASSUME NEW n \in Nat, Good(n) PROVE Good(n + 1)
  <2> SUFFICES ASSUME n + 1 <= Len(kept) PROVE NumberedTo(text, known, pol, kept, n + 1, g[n + 1])
    OBVIOUS
  <2>1. Len(kept) \in Nat
    BY LenProperties
  <2>2. n + 1 \in 1..Len(kept) /\ n + 1 - 1 = n /\ n <= Len(kept)
    BY <2>1
  <2>3. NumberedTo(text, known, pol, kept, n + 1 - 1, g[n])
    BY <1>4, <2>2
  <2>4. g[n + 1] = NumberOne(text, Told(known), pol, g[n], kept[n + 1])
    BY <1>2, <2>2
  <2> QED BY <1>1, <2>2, <2>3, <2>4, NumberedMore
<1> HIDE DEF Good
<1>5. P = Nat
  <2>1. P \in SUBSET Nat /\ 0 \in P /\ \A n \in P : n + 1 \in P
    BY <1>3, <1>4
  <2> HIDE DEF P
  <2> QED BY <2>1, NatSetInduction
<1>6. Good(Len(kept))
  BY <1>5, LenProperties
<1> QED BY <1>2, <1>6, LenProperties DEF Good
--------------------------------------------------------------------------------
(* Replacement. *)

\* Joined texts are cut where they were joined.
LEMMA Cut ==
  ASSUME NEW T, NEW a \in Strings(T), NEW b \in Strings(T)
  PROVE  /\ \A k \in 0..Len(a) : SubSeq(a \o b, 1, k) = SubSeq(a, 1, k)
         /\ SubSeq(a \o b, Len(a) + 1, Len(a \o b)) = b
<1>1. a \in Seq(T) /\ b \in Seq(T) /\ Len(a) \in Nat /\ Len(b) \in Nat
  BY LenProperties DEF Strings
<1>2. a \o b \in Seq(T) /\ Len(a \o b) = Len(a) + Len(b)
  BY <1>1, ConcatProperties
<1>3. ASSUME NEW k \in 0..Len(a) PROVE SubSeq(a \o b, 1, k) = SubSeq(a, 1, k)
  <2>1. CASE k = 0
    <3>1. SubSeq(a \o b, 1, 0) = << >> /\ SubSeq(a, 1, 0) = << >>
      BY SubSeqEmpty
    <3> QED BY <2>1, <3>1
  <2>2. CASE k # 0
    <3>1. k \in 1..Len(a) /\ 1 \in 1..Len(a)
      BY <1>1, <2>2
    <3> QED BY <1>1, <3>1, SubSeqOfConcat1
  <2> QED BY <2>1, <2>2
<1>4. SubSeq(a \o b, Len(a) + 1, Len(a \o b)) = b
  <2>1. CASE Len(b) = 0
    <3>1. b = << >>
      BY <1>1, <2>1, EmptySeq
    <3>2. SubSeq(a \o b, Len(a) + 1, Len(a)) = << >>
      BY <1>1, SubSeqEmpty
    <3> QED BY <1>1, <1>2, <2>1, <3>1, <3>2
  <2>2. CASE Len(b) # 0
    <3>1. /\ Len(a) + 1 \in Len(a) + 1..Len(a) + Len(b)
          /\ Len(a) + Len(b) \in Len(a) + 1..Len(a) + Len(b)
      BY <1>1, <2>2
    <3>2. SubSeq(a \o b, Len(a) + 1, Len(a) + Len(b))
            = SubSeq(b, Len(a) + 1 - Len(a), Len(a) + Len(b) - Len(a))
      BY <1>1, <3>1, SubSeqOfConcat2
    <3>3. Len(a) + 1 - Len(a) = 1 /\ Len(a) + Len(b) - Len(a) = Len(b)
      BY <1>1
    <3>4. SubSeq(b, 1, Len(b)) = b
      BY <1>1, SubSeqFull
    <3> QED BY <1>2, <3>2, <3>3, <3>4
  <2> QED BY <2>1, <2>2
<1> QED BY <1>3, <1>4

\* One replacement, in a text that is unchanged up to the end of the span.
IsReplaced(text, e, rest, y) ==
  /\ <<e.ph>> \in Strings(Token)
  /\ y = (SubSeq(text, 1, e.start) \o <<e.ph>>) \o rest
  /\ y \in Strings(Token)

\* A replacement leaves what is before the span, and what is after it, as it was.
LEMMA ReplaceIs ==
  ASSUME NEW text \in Strings(Token), NEW e \in Hidden, e.start < e.end, e.end <= Len(text),
         NEW rest \in Strings(Token), NEW x, x = SubSeq(text, 1, e.end) \o rest
  PROVE  IsReplaced(text, e, rest, Replace(x, e))
<1> DEFINE a == SubSeq(text, 1, e.end)
<1>1. e.start \in Nat /\ e.end \in Nat /\ e.ph \in Token /\ e.start <= e.end
  BY DEF Hidden, Token
<1>2. Len(text) \in Nat /\ text \in Seq(Token) /\ \A i \in 1..Len(text) : text[i] \in Token
  BY LenProperties, ElementOfSeq DEF Strings
<1>3. a \in Strings(Token) /\ Len(a) = e.end
  <2>1. \A i \in 1..e.end : text[i] \in Token
    BY <1>1, <1>2
  <2> QED BY <1>1, <2>1, SubSeqProperties DEF Strings
<1>4. SubSeq(text, 1, e.start) \in Strings(Token)
  <2>1. \A i \in 1..e.start : text[i] \in Token
    BY <1>1, <1>2
  <2> QED BY <1>1, <2>1, SubSeqProperties DEF Strings
<1>5. SubSeq(a, 1, e.start) = SubSeq(text, 1, e.start)
  <2>1. CASE e.start = 0
    BY <2>1, SubSeqEmpty
  <2>2. CASE e.start # 0
    <3>1. 1 \in 1..Len(text) /\ e.end \in 1..Len(text) /\ 1 \in 1..e.end - 1 + 1
          /\ e.start \in 1..e.end - 1 + 1
      BY <1>1, <1>2, <2>2
    <3>2. SubSeq(a, 1, e.start) = SubSeq(text, 1 + 1 - 1, 1 + e.start - 1)
      BY <1>2, <3>1, SubSeqOfSubSeq
    <3>3. 1 + 1 - 1 = 1 /\ 1 + e.start - 1 = e.start
      BY <1>1
    <3> QED BY <3>2, <3>3
  <2> QED BY <2>1, <2>2
<1> HIDE DEF a
<1>6. x = a \o rest
  BY DEF a
<1>7. SubSeq(x, 1, e.start) = SubSeq(text, 1, e.start) /\ SubSeq(x, e.end + 1, Len(x)) = rest
  <2>1. e.start \in 0..Len(a)
    BY <1>1, <1>3
  <2>2. /\ \A k \in 0..Len(a) : SubSeq(a \o rest, 1, k) = SubSeq(a, 1, k)
        /\ SubSeq(a \o rest, Len(a) + 1, Len(a \o rest)) = rest
    BY <1>3, Cut
  <2> QED BY <1>3, <1>5, <1>6, <2>1, <2>2
<1>8. <<e.ph>> \in Strings(Token)
  BY <1>1, StringsAre
<1>9. Replace(x, e) = (SubSeq(text, 1, e.start) \o <<e.ph>>) \o rest
  BY <1>7 DEF Replace
<1> DEFINE f == SubSeq(text, 1, e.start)
           w == <<e.ph>>
<1>10. f \in Strings(Token) /\ w \in Strings(Token) /\ rest \in Strings(Token)
  BY <1>4, <1>8
<1>11. Replace(x, e) = (f \o w) \o rest
  BY <1>9
<1> HIDE DEF f, w
<1>12. \A t, u \in Strings(Token) : t \o u \in Strings(Token)
  BY StringsAre
<1>13. Replace(x, e) \in Strings(Token)
  <2>1. f \o w \in Strings(Token)
    BY <1>10, <1>12
  <2>2. (f \o w) \o rest \in Strings(Token)
    BY <1>10, <1>12, <2>1, Zenon
  <2> QED BY <1>11, <2>2
<1> QED BY <1>10, <1>11, <1>13 DEF f, w, IsReplaced

\* What Rendered puts at each position.
Covers(e, p) == e.start < p /\ p <= e.end
Piece(text, es, p) ==
  IF \E n \in DOMAIN es : Covers(es[n], p)
    THEN LET e == es[CHOOSE n \in DOMAIN es : Covers(es[n], p)]
         IN  IF p = e.start + 1 THEN <<e.ph>> ELSE << >>
  ELSE <<text[p]>>
Pieces(text, es) == [p \in DOMAIN text |-> Piece(text, es, p)]

\* Rendered joins one piece for each position.
LEMMA RenderedIs ==
  ASSUME NEW text, NEW es
  PROVE  Rendered(text, es) = FlattenSeq(Pieces(text, es))
  BY DEF Rendered, Pieces, Piece, Covers

\* The entities of a text, as the numbering leaves them.
Placed(text, es) == es \in Seq(Hidden) /\ Within(text, es) /\ Apart(es)

\* What it is for entities to have their places, spelt out.
LEMMA PlacedIs ==
  ASSUME NEW text \in Seq(Word), NEW es, Placed(text, es)
  PROVE  /\ DOMAIN es = 1..Len(es) /\ Len(es) \in Nat /\ Len(text) \in Nat
         /\ DOMAIN text = 1..Len(text) /\ text \in Strings(Token)
         /\ \A i \in 1..Len(text) : text[i] \in Word /\ text[i] \in Token
         /\ \A n \in 1..Len(es) :
              /\ es[n] \in Hidden /\ es[n].ph \in Token /\ es[n].ph \in Placeholder
              /\ es[n].start \in Nat /\ es[n].end \in Nat
              /\ es[n].start < es[n].end /\ es[n].end <= Len(text)
         /\ \A m, n \in 1..Len(es) : m < n => es[m].end <= es[n].start
<1>1. DOMAIN es = 1..Len(es) /\ Len(es) \in Nat /\ Len(text) \in Nat /\ DOMAIN text = 1..Len(text)
  BY LenProperties DEF Placed
<1>2. \A n \in 1..Len(es) : es[n] \in Hidden
  BY ElementOfSeq DEF Placed
<1>3. \A i \in 1..Len(text) : text[i] \in Word
  BY ElementOfSeq
<1>4. text \in Strings(Token)
  <2>1. text = [i \in 1..Len(text) |-> text[i]]
    BY <1>1
  <2> QED BY SeqMonotonic DEF Token, Strings
<1>5. \A n \in 1..Len(es) : es[n].start < es[n].end /\ es[n].end <= Len(text)
  BY <1>1 DEF Placed, Within
<1>6. \A m, n \in 1..Len(es) : m < n => es[m].end <= es[n].start
  BY <1>1 DEF Placed, Apart
<1>7. \A n \in 1..Len(es) : /\ es[n].ph \in Token /\ es[n].ph \in Placeholder
                            /\ es[n].start \in Nat /\ es[n].end \in Nat
  BY <1>2 DEF Hidden, Token
<1> QED BY <1>1, <1>2, <1>3, <1>4, <1>5, <1>6, <1>7 DEF Token

EndOf(es, n) == IF n = 0 THEN 0 ELSE es[n].end
StartOf(text, es, n) == IF n = Len(es) + 1 THEN Len(text) ELSE es[n].start

ArePieces(text, es, ss) ==
  /\ ss \in Seq(Strings(Token)) /\ Len(ss) = Len(text)
  /\ \A n \in 1..Len(es) :
       /\ ss[es[n].start + 1] = <<es[n].ph>>
       /\ \A p \in es[n].start + 2..es[n].end : ss[p] = << >>
  /\ \A n \in 0..Len(es) : Singly(ss, text, EndOf(es, n), StartOf(text, es, n + 1))

\* The piece is a placeholder at the beginning of an entity, nothing in the rest of it
\* and the word itself elsewhere.
LEMMA PiecesAre ==
  ASSUME NEW text \in Seq(Word), NEW es, Placed(text, es), NEW ss, ss = Pieces(text, es)
  PROVE  ArePieces(text, es, ss)
<1>1. /\ DOMAIN es = 1..Len(es) /\ Len(es) \in Nat /\ Len(text) \in Nat
      /\ DOMAIN text = 1..Len(text)
      /\ \A i \in 1..Len(text) : text[i] \in Token
      /\ \A n \in 1..Len(es) :
           /\ es[n].ph \in Token /\ es[n].start \in Nat /\ es[n].end \in Nat
           /\ es[n].start < es[n].end /\ es[n].end <= Len(text)
      /\ \A m, n \in 1..Len(es) : m < n => es[m].end <= es[n].start
  BY PlacedIs
<1>2. ASSUME NEW n \in 1..Len(es), NEW p \in es[n].start + 1..es[n].end
      PROVE  ss[p] = IF p = es[n].start + 1 THEN <<es[n].ph>> ELSE << >>
  <2>1. p \in 1..Len(text) /\ Covers(es[n], p)
    BY <1>1, <1>2 DEF Covers
  <2> DEFINE m == CHOOSE k \in DOMAIN es : Covers(es[k], p)
  <2>2. m \in 1..Len(es) /\ Covers(es[m], p)
    BY <1>1, <2>1
  <2>3. Piece(text, es, p) = IF p = es[m].start + 1 THEN <<es[m].ph>> ELSE << >>
    BY <1>1, <2>1 DEF Piece
  <2> HIDE DEF m
  <2>4. ~ (m < n) /\ ~ (n < m)
    BY <1>1, <2>1, <2>2 DEF Covers
  <2>5. m = n
    BY <2>2, <2>4
  <2> QED BY <1>1, <2>1, <2>3, <2>5 DEF Pieces
<1>3. ASSUME NEW p \in 1..Len(text), \A n \in 1..Len(es) : ~ Covers(es[n], p)
      PROVE  ss[p] = <<text[p]>>
  BY <1>1, <1>3 DEF Pieces, Piece
<1>0. << >> \in Strings(Token) /\ \A x \in Token : <<x>> \in Strings(Token)
  BY StringsAre
<1>4. ASSUME NEW p \in 1..Len(text) PROVE ss[p] \in Strings(Token)
  <2>1. CASE \A n \in 1..Len(es) : ~ Covers(es[n], p)
    <3>1. text[p] \in Token /\ ss[p] = <<text[p]>>
      BY <1>1, <1>3, <2>1
    <3> QED BY <1>0, <3>1
  <2>2. CASE \E n \in 1..Len(es) : Covers(es[n], p)
    <3>1. PICK n \in 1..Len(es) : Covers(es[n], p)
      BY <2>2
    <3>2. p \in es[n].start + 1..es[n].end
      BY <1>1, <3>1 DEF Covers
    <3>3. ss[p] = <<es[n].ph>> \/ ss[p] = << >>
      BY <1>2, <3>2
    <3>4. es[n].ph \in Token
      BY <1>1
    <3> QED BY <1>0, <3>3, <3>4
  <2> QED BY <2>1, <2>2
<1>5. ss \in Seq(Strings(Token)) /\ Len(ss) = Len(text)
  <2>1. ss = [p \in 1..Len(text) |-> ss[p]]
    BY <1>1 DEF Pieces
  <2> QED BY <1>1, <1>4, <2>1, IsASeq
<1>6. ASSUME NEW n \in 1..Len(es)
      PROVE  /\ ss[es[n].start + 1] = <<es[n].ph>>
             /\ \A p \in es[n].start + 2..es[n].end : ss[p] = << >>
  <2>1. es[n].start + 1 \in es[n].start + 1..es[n].end
    BY <1>1
  <2>2. \A p \in es[n].start + 2..es[n].end : p \in es[n].start + 1..es[n].end /\ p # es[n].start + 1
    BY <1>1
  <2> QED BY <1>2, <2>1, <2>2
<1>7. ASSUME NEW n \in 0..Len(es), NEW p \in EndOf(es, n) + 1..StartOf(text, es, n + 1)
      PROVE  ss[p] = <<text[p]>>
  <2> DEFINE b == EndOf(es, n)
             c == StartOf(text, es, n + 1)
             N == Len(es)
  <2>0. N \in Nat /\ n \in 0..N
    BY <1>1
  <2> HIDE DEF N
  <2>1. /\ b \in Nat /\ c \in Nat /\ c <= Len(text)
        /\ n # 0 => n \in 1..Len(es) /\ b = es[n].end
        /\ n # N => n + 1 \in 1..Len(es) /\ c = es[n + 1].start
    <3>1. n # 0 => n \in 1..N /\ b = es[n].end
      BY <2>0 DEF EndOf
    <3>2. n # N => n + 1 \in 1..N /\ n + 1 # N + 1
      BY <2>0
    <3>3. n # N => c = es[n + 1].start
      BY <3>2 DEF StartOf, N
    <3>4. (n = 0 => b = 0) /\ (n = N => c = Len(text))
      BY DEF EndOf, StartOf, N
    <3>5. b \in Nat
      <4> HIDE DEF b
      <4>1. CASE n = 0
        BY <3>4, <4>1
      <4>2. CASE n # 0
        BY <1>1, <3>1, <4>2 DEF N
      <4> QED BY <4>1, <4>2
    <3>6. c \in Nat /\ c <= Len(text)
      <4>1. CASE n = N
        BY <1>1, <3>4, <4>1
      <4>2. CASE n # N
        <5>1. n + 1 \in 1..Len(es) /\ c = es[n + 1].start
          BY <3>2, <3>3, <4>2 DEF N
        <5> HIDE DEF c
        <5>2. /\ es[n + 1].start \in Nat /\ es[n + 1].end \in Nat
              /\ es[n + 1].start < es[n + 1].end /\ es[n + 1].end <= Len(text)
          BY <1>1, <5>1
        <5> QED BY <1>1, <5>1, <5>2
      <4> QED BY <4>1, <4>2
    <3> QED BY <3>1, <3>2, <3>3, <3>5, <3>6 DEF N
  <2>2. p \in b + 1..c
    OBVIOUS
  <2> HIDE DEF b, c
  <2>3. p \in 1..Len(text) /\ p \in Nat /\ b < p /\ p <= c
    <3>1. Len(text) \in Nat
      BY <1>1
    <3> QED BY <2>1, <2>2, <3>1
  <2>4. ASSUME NEW m \in 1..Len(es), Covers(es[m], p) PROVE FALSE
    <3>1. CASE m <= n
      <4>1. n \in 1..Len(es) /\ b = es[n].end
        <5>1. n # 0
          BY <2>0, <3>1
        <5> QED BY <2>1, <5>1
      <4>2. es[m].end <= es[n].end
        <5>1. CASE m = n
          BY <1>1, <5>1
        <5>2. CASE m < n
          <6>1. es[m].end <= es[n].start
            BY <1>1, <4>1, <5>2
          <6> QED BY <1>1, <4>1, <6>1
        <5> QED BY <3>1, <5>1, <5>2
      <4> QED BY <1>1, <2>3, <2>4, <4>1, <4>2 DEF Covers
    <3>2. CASE m > n
      <4>1. n + 1 \in 1..Len(es) /\ c = es[n + 1].start
        <5>1. n # N
          BY <2>0, <3>2 DEF N
        <5> QED BY <2>1, <5>1
      <4>2. es[n + 1].start <= es[m].start
        <5>1. CASE m = n + 1
          BY <1>1, <5>1
        <5>2. CASE n + 1 < m
          <6>1. es[n + 1].end <= es[m].start
            BY <1>1, <4>1, <5>2
          <6> QED BY <1>1, <4>1, <6>1
        <5> QED BY <3>2, <5>1, <5>2
      <4> QED BY <1>1, <2>3, <2>4, <4>1, <4>2 DEF Covers
    <3> QED BY <3>1, <3>2
  <2> QED BY <1>3, <2>3, <2>4
<1>8. \A n \in 0..Len(es) : Singly(ss, text, EndOf(es, n), StartOf(text, es, n + 1))
  BY <1>7 DEF Singly
<1> QED BY <1>5, <1>6, <1>8 DEF ArePieces

\* The first n entities are still to be replaced in x.
DoneTo(text, es, n, x) ==
  \E rest \in Strings(Token) :
    /\ x = SubSeq(text, 1, EndOf(es, n)) \o rest
    /\ FlattenSeq(Pieces(text, es)) = Part(Pieces(text, es), EndOf(es, n)) \o rest

\* From the end of one entity to the start of the next.
LEMMA BoundsAre ==
  ASSUME NEW text \in Seq(Word), NEW es, Placed(text, es), NEW n \in 0..Len(es)
  PROVE  /\ EndOf(es, n) \in 0..Len(text)
         /\ StartOf(text, es, n + 1) \in EndOf(es, n)..Len(text)
<1> DEFINE N == Len(es)
<1>1. /\ N \in Nat /\ Len(text) \in Nat /\ n \in 0..N
      /\ \A m \in 1..N : /\ es[m].start \in Nat /\ es[m].end \in Nat
                         /\ es[m].start < es[m].end /\ es[m].end <= Len(text)
      /\ \A k, m \in 1..N : k < m => es[k].end <= es[m].start
  BY PlacedIs
<1>2. StartOf(text, es, n + 1) = IF n + 1 = N + 1 THEN Len(text) ELSE es[n + 1].start
  BY DEF StartOf
<1> HIDE DEF N
<1>3. n # 0 => n \in 1..N
  BY <1>1
<1>4. EndOf(es, n) \in 0..Len(text)
  BY <1>1, <1>3 DEF EndOf
<1>5. CASE n = N
  <2>1. StartOf(text, es, n + 1) = Len(text)
    BY <1>2, <1>5
  <2> QED BY <1>1, <1>4, <2>1
<1>6. CASE n # N
  <2>1. n + 1 \in 1..N /\ StartOf(text, es, n + 1) = es[n + 1].start
    BY <1>1, <1>2, <1>6
  <2>2. es[n + 1].start \in Nat /\ es[n + 1].start <= Len(text)
    <3>1. /\ es[n + 1].start \in Nat /\ es[n + 1].end \in Nat
          /\ es[n + 1].start < es[n + 1].end /\ es[n + 1].end <= Len(text)
      BY <1>1, <2>1
    <3> QED BY <1>1, <3>1
  <2>3. EndOf(es, n) <= es[n + 1].start
    <3>1. CASE n = 0
      BY <2>2, <3>1 DEF EndOf
    <3>2. CASE n # 0
      <4>1. n \in 1..N /\ n < n + 1
        BY <1>3, <3>2
      <4>2. es[n].end <= es[n + 1].start
        BY <1>1, <2>1, <4>1
      <4> QED BY <3>2, <4>2 DEF EndOf
    <3> QED BY <3>1, <3>2
  <2> QED BY <1>4, <2>1, <2>2, <2>3
<1> QED BY <1>4, <1>5, <1>6

\* Up to the end of an entity and up to its start.
LEMMA EntityPart ==
  ASSUME NEW text \in Seq(Word), NEW es, Placed(text, es), NEW n \in 1..Len(es),
         NEW ss, ss = Pieces(text, es)
  PROVE  /\ Part(ss, es[n].end) = Part(ss, es[n].start) \o <<es[n].ph>>
         /\ Part(ss, es[n].start) \in Strings(Token) /\ <<es[n].ph>> \in Strings(Token)
<1>1. /\ es[n].ph \in Token /\ es[n].start \in Nat /\ es[n].end \in Nat /\ Len(text) \in Nat
      /\ es[n].start < es[n].end /\ es[n].end <= Len(text)
  BY PlacedIs
<1>2. /\ ss \in Seq(Strings(Token)) /\ Len(ss) = Len(text)
      /\ ss[es[n].start + 1] = <<es[n].ph>>
      /\ \A p \in es[n].start + 2..es[n].end : ss[p] = << >>
  <2>1. ArePieces(text, es, ss)
    BY PiecesAre
  <2> QED BY <2>1 DEF ArePieces
<1> DEFINE b == es[n].start
           c == es[n].end
           w == <<es[n].ph>>
<1>3. /\ b \in Nat /\ c \in Nat /\ b < c /\ c <= Len(ss) /\ Len(ss) \in Nat
      /\ ss[b + 1] = w /\ \A p \in b + 2..c : ss[p] = << >>
  BY <1>1, <1>2
<1>4. w \in Strings(Token)
  BY <1>1, StringsAre
<1> HIDE DEF b, c, w
<1>5. b + 1 \in 0..Len(ss) /\ c \in b + 1..Len(ss) /\ b + 1 \in 1..Len(ss) /\ b \in 0..Len(ss)
  BY <1>3
<1>6. Part(ss, c) = Part(ss, b + 1)
  <2>1. \A p \in b + 1 + 1..c : ss[p] = << >>
    BY <1>3
  <2> QED BY <1>2, <1>5, <2>1, PartNone
<1>7. Part(ss, b + 1) = Part(ss, b) \o w /\ Part(ss, b) \in Strings(Token)
  <2>1. /\ \A k \in 0..Len(ss) : Part(ss, k) \in Strings(Token)
        /\ \A k \in 1..Len(ss) : Part(ss, k) = Part(ss, k - 1) \o ss[k]
    <3>1. ss \in Seq(Strings(Token))
      BY <1>2
    <3> QED BY <3>1, PartIs, Zenon
  <2>2. Part(ss, b) \in Strings(Token)
    BY <1>5, <2>1, Zenon
  <2>3. Part(ss, b + 1) = Part(ss, b) \o w
    <3> DEFINE j == b + 1
    <3>1. j \in 1..Len(ss) /\ j - 1 = b /\ ss[j] = w
      BY <1>3, <1>5
    <3> HIDE DEF j
    <3>2. Part(ss, j) = Part(ss, b) \o w
      BY <2>1, <3>1
    <3> QED BY <3>2 DEF j
  <2> QED BY <2>2, <2>3
<1> QED BY <1>4, <1>6, <1>7 DEF b, c, w

\* Up to the start of the entity after the n-th, from its end.
IsGap(text, ss, b, c) ==
  /\ Part(ss, c) = Part(ss, b) \o SubSeq(text, b + 1, c)
  /\ SubSeq(text, 1, c) = SubSeq(text, 1, b) \o SubSeq(text, b + 1, c)
  /\ Part(ss, b) \in Strings(Token) /\ SubSeq(text, b + 1, c) \in Strings(Token)
  /\ SubSeq(text, 1, b) \in Strings(Token)

\* Between two entities the pieces are the text.
LEMMA GapPart ==
  ASSUME NEW text \in Seq(Word), NEW es, Placed(text, es), NEW n \in 0..Len(es),
         NEW ss, ss = Pieces(text, es), NEW b, b = EndOf(es, n), NEW c, c = StartOf(text, es, n + 1)
  PROVE  IsGap(text, ss, b, c)
<1>1. text \in Strings(Token) /\ Len(text) \in Nat /\ \A i \in 1..Len(text) : text[i] \in Token
  BY PlacedIs
<1>2. b \in 0..Len(text) /\ c \in b..Len(text)
  BY BoundsAre
<1>0. ArePieces(text, es, ss)
  BY PiecesAre
<1>3. ss \in Seq(Strings(Token)) /\ Len(ss) = Len(text)
  BY <1>0 DEF ArePieces
<1>4. Singly(ss, text, b, c)
  BY <1>0 DEF ArePieces
<1>5. Part(ss, c) = Part(ss, b) \o SubSeq(text, b + 1, c)
  <2>1. Len(text) = Len(ss) /\ b \in 0..Len(ss) /\ c \in b..Len(ss)
    BY <1>2, <1>3
  <2> QED BY <1>1, <1>3, <1>4, <2>1, PartPlain, Zenon
<1>6. SubSeq(text, 1, c) = SubSeq(text, 1, b) \o SubSeq(text, b + 1, c)
  <2>1. 1 \in 1..Len(text) + 1 /\ b \in 1 - 1..Len(text)
    BY <1>1, <1>2
  <2> QED BY <1>1, <1>2, <2>1, ConcatAdjacentSubSeq DEF Strings
<1>7. Part(ss, b) \in Strings(Token)
  BY <1>2, <1>3, PartIs
<1>8. SubSeq(text, b + 1, c) \in Strings(Token) /\ SubSeq(text, 1, b) \in Strings(Token)
  <2>1. \A i \in b + 1..c : text[i] \in Token
    BY <1>1, <1>2
  <2>2. \A i \in 1..b : text[i] \in Token
    BY <1>1, <1>2
  <2> QED BY <1>1, <1>2, <2>1, <2>2, SubSeqProperties DEF Strings
<1> QED BY <1>5, <1>6, <1>7, <1>8 DEF IsGap

\* Before the first replacement nothing is done ...
LEMMA DoneNone ==
  ASSUME NEW text \in Seq(Word), NEW es, Placed(text, es)
  PROVE  DoneTo(text, es, Len(es), text)
<1> DEFINE N == Len(es)
           ss == Pieces(text, es)
           b == EndOf(es, N)
           rest == SubSeq(text, b + 1, Len(text))
<1>1. N \in Nat /\ N \in 0..Len(es) /\ text \in Seq(Token) /\ Len(text) \in Nat
  BY PlacedIs DEF Strings
<1>2. StartOf(text, es, N + 1) = Len(text)
  BY DEF StartOf
<1>3. /\ Part(ss, Len(text)) = Part(ss, b) \o rest
      /\ SubSeq(text, 1, Len(text)) = SubSeq(text, 1, b) \o rest
      /\ rest \in Strings(Token)
  <2>1. IsGap(text, ss, b, StartOf(text, es, N + 1))
    BY <1>1, GapPart
  <2>2. IsGap(text, ss, b, Len(text))
    BY <1>2, <2>1
  <2> QED BY <2>2 DEF IsGap
<1>4. Part(ss, Len(text)) = FlattenSeq(ss)
  <2>1. ss \in Seq(Strings(Token)) /\ Len(ss) = Len(text)
    BY PiecesAre DEF ArePieces
  <2> QED BY <2>1, PartIs
<1>5. SubSeq(text, 1, Len(text)) = text
  BY <1>1, SubSeqFull
<1> QED BY <1>3, <1>4, <1>5 DEF DoneTo

\* ... after the last one the text is the pieces.
LEMMA DoneAll ==
  ASSUME NEW text \in Seq(Word), NEW es, Placed(text, es), NEW x, DoneTo(text, es, 0, x)
  PROVE  x = FlattenSeq(Pieces(text, es))
<1>1. EndOf(es, 0) = 0
  BY DEF EndOf
<1>2. SubSeq(text, 1, 0) = << >>
  BY SubSeqEmpty
<1>3. Part(Pieces(text, es), 0) = << >>
  <2>1. Pieces(text, es) \in Seq(Strings(Token))
    BY PiecesAre DEF ArePieces
  <2> QED BY <2>1, PartIs
<1> QED BY <1>1, <1>2, <1>3 DEF DoneTo

\* One replacement more does one entity more, counted from the right.
LEMMA ReplaceMore ==
  ASSUME NEW text \in Seq(Word), NEW es, Placed(text, es), NEW n \in 1..Len(es),
         NEW x, DoneTo(text, es, n, x)
  PROVE  Replace(x, es[n]) \in Strings(Token) /\ DoneTo(text, es, n - 1, Replace(x, es[n]))
<1> DEFINE ss == Pieces(text, es)
           e == es[n]
           y == Replace(x, e)
           b == EndOf(es, n - 1)
           gap == SubSeq(text, b + 1, e.start)
           w == <<e.ph>>
           f == SubSeq(text, 1, b)
           g == Part(ss, b)
<1>1. /\ e \in Hidden /\ e.start < e.end /\ e.end <= Len(text) /\ text \in Strings(Token)
      /\ Len(es) \in Nat
  BY PlacedIs
<1>2. PICK rest \in Strings(Token) : /\ x = SubSeq(text, 1, EndOf(es, n)) \o rest
                                     /\ FlattenSeq(ss) = Part(ss, EndOf(es, n)) \o rest
  BY DEF DoneTo
<1>3. EndOf(es, n) = e.end
  BY DEF EndOf
<1>4. x = SubSeq(text, 1, e.end) \o rest /\ FlattenSeq(ss) = Part(ss, e.end) \o rest
  BY <1>2, <1>3
<1>5. /\ w \in Strings(Token) /\ y = (SubSeq(text, 1, e.start) \o w) \o rest
      /\ y \in Strings(Token)
  <2>1. IsReplaced(text, e, rest, y)
    BY <1>1, <1>4, ReplaceIs
  <2> QED BY <2>1 DEF IsReplaced
<1>6. Part(ss, e.end) = Part(ss, e.start) \o w
  BY EntityPart
<1>7. /\ Part(ss, e.start) = g \o gap
      /\ SubSeq(text, 1, e.start) = f \o gap
      /\ g \in Strings(Token) /\ gap \in Strings(Token) /\ f \in Strings(Token)
  <2>1. n - 1 \in 0..Len(es) /\ n - 1 + 1 = n /\ n # Len(es) + 1
    BY <1>1
  <2>2. StartOf(text, es, n - 1 + 1) = e.start
    BY <2>1 DEF StartOf
  <2>3. IsGap(text, ss, b, StartOf(text, es, n - 1 + 1))
    BY <2>1, GapPart
  <2>4. IsGap(text, ss, b, e.start)
    BY <2>2, <2>3
  <2> QED BY <2>4 DEF IsGap
<1> HIDE DEF e, y, b, gap, w, f, g, ss
<1>8. y = ((f \o gap) \o w) \o rest /\ FlattenSeq(ss) = ((g \o gap) \o w) \o rest
  BY <1>4, <1>5, <1>6, <1>7
<1>9. \A t, u \in Strings(Token) : t \o u \in Strings(Token)
  BY StringsAre
<1>10. \A t, u, v \in Strings(Token) : (t \o u) \o v = t \o (u \o v)
  BY Regrouped, SMTT(30)
<1> DEFINE r == (gap \o w) \o rest
<1>11. gap \o w \in Strings(Token) /\ r \in Strings(Token)
  BY <1>2, <1>5, <1>7, <1>9, Zenon
<1>12. ASSUME NEW a \in Strings(Token) PROVE ((a \o gap) \o w) \o rest = a \o r
  <2>1. gap \in Strings(Token) /\ w \in Strings(Token)
    BY <1>5, <1>7, Zenon
  <2>2. (a \o gap) \o w = a \o (gap \o w)
    BY <1>10, <2>1, Zenon
  <2>3. (a \o (gap \o w)) \o rest = a \o ((gap \o w) \o rest)
    BY <1>2, <1>10, <1>11, Zenon
  <2> QED BY <2>2, <2>3
<1> HIDE DEF r
<1>13. y = f \o r /\ FlattenSeq(ss) = g \o r
  BY <1>7, <1>8, <1>12
<1>14. DoneTo(text, es, n - 1, y)
  BY <1>11, <1>13 DEF DoneTo, f, g, b, ss
<1> QED BY <1>5, <1>14 DEF y, e

\* What ReplaceAllOf computes.
IsReplacing(text, order, g) ==
  g = [n \in 0..Len(order) |-> IF n = 0 THEN text ELSE Replace(g[n - 1], order[n])]

\* The entities from the right.
LEMMA ReversedIs ==
  ASSUME NEW T, NEW es \in Seq(T)
  PROVE  /\ Len(Reverse(es)) = Len(es) /\ Len(es) \in Nat
         /\ \A k \in 1..Len(es) : Reverse(es)[k] = es[Len(es) - (k - 1)]
<1>1. Len(es) \in Nat
  BY LenProperties
<1>2. Reverse(es) = [i \in 1..Len(es) |-> es[(Len(es) - i) + 1]]
  BY DEF Reverse
<1>3. Len(Reverse(es)) = Len(es)
  BY <1>1, <1>2
<1>4. \A k \in 1..Len(es) : (Len(es) - k) + 1 = Len(es) - (k - 1)
  BY <1>1
<1> QED BY <1>1, <1>2, <1>3, <1>4

\* The replacements from the right do what Rendered says.
Replaces(text, order, g) ==
  /\ g[0] = text
  /\ \A k \in 1..Len(order) : g[k] = Replace(g[k - 1], order[k])
ReplacesIfTyped(text, order, g) ==
  /\ g[0] = text
  /\ \A k \in 1..Len(order) : \/ g[k] = Replace(g[k - 1], order[k])
                              \/ Replace(g[k - 1], order[k]) \notin Strings(Token)

\* The loop of replacements, by induction along its passes.
LEMMA ReplacingIs ==
  ASSUME NEW text \in Seq(Word), NEW es, Placed(text, es), NEW order, order = Reverse(es),
         NEW g, ReplacesIfTyped(text, order, g)
  PROVE  Replaces(text, order, g) /\ DoneTo(text, es, 0, g[Len(order)])
<1> DEFINE A == Strings(Token)
<1>0. /\ g[0] = text
      /\ \A k \in 1..Len(order) : \/ g[k] = Replace(g[k - 1], order[k])
                                  \/ Replace(g[k - 1], order[k]) \notin A
  BY DEF ReplacesIfTyped
<1> HIDE DEF A
<1> DEFINE N == Len(es)
           Good(k) == k <= N => DoneTo(text, es, N - k, g[k])
           P == {k \in Nat : Good(k)}
<1>1. /\ N \in Nat /\ Len(order) = N
      /\ \A k \in 1..N : order[k] = es[N - (k - 1)]
  BY ReversedIs DEF Placed
<1>2. Good(0)
  <2>1. N - 0 = N
    BY <1>1
  <2> QED BY <1>0, <2>1, DoneNone
<1>3. ASSUME NEW k \in Nat, k + 1 <= N, DoneTo(text, es, N - k, g[k])
      PROVE  DoneTo(text, es, N - (k + 1), g[k + 1]) /\ g[k + 1] = Replace(g[k], order[k + 1])
  <2>1. k + 1 \in 1..N /\ k + 1 - 1 = k /\ N - k \in 1..N /\ N - k - 1 = N - (k + 1)
    BY <1>1, <1>3
  <2>2. order[k + 1] = es[N - k]
    BY <1>1, <2>1
  <2>3. /\ Replace(g[k], es[N - k]) \in Strings(Token)
        /\ DoneTo(text, es, N - k - 1, Replace(g[k], es[N - k]))
    BY <1>3, <2>1, ReplaceMore
  <2>4. \/ g[k + 1] = Replace(g[k], order[k + 1])
        \/ Replace(g[k], order[k + 1]) \notin A
    <3> DEFINE j == k + 1
    <3>1. j \in 1..Len(order) /\ j - 1 = k
      BY <1>1, <2>1
    <3> HIDE DEF j
    <3>2. g[j] = Replace(g[j - 1], order[j]) \/ Replace(g[j - 1], order[j]) \notin A
      BY <1>0, <3>1
    <3>3. g[j] = Replace(g[k], order[j]) \/ Replace(g[k], order[j]) \notin A
      BY <3>1, <3>2
    <3> QED BY <3>3 DEF j
  <2> QED BY <2>1, <2>2, <2>3, <2>4 DEF A
<1>4. ASSUME NEW k \in Nat, Good(k) PROVE Good(k + 1)
  <2> SUFFICES ASSUME k + 1 <= N PROVE DoneTo(text, es, N - (k + 1), g[k + 1])
    OBVIOUS
  <2>1. DoneTo(text, es, N - k, g[k])
    BY <1>1, <1>4
  <2> QED BY <1>3, <2>1
<1>5. P = Nat
  <2> HIDE DEF Good
  <2>1. P \in SUBSET Nat /\ 0 \in P /\ \A n \in P : n + 1 \in P
    BY <1>2, <1>4
  <2> HIDE DEF P
  <2> QED BY <2>1, NatSetInduction
<1>6. \A k \in 0..N : DoneTo(text, es, N - k, g[k])
  <2> TAKE k \in 0..N
  <2>1. k \in Nat /\ k <= N
    BY <1>1
  <2>2. Good(k)
    <3> HIDE DEF Good
    <3> QED BY <1>5, <2>1
  <2> QED BY <2>1, <2>2
<1>7. ASSUME NEW k \in 1..N PROVE g[k] = Replace(g[k - 1], order[k])
  <2>1. k - 1 \in Nat /\ k - 1 + 1 = k /\ k <= N /\ k - 1 \in 0..N
    BY <1>1
  <2>2. DoneTo(text, es, N - (k - 1), g[k - 1])
    BY <1>6, <2>1
  <2> QED BY <1>3, <2>1, <2>2
<1>8. Replaces(text, order, g)
  BY <1>0, <1>1, <1>7 DEF Replaces
<1>9. DoneTo(text, es, 0, g[N])
  <2>1. N \in 0..N /\ N - N = 0
    BY <1>1
  <2> QED BY <1>6, <2>1
<1> QED BY <1>1, <1>8, <1>9

\* All replacements give the rendered text.
LEMMA ReplaceAllIs ==
  ASSUME NEW text \in Seq(Word), NEW es, Placed(text, es)
  PROVE  /\ ReplaceAllOf(text, Reverse(es)) = Rendered(text, es)
         /\ Rendered(text, es) \in Seq(Token)
<1> DEFINE order == Reverse(es)
           N == Len(order)
           A == Strings(Token)
           Guarded(n, x) == IF Replace(x, order[n]) \in A THEN Replace(x, order[n]) ELSE x
           step == [p \in (1..N) \X A |-> Guarded(p[1], p[2])]
<1>1. N = Len(es) /\ N \in Nat /\ text \in A
  BY ReversedIs, PlacedIs DEF Placed
<1>2. \A n \in 1..N, x \in A : Guarded(n, x) \in A
  OBVIOUS
<1>3. step \in [(1..N) \X A -> A] /\ \A n \in 1..N, x \in A : step[<<n, x>>] = Guarded(n, x)
  <2> HIDE DEF Guarded, A
  <2> QED BY <1>2
<1> HIDE DEF step, A, N
<1>4. PICK g \in [0..N -> A] : Iterates(g, text, N, step)
  BY <1>1, <1>3, Iterated, Zenon
<1>5. g[0] = text /\ \A k \in 1..N : g[k] = Guarded(k, g[k - 1])
  <2>1. g[0] = text /\ \A k \in 1..N : g[k] = step[<<k, g[k - 1]>>]
    BY <1>4 DEF Iterates
  <2>2. \A k \in 1..N : g[k - 1] \in A
    BY <1>1
  <2> HIDE DEF Guarded
  <2> QED BY <1>3, <2>1, <2>2
<1>6. \A k \in 1..N : g[k] = Replace(g[k - 1], order[k])
  <2>1. ReplacesIfTyped(text, order, g)
    <3> HIDE DEF order
    <3> QED BY <1>5 DEF N, A, ReplacesIfTyped
  <2>2. Replaces(text, order, g)
    BY <2>1, ReplacingIs
  <2> QED BY <2>2 DEF N, Replaces
<1>7. g = [n \in 0..N |-> IF n = 0 THEN text ELSE Replace(g[n - 1], order[n])]
  BY <1>1, <1>5, <1>6
<1>8. IsReplacing(text, order, g)
  BY <1>7 DEF IsReplacing, N
<1> DEFINE c == CHOOSE h : IsReplacing(text, order, h)
<1>9. IsReplacing(text, order, c)
  BY <1>8
<1>10. ReplaceAllOf(text, order) = c[N]
  BY DEF ReplaceAllOf, IsReplacing, N
<1> HIDE DEF c
<1>11. c[0] = text /\ \A k \in 1..N : c[k] = Replace(c[k - 1], order[k])
  BY <1>1, <1>9 DEF IsReplacing, N
<1>12. DoneTo(text, es, 0, c[N])
  <2>1. ReplacesIfTyped(text, order, c)
    <3> HIDE DEF order
    <3> QED BY <1>11 DEF N, ReplacesIfTyped
  <2> QED BY <2>1, ReplacingIs DEF N
<1>13. c[N] = FlattenSeq(Pieces(text, es))
  BY <1>12, DoneAll
<1>14. FlattenSeq(Pieces(text, es)) \in Strings(Token)
  <2> DEFINE ss == Pieces(text, es)
  <2>1. ss \in Seq(Strings(Token))
    BY PiecesAre DEF ArePieces
  <2> HIDE DEF ss
  <2>2. Part(ss, Len(ss)) = FlattenSeq(ss) /\ \A n \in 0..Len(ss) : Part(ss, n) \in Strings(Token)
    BY <2>1, PartIs, Zenon
  <2>3. Len(ss) \in 0..Len(ss)
    BY <2>1, LenProperties
  <2> QED BY <2>2, <2>3 DEF ss
<1> QED BY <1>10, <1>13, <1>14, RenderedIs DEF Strings
--------------------------------------------------------------------------------
(* Resolving the placeholders of a text again. *)

Resolved(E, x) ==
  IF \E e \in E : e.ph = x THEN (CHOOSE e \in E : e.ph = x).val ELSE <<x>>

\* A word is resolved to itself, a placeholder to the value of an entry with it.
LEMMA ResolvedAre ==
  ASSUME NEW E \in SUBSET Entry
  PROVE  /\ \A x \in Token : Resolved(E, x) \in Strings(Token)
         /\ \A x \in Word : Resolved(E, x) = <<x>>
         /\ \A e \in E : \E f \in E : f.ph = e.ph /\ Resolved(E, e.ph) = f.val
<1>1. \A e \in E : e.val \in Seq(Word) /\ e.ph \in Placeholder
  BY DEF Entry
<1>2. Seq(Word) \subseteq Strings(Token)
  BY SeqMonotonic DEF Token, Strings
<1>3. ASSUME NEW x, \E e \in E : e.ph = x
      PROVE  \E f \in E : f.ph = x /\ Resolved(E, x) = f.val
  <2> DEFINE f == CHOOSE e \in E : e.ph = x
  <2>1. f \in E /\ f.ph = x
    BY <1>3
  <2>2. Resolved(E, x) = f.val
    BY <1>3 DEF Resolved
  <2> HIDE DEF f
  <2> QED BY <2>1, <2>2
<1>4. ASSUME NEW x, ~ \E e \in E : e.ph = x PROVE Resolved(E, x) = <<x>>
  BY <1>4 DEF Resolved
<1>5. ASSUME NEW x \in Token PROVE Resolved(E, x) \in Strings(Token)
  <2>1. CASE \E e \in E : e.ph = x
    BY <1>1, <1>2, <1>3, <2>1
  <2>2. CASE ~ \E e \in E : e.ph = x
    <3>1. <<x>> \in Strings(Token)
      BY StringsAre
    <3> QED BY <1>4, <2>2, <3>1
  <2> QED BY <2>1, <2>2
<1>6. ASSUME NEW x \in Word PROVE Resolved(E, x) = <<x>>
  <2>1. ~ \E e \in E : e.ph = x
    BY <1>1, WordsApart
  <2> QED BY <1>4, <2>1
<1> QED BY <1>3, <1>5, <1>6

\* An empty text is resolved to one.
LEMMA ResolveNone ==
  ASSUME NEW E
  PROVE  ResolvedBy(E, << >>) = << >>
<1> DEFINE none == << >>
           ss == [p \in DOMAIN none |-> Resolved(E, none[p])]
<1>1. ResolvedBy(E, none) = FlattenSeq(ss)
  BY DEF ResolvedBy, Resolved
<1>2. ss = << >>
  <2>1. DOMAIN none = 1..0
    OBVIOUS
  <2>2. ss \in Seq({}) /\ Len(ss) = 0
    BY <2>1
  <2> HIDE DEF ss
  <2> QED BY <2>2, EmptySeq
<1>3. FlattenSeq(<< >>) = << >>
  <2>1. FlattenSeq(SubSeq(<< >>, 1, 0)) = << >>
    <3>1. << >> \in Seq(Strings(Token))
      BY EmptySeq
    <3>2. Part(<< >>, 0) = << >>
      BY <3>1, PartIs
    <3> QED BY <3>2 DEF Part
  <2>2. SubSeq(<< >>, 1, 0) = << >>
    BY SubSeqEmpty
  <2> QED BY <2>1, <2>2
<1> QED BY <1>1, <1>2, <1>3

\* A text is resolved word by word.
LEMMA ResolveOne ==
  ASSUME NEW E \in SUBSET Entry, NEW u \in Strings(Token), NEW x \in Token
  PROVE  /\ ResolvedBy(E, u) \in Strings(Token)
         /\ u \o <<x>> \in Strings(Token)
         /\ ResolvedBy(E, u \o <<x>>) = ResolvedBy(E, u) \o Resolved(E, x)
<1> DEFINE Each(t) == [p \in DOMAIN t |-> Resolved(E, t[p])]
           v == Append(u, x)
           r == Resolved(E, x)
<1>1. \A t : ResolvedBy(E, t) = FlattenSeq(Each(t))
  BY DEF ResolvedBy, Resolved
<1>2. u \in Seq(Token)
  BY DEF Strings
<1>3. /\ v = u \o <<x>> /\ v \in Seq(Token)
      /\ Len(u) \in Nat /\ DOMAIN u = 1..Len(u) /\ DOMAIN v = 1..Len(u) + 1
      /\ \A i \in 1..Len(u) : v[i] = u[i] /\ u[i] \in Token
      /\ v[Len(u) + 1] = x
  BY <1>2, AppendIsConcat, AppendProperties, LenProperties, ElementOfSeq
<1>4. r \in Strings(Token) /\ \A y \in Token : Resolved(E, y) \in Strings(Token)
  BY ResolvedAre
<1> DEFINE a == Each(u)
           b == Each(v)
<1>5. DOMAIN a = 1..Len(u) /\ \A i \in 1..Len(u) : a[i] = Resolved(E, u[i])
  BY <1>3
<1>6. /\ DOMAIN b = 1..Len(u) + 1
      /\ \A i \in 1..Len(u) + 1 : b[i] = Resolved(E, v[i])
  BY <1>3
<1>7. a = [i \in 1..Len(u) |-> a[i]] /\ b = [i \in 1..Len(u) + 1 |-> b[i]]
  BY <1>3
<1>8. ResolvedBy(E, u) = FlattenSeq(a) /\ ResolvedBy(E, v) = FlattenSeq(b)
  BY <1>1
<1> HIDE DEF a, b, r, v, Each
<1>9. a \in Seq(Strings(Token)) /\ Len(a) = Len(u)
  BY <1>3, <1>4, <1>5, <1>7, IsASeq
<1>10. b = Append(a, r)
  <2>1. /\ Append(a, r) \in Seq(Strings(Token)) /\ Len(Append(a, r)) = Len(u) + 1
        /\ \A i \in 1..Len(u) : Append(a, r)[i] = a[i]
        /\ Append(a, r)[Len(u) + 1] = r
    BY <1>4, <1>9, AppendProperties
  <2> DEFINE d == Append(a, r)
  <2>5. /\ d \in Seq(Strings(Token)) /\ Len(d) = Len(u) + 1
        /\ \A i \in 1..Len(u) : d[i] = a[i]
        /\ d[Len(u) + 1] = r
    BY <2>1
  <2> HIDE DEF d
  <2>2. \A i \in 1..Len(u) + 1 : b[i] = d[i]
    <3> TAKE i \in 1..Len(u) + 1
    <3>1. CASE i \in 1..Len(u)
      BY <1>3, <1>5, <1>6, <2>5, <3>1
    <3>2. CASE i = Len(u) + 1
      <4>1. v[i] = x /\ d[i] = r
        BY <1>3, <2>5, <3>2
      <4>2. b[i] = Resolved(E, v[i])
        BY <1>6
      <4>3. b[i] = r
        BY <4>1, <4>2 DEF r
      <4> QED BY <4>1, <4>3
    <3> QED BY <1>3, <3>1, <3>2
  <2>3. \A i \in 1..Len(u) + 1 : b[i] \in Strings(Token)
    <3> TAKE i \in 1..Len(u) + 1
    <3>1. CASE i \in 1..Len(u)
      BY <1>3, <1>4, <1>6, <3>1
    <3>2. CASE i = Len(u) + 1
      BY <1>3, <1>4, <1>6, <3>2
    <3> QED BY <1>3, <3>1, <3>2
  <2>4. b \in Seq(Strings(Token)) /\ Len(b) = Len(u) + 1
    BY <1>3, <1>7, <2>3, IsASeq
  <2>6. b = d
    BY <2>2, <2>4, <2>5, SeqEqual
  <2> QED BY <2>6 DEF d
<1>11. FlattenSeq(a) \in Strings(Token) /\ FlattenSeq(Append(a, r)) = FlattenSeq(a) \o r
  BY <1>4, <1>9, FlattenOneMore
<1>12. u \o <<x>> \in Strings(Token)
  BY <1>3 DEF Strings
<1> QED BY <1>3, <1>8, <1>10, <1>11, <1>12 DEF r

\* Words stay.
LEMMA ResolvePlain ==
  ASSUME NEW E \in SUBSET Entry, NEW u \in Strings(Token), NEW g \in Seq(Word)
  PROVE  u \o g \in Strings(Token) /\ ResolvedBy(E, u \o g) = ResolvedBy(E, u) \o g
<1> DEFINE front(k) == SubSeq(g, 1, k)
           Good(k) == k <= Len(g) =>
                        /\ u \o front(k) \in Strings(Token)
                        /\ ResolvedBy(E, u \o front(k)) = ResolvedBy(E, u) \o front(k)
           P == {k \in Nat : Good(k)}
<1>1. /\ Len(g) \in Nat /\ \A i \in 1..Len(g) : g[i] \in Word /\ g[i] \in Token
  BY LenProperties, ElementOfSeq DEF Token
<1>2. \A k \in 0..Len(g) : front(k) \in Strings(Token)
  <2> TAKE k \in 0..Len(g)
  <2>1. \A i \in 1..k : g[i] \in Token
    BY <1>1
  <2> QED BY <2>1, SubSeqProperties DEF Strings
<1>3. ResolvedBy(E, u) \in Strings(Token)
  <2>1. CASE Token = {}
    <3>1. u \in Seq({})
      BY <2>1 DEF Strings
    <3>2. Len(u) \in Nat /\ \A i \in 1..Len(u) : u[i] \in {}
      BY <3>1, LenProperties, ElementOfSeq
    <3>3. Len(u) = 0
      BY <3>2
    <3>4. u = << >>
      BY <3>1, <3>3, EmptySeq
    <3> QED BY <3>4, ResolveNone, StringsAre
  <2>2. CASE Token # {}
    BY <2>2, ResolveOne
  <2> QED BY <2>1, <2>2
<1>4. Good(0)
  <2>1. front(0) = << >>
    BY SubSeqEmpty
  <2>2. \A t \in Strings(Token) : t \o << >> = t
    BY StringsAre
  <2>3. u \o << >> = u /\ ResolvedBy(E, u) \o << >> = ResolvedBy(E, u)
    BY <1>3, <2>2
  <2> QED BY <2>1, <2>3
<1>5. ASSUME NEW k \in Nat, Good(k) PROVE Good(k + 1)
  <2> SUFFICES ASSUME k + 1 <= Len(g)
               PROVE  /\ u \o front(k + 1) \in Strings(Token)
                      /\ ResolvedBy(E, u \o front(k + 1)) = ResolvedBy(E, u) \o front(k + 1)
    OBVIOUS
  <2> DEFINE x == g[k + 1]
             a == front(k)
             b == front(k + 1)
             w == <<x>>
             r == ResolvedBy(E, u)
  <2>1. /\ k + 1 \in 1..Len(g) /\ k \in 0..Len(g) /\ k <= Len(g) /\ k + 1 \in 0..Len(g)
        /\ k + 1 - 1 = k
    BY <1>1
  <2>2. u \o a \in Strings(Token) /\ ResolvedBy(E, u \o a) = r \o a
    BY <1>5, <2>1
  <2>3. x \in Word /\ x \in Token
    BY <1>1, <2>1
  <2>4. b = a \o w
    <3>1. 1 \in 1..Len(g) /\ k + 1 \in 1..Len(g)
      BY <1>1, <2>1
    <3>2. SubSeq(g, 1, k + 1) = SubSeq(g, 1, k + 1 - 1) \o <<g[k + 1]>>
      BY <3>1, SubSeqRecursiveSecond
    <3> QED BY <2>1, <3>2
  <2>5. /\ (u \o a) \o <<x>> \in Strings(Token)
        /\ ResolvedBy(E, (u \o a) \o <<x>>) = ResolvedBy(E, u \o a) \o Resolved(E, x)
    BY <2>2, <2>3, ResolveOne
  <2>6. Resolved(E, x) = w
    BY <2>3, ResolvedAre
  <2>7. w \in Strings(Token) /\ a \in Strings(Token) /\ r \in Strings(Token)
    BY <1>2, <1>3, <2>1, <2>3, StringsAre
  <2>8. \A t, y, z \in Strings(Token) : (t \o y) \o z = t \o (y \o z)
    BY Regrouped, SMTT(30)
  <2> HIDE DEF a, b, w, r, x
  <2>9. (u \o a) \o w \in Strings(Token) /\ ResolvedBy(E, (u \o a) \o w) = (r \o a) \o w
    BY <2>2, <2>5, <2>6 DEF w
  <2>10. (u \o a) \o w = u \o (a \o w) /\ (r \o a) \o w = r \o (a \o w)
    BY <2>7, <2>8, Zenon
  <2>11. u \o b \in Strings(Token) /\ ResolvedBy(E, u \o b) = r \o b
    BY <2>4, <2>9, <2>10
  <2> QED BY <2>11 DEF b, r
<1>6. P = Nat
  <2> HIDE DEF Good
  <2>1. P \in SUBSET Nat /\ 0 \in P /\ \A n \in P : n + 1 \in P
    BY <1>4, <1>5
  <2> HIDE DEF P
  <2> QED BY <2>1, NatSetInduction
<1>7. Good(Len(g))
  <2> HIDE DEF Good
  <2> QED BY <1>1, <1>6
<1>8. SubSeq(g, 1, Len(g)) = g
  BY SubSeqFull
<1>9. /\ u \o SubSeq(g, 1, Len(g)) \in Strings(Token)
      /\ ResolvedBy(E, u \o SubSeq(g, 1, Len(g))) = ResolvedBy(E, u) \o SubSeq(g, 1, Len(g))
  <2>1. Len(g) <= Len(g)
    BY <1>1
  <2> QED BY <1>7, <2>1
<1> QED BY <1>8, <1>9

\* Joined texts are normalised one by one.
LEMMA NormalizeIs ==
  ASSUME NEW a \in Seq(Word), NEW b \in Seq(Word)
  PROVE  /\ Normalize(a) \in Seq(Word) /\ Len(Normalize(a)) = Len(a)
         /\ a \o b \in Seq(Word)
         /\ Normalize(a \o b) = Normalize(a) \o Normalize(b)
<1>1. ASSUME NEW t \in Seq(Word)
      PROVE  /\ Normalize(t) \in Seq(Word) /\ Len(Normalize(t)) = Len(t) /\ Len(t) \in Nat
             /\ \A i \in 1..Len(t) : Normalize(t)[i] = Canon[t[i]]
  <2>1. Len(t) \in Nat /\ DOMAIN t = 1..Len(t) /\ \A i \in 1..Len(t) : t[i] \in Word
    BY LenProperties, ElementOfSeq
  <2>2. \A i \in 1..Len(t) : Canon[t[i]] \in Word
    BY <2>1, CanonIdempotent
  <2>3. Normalize(t) = [i \in 1..Len(t) |-> Canon[t[i]]]
    BY <2>1 DEF Normalize
  <2> QED BY <2>1, <2>2, <2>3
<1> DEFINE c == a \o b
           na == Normalize(a)
           nb == Normalize(b)
<1>2. /\ c \in Seq(Word) /\ Len(c) = Len(a) + Len(b)
      /\ \A i \in 1..Len(a) : c[i] = a[i]
      /\ \A i \in Len(a) + 1..Len(a) + Len(b) : c[i] = b[i - Len(a)]
  BY <1>1, ConcatProperties
<1>3. /\ na \in Seq(Word) /\ nb \in Seq(Word) /\ Len(na) = Len(a) /\ Len(nb) = Len(b)
      /\ Len(a) \in Nat /\ Len(b) \in Nat
      /\ \A i \in 1..Len(a) : na[i] = Canon[a[i]]
      /\ \A i \in 1..Len(b) : nb[i] = Canon[b[i]]
  BY <1>1
<1>4. /\ na \o nb \in Seq(Word) /\ Len(na \o nb) = Len(a) + Len(b)
      /\ \A i \in 1..Len(a) : (na \o nb)[i] = na[i]
      /\ \A i \in Len(a) + 1..Len(a) + Len(b) : (na \o nb)[i] = nb[i - Len(a)]
  <2>1. na \in Seq(Word) /\ nb \in Seq(Word) /\ Len(na) = Len(a) /\ Len(nb) = Len(b)
    BY <1>3
  <2> HIDE DEF na, nb
  <2>2. /\ na \o nb \in Seq(Word) /\ Len(na \o nb) = Len(na) + Len(nb)
        /\ \A i \in 1..Len(na) : (na \o nb)[i] = na[i]
        /\ \A i \in Len(na) + 1..Len(na) + Len(nb) : (na \o nb)[i] = nb[i - Len(na)]
    <3> DEFINE d == na \o nb
    <3>1. /\ d \in Seq(Word) /\ Len(d) = Len(na) + Len(nb)
          /\ \A i \in 1..Len(na) + Len(nb) :
               d[i] = IF i <= Len(na) THEN na[i] ELSE nb[i - Len(na)]
      BY <2>1, ConcatProperties, Zenon
    <3>2. Len(na) \in Nat /\ Len(nb) \in Nat
      BY <2>1, LenProperties
    <3> HIDE DEF d
    <3>3. \A i \in 1..Len(na) : d[i] = na[i]
      BY <3>1, <3>2
    <3>4. \A i \in Len(na) + 1..Len(na) + Len(nb) : d[i] = nb[i - Len(na)]
      BY <3>1, <3>2
    <3> QED BY <3>1, <3>3, <3>4 DEF d
  <2> QED BY <2>1, <2>2
<1>5. /\ Normalize(c) \in Seq(Word) /\ Len(Normalize(c)) = Len(a) + Len(b)
      /\ \A i \in 1..Len(a) + Len(b) : Normalize(c)[i] = Canon[c[i]]
  BY <1>1, <1>2
<1> HIDE DEF c, na, nb
<1>6. ASSUME NEW i \in 1..Len(a) + Len(b) PROVE Normalize(c)[i] = (na \o nb)[i]
  <2>1. CASE i \in 1..Len(a)
    BY <1>2, <1>3, <1>4, <1>5, <2>1
  <2>2. CASE i \in Len(a) + 1..Len(a) + Len(b)
    <3> DEFINE k == i - Len(a)
    <3>1. k \in 1..Len(b)
      BY <1>3, <2>2
    <3>2. c[i] = b[k] /\ (na \o nb)[i] = nb[k]
      BY <1>2, <1>4, <2>2
    <3> HIDE DEF k
    <3>3. nb[k] = Canon[b[k]] /\ Normalize(c)[i] = Canon[c[i]]
      BY <1>3, <1>5, <3>1
    <3> QED BY <3>2, <3>3
  <2> QED BY <1>3, <2>1, <2>2
<1>7. Normalize(c) = na \o nb
  BY <1>4, <1>5, <1>6, SeqEqual
<1> QED BY <1>2, <1>3, <1>7 DEF c, na, nb

\* u resolves to v, up to normalisation.
ReadsAs(E, u, v) ==
  ResolvedBy(E, u) \in Seq(Word) /\ Normalize(ResolvedBy(E, u)) = Normalize(v)

\* What reads as a text still does so when both go on alike.
LEMMA ReadsOn ==
  ASSUME NEW E \in SUBSET Entry, NEW u \in Strings(Token), NEW v \in Seq(Word), ReadsAs(E, u, v)
  PROVE  /\ \A g \in Seq(Word) : ReadsAs(E, u \o g, v \o g)
         /\ \A x \in Token, r \in Seq(Word) :
              Resolved(E, x) \in Seq(Word) /\ Normalize(Resolved(E, x)) = Normalize(r)
                => ReadsAs(E, u \o <<x>>, v \o r)
<1> DEFINE y == ResolvedBy(E, u)
<1>1. y \in Seq(Word) /\ Normalize(y) = Normalize(v)
  BY DEF ReadsAs
<1> HIDE DEF y
<1>2. ASSUME NEW g \in Seq(Word) PROVE ReadsAs(E, u \o g, v \o g)
  <2>1. ResolvedBy(E, u \o g) = y \o g
    BY ResolvePlain DEF y
  <2>2. y \o g \in Seq(Word) /\ Normalize(y \o g) = Normalize(y) \o Normalize(g)
    BY <1>1, NormalizeIs
  <2>3. Normalize(v \o g) = Normalize(v) \o Normalize(g)
    BY NormalizeIs
  <2> QED BY <1>1, <2>1, <2>2, <2>3 DEF ReadsAs
<1>3. ASSUME NEW x \in Token, NEW r \in Seq(Word), Resolved(E, x) \in Seq(Word),
             Normalize(Resolved(E, x)) = Normalize(r)
      PROVE  ReadsAs(E, u \o <<x>>, v \o r)
  <2> DEFINE z == Resolved(E, x)
  <2>1. ResolvedBy(E, u \o <<x>>) = y \o z
    BY ResolveOne DEF y
  <2>2. z \in Seq(Word) /\ Normalize(z) = Normalize(r)
    BY <1>3
  <2> HIDE DEF z
  <2>3. y \o z \in Seq(Word) /\ Normalize(y \o z) = Normalize(y) \o Normalize(z)
    BY <1>1, <2>2, NormalizeIs
  <2>4. Normalize(v \o r) = Normalize(v) \o Normalize(r)
    BY NormalizeIs
  <2> QED BY <1>1, <2>1, <2>2, <2>3, <2>4 DEF ReadsAs
<1> QED BY <1>2, <1>3

\* A redacted text reads as what its author wrote.
LEMMA ResolveIs ==
  ASSUME NEW text \in Seq(Word), NEW es, Placed(text, es), NEW E, Known(E), AllStand(E, text, es)
  PROVE  ReadsAs(E, Rendered(text, es), text)
<1> DEFINE ss == Pieces(text, es)
           N == Len(es)
           Good(n) == n <= N =>
                        ReadsAs(E, Part(ss, EndOf(es, n)), SubSeq(text, 1, EndOf(es, n)))
           P == {n \in Nat : Good(n)}
<1>1. E \in SUBSET Entry /\ OneToOne(E)
  BY DEF Known
<1>2. /\ N \in Nat /\ Len(text) \in Nat /\ DOMAIN es = 1..N /\ text \in Strings(Token)
      /\ \A i \in 1..Len(text) : text[i] \in Word
      /\ \A n \in 1..N : es[n] \in Hidden /\ es[n].ph \in Token /\ es[n].start \in Nat
                         /\ es[n].end \in Nat /\ es[n].start < es[n].end /\ es[n].end <= Len(text)
  BY PlacedIs
<1>3. ArePieces(text, es, ss)
  BY PiecesAre
<1>4. Good(0)
  <2>1. EndOf(es, 0) = 0
    BY DEF EndOf
  <2>2. SubSeq(text, 1, 0) = << >>
    BY SubSeqEmpty
  <2>3. Part(ss, 0) = << >>
    <3> HIDE DEF ss
    <3>1. ss \in Seq(Strings(Token))
      BY <1>3 DEF ArePieces
    <3> QED BY <3>1, PartIs
  <2>4. ReadsAs(E, << >>, << >>)
    <3>1. << >> \in Seq(Word)
      BY EmptySeq
    <3> QED BY <3>1, ResolveNone DEF ReadsAs
  <2> QED BY <2>1, <2>2, <2>3, <2>4
\* The words between the n-th entity and the next.
<1>5. ASSUME NEW n \in 0..N, ReadsAs(E, Part(ss, EndOf(es, n)), SubSeq(text, 1, EndOf(es, n)))
      PROVE  ReadsAs(E, Part(ss, StartOf(text, es, n + 1)), SubSeq(text, 1, StartOf(text, es, n + 1)))
  <2> DEFINE b == EndOf(es, n)
             c == StartOf(text, es, n + 1)
  <2>1. IsGap(text, ss, b, c)
    BY GapPart
  <2>2. b \in 0..Len(text) /\ c \in b..Len(text)
    BY BoundsAre
  <2>3. ReadsAs(E, Part(ss, b), SubSeq(text, 1, b))
    BY <1>5
  <2> HIDE DEF b, c, ss
  <2> DEFINE u == Part(ss, b)
             v == SubSeq(text, 1, b)
             g == SubSeq(text, b + 1, c)
  <2>4. /\ Part(ss, c) = u \o g /\ SubSeq(text, 1, c) = v \o g /\ u \in Strings(Token)
    BY <2>1 DEF IsGap
  <2>5. v \in Seq(Word) /\ g \in Seq(Word)
    <3>1. (\A i \in 1..b : text[i] \in Word) /\ (\A i \in b + 1..c : text[i] \in Word)
      BY <1>2, <2>2
    <3> QED BY <2>2, <3>1, SubSeqProperties
  <2>6. ReadsAs(E, u, v)
    BY <2>3
  <2> HIDE DEF u, v, g
  <2>7. ReadsAs(E, u \o g, v \o g)
    BY <1>1, <2>4, <2>5, <2>6, ReadsOn
  <2>8. ReadsAs(E, Part(ss, c), SubSeq(text, 1, c))
    BY <2>4, <2>7
  <2> QED BY <2>8 DEF c
\* The entity.
<1>6. ASSUME NEW n \in 1..N, ReadsAs(E, Part(ss, es[n].start), SubSeq(text, 1, es[n].start))
      PROVE  ReadsAs(E, Part(ss, es[n].end), SubSeq(text, 1, es[n].end))
  <2> DEFINE e == es[n]
             u == Part(ss, e.start)
             v == SubSeq(text, 1, e.start)
             r == Slice(text, e)
  <2>1. /\ e.ph \in Token /\ e.start \in Nat /\ e.end \in Nat
        /\ e.start < e.end /\ e.end <= Len(text)
    BY <1>2
  <2>2. Part(ss, e.end) = u \o <<e.ph>> /\ u \in Strings(Token)
    BY EntityPart
  <2>3. SubSeq(text, 1, e.end) = v \o r
    <3>1. /\ 1 \in 1..Len(text) + 1 /\ e.start \in 1 - 1..Len(text)
          /\ e.end \in e.start..Len(text)
      BY <1>2, <2>1
    <3> QED BY <3>1, ConcatAdjacentSubSeq DEF Slice
  <2>4. v \in Seq(Word) /\ r \in Seq(Word)
    <3>1. \A i \in 1..e.start : text[i] \in Word
      BY <1>2, <2>1
    <3>2. v \in Seq(Word)
      BY <2>1, <3>1, SubSeqProperties
    <3>3. r \in Seq(Word)
      BY <2>1, SliceIs
    <3> QED BY <3>2, <3>3
  <2>5. PICK f \in E : Stands(f, text, e)
    BY <1>2 DEF AllStand
  <2>6. f.ph = e.ph /\ Normalize(f.val) = Normalize(r)
    BY <2>5 DEF Stands
  <2>7. PICK h \in E : h.ph = f.ph /\ Resolved(E, f.ph) = h.val
    BY <1>1, ResolvedAre
  <2>8. h.val \in Seq(Word) /\ Normalize(h.val) = Normalize(f.val)
    BY <1>1, <2>7 DEF OneToOne, SameValue, Entry
  <2>9. ReadsAs(E, u, v)
    BY <1>6
  <2> HIDE DEF e, u, v, r
  <2>10. Resolved(E, e.ph) \in Seq(Word) /\ Normalize(Resolved(E, e.ph)) = Normalize(r)
    BY <2>6, <2>7, <2>8
  <2>11. ReadsAs(E, u \o <<e.ph>>, v \o r)
    BY <1>1, <2>1, <2>2, <2>4, <2>9, <2>10, ReadsOn
  <2>12. ReadsAs(E, Part(ss, e.end), SubSeq(text, 1, e.end))
    BY <2>2, <2>3, <2>11
  <2> QED BY <2>12 DEF e
<1>7. ASSUME NEW n \in Nat, Good(n) PROVE Good(n + 1)
  <2> SUFFICES ASSUME n + 1 <= N
               PROVE  ReadsAs(E, Part(ss, EndOf(es, n + 1)), SubSeq(text, 1, EndOf(es, n + 1)))
    OBVIOUS
  <2>1. n \in 0..N /\ n + 1 \in 1..N /\ n <= N /\ n + 1 # N + 1 /\ n + 1 # 0
    BY <1>2
  <2>2. ReadsAs(E, Part(ss, StartOf(text, es, n + 1)), SubSeq(text, 1, StartOf(text, es, n + 1)))
    BY <1>5, <1>7, <2>1
  <2>3. StartOf(text, es, n + 1) = es[n + 1].start /\ EndOf(es, n + 1) = es[n + 1].end
    BY <2>1 DEF StartOf, EndOf
  <2>4. ReadsAs(E, Part(ss, es[n + 1].start), SubSeq(text, 1, es[n + 1].start))
    BY <2>2, <2>3
  <2>5. ReadsAs(E, Part(ss, es[n + 1].end), SubSeq(text, 1, es[n + 1].end))
    BY <1>6, <2>1, <2>4
  <2> QED BY <2>3, <2>5
<1>8. P = Nat
  <2> HIDE DEF Good
  <2>1. P \in SUBSET Nat /\ 0 \in P /\ \A n \in P : n + 1 \in P
    BY <1>4, <1>7
  <2> HIDE DEF P
  <2> QED BY <2>1, NatSetInduction
<1>9. Good(N)
  <2> HIDE DEF Good
  <2> QED BY <1>2, <1>8
<1>10. ReadsAs(E, Part(ss, Len(text)), SubSeq(text, 1, Len(text)))
  <2>1. StartOf(text, es, N + 1) = Len(text)
    BY DEF StartOf
  <2>2. N \in 0..N /\ N <= N
    BY <1>2
  <2>3. ReadsAs(E, Part(ss, EndOf(es, N)), SubSeq(text, 1, EndOf(es, N)))
    BY <1>9, <2>2
  <2>4. ReadsAs(E, Part(ss, StartOf(text, es, N + 1)), SubSeq(text, 1, StartOf(text, es, N + 1)))
    BY <1>5, <2>2, <2>3
  <2> QED BY <2>1, <2>4
<1>11. Part(ss, Len(text)) = FlattenSeq(ss)
  <2> HIDE DEF ss
  <2>1. ss \in Seq(Strings(Token)) /\ Len(ss) = Len(text)
    BY <1>3 DEF ArePieces
  <2> QED BY <2>1, PartIs
<1>12. SubSeq(text, 1, Len(text)) = text
  BY SubSeqFull
<1> QED BY <1>10, <1>11, <1>12, RenderedIs
--------------------------------------------------------------------------------
(* The browser's slices. *)

\* Where no wide character comes before its end, a slice by units is one by words.
LEMMA ShownIs ==
  ASSUME NEW text \in Seq(Word), NEW s, s.start \in Nat, s.end \in Nat, s.start < s.end,
         s.end <= Len(text), NarrowUpTo(text, s.end)
  PROVE  JsSlice(Units(text), s) = Slice(text, s)
<1> DEFINE us == [i \in DOMAIN text |->
                    IF text[i] \in Wide THEN <<text[i], text[i]>> ELSE <<text[i]>>]
           b == s.start
           c == s.end
<1>1. /\ Len(text) \in Nat /\ DOMAIN text = 1..Len(text)
      /\ \A i \in 1..Len(text) : text[i] \in Word
  BY LenProperties, ElementOfSeq
<1>2. \A i \in 1..Len(text) : us[i] \in Strings(Word)
  <2> TAKE i \in 1..Len(text)
  <2>1. text[i] \in Word
    BY <1>1
  <2>2. <<text[i], text[i]>> \in Seq(Word) /\ <<text[i]>> \in Seq(Word)
    BY <2>1
  <2> QED BY <1>1, <2>2 DEF Strings
<1>3. \A i \in 1..c : us[i] = <<text[i]>>
  BY <1>1 DEF NarrowUpTo
<1>4. us = [i \in 1..Len(text) |-> us[i]]
  BY <1>1
<1>5. Units(text) = FlattenSeq(us)
  BY DEF Units
<1>6. /\ b \in Nat /\ c \in Nat /\ b < c /\ c <= Len(text)
      /\ JsSlice(Units(text), s)
           = SubSeq(Units(text), b + 1, IF c < Len(Units(text)) THEN c ELSE Len(Units(text)))
      /\ Slice(text, s) = SubSeq(text, b + 1, c)
  BY DEF JsSlice, Slice
<1> HIDE DEF us, b, c
<1>7. us \in Seq(Strings(Word)) /\ Len(us) = Len(text)
  BY <1>1, <1>2, <1>4, IsASeq
<1> DEFINE f == SubSeq(text, 1, c)
<1>8. Part(us, c) = f
  <2>1. text \in Strings(Word) /\ 0 \in 0..Len(us) /\ c \in 0..Len(us) /\ Len(text) = Len(us)
    BY <1>1, <1>6, <1>7 DEF Strings
  <2>2. Singly(us, text, 0, c)
    BY <1>3 DEF Singly
  <2>3. Part(us, c) = Part(us, 0) \o SubSeq(text, 0 + 1, c)
    BY <1>7, <2>1, <2>2, PartPlain, Zenon
  <2>4. Part(us, 0) = << >>
    BY <1>7, PartIs
  <2>5. f \in Strings(Word)
    <3>1. \A i \in 1..c : text[i] \in Word
      BY <1>1, <1>6
    <3> QED BY <1>6, <3>1, SubSeqProperties DEF Strings
  <2>6. << >> \o f = f
    BY <2>5, StringsAre
  <2>7. SubSeq(text, 0 + 1, c) = f
    OBVIOUS
  <2> HIDE DEF f
  <2> QED BY <2>3, <2>4, <2>6, <2>7
<1>9. f \in Seq(Word) /\ Len(f) = c
  <2>1. \A i \in 1..c : text[i] \in Word
    BY <1>1, <1>6
  <2> QED BY <1>6, <2>1, SubSeqProperties
<1>10. SubSeq(f, b + 1, c) = SubSeq(text, b + 1, c)
  <2>1. /\ 1 \in 1..Len(text) /\ c \in 1..Len(text)
        /\ b + 1 \in 1..c - 1 + 1 /\ c \in 1..c - 1 + 1
    BY <1>1, <1>6
  <2>2. SubSeq(f, b + 1, c) = SubSeq(text, 1 + (b + 1) - 1, 1 + c - 1)
    BY <2>1, SubSeqOfSubSeq, SMTT(30)
  <2>3. 1 + (b + 1) - 1 = b + 1 /\ 1 + c - 1 = c
    BY <1>6
  <2> QED BY <2>2, <2>3
<1> HIDE DEF f
<1>11. PICK rest \in Strings(Word) : Units(text) = f \o rest
  <2>1. c \in 0..Len(us)
    BY <1>6, <1>7
  <2>2. \E rest \in Strings(Word) : FlattenSeq(us) = Part(us, c) \o rest
    BY <1>7, <2>1, PartRest, Zenon
  <2> QED BY <1>5, <1>8, <2>2
<1>12. rest \in Seq(Word) /\ Len(rest) \in Nat
  BY LenProperties DEF Strings
<1>13. Len(Units(text)) = c + Len(rest)
  BY <1>9, <1>11, <1>12, ConcatProperties
<1>14. (IF c < Len(Units(text)) THEN c ELSE Len(Units(text))) = c
  <2> DEFINE L == Len(Units(text))
  <2>1. L = c + Len(rest) /\ c \in Nat /\ Len(rest) \in Nat
    BY <1>6, <1>12, <1>13
  <2> HIDE DEF L
  <2>2. (IF c < L THEN c ELSE L) = c
    BY <2>1
  <2> QED BY <2>2 DEF L
<1>15. SubSeq(Units(text), b + 1, c) = SubSeq(f, b + 1, c)
  <2>1. b + 1 \in 1..Len(f) /\ c \in 1..Len(f)
    BY <1>6, <1>9
  <2> QED BY <1>9, <1>11, <1>12, <2>1, SubSeqOfConcat1, SMTT(30)
<1> QED BY <1>6, <1>10, <1>14, <1>15
--------------------------------------------------------------------------------
(* One text. *)

\* Kept, of a policy and a sequence of spans.
KeptBy(pol, spans) ==
  LET sure == {i \in DOMAIN spans : spans[i].score >= pol.min} IN
  {spans[i] : i \in CHOOSE K \in SUBSET sure :
     /\ \A i, j \in K : i # j => ~ Overlap(spans[i], spans[j])
     /\ \A i \in sure \ K :
          \E k \in K : Overlap(spans[i], spans[k]) /\ Before(spans, k, i)}

Where(s) == <<s.start, s.end, s.type>>

\* A text and its entities as they leave, when the conversation has the entries
\* E: what the properties of Outbound say of a result.
Applied(text, spans, pol, E, out, es) ==
  /\ Placed(text, es)
  /\ out = Rendered(text, es) /\ out \in Seq(Token)
  /\ AllStand(E, text, es)
  /\ {Where(es[n]) : n \in DOMAIN es}
       = {Where(s) : s \in {k \in KeptBy(pol, spans) : ActionFor(pol, k) # "allow"}}
  /\ \A s \in KeptBy(pol, spans) : ActionFor(pol, s) # "block"

\* What _drop_overlaps keeps is what Kept names, one after the other in the text.
LEMMA KeptIs ==
  ASSUME NEW text, NEW spans \in Seq(Span), Within(text, spans), NEW pol,
         NEW kept, kept = DropOverlaps(spans, {i \in DOMAIN spans : Confident(pol, spans[i])})
  PROVE  /\ kept \in Seq(Span) /\ ToSet(kept) = KeptBy(pol, spans)
         /\ Within(text, kept) /\ Apart(kept)
<1> DEFINE S == {i \in DOMAIN spans : Confident(pol, spans[i])}
<1>1. S \in SUBSET DOMAIN spans
  OBVIOUS
<1>2. S = {i \in DOMAIN spans : spans[i].score >= pol.min}
  BY DEF Confident
<1>3. kept = DropOverlaps(spans, S)
  OBVIOUS
<1> HIDE DEF S
<1>4. PICK K : /\ KeptAt(spans, S, K)
               /\ DropOverlaps(spans, S) \in Seq(Span)
               /\ ToSet(DropOverlaps(spans, S)) = {spans[i] : i \in K}
               /\ Within(text, DropOverlaps(spans, S)) /\ Apart(DropOverlaps(spans, S))
  BY <1>1, DropIs
<1> DEFINE Best(L) ==
             /\ \A i, j \in L : i # j => ~ Overlap(spans[i], spans[j])
             /\ \A i \in S \ L :
                  \E k \in L : Overlap(spans[i], spans[k]) /\ Before(spans, k, i)
           C == CHOOSE L \in SUBSET S : Best(L)
<1>5. \A L : KeptAt(spans, S, L) <=> L \in SUBSET S /\ Best(L)
  BY DEF KeptAt
<1>6. KeptBy(pol, spans) = {spans[i] : i \in C}
  BY <1>2 DEF KeptBy
<1>7. KeptAt(spans, S, C)
  <2> HIDE DEF Best
  <2>1. \E L \in SUBSET S : Best(L)
    BY <1>4, <1>5
  <2>2. C \in SUBSET S /\ Best(C)
    BY <2>1
  <2> QED BY <1>5, <2>2
<1> HIDE DEF C
<1>8. C = K
  BY <1>1, <1>4, <1>7, KeptOnce
<1> QED BY <1>3, <1>4, <1>6, <1>8

\* What apply_policy answers, when it neither blocks nor fails.
LEMMA ApplyIs ==
  ASSUME NEW text \in Seq(Word), NEW spans \in Seq(Span), Within(text, spans), NEW pol,
         NEW known, Known(known), NEW A, A = ApplyPolicy(text, spans, pol, Told(known)),
         A.verdict = "ok"
  PROVE  /\ A.new \in Seq(Entry) /\ A.entities \in Seq(Hidden) /\ A.text \in Seq(Token)
         /\ Known(known \cup ToSet(A.new))
         /\ Applied(text, spans, pol, known \cup ToSet(A.new), A.text, A.entities)
<1> DEFINE kept == DropOverlaps(spans, {i \in DOMAIN spans : Confident(pol, spans[i])})
           num == Numbered(text, Told(known), pol, kept)
           es == num.entities
           N == Len(kept)
<1>1. /\ kept \in Seq(Span) /\ ToSet(kept) = KeptBy(pol, spans)
      /\ Within(text, kept) /\ Apart(kept)
  BY KeptIs
<1>2. /\ ~ Blocks(pol, kept) /\ ~ num.failed
      /\ A.entities = es /\ A.new = num.new /\ A.text = ReplaceAllOf(text, Reverse(es))
  <2>1. A = IF Blocks(pol, kept)
              THEN [verdict |-> "blocked", text |-> << >>, entities |-> << >>, new |-> << >>]
            ELSE IF num.failed
              THEN [verdict |-> "failed", text |-> << >>, entities |-> << >>, new |-> << >>]
            ELSE [verdict |-> "ok", entities |-> es, new |-> num.new,
                  text |-> ReplaceAllOf(text, Reverse(es))]
    BY DEF ApplyPolicy, FromTheRight
  <2> HIDE DEF kept, num, es
  <2> QED BY <2>1
<1> HIDE DEF kept
<1>3. NumberedTo(text, known, pol, kept, N, num)
  BY <1>1, NumberedAll
<1> HIDE DEF num
<1>4. /\ num \in Numbering /\ Known(known \cup ToSet(num.new))
      /\ ListsOnly(es, pol, kept, N) /\ ListsAll(es, pol, kept, N)
      /\ Apart(es) /\ AllStand(known \cup ToSet(num.new), text, es)
  BY <1>2, <1>3 DEF NumberedTo
<1>5. es \in Seq(Hidden) /\ num.new \in Seq(Entry)
  BY <1>4 DEF Numbering
<1> HIDE DEF es
<1>6. DOMAIN kept = 1..N
  BY <1>1, LenProperties
<1> HIDE DEF N
<1>7. Placed(text, es)
  <2>1. ASSUME NEW m \in DOMAIN es PROVE es[m].start < es[m].end /\ es[m].end <= Len(text)
    <3>1. PICK i \in 1..N : Same(es[m], kept[i])
      BY <1>4 DEF ListsOnly
    <3>2. kept[i].start < kept[i].end /\ kept[i].end <= Len(text)
      BY <1>1, <1>6 DEF Within
    <3> QED BY <3>1, <3>2 DEF Same
  <2> QED BY <1>4, <1>5, <2>1 DEF Placed, Within
<1>8. A.text = Rendered(text, es) /\ A.text \in Seq(Token)
  BY <1>2, <1>7, ReplaceAllIs
<1>9. \A s \in KeptBy(pol, spans) : ActionFor(pol, s) # "block"
  BY <1>1, <1>2 DEF Blocks, ToSet
<1>10. \A x, s : Same(x, s) => Where(x) = Where(s)
  BY DEF Same, Where
<1>11. {Where(es[n]) : n \in DOMAIN es}
         = {Where(s) : s \in {k \in KeptBy(pol, spans) : ActionFor(pol, k) # "allow"}}
  <2> DEFINE H == {k \in KeptBy(pol, spans) : ActionFor(pol, k) # "allow"}
  <2>1. ASSUME NEW n \in DOMAIN es PROVE \E s \in H : Where(es[n]) = Where(s)
    <3>1. PICK i \in 1..N : Same(es[n], kept[i]) /\ ActionFor(pol, kept[i]) # "allow"
      BY <1>4 DEF ListsOnly
    <3>2. kept[i] \in KeptBy(pol, spans)
      BY <1>1, <1>6 DEF ToSet
    <3> QED BY <1>10, <3>1, <3>2
  <2>2. ASSUME NEW s \in H PROVE \E n \in DOMAIN es : Where(s) = Where(es[n])
    <3>1. s \in ToSet(kept) /\ ActionFor(pol, s) # "allow"
      BY <1>1
    <3>2. PICK i \in 1..N : s = kept[i]
      BY <1>6, <3>1 DEF ToSet
    <3>3. PICK n \in DOMAIN es : Same(es[n], kept[i])
      BY <1>4, <3>1, <3>2 DEF ListsAll
    <3>4. Where(es[n]) = Where(s)
      BY <1>10, <3>2, <3>3
    <3> QED BY <3>4
  <2> HIDE DEF H
  <2> DEFINE X == {Where(es[n]) : n \in DOMAIN es}
             Y == {Where(s) : s \in H}
  <2>3. \A x \in X : x \in Y
    BY <2>1
  <2>4. \A y \in Y : y \in X
    BY <2>2
  <2> QED BY <2>3, <2>4 DEF H
<1> QED BY <1>2, <1>4, <1>5, <1>7, <1>8, <1>9, <1>11 DEF Applied
--------------------------------------------------------------------------------
(* The inductive invariant. *)

Region == [type : EntityType, score : Nat]
Result == [text : Seq(Token), entities : Seq(Hidden), images : Seq(SUBSET Region)]

ImagesPass(pol, m) ==
  RedactImages =>
    \A region \in UNION ToSet(m.images) :
      Confident(pol, region) => ImageAction(pol, region) # "block"

\* A message that may be the newest with a text of the user.
Speaks(m) == m.role = "user" /\ m.text # << >>
Latest(ms, rs, newest) ==
  \A i \in DOMAIN rs :
    Speaks(ms[i]) /\ (\A j \in DOMAIN rs : j > i => ~ Speaks(ms[j]))
      => newest = [spans |-> rs[i].entities, text |-> rs[i].text]

Requested ==
  /\ policy \in Policy /\ turn \in 0..Len(Requests)
  /\ pc \in {"idle", "images", "text", "ready"}
  /\ messages \in Seq(Message)
  /\ \A i \in DOMAIN messages : Within(messages[i].text, messages[i].spans)
  /\ results \in Seq(Result) /\ Len(results) <= Len(messages)

\* The conversation's entries, those not yet committed included.
AllEntries == vault \cup ToSet(fresh)

Entries ==
  /\ fresh \in Seq(Entry)
  /\ Known(vault) /\ Known(AllEntries)
  /\ pc = "idle" => fresh = << >> /\ results = << >> /\ existing = {}
  /\ pc # "idle" => existing = Told(AllEntries)
  /\ pc = "text" => /\ Len(results) < Len(messages) /\ Current.text # << >>
                    /\ ImagesPass(policy, Current)
  /\ pc = "ready" => AllEntries = vault /\ Len(results) = Len(messages)

ResultIs(i) ==
  /\ Applied(messages[i].text, messages[i].spans, policy, AllEntries,
             results[i].text, results[i].entities)
  /\ ImagesPass(policy, messages[i])

Inv ==
  /\ Requested
  /\ Entries
  /\ \A i \in DOMAIN results : ResultIs(i)
  /\ Latest(messages, results, last)

\* Nothing to add.
LEMMA NoneAdded ==
  ASSUME NEW E
  PROVE  E \cup ToSet(<< >>) = E
<1>1. ToSet(<< >>) = {}
  BY DEF ToSet
<1> QED BY <1>1

\* Joined sequences have the elements of both.
LEMMA AddedTo ==
  ASSUME NEW T, NEW s \in Seq(T), NEW t \in Seq(T)
  PROVE  s \o t \in Seq(T) /\ ToSet(s \o t) = ToSet(s) \cup ToSet(t)
<1> DEFINE c == s \o t
           m == Len(s)
           n == Len(t)
<1>1. /\ m \in Nat /\ n \in Nat /\ DOMAIN s = 1..m /\ DOMAIN t = 1..n
  BY LenProperties
<1>2. /\ c \in Seq(T) /\ Len(c) = m + n
      /\ \A i \in 1..m + n : c[i] = IF i <= m THEN s[i] ELSE t[i - m]
  BY ConcatProperties, Zenon
<1>3. DOMAIN c = 1..m + n
  BY <1>2, LenProperties
<1> HIDE DEF c, m, n
<1>4. ASSUME NEW x \in ToSet(c) PROVE x \in ToSet(s) \cup ToSet(t)
  <2>1. PICK i \in 1..m + n : x = c[i]
    BY <1>3 DEF ToSet
  <2>2. CASE i <= m
    <3>1. i \in 1..m /\ x = s[i]
      BY <1>1, <1>2, <2>1, <2>2
    <3> QED BY <1>1, <3>1 DEF ToSet
  <2>3. CASE ~ (i <= m)
    <3>1. i - m \in 1..n /\ x = t[i - m]
      BY <1>1, <1>2, <2>1, <2>3
    <3> QED BY <1>1, <3>1 DEF ToSet
  <2> QED BY <2>2, <2>3
<1>5. ASSUME NEW x \in ToSet(s) PROVE x \in ToSet(c)
  <2>1. PICK i \in 1..m : x = s[i]
    BY <1>1 DEF ToSet
  <2>2. i \in 1..m + n /\ i <= m
    BY <1>1
  <2>3. c[i] = x
    BY <1>2, <2>1, <2>2
  <2> QED BY <1>3, <2>2, <2>3 DEF ToSet
<1>6. ASSUME NEW x \in ToSet(t) PROVE x \in ToSet(c)
  <2>1. PICK i \in 1..n : x = t[i]
    BY <1>1 DEF ToSet
  <2> DEFINE k == m + i
  <2>2. k \in 1..m + n /\ ~ (k <= m) /\ k - m = i
    BY <1>1
  <2> HIDE DEF k
  <2>3. c[k] = x
    BY <1>2, <2>1, <2>2
  <2> QED BY <1>3, <2>2, <2>3 DEF ToSet
<1>7. c \in Seq(T) /\ ToSet(c) = ToSet(s) \cup ToSet(t)
  BY <1>2, <1>4, <1>5, <1>6
<1> QED BY <1>7 DEF c

\* What is told of two sets of entries is told of both.
LEMMA ToldBoth ==
  ASSUME NEW E, NEW F
  PROVE  Told(E \cup F) = Told(E) \cup Told(F)
  BY DEF Told

\* What is told of entries is a placeholder and a hash.
LEMMA ToldTyped ==
  ASSUME NEW E \in SUBSET Entry
  PROVE  Told(E) \subseteq [ph : Placeholder, hash : EntityType \X Seq(Word)]
<1>1. ASSUME NEW e \in E
      PROVE  e.ph \in Placeholder /\ MatchHash(e.type, e.val) \in EntityType \X Seq(Word)
  <2>1. e.ph \in Placeholder /\ e.type \in EntityType /\ e.val \in Seq(Word)
    BY DEF Entry
  <2>2. /\ DOMAIN e.val = 1..Len(e.val) /\ Len(e.val) \in Nat
        /\ \A i \in DOMAIN e.val : e.val[i] \in Word
    BY <2>1, LenProperties, ElementOfSeq
  <2>3. [i \in 1..Len(e.val) |-> GatewayCanon[e.val[i]]] \in Seq(Word)
    BY <2>2, GatewayFoldsLess
  <2> QED BY <2>1, <2>2, <2>3 DEF MatchHash
<1> QED BY <1>1 DEF Told

\* What holds of a result stays so as the conversation gets new entries.
LEMMA AppliedMore ==
  ASSUME NEW text, NEW spans, NEW pol, NEW E, NEW F, E \subseteq F, NEW out, NEW es,
         Applied(text, spans, pol, E, out, es)
  PROVE  Applied(text, spans, pol, F, out, es)
<1>1. AllStand(F, text, es)
  BY DEF Applied, AllStand
<1> QED BY <1>1 DEF Applied

\* A message without a text has nothing to hide.
LEMMA AppliedNone ==
  ASSUME NEW pol, NEW E, NEW spans \in Seq(Span), Within(<< >>, spans)
  PROVE  Applied(<< >>, spans, pol, E, << >>, << >>)
<1> DEFINE none == << >>
<1>1. DOMAIN none = {} /\ Len(none) = 0 /\ none \in Seq(Token) /\ none \in Seq(Word)
      /\ none \in Seq(Hidden)
  <2>1. DOMAIN none = 1..Len(none) /\ Len(none) = 0
    OBVIOUS
  <2> QED BY <2>1
<1>2. DOMAIN spans = {}
  <2>1. \A n \in DOMAIN spans : spans[n].start \in Nat /\ spans[n].end \in Nat
    <3>1. \A n \in DOMAIN spans : spans[n] \in Span
      BY LenProperties, ElementOfSeq
    <3> QED BY <3>1 DEF Span
  <2>2. \A n \in DOMAIN spans : spans[n].start < spans[n].end /\ spans[n].end <= 0
    BY <1>1 DEF Within
  <2>3. ASSUME NEW n \in DOMAIN spans PROVE FALSE
    BY <2>1, <2>2
  <2> QED BY <2>3
<1> HIDE DEF none
<1>3. Placed(none, none)
  BY <1>1 DEF Placed, Within, Apart
<1>4. none = Rendered(none, none)
  <2>1. ArePieces(none, none, Pieces(none, none))
    BY <1>1, <1>3, PiecesAre
  <2> DEFINE ss == Pieces(none, none)
  <2>2. ss \in Seq(Strings(Token)) /\ Len(ss) = 0
    BY <1>1, <2>1 DEF ArePieces
  <2> HIDE DEF ss
  <2>3. Part(ss, 0) = << >> /\ Part(ss, Len(ss)) = FlattenSeq(ss)
    BY <2>2, PartIs
  <2>4. FlattenSeq(ss) = none
    BY <2>2, <2>3 DEF none
  <2> QED BY <2>4, RenderedIs DEF ss
<1>5. KeptBy(pol, spans) = {}
  <2> DEFINE sure == {i \in DOMAIN spans : spans[i].score >= pol.min}
             Best(K) == /\ \A i, j \in K : i # j => ~ Overlap(spans[i], spans[j])
                        /\ \A i \in sure \ K :
                             \E k \in K : Overlap(spans[i], spans[k]) /\ Before(spans, k, i)
             C == CHOOSE K \in SUBSET sure : Best(K)
  <2>1. KeptBy(pol, spans) = {spans[i] : i \in C}
    BY DEF KeptBy
  <2>2. sure = {}
    BY <1>2
  <2>3. {} \in SUBSET sure /\ Best({})
    BY <2>2
  <2> HIDE DEF sure, Best
  <2>4. C \in SUBSET sure
    BY <2>3
  <2> HIDE DEF C
  <2>5. C = {}
    BY <2>2, <2>4
  <2> QED BY <2>1, <2>5
<1>6. AllStand(E, none, none)
  BY <1>1 DEF AllStand
<1>7. {Where(none[n]) : n \in DOMAIN none}
        = {Where(s) : s \in {k \in KeptBy(pol, spans) : ActionFor(pol, k) # "allow"}}
  BY <1>1, <1>5
<1>8. Applied(none, spans, pol, E, none, none)
  BY <1>1, <1>3, <1>4, <1>5, <1>6, <1>7 DEF Applied
<1> QED BY <1>8 DEF none
--------------------------------------------------------------------------------
(* The message at hand. *)

\* The message whose turn it is.
LEMMA CurrentIs ==
  ASSUME Requested, Len(results) < Len(messages)
  PROVE  /\ Len(results) \in Nat /\ Len(results) + 1 <= Len(messages) /\ Len(messages) \in Nat
         /\ Len(results) + 1 \in DOMAIN messages
         /\ Current.text \in Seq(Word) /\ Current.spans \in Seq(Span)
         /\ Current.images \in Seq(SUBSET Region)
         /\ Within(Current.text, Current.spans)
<1>1. /\ Len(results) \in Nat /\ Len(messages) \in Nat /\ DOMAIN messages = 1..Len(messages)
      /\ \A i \in 1..Len(messages) : messages[i] \in Message
  BY LenProperties, ElementOfSeq DEF Requested
<1>2. Len(results) + 1 \in 1..Len(messages)
  BY <1>1
<1>3. Current \in Message /\ Within(Current.text, Current.spans)
  BY <1>1, <1>2 DEF Current, Requested
<1>4. /\ Current.text \in Seq(Word) /\ Current.spans \in Seq(Span)
      /\ Current.images \in Seq(SUBSET Region)
  <2> HIDE DEF Current
  <2> DEFINE c == Current
  <2>1. c \in Message
    BY <1>3
  <2> HIDE DEF c
  <2> QED BY <2>1 DEF Message, Span, Region, c
<1> QED BY <1>1, <1>2, <1>3, <1>4

\* What is forwarded of its images.
LEMMA ForwardedIs ==
  ASSUME Requested, Len(results) < Len(messages)
  PROVE  ForwardedImages \in Seq(SUBSET Region)
<1> DEFINE images == Current.images
<1>1. images \in Seq(SUBSET Region)
  BY CurrentIs
<1>2. /\ DOMAIN Boxed = DOMAIN images
      /\ ForwardedImages = IF RedactImages
                             THEN [i \in DOMAIN Boxed |-> images[i] \ Boxed[i].boxed]
                           ELSE images
  BY DEF ForwardedImages, Boxed
<1> HIDE DEF images
<1>3. DOMAIN images = 1..Len(images) /\ Len(images) \in Nat
      /\ \A i \in 1..Len(images) : images[i] \in SUBSET Region
  BY <1>1, LenProperties, ElementOfSeq
<1>4. [i \in 1..Len(images) |-> images[i] \ Boxed[i].boxed] \in Seq(SUBSET Region)
  <2>1. \A i \in 1..Len(images) : images[i] \ Boxed[i].boxed \in SUBSET Region
    BY <1>3
  <2> QED BY <1>3, <2>1, IsASeq
<1> QED BY <1>1, <1>2, <1>3, <1>4

\* Images that the redactor does not block have no region that the policy blocks.
LEMMA ImagesPassed ==
  ASSUME Requested, Len(results) < Len(messages),
         RedactImages => \A i \in DOMAIN Boxed : Boxed[i].verdict = "ok"
  PROVE  ImagesPass(policy, Current)
<1>1. SUFFICES ASSUME RedactImages, NEW region \in UNION ToSet(Current.images),
                      Confident(policy, region)
               PROVE  ImageAction(policy, region) # "block"
  BY DEF ImagesPass
<1>2. PICK i \in DOMAIN Current.images : region \in Current.images[i]
  BY <1>1 DEF ToSet
<1>3. Boxed[i] = RedactImage(Current.images[i], policy) /\ i \in DOMAIN Boxed
  BY <1>2 DEF Boxed
<1>4. RedactImage(Current.images[i], policy).verdict = "ok"
  BY <1>1, <1>3
<1> DEFINE sure == {r \in Current.images[i] : Confident(policy, r)}
           block == {r \in sure : ImageAction(policy, r) = "block"}
<1>5. block = {}
  <2>1. RedactImage(Current.images[i], policy) =
          IF block # {} THEN [verdict |-> "blocked", boxed |-> {}]
          ELSE [verdict |-> "ok", boxed |-> {r \in sure : ImageAction(policy, r) = "redact"}]
    BY DEF RedactImage
  <2> HIDE DEF sure, block
  <2> QED BY <1>4, <2>1
<1> QED BY <1>1, <1>2, <1>5

\* One result more.
LEMMA PushIs ==
  ASSUME Requested, Len(results) < Len(messages), NEW text \in Seq(Token), NEW es \in Seq(Hidden),
         PushResult(text, es)
  PROVE  /\ results' \in Seq(Result) /\ Len(results') = Len(results) + 1
         /\ DOMAIN results' = DOMAIN results \cup {Len(results) + 1}
         /\ Len(results) + 1 \notin DOMAIN results
         /\ \A i \in DOMAIN results : results'[i] = results[i] /\ i < Len(results) + 1
         /\ results'[Len(results) + 1].text = text
         /\ results'[Len(results) + 1].entities = es
<1> DEFINE r == [text |-> text, entities |-> es, images |-> ForwardedImages]
<1>1. r \in Result /\ r.text = text /\ r.entities = es
  BY ForwardedIs DEF Result
<1>2. results' = Append(results, r) /\ results \in Seq(Result)
  BY DEF PushResult, Requested
<1> HIDE DEF r
<1>3. /\ results' \in Seq(Result) /\ Len(results') = Len(results) + 1
      /\ \A i \in 1..Len(results) : results'[i] = results[i]
      /\ results'[Len(results) + 1] = r
  BY <1>1, <1>2, AppendProperties
<1>4. /\ DOMAIN results = 1..Len(results) /\ Len(results) \in Nat
      /\ DOMAIN results' = 1..Len(results) + 1
  BY <1>2, <1>3, LenProperties
<1> QED BY <1>1, <1>3, <1>4

\* One result more, and the remembered one is still of the newest message that has a
\* text of the user.
LEMMA LatestMore ==
  ASSUME Requested, Len(results) < Len(messages), Latest(messages, results, last),
         NEW text \in Seq(Token), NEW es \in Seq(Hidden), PushResult(text, es), messages' = messages,
         Speaks(Current) => last' = [spans |-> es, text |-> text],
         ~ Speaks(Current) => last' = last
  PROVE  Latest(messages', results', last')
<1> DEFINE n == Len(results) + 1
<1>1. /\ DOMAIN results' = DOMAIN results \cup {n}
      /\ \A i \in DOMAIN results : results'[i] = results[i] /\ i < n
      /\ results'[n].text = text /\ results'[n].entities = es
      /\ n \notin DOMAIN results
  BY PushIs
<1>2. Current = messages[n]
  BY DEF Current
<1>3. DOMAIN results \subseteq Nat /\ n \in Nat
  BY LenProperties DEF Requested
<1> HIDE DEF n
<1>4. SUFFICES ASSUME NEW i \in DOMAIN results', Speaks(messages[i]),
                      \A j \in DOMAIN results' : j > i => ~ Speaks(messages[j])
               PROVE  last' = [spans |-> results'[i].entities, text |-> results'[i].text]
  BY DEF Latest
<1>5. CASE i = n
  BY <1>1, <1>2, <1>4, <1>5
<1>6. CASE i \in DOMAIN results
  <2>1. n > i /\ n \in DOMAIN results'
    BY <1>1, <1>3, <1>6
  <2>2. ~ Speaks(messages[n])
    BY <1>4, <2>1
  <2>3. last' = last
    BY <1>2, <2>2
  <2>4. last = [spans |-> results[i].entities, text |-> results[i].text]
    BY <1>1, <1>4, <1>6 DEF Latest
  <2> QED BY <1>1, <1>6, <2>3, <2>4
<1> QED BY <1>1, <1>5, <1>6
--------------------------------------------------------------------------------
(* The steps. *)

\* The invariant holds at the beginning and is kept, action by action.
LEMMA InvInit == Init => Inv
<1> SUFFICES ASSUME Init PROVE Inv
  OBVIOUS
<1>1. /\ policy \in Policy /\ turn = 0 /\ pc = "idle" /\ messages = << >> /\ results = << >>
      /\ fresh = << >> /\ existing = {} /\ vault = {}
  BY DEF Init
<1> DEFINE none == << >>
<1>2. DOMAIN none = {} /\ Len(none) = 0 /\ \A S : none \in Seq(S)
  <2>1. DOMAIN none = 1..Len(none) /\ Len(none) = 0
    OBVIOUS
  <2> QED BY <2>1
<1> HIDE DEF none
<1>3. Len(Requests) \in Nat
  BY MessagesTyped, LenProperties
<1>4. Requested
  <2>1. messages = none /\ results = none
    BY <1>1 DEF none
  <2>2. messages \in Seq(Message) /\ results \in Seq(Result) /\ Len(results) <= Len(messages)
        /\ DOMAIN messages = {}
    BY <1>2, <2>1
  <2> QED BY <1>1, <1>3, <2>2 DEF Requested
<1>5. Known({})
  BY FS_EmptySet DEF Known, OneToOne
<1>6. Entries
  <2>1. AllEntries = vault
    BY <1>1, NoneAdded DEF AllEntries
  <2>2. fresh \in Seq(Entry)
    BY <1>1, <1>2 DEF none
  <2> QED BY <1>1, <1>5, <2>1, <2>2 DEF Entries
<1>7. (\A i \in DOMAIN results : ResultIs(i)) /\ Latest(messages, results, last)
  <2>1. DOMAIN results = {}
    BY <1>1, <1>2 DEF none
  <2> QED BY <2>1 DEF Latest
<1> QED BY <1>4, <1>6, <1>7 DEF Inv

LEMMA FinishIs ==
  ASSUME Inv, Finish, vault' = vault
  PROVE  Inv'
<1>1. /\ pc' = "idle" /\ messages' = << >> /\ existing' = {} /\ fresh' = << >>
      /\ results' = << >> /\ turn' = turn /\ policy' = policy
  BY DEF Finish
<1> DEFINE none == << >>
<1>2. DOMAIN none = {} /\ Len(none) = 0 /\ \A S : none \in Seq(S)
  <2>1. DOMAIN none = 1..Len(none) /\ Len(none) = 0
    OBVIOUS
  <2> QED BY <2>1
<1>3. messages' = none /\ results' = none /\ fresh' = none
  BY <1>1
<1> HIDE DEF none
<1>4. policy \in Policy /\ turn \in 0..Len(Requests) /\ Known(vault)
  BY DEF Inv, Requested, Entries
<1>5. Requested'
  <2>1. messages' \in Seq(Message) /\ results' \in Seq(Result) /\ Len(results') <= Len(messages')
        /\ DOMAIN messages' = {}
    BY <1>2, <1>3
  <2> QED BY <1>1, <1>4, <2>1 DEF Requested
<1>6. Entries'
  <2>1. AllEntries' = vault
    BY <1>1, NoneAdded DEF AllEntries
  <2>2. fresh' \in Seq(Entry)
    BY <1>2, <1>3
  <2>3. /\ Known(vault') /\ Known(AllEntries')
        /\ fresh' = << >> /\ results' = << >> /\ existing' = {} /\ pc' = "idle"
    BY <1>1, <1>4, <2>1
  <2> QED BY <2>2, <2>3 DEF Entries
<1>7. DOMAIN results' = {}
  BY <1>2, <1>3
<1>8. (\A i \in DOMAIN results : ResultIs(i))' /\ Latest(messages, results, last)'
  BY <1>7 DEF Latest
<1> QED BY <1>5, <1>6, <1>8 DEF Inv

LEMMA BeginIs ==
  ASSUME Inv, Begin
  PROVE  Inv'
<1>1. /\ pc = "idle" /\ turn < Len(Requests) /\ turn' = turn + 1
      /\ messages' \in Requests[turn + 1] /\ policy' \in Policy /\ existing' = Told(vault)
      /\ pc' = "images" /\ vault' = vault /\ fresh' = fresh /\ results' = results
  BY DEF Begin
<1>2. /\ turn \in 0..Len(Requests) /\ Known(vault) /\ results = << >> /\ fresh = << >>
      /\ results \in Seq(Result) /\ fresh \in Seq(Entry)
  BY <1>1 DEF Inv, Requested, Entries
<1>3. messages' \in Seq(Message) /\ \A i \in DOMAIN messages' : Within(messages'[i].text, messages'[i].spans)
  <2> DEFINE n == turn + 1
  <2>1. n \in 1..Len(Requests) /\ messages' \in Requests[n]
    BY <1>1, <1>2, MessagesTyped, LenProperties
  <2> HIDE DEF n
  <2>2. n \in DOMAIN Requests /\ Requests[n] \in SUBSET Seq(Message)
    BY <2>1, MessagesTyped, LenProperties, ElementOfSeq
  <2>3. messages' \in Seq(Message)
    BY <2>1, <2>2
  <2>4. \A i \in DOMAIN messages' : Within(messages'[i].text, messages'[i].spans)
    BY <2>1, <2>2, MessagesTyped DEF Within
  <2> QED BY <2>3, <2>4
<1>4. DOMAIN results = {} /\ Len(results) = 0
  <2>1. DOMAIN results = 1..Len(results) /\ Len(results) = 0
    BY <1>2
  <2> QED BY <2>1
<1>5. Requested'
  <2>1. turn' \in 0..Len(Requests)
    BY <1>1, <1>2, MessagesTyped, LenProperties
  <2>2. results' \in Seq(Result) /\ Len(results') <= Len(messages')
    BY <1>1, <1>2, <1>3, <1>4, LenProperties
  <2> QED BY <1>1, <1>3, <2>1, <2>2 DEF Requested
<1>6. Entries'
  <2>1. AllEntries' = vault
    BY <1>1, <1>2, NoneAdded DEF AllEntries
  <2> QED BY <1>1, <1>2, <2>1 DEF Entries
<1>7. (\A i \in DOMAIN results : ResultIs(i))' /\ Latest(messages, results, last)'
  BY <1>1, <1>4 DEF Latest
<1> QED BY <1>5, <1>6, <1>7 DEF Inv

LEMMA ImagesRedactedIs ==
  ASSUME Inv, ImagesRedacted
  PROVE  Inv'
<1>1. /\ pc = "images" /\ Len(results) # Len(messages) /\ Current.text # << >> /\ pc' = "text"
      /\ RedactImages => \A i \in DOMAIN Boxed : Boxed[i].verdict = "ok"
      /\ vault' = vault /\ turn' = turn /\ messages' = messages /\ policy' = policy
      /\ existing' = existing /\ fresh' = fresh /\ results' = results /\ last' = last
  BY DEF ImagesRedacted, Done
<1>2. Len(results) < Len(messages)
  BY <1>1, LenProperties DEF Inv, Requested
<1>3. Requested'
  BY <1>1 DEF Inv, Requested
<1>4. ImagesPass(policy, Current)
  BY <1>1, <1>2, ImagesPassed DEF Inv
<1>5. Current' = Current
  BY <1>1 DEF Current
<1>6. Entries'
  BY <1>1, <1>2, <1>4, <1>5 DEF Inv, Entries, AllEntries
<1>7. (\A i \in DOMAIN results : ResultIs(i))'
  BY <1>1 DEF Inv, ResultIs, AllEntries
<1>8. Latest(messages, results, last)'
  BY <1>1 DEF Inv
<1> QED BY <1>3, <1>6, <1>7, <1>8 DEF Inv

\* A message is through, and the conversation has the entries E.
LEMMA ThroughIs ==
  ASSUME Inv, Len(results) < Len(messages), NEW text \in Seq(Token), NEW es \in Seq(Hidden),
         PushResult(text, es),
         AllEntries \subseteq AllEntries',
         Applied(Current.text, Current.spans, policy, AllEntries', text, es),
         ImagesPass(policy, Current),
         messages' = messages, policy' = policy, turn' = turn, pc' = "images",
         Speaks(Current) => last' = [spans |-> es, text |-> text],
         ~ Speaks(Current) => last' = last
  PROVE  Requested' /\ (\A i \in DOMAIN results : ResultIs(i))' /\ Latest(messages, results, last)'
<1> DEFINE n == Len(results) + 1
<1>1. /\ results' \in Seq(Result) /\ Len(results') = Len(results) + 1
      /\ DOMAIN results' = DOMAIN results \cup {n}
      /\ \A i \in DOMAIN results : results'[i] = results[i]
      /\ results'[n].text = text /\ results'[n].entities = es
  BY PushIs DEF Inv
<1>2. n <= Len(messages)
  BY CurrentIs DEF Inv
<1>3. Requested'
  BY <1>1, <1>2 DEF Inv, Requested
<1>4. Current = messages[n]
  BY DEF Current
<1> HIDE DEF n
<1>5. ASSUME NEW i \in DOMAIN results'
      PROVE  /\ Applied(messages[i].text, messages[i].spans, policy, AllEntries',
                        results'[i].text, results'[i].entities)
             /\ ImagesPass(policy, messages[i])
  <2>1. CASE i = n
    BY <1>1, <1>4, <2>1
  <2>2. CASE i \in DOMAIN results
    <3>1. ResultIs(i) /\ results'[i] = results[i]
      BY <1>1, <2>2 DEF Inv
    <3> QED BY <3>1, AppliedMore DEF ResultIs
  <2> QED BY <1>1, <2>1, <2>2
<1>6. (\A i \in DOMAIN results : ResultIs(i))'
  BY <1>5 DEF ResultIs, AllEntries
<1>7. Latest(messages', results', last')
  BY LatestMore DEF Inv
<1> QED BY <1>3, <1>6, <1>7

LEMMA NoTextIs ==
  ASSUME Inv, NoText
  PROVE  Inv'
<1> DEFINE none == << >>
<1>1. /\ pc = "images" /\ Len(results) # Len(messages) /\ Current.text = none /\ pc' = pc
      /\ RedactImages => \A i \in DOMAIN Boxed : Boxed[i].verdict = "ok"
      /\ PushResult(none, none)
      /\ vault' = vault /\ turn' = turn /\ messages' = messages /\ policy' = policy
      /\ existing' = existing /\ fresh' = fresh /\ last' = last
  BY DEF NoText, Done
<1>2. Len(results) < Len(messages) /\ Requested
  BY <1>1, LenProperties DEF Inv, Requested
<1>3. ImagesPass(policy, Current)
  BY <1>1, <1>2, ImagesPassed
<1>4. /\ Applied(Current.text, Current.spans, policy, AllEntries, none, none)
      /\ AllEntries' = AllEntries
  BY <1>1, <1>2, CurrentIs, AppliedNone DEF AllEntries
<1>5. none \in Seq(Token) /\ none \in Seq(Hidden)
  BY EmptySeq
<1>6. ~ Speaks(Current)
  BY <1>1 DEF Speaks
<1> HIDE DEF none
<1>7. Requested' /\ (\A i \in DOMAIN results : ResultIs(i))' /\ Latest(messages, results, last)'
  BY <1>1, <1>2, <1>3, <1>4, <1>5, <1>6, ThroughIs
<1>8. Entries'
  BY <1>1, <1>4 DEF Inv, Entries
<1> QED BY <1>7, <1>8 DEF Inv

LEMMA TextRedactedIs ==
  ASSUME Inv, TextRedacted
  PROVE  Inv'
<1> DEFINE A == Answer
<1>1. /\ pc = "text" /\ A.verdict = "ok" /\ fresh' = fresh \o A.new
      /\ existing' = existing \cup Told(ToSet(A.new)) /\ PushResult(A.text, A.entities)
      /\ last' = IF Current.role = "user" THEN [spans |-> A.entities, text |-> A.text] ELSE last
      /\ pc' = "images"
      /\ vault' = vault /\ turn' = turn /\ messages' = messages /\ policy' = policy
  BY DEF TextRedacted, Collect, Learn, Remember
<1>2. /\ Len(results) < Len(messages) /\ ImagesPass(policy, Current) /\ Requested
      /\ Known(vault) /\ existing = Told(AllEntries) /\ Known(AllEntries)
      /\ fresh \in Seq(Entry) /\ Current.text # << >>
  BY <1>1 DEF Inv, Entries
<1>3. /\ Current.text \in Seq(Word) /\ Current.spans \in Seq(Span)
      /\ Within(Current.text, Current.spans)
  BY <1>2, CurrentIs
<1>4. A = ApplyPolicy(Current.text, Current.spans, policy, Told(AllEntries))
  BY <1>2 DEF Answer
<1> HIDE DEF A
<1>5. /\ A.new \in Seq(Entry) /\ A.entities \in Seq(Hidden) /\ A.text \in Seq(Token)
      /\ Known(AllEntries \cup ToSet(A.new))
      /\ Applied(Current.text, Current.spans, policy, AllEntries \cup ToSet(A.new),
                 A.text, A.entities)
  BY <1>1, <1>2, <1>3, <1>4, ApplyIs
<1>6. /\ Speaks(Current) => last' = [spans |-> A.entities, text |-> A.text]
      /\ ~ Speaks(Current) => last' = last
  BY <1>1, <1>2 DEF Speaks
<1>7. fresh' \in Seq(Entry) /\ AllEntries' = AllEntries \cup ToSet(A.new)
  <2>1. fresh' \in Seq(Entry) /\ ToSet(fresh') = ToSet(fresh) \cup ToSet(A.new)
    BY <1>1, <1>2, <1>5, AddedTo
  <2> QED BY <1>1, <2>1 DEF AllEntries
<1>8. Requested' /\ (\A i \in DOMAIN results : ResultIs(i))' /\ Latest(messages, results, last)'
  <2>1. AllEntries \subseteq AllEntries'
    BY <1>7
  <2>2. Applied(Current.text, Current.spans, policy, AllEntries', A.text, A.entities)
    BY <1>5, <1>7
  <2> QED BY <1>1, <1>2, <1>5, <1>6, <2>1, <2>2, ThroughIs
<1>9. Entries'
  <2>1. existing' = Told(AllEntries')
    BY <1>1, <1>2, <1>7, ToldBoth
  <2>2. Known(vault') /\ Known(AllEntries')
    BY <1>1, <1>2, <1>5, <1>7
  <2> QED BY <1>1, <1>7, <2>1, <2>2 DEF Entries
<1> QED BY <1>8, <1>9 DEF Inv

LEMMA PersistIs ==
  ASSUME Inv, Persist
  PROVE  Inv'
<1>1. /\ pc = "images" /\ Len(results) = Len(messages) /\ vault' = vault \cup ToSet(fresh)
      /\ pc' = "ready" /\ turn' = turn /\ messages' = messages /\ policy' = policy
      /\ existing' = existing /\ fresh' = fresh /\ results' = results /\ last' = last
  BY DEF Persist, Done
<1>2. Requested'
  BY <1>1 DEF Inv, Requested
<1>3. AllEntries' = AllEntries /\ vault' = AllEntries
  BY <1>1 DEF AllEntries
<1>4. Entries'
  <2>1. fresh \in Seq(Entry) /\ Known(AllEntries) /\ existing = Told(AllEntries)
    BY <1>1 DEF Inv, Entries
  <2>2. /\ fresh' \in Seq(Entry) /\ Known(vault') /\ Known(AllEntries')
        /\ AllEntries' = vault' /\ Len(results') = Len(messages')
        /\ existing' = Told(AllEntries')
    BY <1>1, <1>3, <2>1
  <2> QED BY <1>1, <2>2 DEF Entries
<1>5. (\A i \in DOMAIN results : ResultIs(i))'
  BY <1>1, <1>3 DEF Inv, ResultIs
<1>6. Latest(messages, results, last)'
  BY <1>1 DEF Inv
<1> QED BY <1>2, <1>4, <1>5, <1>6 DEF Inv

LEMMA InvNext == Inv /\ [Next]_vars => Inv'
<1> SUFFICES ASSUME Inv, [Next]_vars PROVE Inv'
  OBVIOUS
<1>1. CASE Begin
  BY <1>1, BeginIs
<1>2. CASE BlockedByImage
  BY <1>2, FinishIs DEF BlockedByImage
<1>3. CASE ImagesRedacted
  BY <1>3, ImagesRedactedIs
<1>4. CASE NoText
  BY <1>4, NoTextIs
<1>5. CASE TextRedacted
  BY <1>5, TextRedactedIs
<1>6. CASE TextRejected
  BY <1>6, FinishIs DEF TextRejected
<1>7. CASE Persist
  BY <1>7, PersistIs
<1>8. CASE Leave
  BY <1>8, FinishIs DEF Leave
<1>9. CASE Fail
  BY <1>9, FinishIs DEF Fail
<1>10. CASE UNCHANGED vars
  <2>1. /\ vault' = vault /\ turn' = turn /\ pc' = pc /\ messages' = messages /\ policy' = policy
        /\ existing' = existing /\ fresh' = fresh /\ results' = results /\ last' = last
    BY <1>10 DEF vars
  <2>2. Requested' /\ Entries'
    BY <2>1 DEF Inv, Requested, Entries, Current, AllEntries
  <2>3. (\A i \in DOMAIN results : ResultIs(i))' /\ Latest(messages, results, last)'
    BY <2>1 DEF Inv, ResultIs, AllEntries
  <2> QED BY <2>2, <2>3 DEF Inv
<1> QED BY <1>1, <1>2, <1>3, <1>4, <1>5, <1>6, <1>7, <1>8, <1>9, <1>10 DEF Next

LEMMA Invariant == Spec => []Inv
<1>1. Init => Inv
  BY InvInit
<1>2. Inv /\ [Next]_vars => Inv'
  BY InvNext
<1> QED BY <1>1, <1>2, PTL DEF Spec
--------------------------------------------------------------------------------
(* The theorems. *)

\* Every placeholder a request hands out is one of the grammar, and every entry
\* and result is of its kind, whatever is detected in the messages
\* (make_placeholder raises instead of leaving the range).
THEOREM TypeCorrect == Spec => []TypeOK
<1>1. Inv => TypeOK
  <2> SUFFICES ASSUME Inv PROVE TypeOK
    OBVIOUS
  <2>1. /\ vault \in SUBSET Entry /\ fresh \in Seq(Entry)
        /\ AllEntries \in SUBSET Entry
        /\ pc = "idle" => existing = {}
        /\ pc # "idle" => existing = Told(AllEntries)
    BY DEF Inv, Entries, Known
  <2>2. /\ policy \in Policy /\ turn \in 0..Len(Requests)
        /\ pc \in {"idle", "images", "text", "ready"}
        /\ results \in Seq(Result) /\ Len(results) <= Len(messages)
    BY DEF Inv, Requested
  <2>3. existing \subseteq [ph : Placeholder, hash : EntityType \X Seq(Word)]
    BY <2>1, ToldTyped
  <2>4. ASSUME NEW i \in Results
        PROVE  /\ results[i].text \in Seq(Word \cup Placeholder)
               /\ \A n \in DOMAIN results[i].entities : results[i].entities[n].ph \in Placeholder
    <3>1. results[i] \in Result
      BY <2>2, LenProperties, ElementOfSeq DEF Results
    <3>2. results[i].text \in Seq(Token) /\ results[i].entities \in Seq(Hidden)
      BY <3>1 DEF Result
    <3>3. \A n \in DOMAIN results[i].entities : results[i].entities[n] \in Hidden
      BY <3>2, LenProperties, ElementOfSeq
    <3> QED BY <3>2, <3>3 DEF Token, Hidden
  <2> QED BY <2>1, <2>2, <2>3, <2>4 DEF TypeOK
<1> QED BY <1>1, Invariant, PTL

\* Kept is KeptBy under the policy in force.
LEMMA KeptByPolicy ==
  ASSUME NEW m
  PROVE  Kept(m) = KeptBy(policy, m.spans)
  BY DEF Kept, KeptBy

\* In every message of every request exactly the spans are hidden that the
\* policy is sure of and does not allow, and that rank before every span they
\* overlap which is itself kept (_drop_overlaps).
THEOREM BestHidden == Spec => []BestAreHidden
<1>1. Inv => BestAreHidden
  <2> SUFFICES ASSUME Inv, NEW i \in Results
               PROVE  {Where(results[i].entities[n]) : n \in DOMAIN results[i].entities}
                        = {Where(s) : s \in {k \in Kept(messages[i]) : ActionFor(policy, k) # "allow"}}
    BY DEF BestAreHidden, Where
  <2>1. Applied(messages[i].text, messages[i].spans, policy, AllEntries,
                results[i].text, results[i].entities)
    BY DEF Inv, ResultIs, Results
  <2>2. Kept(messages[i]) = KeptBy(policy, messages[i].spans)
    BY KeptByPolicy
  <2> QED BY <2>1, <2>2 DEF Applied
<1> QED BY <1>1, Invariant, PTL

\* The replacements, made one after the other from the right, give the text in
\* which each hidden span is its placeholder and every other word stands where
\* it stood, however long the spans are (apply_policy).
THEOREM ReplacedInPlace == Spec => []PlacedRight
<1>1. Inv => PlacedRight
  BY DEF Inv, ResultIs, Applied, PlacedRight, Results
<1> QED BY <1>1, Invariant, PTL

\* When a request leaves, the entries committed for its conversation turn each
\* of its texts back into what its author wrote, up to normalisation, however
\* the entries came about over the turns (prepareOutbound, persistNewEntries).
THEOREM ReadsBack == Spec => []RoundTrip
<1>1. Inv => RoundTrip
  <2> SUFFICES ASSUME Inv, pc = "ready", NEW i \in Results
               PROVE  ReadsAs(vault, results[i].text, messages[i].text)
    BY DEF RoundTrip, ReadsAs
  <2> DEFINE text == messages[i].text
             es == results[i].entities
  <2>1. AllEntries = vault /\ Known(vault)
    BY DEF Inv, Entries
  <2>2. /\ Placed(text, es) /\ AllStand(vault, text, es)
        /\ results[i].text = Rendered(text, es)
    BY <2>1 DEF Inv, ResultIs, Applied, Results
  <2>3. text \in Seq(Word)
    <3>1. messages \in Seq(Message) /\ results \in Seq(Result) /\ Len(results) <= Len(messages)
      BY DEF Inv, Requested
    <3>2. i \in 1..Len(messages)
      BY <3>1, LenProperties DEF Results
    <3>3. messages[i] \in Message
      BY <3>1, <3>2, ElementOfSeq
    <3> QED BY <3>3 DEF Message
  <2> HIDE DEF text, es
  <2>4. ReadsAs(vault, Rendered(text, es), text)
    BY <2>1, <2>2, <2>3, ResolveIs
  <2> QED BY <2>2, <2>4 DEF text
<1> QED BY <1>1, Invariant, PTL

\* Over all turns and messages of a conversation a placeholder has one value,
\* and a value of a type one placeholder, however it is written later, if the
\* gateway's hash of its first spelling is the redactor's (value_hash,
\* matchHash, next_index and the entries prepareOutbound hands on).
THEOREM OnePlaceholder == Spec => []SamePlaceholder
<1>1. Inv => SamePlaceholder
  BY DEF Inv, Entries, AllEntries, Known, OneToOne, SamePlaceholder
<1> QED BY <1>1, Invariant, PTL

\* When a request leaves every message has its result.
LEMMA ReadyIs ==
  ASSUME Inv, pc = "ready", NEW i \in DOMAIN messages
  PROVE  /\ ResultIs(i) /\ AllEntries = vault /\ Known(vault) /\ i \in DOMAIN results
         /\ messages[i] \in Message /\ DOMAIN results = 1..Len(messages)
         /\ DOMAIN messages = 1..Len(messages) /\ Len(messages) \in Nat
<1>1. /\ messages \in Seq(Message) /\ results \in Seq(Result)
      /\ Len(results) = Len(messages) /\ AllEntries = vault /\ Known(vault)
  BY DEF Inv, Requested, Entries
<1>2. /\ DOMAIN messages = 1..Len(messages) /\ DOMAIN results = 1..Len(messages)
      /\ Len(messages) \in Nat
  BY <1>1, LenProperties
<1>3. i \in DOMAIN results /\ messages[i] \in Message
  BY <1>1, <1>2, ElementOfSeq
<1> QED BY <1>1, <1>2, <1>3 DEF Inv

\* No request leaves with a kept span or a region of an image that the policy
\* blocks, in whichever of its messages it is (prepareOutbound's returns on
\* blocked images and texts).
THEOREM BlockedNeverLeaves == Spec => []BlockIsWhole
<1>1. Inv => BlockIsWhole
  <2> SUFFICES ASSUME Inv, pc = "ready", NEW i \in DOMAIN messages
               PROVE  /\ \A s \in Kept(messages[i]) : ActionFor(policy, s) # "block"
                      /\ RedactImages =>
                           \A region \in UNION ToSet(messages[i].images) :
                             Confident(policy, region) => ImageAction(policy, region) # "block"
    BY DEF BlockIsWhole
  <2>1. ResultIs(i)
    BY ReadyIs
  <2>2. \A s \in Kept(messages[i]) : ActionFor(policy, s) # "block"
    <3>1. Kept(messages[i]) = KeptBy(policy, messages[i].spans)
      BY KeptByPolicy
    <3> QED BY <2>1, <3>1 DEF ResultIs, Applied
  <2>3. ImagesPass(policy, messages[i])
    BY <2>1 DEF ResultIs
  <2> QED BY <2>2, <2>3 DEF ImagesPass
<1> QED BY <1>1, Invariant, PTL

\* The newest message of the user is the one last remembered, if it has a text.
LEMMA NewestIs ==
  ASSUME Inv, pc = "ready", UserMessages # {}, messages[Newest].text # << >>
  PROVE  /\ Newest \in DOMAIN messages
         /\ last = [spans |-> results[Newest].entities, text |-> results[Newest].text]
<1>1. PICK k : k \in DOMAIN messages
  BY DEF UserMessages
<1>2. DOMAIN messages = 1..Len(messages) /\ DOMAIN results = 1..Len(messages) /\ Len(messages) \in Nat
  BY <1>1, ReadyIs
<1>3. IsFiniteSet(UserMessages) /\ UserMessages \in SUBSET Int
  <2>1. UserMessages \in SUBSET (1..Len(messages))
    BY <1>2 DEF UserMessages
  <2>2. IsFiniteSet(1..Len(messages))
    BY <1>2, FS_Interval
  <2>3. IsFiniteSet(UserMessages)
    BY <2>1, <2>2, FS_Subset
  <2>4. UserMessages \in SUBSET Int
    BY <2>1
  <2> QED BY <2>3, <2>4
<1>4. Newest \in UserMessages /\ \A j \in UserMessages : Newest >= j
  BY <1>3, MaxOfFinite DEF Newest
<1>5. Newest \in DOMAIN messages /\ Speaks(messages[Newest])
  BY <1>4 DEF UserMessages, Speaks
<1>6. ASSUME NEW j \in DOMAIN results, j > Newest PROVE ~ Speaks(messages[j])
  <2>1. j \notin UserMessages
    BY <1>2, <1>4, <1>5, <1>6
  <2> QED BY <1>2, <2>1 DEF UserMessages, Speaks
<1>7. Latest(messages, results, last)
  BY DEF Inv
<1> QED BY <1>2, <1>5, <1>6, <1>7 DEF Latest

\* What the author is shown for a placeholder of the newest message is, up to
\* normalisation, the value the committed map has for it, unless a character of
\* two UTF-16 units comes before its end (lastUserSpans, resolveRedactions).
THEOREM ShieldShowsHidden == Spec => []ShieldMatches
<1>1. Inv => ShieldMatches
  <2> SUFFICES ASSUME Inv, pc = "ready", UserMessages # {}, messages[Newest].text # << >>
               PROVE  LET text  == messages[Newest].text
                          shown == ResolveRedactions(last.spans, text) IN
                      /\ last.text = results[Newest].text
                      /\ \A n \in DOMAIN shown :
                           NarrowUpTo(text, last.spans[n].end) =>
                             \E e \in vault : e.ph = shown[n].ph
                                              /\ Normalize(e.val) = Normalize(shown[n].value)
    BY Zenon DEF ShieldMatches
  <2> DEFINE i == Newest
             text == messages[i].text
             es == results[i].entities
             shown == ResolveRedactions(last.spans, text)
  <2>1. i \in DOMAIN messages /\ last = [spans |-> es, text |-> results[i].text]
    BY NewestIs
  <2>2. last.text = results[i].text /\ last.spans = es
    BY <2>1
  <2> HIDE DEF i
  <2>3. ResultIs(i) /\ AllEntries = vault /\ messages[i] \in Message
    BY <2>1, ReadyIs
  <2>4. text \in Seq(Word) /\ Placed(text, es) /\ AllStand(vault, text, es)
    BY <2>3 DEF ResultIs, Applied, Message
  <2>5. shown = [n \in DOMAIN es |-> [ph |-> es[n].ph, value |-> JsSlice(Units(text), es[n])]]
    BY <2>2 DEF ResolveRedactions
  <2> HIDE DEF text, es, shown
  <2>6. /\ DOMAIN es = 1..Len(es)
        /\ \A n \in 1..Len(es) : /\ es[n].start \in Nat /\ es[n].end \in Nat
                                 /\ es[n].start < es[n].end /\ es[n].end <= Len(text)
    BY <2>4, PlacedIs
  <2>7. ASSUME NEW n \in DOMAIN shown, NarrowUpTo(text, es[n].end)
        PROVE  \E e \in vault : e.ph = shown[n].ph /\ Normalize(e.val) = Normalize(shown[n].value)
    <3>1. n \in DOMAIN es /\ shown[n] = [ph |-> es[n].ph, value |-> JsSlice(Units(text), es[n])]
      BY <2>5
    <3> DEFINE s == es[n]
    <3>2. s.start \in Nat /\ s.end \in Nat /\ s.start < s.end /\ s.end <= Len(text)
      BY <2>6, <3>1
    <3>3. NarrowUpTo(text, s.end)
      BY <2>7
    <3>4. \E e \in vault : Stands(e, text, s)
      BY <2>4, <3>1 DEF AllStand
    <3>5. shown[n].ph = s.ph /\ shown[n].value = JsSlice(Units(text), s)
      BY <3>1
    <3> HIDE DEF s
    <3>6. JsSlice(Units(text), s) = Slice(text, s)
      BY <2>4, <3>2, <3>3, ShownIs
    <3> QED BY <3>4, <3>5, <3>6 DEF Stands
  <2> QED BY <2>2, <2>7 DEF i, text, shown
<1> QED BY <1>1, Invariant, PTL
================================================================================
