----------------------------- MODULE InductionLemmas -----------------------------
(***************************************************************************)
(* Induction over the numbers and over finite sets, with the property given *)
(* as the set of what has it, and what the proofs of the components need    *)
(* from it: maxima, the pieces of a joined text, sorting, and functions     *)
(* that are defined step by step.                                           *)
(***************************************************************************)
EXTENDS Integers, SequencesExt, FiniteSetTheorems, SequenceTheorems, WellFoundedInduction,
        TLAPS

Below == {ss \in Nat \X Nat : ss[1] < ss[2]}

LEMMA BelowWellFounded == IsWellFoundedOn(Below, Nat)
  BY NatLessThanWellFounded DEF OpToRel, Below

\* A set that has 0 and with every number its successor has them all.
LEMMA NatSetInduction ==
  ASSUME NEW P \in SUBSET Nat, 0 \in P, \A n \in P : n + 1 \in P
  PROVE  P = Nat
<1>1. SUFFICES ASSUME Nat \ P # {} PROVE FALSE
  OBVIOUS
<1>2. PICK x \in Nat \ P : \A y \in Nat \ P : ~ (<<y, x>> \in Below)
  BY <1>1, BelowWellFounded, WFMin
<1>3. \A y \in Nat \ P : ~ (y < x)
  BY <1>2 DEF Below
<1>4. x # 0 /\ x - 1 \in P
  BY <1>3
<1> QED BY <1>4

\* So does a set of subsets of a finite set that has {} and with every member
\* the one larger by an element.
LEMMA SubsetInduction ==
  ASSUME NEW S, IsFiniteSet(S), NEW P \in SUBSET (SUBSET S), {} \in P,
         \A T \in P, x \in S : T \cup {x} \in P
  PROVE  P = SUBSET S
<1> DEFINE N == {n \in Nat : \A T \in SUBSET S : Cardinality(T) = n => T \in P}
<1>1. \A T \in SUBSET S : IsFiniteSet(T) /\ Cardinality(T) \in Nat
  BY FS_Subset, FS_CardinalityType
<1>2. 0 \in N
  BY <1>1, FS_EmptySet
<1>3. ASSUME NEW n \in N PROVE n + 1 \in N
  <2>1. SUFFICES ASSUME NEW T \in SUBSET S, Cardinality(T) = n + 1 PROVE T \in P
    OBVIOUS
  <2>2. T # {}
    <3>1. Cardinality({}) = 0 /\ n \in Nat
      BY FS_EmptySet
    <3> QED BY <2>1, <3>1
  <2>3. PICK x \in T : TRUE
    BY <2>2
  <2>4. Cardinality(T \ {x}) = n
    <3>1. IsFiniteSet(T) /\ x \in T
      BY <1>1, <2>3
    <3>2. Cardinality(T \ {x}) = IF x \in T THEN Cardinality(T) - 1 ELSE Cardinality(T)
      BY <3>1, FS_RemoveElement
    <3> QED BY <2>1, <3>1, <3>2
  <2>5. T \ {x} \in P /\ T = (T \ {x}) \cup {x}
    BY <2>4
  <2> QED BY <2>5
<1>4. N = Nat
  <2> HIDE DEF N
  <2>1. N \in SUBSET Nat
    BY DEF N
  <2> QED BY <1>2, <1>3, <2>1, NatSetInduction
<1> QED BY <1>1, <1>4

\* A finite set of integers that has an element has a greatest one.
LEMMA MaxOfFinite ==
  ASSUME NEW S \in SUBSET Int, IsFiniteSet(S), S # {}
  PROVE  Max(S) \in S /\ \A y \in S : Max(S) >= y
<1> DEFINE P == {T \in SUBSET S : T # {} => \E x \in T : \A y \in T : x >= y}
<1>1. ASSUME NEW T \in P, NEW z \in S PROVE T \cup {z} \in P
  <2>1. CASE T = {}
    BY <2>1
  <2>2. CASE T # {}
    <3>1. PICK x \in T : \A y \in T : x >= y
      BY <2>2
    <3>2. CASE x >= z
      BY <3>1, <3>2
    <3>3. CASE ~ (x >= z)
      <4>1. \A y \in T \cup {z} : z >= y
        BY <3>1, <3>3
      <4> QED BY <4>1
    <3> QED BY <3>2, <3>3
  <2> QED BY <2>1, <2>2
<1>2. P = SUBSET S
  <2> HIDE DEF P
  <2>1. P \in SUBSET (SUBSET S) /\ {} \in P
    BY DEF P
  <2> QED BY <1>1, <2>1, SubsetInduction
<1>3. \E x \in S : \A y \in S : x >= y
  BY <1>2
<1> QED BY <1>3 DEF Max
--------------------------------------------------------------------------------
(* Flattening a sequence of sequences. *)

Strings(T) == Seq(T)

\* What FlattenSeq computes, left to right.
IsFlat(ss, g) == g = [i \in 1..Len(ss) |-> IF i = 1 THEN ss[i] ELSE g[i - 1] \o ss[i]]

LEMMA FlatAt ==
  ASSUME NEW ss, NEW g, IsFlat(ss, g), NEW i \in 1..Len(ss)
  PROVE  g[i] = IF i = 1 THEN ss[i] ELSE g[i - 1] \o ss[i]
<1> DEFINE f == [j \in 1..Len(ss) |-> IF j = 1 THEN ss[j] ELSE g[j - 1] \o ss[j]]
<1>1. g = f
  BY DEF IsFlat
<1>2. f[i] = IF i = 1 THEN ss[i] ELSE g[i - 1] \o ss[i]
  OBVIOUS
<1> HIDE DEF f
<1> QED BY <1>1, <1>2

LEMMA FlatExists ==
  ASSUME NEW T, NEW ss \in Seq(Strings(T))
  PROVE  \E g \in [1..Len(ss) -> Strings(T)] : IsFlat(ss, g)
<1> DEFINE Good(n, g) == \A i \in 1..n : g[i] = IF i = 1 THEN ss[i] ELSE g[i - 1] \o ss[i]
           P == {n \in Nat : n <= Len(ss) => \E g \in [1..n -> Strings(T)] : Good(n, g)}
<1>1. Len(ss) \in Nat /\ \A i \in 1..Len(ss) : ss[i] \in Strings(T)
  BY LenProperties, ElementOfSeq
<1>2. 0 \in P
  <2>1. [i \in 1..0 |-> << >>] \in [1..0 -> Strings(T)] /\ Good(0, [i \in 1..0 |-> << >>])
    OBVIOUS
  <2> QED BY <2>1
<1>3. ASSUME NEW n \in P PROVE n + 1 \in P
  <2>1. SUFFICES ASSUME n + 1 <= Len(ss) PROVE \E g \in [1..n + 1 -> Strings(T)] : Good(n + 1, g)
    OBVIOUS
  <2>2. PICK g \in [1..n -> Strings(T)] : Good(n, g)
    BY <1>1, <2>1
  <2> DEFINE x == IF n + 1 = 1 THEN ss[n + 1] ELSE g[n] \o ss[n + 1]
             h == [i \in 1..n + 1 |-> IF i = n + 1 THEN x ELSE g[i]]
  <2>3. x \in Strings(T)
    <3>1. ss[n + 1] \in Strings(T)
      BY <1>1, <2>1
    <3>2. CASE n + 1 # 1
      <4>1. g[n] \in Strings(T)
        BY <3>2
      <4>2. g[n] \o ss[n + 1] \in Strings(T)
        BY <3>1, <4>1, ConcatProperties DEF Strings
      <4> QED BY <3>2, <4>2
    <3> QED BY <3>1, <3>2
  <2> HIDE DEF x
  <2>4. h \in [1..n + 1 -> Strings(T)]
    BY <2>3
  <2>5. ASSUME NEW i \in 1..n + 1 PROVE h[i] = IF i = 1 THEN ss[i] ELSE h[i - 1] \o ss[i]
    <3>1. CASE i = n + 1
      <4>1. h[i] = x
        BY <3>1
      <4>2. i # 1 => h[i - 1] = g[n]
        BY <3>1
      <4> QED BY <3>1, <4>1, <4>2 DEF x
    <3>2. CASE i # n + 1
      <4>1. i \in 1..n /\ (i # 1 => i - 1 \in 1..n)
        BY <3>2
      <4>2. h[i] = g[i] /\ (i # 1 => h[i - 1] = g[i - 1])
        BY <3>2, <4>1
      <4> QED BY <2>2, <4>1, <4>2
    <3> QED BY <3>1, <3>2
  <2>6. Good(n + 1, h)
    BY <2>5
  <2> QED BY <2>4, <2>6
<1>4. P = Nat
  <2> HIDE DEF P
  <2>1. P \in SUBSET Nat
    BY DEF P
  <2> QED BY <1>2, <1>3, <2>1, NatSetInduction
<1>5. PICK g \in [1..Len(ss) -> Strings(T)] : Good(Len(ss), g)
  <2>1. Len(ss) \in P
    <3> HIDE DEF P
    <3> QED BY <1>1, <1>4
  <2> QED BY <1>1, <2>1
<1>6. g = [i \in 1..Len(ss) |-> IF i = 1 THEN ss[i] ELSE g[i - 1] \o ss[i]]
  BY <1>5
<1> QED BY <1>6 DEF IsFlat

LEMMA FlatIs ==
  ASSUME NEW T, NEW ss \in Seq(Strings(T)), Len(ss) # 0
  PROVE  \E g : IsFlat(ss, g) /\ FlattenSeq(ss) = g[Len(ss)] /\ g \in [1..Len(ss) -> Strings(T)]
<1>1. FlattenSeq(ss) = (CHOOSE g : IsFlat(ss, g))[Len(ss)]
  BY DEF FlattenSeq, IsFlat
<1>2. IsFlat(ss, CHOOSE g : IsFlat(ss, g))
  BY FlatExists
<1> DEFINE c == CHOOSE g : IsFlat(ss, g)
<1>3. IsFlat(ss, c) /\ FlattenSeq(ss) = c[Len(ss)]
  BY <1>1, <1>2
<1> HIDE DEF c
<1>4. PICK g \in [1..Len(ss) -> Strings(T)] : IsFlat(ss, g)
  BY FlatExists
<1> DEFINE P == {n \in Nat : n \in 1..Len(ss) => c[n] = g[n]}
<1>5. 0 \in P
  OBVIOUS
<1>6. ASSUME NEW n \in P PROVE n + 1 \in P
  <2>1. SUFFICES ASSUME n + 1 \in 1..Len(ss) PROVE c[n + 1] = g[n + 1]
    OBVIOUS
  <2>2. /\ c[n + 1] = IF n + 1 = 1 THEN ss[n + 1] ELSE c[n + 1 - 1] \o ss[n + 1]
        /\ g[n + 1] = IF n + 1 = 1 THEN ss[n + 1] ELSE g[n + 1 - 1] \o ss[n + 1]
    BY <1>3, <1>4, <2>1, FlatAt
  <2>3. n + 1 # 1 => c[n + 1 - 1] = g[n + 1 - 1]
    BY <2>1
  <2> QED BY <2>2, <2>3
<1>7. P = Nat
  <2> HIDE DEF P
  <2>1. P \in SUBSET Nat
    BY DEF P
  <2> QED BY <1>5, <1>6, <2>1, NatSetInduction
<1>8. DOMAIN c = 1..Len(ss)
  BY <1>3 DEF IsFlat
<1>9. \A n \in 1..Len(ss) : c[n] = g[n]
  BY <1>7, LenProperties
<1>10. c = [i \in 1..Len(ss) |-> c[i]]
  BY <1>3 DEF IsFlat
<1>11. c \in [1..Len(ss) -> Strings(T)]
  BY <1>9, <1>10
<1> QED BY <1>3, <1>11

LEMMA FlattenOneMore ==
  ASSUME NEW T, NEW ss \in Seq(Strings(T)), NEW s \in Strings(T)
  PROVE  /\ FlattenSeq(ss) \in Strings(T)
         /\ FlattenSeq(Append(ss, s)) = FlattenSeq(ss) \o s
<1> DEFINE tt == Append(ss, s)
<1>1. /\ tt \in Seq(Strings(T)) /\ Len(tt) = Len(ss) + 1 /\ Len(ss) \in Nat
      /\ \A i \in 1..Len(ss) : tt[i] = ss[i]
      /\ tt[Len(ss) + 1] = s
  BY AppendProperties, LenProperties
<1> HIDE DEF tt
<1>2. PICK h : IsFlat(tt, h) /\ FlattenSeq(tt) = h[Len(tt)] /\ h \in [1..Len(tt) -> Strings(T)]
  <2>1. Len(tt) # 0
    BY <1>1
  <2> QED BY <1>1, <2>1, FlatIs
<1>3. CASE Len(ss) = 0
  <2>1. ss = << >>
    BY <1>3, EmptySeq
  <2>2. FlattenSeq(ss) = << >> /\ << >> \in Strings(T)
    BY <1>3, <2>1, EmptySeq DEF FlattenSeq, Strings
  <2>3. h[1] = s
    BY <1>1, <1>2, <1>3 DEF IsFlat
  <2>4. << >> \o s = s
    BY ConcatEmptySeq DEF Strings
  <2> QED BY <1>1, <1>2, <1>3, <2>2, <2>3, <2>4 DEF tt
<1>4. CASE Len(ss) # 0
  <2>1. PICK g : IsFlat(ss, g) /\ FlattenSeq(ss) = g[Len(ss)] /\ g \in [1..Len(ss) -> Strings(T)]
    BY <1>4, FlatIs
  <2> DEFINE P == {n \in Nat : n \in 1..Len(ss) => h[n] = g[n]}
  <2>2. 0 \in P
    OBVIOUS
  <2>3. ASSUME NEW n \in P PROVE n + 1 \in P
    <3>1. SUFFICES ASSUME n + 1 \in 1..Len(ss) PROVE h[n + 1] = g[n + 1]
      OBVIOUS
    <3>2. n + 1 \in 1..Len(tt)
      BY <1>1, <3>1
    <3>3. h[n + 1] = IF n + 1 = 1 THEN tt[n + 1] ELSE h[n + 1 - 1] \o tt[n + 1]
      BY <1>2, <3>2, FlatAt
    <3>4. g[n + 1] = IF n + 1 = 1 THEN ss[n + 1] ELSE g[n + 1 - 1] \o ss[n + 1]
      BY <2>1, <3>1, FlatAt
    <3>5. tt[n + 1] = ss[n + 1] /\ (n + 1 # 1 => h[n + 1 - 1] = g[n + 1 - 1])
      BY <1>1, <3>1
    <3> QED BY <3>3, <3>4, <3>5
  <2>4. P = Nat
    <3> HIDE DEF P
    <3>1. P \in SUBSET Nat
      BY DEF P
    <3> QED BY <2>2, <2>3, <3>1, NatSetInduction
  <2>5. h[Len(ss)] = g[Len(ss)]
    BY <1>1, <1>4, <2>4
  <2> DEFINE j == Len(ss) + 1
  <2>6. j \in 1..Len(tt) /\ j # 1 /\ j - 1 = Len(ss) /\ Len(tt) = j /\ tt[j] = s
    BY <1>1, <1>4
  <2> HIDE DEF j
  <2>7. h[j] = h[j - 1] \o tt[j]
    <3>1. \A i \in 1..Len(tt) : h[i] = IF i = 1 THEN tt[i] ELSE h[i - 1] \o tt[i]
      BY <1>2, FlatAt
    <3> QED BY <2>6, <3>1
  <2>8. h[Len(tt)] = g[Len(ss)] \o s
    BY <2>5, <2>6, <2>7
  <2>9. g[Len(ss)] \in Strings(T)
    BY <1>1, <1>4, <2>1
  <2> QED BY <1>2, <2>1, <2>8, <2>9 DEF tt
<1> QED BY <1>3, <1>4

LEMMA StringsAre ==
  ASSUME NEW T
  PROVE  /\ << >> \in Strings(T)
         /\ \A t \in Strings(T) :
              /\ Len(t) \in Nat /\ DOMAIN t = 1..Len(t) /\ t \o << >> = t /\ << >> \o t = t
              /\ \A i \in 1..Len(t) : t[i] \in T
         /\ \A t, u \in Strings(T) : t \o u \in Strings(T)
         /\ \A x \in T : <<x>> \in Strings(T)
<1>1. << >> \in Strings(T)
  BY EmptySeq DEF Strings
<1>2. ASSUME NEW t \in Strings(T)
      PROVE  /\ Len(t) \in Nat /\ DOMAIN t = 1..Len(t) /\ t \o << >> = t /\ << >> \o t = t
             /\ \A i \in 1..Len(t) : t[i] \in T
  BY LenProperties, ElementOfSeq, ConcatEmptySeq DEF Strings
<1>3. ASSUME NEW t \in Strings(T), NEW u \in Strings(T) PROVE t \o u \in Strings(T)
  BY ConcatProperties DEF Strings
<1>4. ASSUME NEW x \in T PROVE <<x>> \in Strings(T)
  BY DEF Strings
<1> QED BY <1>1, <1>2, <1>3, <1>4

LEMMA Regrouped ==
  ASSUME NEW T, NEW t \in Strings(T), NEW u \in Strings(T), NEW w \in Strings(T)
  PROVE  (t \o u) \o w = t \o (u \o w)
<1>1. t \in Seq(T) /\ u \in Seq(T) /\ w \in Seq(T)
  BY DEF Strings
<1> QED BY <1>1, ConcatAssociative

\* What the first n of the sequences come to.
Part(ss, n) == FlattenSeq(SubSeq(ss, 1, n))

LEMMA PartIs ==
  ASSUME NEW T, NEW ss \in Seq(Strings(T))
  PROVE  /\ Part(ss, 0) = << >>
         /\ \A n \in 0..Len(ss) : Part(ss, n) \in Strings(T)
         /\ \A n \in 1..Len(ss) : Part(ss, n) = Part(ss, n - 1) \o ss[n]
         /\ Part(ss, Len(ss)) = FlattenSeq(ss)
<1>1. Len(ss) \in Nat /\ \A i \in 1..Len(ss) : ss[i] \in Strings(T)
  BY LenProperties, ElementOfSeq
<1>2. Part(ss, 0) = << >>
  <2>1. SubSeq(ss, 1, 0) = << >>
    BY SubSeqEmpty
  <2>2. Len(<< >>) = 0
    OBVIOUS
  <2> QED BY <2>1, <2>2 DEF Part, FlattenSeq
<1>3. ASSUME NEW n \in 0..Len(ss)
      PROVE  /\ SubSeq(ss, 1, n) \in Seq(Strings(T)) /\ Len(SubSeq(ss, 1, n)) = n
             /\ \A i \in 1..n : SubSeq(ss, 1, n)[i] = ss[i]
  <2>1. \A i \in 1..n : ss[i] \in Strings(T)
    BY <1>1
  <2>2. n \in Int /\ 1 \in Int
    OBVIOUS
  <2>3. /\ SubSeq(ss, 1, n) \in Seq(Strings(T)) /\ Len(SubSeq(ss, 1, n)) = IF 1 <= n THEN n - 1 + 1 ELSE 0
        /\ \A i \in 1..n - 1 + 1 : SubSeq(ss, 1, n)[i] = ss[1 + i - 1]
    BY <2>1, <2>2, SubSeqProperties
  <2> QED BY <2>3
<1>4. ASSUME NEW n \in 0..Len(ss) PROVE Part(ss, n) \in Strings(T)
  <2>1. << >> \in Strings(T)
    BY EmptySeq DEF Strings
  <2>2. FlattenSeq(SubSeq(ss, 1, n)) \in Strings(T)
    BY <1>3, <2>1, FlattenOneMore
  <2> QED BY <2>2 DEF Part
<1>5. ASSUME NEW n \in 1..Len(ss) PROVE Part(ss, n) = Part(ss, n - 1) \o ss[n]
  <2> DEFINE a == SubSeq(ss, 1, n - 1)
             b == SubSeq(ss, 1, n)
  <2>1. n - 1 \in 0..Len(ss) /\ n \in 0..Len(ss) /\ ss[n] \in Strings(T)
    BY <1>1
  <2>2. a \in Seq(Strings(T)) /\ Len(a) = n - 1 /\ \A i \in 1..n - 1 : a[i] = ss[i]
    BY <1>3, <2>1
  <2>3. b \in Seq(Strings(T)) /\ Len(b) = n /\ \A i \in 1..n : b[i] = ss[i]
    BY <1>3, <2>1
  <2>4. Part(ss, n) = FlattenSeq(b) /\ Part(ss, n - 1) = FlattenSeq(a)
    BY DEF Part
  <2> HIDE DEF a, b
  <2>5. /\ Append(a, ss[n]) \in Seq(Strings(T)) /\ Len(Append(a, ss[n])) = Len(a) + 1
        /\ \A i \in 1..Len(a) : Append(a, ss[n])[i] = a[i]
        /\ Append(a, ss[n])[Len(a) + 1] = ss[n]
    BY <2>1, <2>2, AppendProperties
  <2>6. \A i \in 1..Len(b) : b[i] = Append(a, ss[n])[i]
    BY <2>2, <2>3, <2>5, SMTT(30)
  <2>7. b = Append(a, ss[n])
    BY <2>2, <2>3, <2>5, <2>6, SeqEqual
  <2> QED BY <2>1, <2>2, <2>4, <2>7, FlattenOneMore
<1>6. Part(ss, Len(ss)) = FlattenSeq(ss)
  BY SubSeqFull DEF Part
<1> QED BY <1>2, <1>4, <1>5, <1>6

\* From b + 1 to c, the sequences are the elements of t, one each.
Singly(ss, t, b, c) == \A p \in b + 1..c : ss[p] = <<t[p]>>

\* Sequences of one element each add these elements.
LEMMA PartPlain ==
  ASSUME NEW T, NEW ss \in Seq(Strings(T)), NEW t \in Strings(T), Len(t) = Len(ss),
         NEW b \in 0..Len(ss), NEW c \in b..Len(ss), Singly(ss, t, b, c)
  PROVE  Part(ss, c) = Part(ss, b) \o SubSeq(t, b + 1, c)
<1> DEFINE Good(n) == b + n <= c => Part(ss, b + n) = Part(ss, b) \o SubSeq(t, b + 1, b + n)
           P == {n \in Nat : Good(n)}
<1>1. Len(ss) \in Nat /\ \A i \in 1..Len(t) : t[i] \in T
  BY StringsAre, LenProperties
<1>2. Good(0)
  <2>1. SubSeq(t, b + 1, b + 0) = << >>
    BY SubSeqEmpty
  <2>2. Part(ss, b) \o << >> = Part(ss, b)
    BY PartIs, StringsAre, Zenon
  <2>3. b + 0 = b
    OBVIOUS
  <2> QED BY <2>1, <2>2, <2>3
<1>3. ASSUME NEW n \in Nat, Good(n) PROVE Good(n + 1)
  <2>1. SUFFICES ASSUME b + (n + 1) <= c
                 PROVE Part(ss, b + (n + 1)) = Part(ss, b) \o SubSeq(t, b + 1, b + (n + 1))
    OBVIOUS
  <2> DEFINE k == b + (n + 1)
             f == Part(ss, b)
             u == SubSeq(t, b + 1, k - 1)
             w == <<t[k]>>
  <2>2. k \in 1..Len(ss) /\ k - 1 = b + n /\ k \in b + 1..c /\ b + 1 \in 1..Len(t) /\ k \in b + 1..Len(t)
    BY <1>1, <2>1
  <2>3. Part(ss, k) = Part(ss, k - 1) \o ss[k]
    BY <2>2, PartIs
  <2>4. Part(ss, k - 1) = f \o u
    <3>1. b + n <= c
      BY <2>1
    <3>2. Part(ss, b + n) = Part(ss, b) \o SubSeq(t, b + 1, b + n)
      BY <1>3, <3>1
    <3> QED BY <2>2, <3>2
  <2>5. SubSeq(t, b + 1, k) = u \o w
    BY <2>2, SubSeqRecursiveSecond DEF Strings
  <2>6. ss[k] = w
    BY <2>2 DEF Singly
  <2>7. f \in Strings(T) /\ u \in Strings(T) /\ w \in Strings(T)
    <3>1. \A i \in b + 1..k - 1 : t[i] \in T
      BY <1>1, <2>2
    <3>2. u \in Strings(T)
      BY <2>2, <3>1, SubSeqProperties DEF Strings
    <3>3. t[k] \in T
      BY <1>1, <2>2
    <3>4. w \in Strings(T)
      BY <3>3, StringsAre
    <3> QED BY <3>2, <3>4, PartIs
  <2> HIDE DEF f, u, w, k
  <2>8. (f \o u) \o w = f \o (u \o w)
    <3>1. \A x, y, z \in Strings(T) : (x \o y) \o z = x \o (y \o z)
      BY Regrouped, SMTT(30)
    <3> QED BY <2>7, <3>1, Zenon
  <2>9. Part(ss, k) = f \o SubSeq(t, b + 1, k)
    BY <2>3, <2>4, <2>5, <2>6, <2>8
  <2> QED BY <2>9 DEF k, f
<1>4. P = Nat
  <2> HIDE DEF Good
  <2>1. P \in SUBSET Nat /\ 0 \in P /\ \A n \in P : n + 1 \in P
    BY <1>2, <1>3
  <2> HIDE DEF P
  <2> QED BY <2>1, NatSetInduction
<1>5. Good(c - b) /\ b + (c - b) = c
  <2>1. c - b \in Nat /\ b + (c - b) = c
    OBVIOUS
  <2> HIDE DEF Good
  <2> QED BY <1>4, <2>1
<1>6. Part(ss, b + (c - b)) = Part(ss, b) \o SubSeq(t, b + 1, b + (c - b))
  <2>1. b + (c - b) <= c
    BY <1>5
  <2> QED BY <1>5, <2>1
<1> QED BY <1>5, <1>6

\* Empty ones add nothing.
LEMMA PartNone ==
  ASSUME NEW T, NEW ss \in Seq(Strings(T)), NEW b \in 0..Len(ss), NEW c \in b..Len(ss),
         \A p \in b + 1..c : ss[p] = << >>
  PROVE  Part(ss, c) = Part(ss, b)
<1> DEFINE P == {n \in Nat : b + n <= c => Part(ss, b + n) = Part(ss, b)}
<1>1. 0 \in P
  OBVIOUS
<1>2. ASSUME NEW n \in P PROVE n + 1 \in P
  <2>1. SUFFICES ASSUME b + (n + 1) <= c PROVE Part(ss, b + (n + 1)) = Part(ss, b)
    OBVIOUS
  <2> DEFINE k == b + (n + 1)
  <2>2. k \in 1..Len(ss) /\ k - 1 = b + n /\ k \in b + 1..c /\ b + n \in 0..Len(ss)
    BY <2>1, LenProperties
  <2>3. Part(ss, k) = Part(ss, k - 1) \o ss[k]
    BY <2>2, PartIs
  <2>4. Part(ss, b + n) \o << >> = Part(ss, b + n)
    BY <2>2, PartIs, ConcatEmptySeq DEF Strings
  <2>5. ss[k] = << >> /\ Part(ss, b + n) = Part(ss, b)
    BY <2>1, <2>2
  <2> HIDE DEF k
  <2>6. Part(ss, k) = Part(ss, b)
    BY <2>2, <2>3, <2>4, <2>5
  <2> QED BY <2>6 DEF k
<1>3. P = Nat
  <2> HIDE DEF P
  <2>1. P \in SUBSET Nat
    BY DEF P
  <2> QED BY <1>1, <1>2, <2>1, NatSetInduction
<1>4. c - b \in P /\ b + (c - b) = c
  <2>1. c - b \in Nat /\ b + (c - b) = c
    OBVIOUS
  <2> HIDE DEF P
  <2> QED BY <1>3, <2>1
<1> QED BY <1>4

\* The whole starts with every front.
LEMMA PartRest ==
  ASSUME NEW T, NEW ss \in Seq(Strings(T)), NEW b \in 0..Len(ss)
  PROVE  \E rest \in Strings(T) : FlattenSeq(ss) = Part(ss, b) \o rest
<1> DEFINE Good(n) == b + n <= Len(ss) =>
                        \E rest \in Strings(T) : Part(ss, b + n) = Part(ss, b) \o rest
           P == {n \in Nat : Good(n)}
<1>1. Good(0)
  <2>1. << >> \in Strings(T) /\ Part(ss, b) \o << >> = Part(ss, b)
    BY PartIs, StringsAre, Zenon
  <2>2. b + 0 = b
    OBVIOUS
  <2> QED BY <2>1, <2>2
<1>2. ASSUME NEW n \in Nat, Good(n) PROVE Good(n + 1)
  <2>1. SUFFICES ASSUME b + (n + 1) <= Len(ss)
                 PROVE \E rest \in Strings(T) : Part(ss, b + (n + 1)) = Part(ss, b) \o rest
    OBVIOUS
  <2> DEFINE k == b + (n + 1)
  <2>2. k \in 1..Len(ss) /\ k - 1 = b + n
    BY <2>1, LenProperties
  <2>3. Part(ss, k) = Part(ss, k - 1) \o ss[k]
    BY <2>2, PartIs
  <2>4. PICK rest \in Strings(T) : Part(ss, b + n) = Part(ss, b) \o rest
    BY <1>2, <2>1, <2>2, SMTT(30)
  <2>5. ss[k] \in Strings(T) /\ Part(ss, b) \in Strings(T)
    BY <2>2, ElementOfSeq, PartIs DEF Strings
  <2> HIDE DEF k
  <2>6. (Part(ss, b) \o rest) \o ss[k] = Part(ss, b) \o (rest \o ss[k])
    <3>1. \A x, y, z \in Strings(T) : (x \o y) \o z = x \o (y \o z)
      BY Regrouped, SMTT(30)
    <3> QED BY <2>5, <3>1, Zenon
  <2>7. rest \o ss[k] \in Strings(T)
    BY <2>5, ConcatProperties DEF Strings
  <2>8. Part(ss, k) = Part(ss, b) \o (rest \o ss[k])
    BY <2>2, <2>3, <2>4, <2>6
  <2> QED BY <2>7, <2>8 DEF k
<1>3. P = Nat
  <2> HIDE DEF Good
  <2>1. P \in SUBSET Nat /\ 0 \in P /\ \A n \in P : n + 1 \in P
    BY <1>1, <1>2
  <2> HIDE DEF P
  <2> QED BY <2>1, NatSetInduction
<1>4. Good(Len(ss) - b) /\ b + (Len(ss) - b) = Len(ss)
  <2>1. Len(ss) - b \in Nat /\ b + (Len(ss) - b) = Len(ss)
    BY LenProperties
  <2> HIDE DEF Good
  <2> QED BY <1>3, <2>1
<1>5. \E rest \in Strings(T) : Part(ss, Len(ss)) = Part(ss, b) \o rest
  BY <1>4
<1> QED BY <1>5, PartIs
--------------------------------------------------------------------------------
(* Putting a finite set in order. *)

\* R puts any two of S in an order.
Orders(R, S) ==
  /\ \A x \in S : <<x, x>> \notin R
  /\ \A x, y \in S : x = y \/ <<x, y>> \in R \/ <<y, x>> \in R
  /\ \A x, y, z \in S : <<x, y>> \in R /\ <<y, z>> \in R => <<x, z>> \in R

OrderedBy(order, R, n) == \A i, j \in 1..n : i < j => <<order[i], order[j]>> \in R

LEMMA LastOne ==
  ASSUME NEW S, IsFiniteSet(S), NEW R, Orders(R, S), S # {}
  PROVE  \E x \in S : \A y \in S : y = x \/ <<y, x>> \in R
<1> DEFINE Has(T) == \E x \in T : \A y \in T : y = x \/ <<y, x>> \in R
           P == {T \in SUBSET S : T # {} => Has(T)}
<1>1. ASSUME NEW T \in P, NEW z \in S PROVE T \cup {z} \in P
  <2>1. CASE T = {}
    BY <2>1
  <2>2. CASE T # {}
    <3>1. PICK x \in T : \A y \in T : y = x \/ <<y, x>> \in R
      BY <2>2
    <3>2. CASE <<x, z>> \in R
      <4>1. \A y \in T \cup {z} : y = z \/ <<y, z>> \in R
        BY <3>1, <3>2 DEF Orders
      <4> QED BY <4>1
    <3>3. CASE <<x, z>> \notin R
      <4>1. \A y \in T \cup {z} : y = x \/ <<y, x>> \in R
        BY <3>1, <3>3 DEF Orders
      <4> QED BY <3>1, <4>1
    <3> QED BY <3>2, <3>3
  <2> QED BY <2>1, <2>2
<1>2. P = SUBSET S
  <2> HIDE DEF P
  <2>1. P \in SUBSET (SUBSET S) /\ {} \in P
    BY DEF P
  <2> QED BY <1>1, <2>1, SubsetInduction
<1> QED BY <1>2

\* There is such an order,
LEMMA Sorted ==
  ASSUME NEW S, IsFiniteSet(S), NEW R, Orders(R, S)
  PROVE  \E order \in [1..Cardinality(S) -> S] : OrderedBy(order, R, Cardinality(S))
<1> DEFINE Has(T, n) == \E order \in [1..n -> T] : OrderedBy(order, R, n)
           Good(n) == \A T \in SUBSET S : Cardinality(T) = n => Has(T, n)
           P == {n \in Nat : Good(n)}
<1>1. \A T \in SUBSET S : IsFiniteSet(T) /\ Cardinality(T) \in Nat
  BY FS_Subset, FS_CardinalityType
<1>2. Good(0)
  <2>1. ASSUME NEW T \in SUBSET S PROVE Has(T, 0)
    <3>1. [i \in 1..0 |-> 0] \in [1..0 -> T] /\ OrderedBy([i \in 1..0 |-> 0], R, 0)
      BY DEF OrderedBy
    <3> QED BY <3>1
  <2> QED BY <2>1
<1>3. ASSUME NEW n \in Nat, Good(n) PROVE Good(n + 1)
  <2>1. SUFFICES ASSUME NEW T \in SUBSET S, Cardinality(T) = n + 1 PROVE Has(T, n + 1)
    OBVIOUS
  <2>2. T # {} /\ IsFiniteSet(T) /\ Orders(R, T)
    <3>1. Cardinality({}) = 0
      BY FS_EmptySet
    <3> QED BY <1>1, <2>1, <3>1 DEF Orders
  <2>3. PICK x \in T : \A y \in T : y = x \/ <<y, x>> \in R
    BY <2>2, LastOne
  <2>4. T \ {x} \in SUBSET S /\ Cardinality(T \ {x}) = n
    <3>1. Cardinality(T \ {x}) = IF x \in T THEN Cardinality(T) - 1 ELSE Cardinality(T)
      BY <2>2, FS_RemoveElement
    <3> QED BY <2>1, <3>1
  <2>5. PICK order \in [1..n -> T \ {x}] : OrderedBy(order, R, n)
    BY <1>3, <2>4
  <2> DEFINE more == [i \in 1..n + 1 |-> IF i = n + 1 THEN x ELSE order[i]]
  <2>6. more \in [1..n + 1 -> T]
    OBVIOUS
  <2>7. ASSUME NEW i \in 1..n + 1, NEW j \in 1..n + 1, i < j PROVE <<more[i], more[j]>> \in R
    <3>1. i \in 1..n /\ more[i] = order[i] /\ order[i] \in T /\ order[i] # x
      BY <2>7
    <3>2. CASE j = n + 1
      <4>1. more[j] = x
        BY <3>2
      <4> QED BY <2>3, <3>1, <4>1
    <3>3. CASE j # n + 1
      <4>1. j \in 1..n /\ more[j] = order[j]
        BY <3>3
      <4>2. <<order[i], order[j]>> \in R
        BY <2>5, <2>7, <3>1, <4>1 DEF OrderedBy
      <4> QED BY <3>1, <4>1, <4>2
    <3> QED BY <3>2, <3>3
  <2> HIDE DEF more
  <2>8. OrderedBy(more, R, n + 1)
    BY <2>7 DEF OrderedBy
  <2> QED BY <2>6, <2>8
<1>4. P = Nat
  <2> HIDE DEF Good
  <2>1. P \in SUBSET Nat /\ 0 \in P /\ \A n \in P : n + 1 \in P
    BY <1>2, <1>3
  <2> HIDE DEF P
  <2> QED BY <2>1, NatSetInduction
<1>5. Good(Cardinality(S)) /\ S \in SUBSET S
  <2>1. Cardinality(S) \in Nat
    BY FS_CardinalityType
  <2> HIDE DEF Good
  <2> QED BY <1>4, <2>1
<1> QED BY <1>5

\* and it names every element, once.
LEMMA SortedAll ==
  ASSUME NEW S, IsFiniteSet(S), NEW R, Orders(R, S),
         NEW order \in [1..Cardinality(S) -> S], OrderedBy(order, R, Cardinality(S))
  PROVE  /\ \A i, j \in 1..Cardinality(S) : order[i] = order[j] => i = j
         /\ \A x \in S : \E i \in 1..Cardinality(S) : order[i] = x
<1> DEFINE n == Cardinality(S)
<1>1. n \in Nat
  BY FS_CardinalityType
<1>2. ASSUME NEW i \in 1..n, NEW j \in 1..n, order[i] = order[j] PROVE i = j
  <2>1. <<order[i], order[j]>> \notin R /\ <<order[j], order[i]>> \notin R
    BY <1>2 DEF Orders
  <2>2. ~ (i < j) /\ ~ (j < i)
    BY <2>1 DEF OrderedBy
  <2> QED BY <1>1, <2>2
<1>3. order \in Injection(1..n, S)
  BY <1>2 DEF Injection, IsInjective
<1>4. IsFiniteSet(1..n) /\ Cardinality(1..n) = n
  <2>1. IsFiniteSet(1..n) /\ Cardinality(1..n) = IF 1 > n THEN 0 ELSE n - 1 + 1
    BY <1>1, FS_Interval
  <2> QED BY <1>1, <2>1
<1>5. order \in Surjection(1..n, S)
  <2>1. Cardinality(1..n) = Cardinality(S) <=> order \in Surjection(1..n, S)
    BY <1>3, FS_Injection
  <2> QED BY <1>4, <2>1
<1>6. \A x \in S : \E i \in 1..n : order[i] = x
  BY <1>5 DEF Surjection
<1> QED BY <1>2, <1>6
--------------------------------------------------------------------------------
\* A function may be defined from its value for the number before.
Iterates(g, a, N, step) == g[0] = a /\ \A i \in 1..N : g[i] = step[<<i, g[i - 1]>>]

LEMMA Iterated ==
  ASSUME NEW A, NEW a \in A, NEW N \in Nat, NEW step \in [(1..N) \X A -> A]
  PROVE  \E g \in [0..N -> A] : Iterates(g, a, N, step)
<1> DEFINE Steps(g, n) == g[0] = a /\ \A i \in 1..n : g[i] = step[<<i, g[i - 1]>>]
           Good(n) == n <= N => \E g \in [0..n -> A] : Steps(g, n)
           P == {n \in Nat : Good(n)}
<1>1. Good(0)
  <2>1. [i \in 0..0 |-> a] \in [0..0 -> A] /\ Steps([i \in 0..0 |-> a], 0)
    OBVIOUS
  <2> QED BY <2>1
<1>2. ASSUME NEW n \in Nat, Good(n) PROVE Good(n + 1)
  <2>1. SUFFICES ASSUME n + 1 <= N PROVE \E g \in [0..n + 1 -> A] : Steps(g, n + 1)
    OBVIOUS
  <2>2. PICK g \in [0..n -> A] : Steps(g, n)
    BY <1>2, <2>1
  <2> DEFINE x == step[<<n + 1, g[n]>>]
             h == [i \in 0..n + 1 |-> IF i = n + 1 THEN x ELSE g[i]]
  <2>3. x \in A
    <3>1. <<n + 1, g[n]>> \in (1..N) \X A
      BY <2>1
    <3> QED BY <3>1
  <2> HIDE DEF x
  <2>4. h \in [0..n + 1 -> A] /\ h[0] = a
    BY <2>2, <2>3
  <2>5. ASSUME NEW i \in 1..n + 1 PROVE h[i] = step[<<i, h[i - 1]>>]
    <3>1. i - 1 \in 0..n /\ h[i - 1] = g[i - 1]
      OBVIOUS
    <3>2. CASE i = n + 1
      <4>1. h[i] = x /\ i - 1 = n
        BY <3>2
      <4> QED BY <3>1, <3>2, <4>1 DEF x
    <3>3. CASE i # n + 1
      <4>1. i \in 1..n /\ h[i] = g[i]
        BY <3>3
      <4> QED BY <2>2, <3>1, <4>1
    <3> QED BY <3>2, <3>3
  <2> HIDE DEF h
  <2> QED BY <2>4, <2>5
<1>3. P = Nat
  <2> HIDE DEF Good
  <2>1. P \in SUBSET Nat /\ 0 \in P /\ \A n \in P : n + 1 \in P
    BY <1>1, <1>2
  <2> HIDE DEF P
  <2> QED BY <2>1, NatSetInduction
<1>4. Good(N)
  <2> HIDE DEF Good
  <2> QED BY <1>3
<1> QED BY <1>4 DEF Iterates
================================================================================
