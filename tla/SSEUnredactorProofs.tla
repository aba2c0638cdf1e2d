--------------------------- MODULE SSEUnredactorProofs ---------------------------
(***************************************************************************)
(* Proofs about the un-redactor of the event stream: for every set of      *)
(* entity types and digits, every resolver, every set of delta texts and   *)
(* every number of lines.                                                  *)
(***************************************************************************)
EXTENDS SSEUnredactor, SequenceTheorems, InductionLemmas

Text == Seq(Char)

(* The grammar, position by position. *)

LEMMA Signs == "[" \in Char /\ "]" \in Char /\ "_" \in Char
  BY CharsEnough

LEMMA One ==
  ASSUME NEW S, NEW a \in S
  PROVE  <<a>> \in Seq(S) /\ Len(<<a>>) = 1 /\ <<a>>[1] = a
  OBVIOUS

LEMMA Two ==
  ASSUME NEW S, NEW a \in S, NEW b \in S
  PROVE  /\ <<a, b>> \in Seq(S) /\ Len(<<a, b>>) = 2
         /\ <<a, b>>[1] = a /\ <<a, b>>[2] = b
  OBVIOUS

LEMMA Regroup ==
  \A x, y, z \in Text : x \o (y \o z) = (x \o y) \o z
<1> TAKE x, y, z \in Text
<1>1. x \in Seq(Char) /\ y \in Seq(Char) /\ z \in Seq(Char)
  BY DEF Text
<1>2. (x \o y) \o z = x \o (y \o z)
  BY <1>1, ConcatAssociative
<1> QED BY <1>2

LEMMA Both ==
  ASSUME NEW a \in Text, NEW b \in Text
  PROVE  /\ a \o b \in Text /\ Len(a \o b) = Len(a) + Len(b)
         /\ Len(a) \in Nat /\ Len(b) \in Nat
         /\ \A k \in 1..Len(a) : (a \o b)[k] = a[k]
         /\ \A k \in 1..Len(b) : (a \o b)[Len(a) + k] = b[k]
<1> DEFINE c == a \o b
<1>1. /\ c \in Seq(Char) /\ Len(c) = Len(a) + Len(b)
      /\ \A i \in 1..Len(a) + Len(b) : c[i] = IF i <= Len(a) THEN a[i] ELSE b[i - Len(a)]
  BY ConcatProperties DEF Text
<1>2. Len(a) \in Nat /\ Len(b) \in Nat
  BY LenProperties DEF Text
<1> HIDE DEF c
<1>3. \A k \in 1..Len(a) : c[k] = a[k]
  BY <1>1, <1>2
<1>4. \A k \in 1..Len(b) : c[Len(a) + k] = b[k]
  BY <1>1, <1>2
<1> QED BY <1>1, <1>2, <1>3, <1>4 DEF c, Text

LEMMA Digitals ==
  /\ Digits \subseteq Seq(Digit) /\ Digits \subseteq Text
  /\ \A n \in Digits : Len(n) <= MaxDigits
  /\ \A n \in Seq(Digit) : Len(n) <= MaxDigits => n \in Digits
<1>1. ASSUME NEW n \in Digits PROVE n \in Seq(Digit) /\ Len(n) <= MaxDigits
  BY MaxDigitsPositive DEF Digits, BoundedSeq, SeqOf
<1>2. ASSUME NEW n \in Seq(Digit), Len(n) <= MaxDigits PROVE n \in Digits
  <2>1. Len(n) \in 0..MaxDigits /\ n \in [1..Len(n) -> Digit]
    BY <1>2, LenProperties, MaxDigitsPositive
  <2> QED BY <2>1 DEF Digits, BoundedSeq, SeqOf
<1>3. Seq(Digit) \subseteq Text
  BY CharsEnough, SeqMonotonic DEF Text
<1> QED BY <1>1, <1>2, <1>3

LEMMA OpeningShape ==
  ASSUME NEW t \in TypeName
  PROVE  /\ t \in Text /\ Len(t) \in Nat \ {0}
         /\ Opening(t) \in Text /\ Len(Opening(t)) = Len(t) + 2
         /\ Opening(t)[1] = "[" /\ Opening(t)[2] = "["
         /\ \A k \in 3..Len(t) + 2 : Opening(t)[k] = t[k - 2]
<1>1. t \in Text /\ t # << >>
  BY TypeNamesPlain DEF Text
<1>2. Len(t) \in Nat \ {0}
  BY <1>1, EmptySeq DEF Text
<1>3. /\ <<"[", "[">> \in Text /\ Len(<<"[", "[">>) = 2
      /\ <<"[", "[">>[1] = "[" /\ <<"[", "[">>[2] = "["
  BY Signs, Two, Zenon DEF Text
<1>4. /\ Opening(t) \in Text /\ Len(Opening(t)) = Len(t) + 2
      /\ \A k \in 1..2 + Len(t) : Opening(t)[k] = IF k <= 2 THEN <<"[", "[">>[k] ELSE t[k - 2]
  BY <1>1, <1>3, ConcatProperties DEF Opening, Text
<1>5. Opening(t)[1] = "[" /\ Opening(t)[2] = "["
  BY <1>2, <1>3, <1>4
<1>6. \A k \in 3..Len(t) + 2 : Opening(t)[k] = t[k - 2]
  BY <1>2, <1>4
<1> QED BY <1>1, <1>2, <1>4, <1>5, <1>6

\* Three texts, the second of one character.
LEMMA Joined ==
  \A o, u, n \in Text :
    Len(u) = 1 =>
      /\ o \o u \o n \in Text /\ Len(o \o u \o n) = Len(o) + 1 + Len(n)
      /\ \A k \in 1..Len(o) : (o \o u \o n)[k] = o[k]
      /\ (o \o u \o n)[Len(o) + 1] = u[1]
      /\ \A k \in 1..Len(n) : (o \o u \o n)[Len(o) + 1 + k] = n[k]
<1> TAKE o, u, n \in Text
<1> HAVE Len(u) = 1
<1> DEFINE h == o \o u
<1>1. /\ h \in Text /\ Len(h) = Len(o) + Len(u) /\ Len(o) \in Nat /\ Len(u) \in Nat
      /\ \A k \in 1..Len(o) : h[k] = o[k]
      /\ \A k \in 1..Len(u) : h[Len(o) + k] = u[k]
  BY Both
<1> HIDE DEF h
<1>2. Len(h) = Len(o) + 1 /\ 1 \in 1..Len(u)
  BY <1>1
<1>3. /\ h \o n \in Text /\ Len(h \o n) = Len(h) + Len(n) /\ Len(n) \in Nat
      /\ \A k \in 1..Len(h) : (h \o n)[k] = h[k]
      /\ \A k \in 1..Len(n) : (h \o n)[Len(h) + k] = n[k]
  BY <1>1, Both
<1> DEFINE j == h \o n
<1> HIDE DEF j
<1>4. /\ j \in Text /\ Len(j) = Len(h) + Len(n)
      /\ \A k \in 1..Len(h) : j[k] = h[k]
      /\ \A k \in 1..Len(n) : j[Len(h) + k] = n[k]
  BY <1>3 DEF j
<1>5. \A k \in 1..Len(o) : k \in 1..Len(h)
  BY <1>1, <1>2
<1>6. \A k \in 1..Len(o) : j[k] = o[k]
  BY <1>1, <1>4, <1>5
<1>7. j[Len(o) + 1] = u[1]
  <2>1. Len(o) + 1 \in 1..Len(h)
    BY <1>1, <1>2
  <2>2. h[Len(o) + 1] = u[1]
    BY <1>1, <1>2
  <2> QED BY <1>4, <2>1, <2>2
<1>8. /\ j \in Text /\ Len(j) = Len(o) + 1 + Len(n)
      /\ \A k \in 1..Len(n) : j[Len(o) + 1 + k] = n[k]
  BY <1>2, <1>4
<1> QED BY <1>6, <1>7, <1>8 DEF j, h

\* "[[TYPE_" and digits.
Numbered(t, n) == Opening(t) \o <<"_">> \o n

LEMMA NumberedShape ==
  ASSUME NEW t \in TypeName, NEW n \in Digits
  PROVE  /\ Numbered(t, n) \in Text /\ Len(Numbered(t, n)) = Len(t) + 3 + Len(n)
         /\ Len(n) \in Nat
         /\ \A k \in 1..Len(t) + 2 : Numbered(t, n)[k] = Opening(t)[k]
         /\ Numbered(t, n)[Len(t) + 3] = "_"
         /\ \A k \in 1..Len(n) : Numbered(t, n)[Len(t) + 3 + k] = n[k]
<1> DEFINE u == <<"_">>
<1>1. u \in Text /\ Len(u) = 1 /\ u[1] = "_"
  BY Signs, One, Zenon DEF Text
<1>2. /\ Len(t) \in Nat /\ Opening(t) \in Text /\ Len(Opening(t)) = Len(t) + 2
      /\ n \in Text /\ Len(n) \in Nat
  BY OpeningShape, Digitals DEF Text
<1>3. Numbered(t, n) = Opening(t) \o u \o n
  BY DEF Numbered
<1> HIDE DEF u
<1>4. /\ Opening(t) \o u \o n \in Text /\ Len(Opening(t) \o u \o n) = Len(Opening(t)) + 1 + Len(n)
      /\ \A k \in 1..Len(Opening(t)) : (Opening(t) \o u \o n)[k] = Opening(t)[k]
      /\ (Opening(t) \o u \o n)[Len(Opening(t)) + 1] = u[1]
      /\ \A k \in 1..Len(n) : (Opening(t) \o u \o n)[Len(Opening(t)) + 1 + k] = n[k]
  <2>1. Opening(t) \in Text
    BY <1>2
  <2>2. n \in Text
    BY <1>2
  <2>3. u \in Text
    BY <1>1
  <2>4. Len(u) = 1
    BY <1>1
  <2> DEFINE a == Opening(t)
  <2> HIDE DEF a
  <2>5. /\ a \o u \o n \in Text /\ Len(a \o u \o n) = Len(a) + 1 + Len(n)
        /\ \A k \in 1..Len(a) : (a \o u \o n)[k] = a[k]
        /\ (a \o u \o n)[Len(a) + 1] = u[1]
        /\ \A k \in 1..Len(n) : (a \o u \o n)[Len(a) + 1 + k] = n[k]
    <3>1. a \in Text
      BY <2>1 DEF a
    <3> QED BY <2>2, <2>3, <2>4, <3>1, Joined, ZenonT(30)
  <2> QED BY <2>5 DEF a
<1> DEFINE o == Opening(t)
           j == o \o u \o n
<1>5. Numbered(t, n) = j /\ Opening(t) = o /\ Len(o) = Len(t) + 2
  BY <1>2, <1>3
<1>6. /\ j \in Text /\ Len(j) = Len(o) + 1 + Len(n)
      /\ \A k \in 1..Len(o) : j[k] = o[k]
      /\ j[Len(o) + 1] = u[1]
      /\ \A k \in 1..Len(n) : j[Len(o) + 1 + k] = n[k]
  BY <1>4, Zenon
<1> HIDE DEF o, j
<1>7. Len(o) + 1 = Len(t) + 3
  BY <1>2, <1>5
<1> QED BY <1>1, <1>2, <1>5, <1>6, <1>7

\* ... and two closing brackets.
Written(t, n) == Numbered(t, n) \o <<"]", "]">>

LEMMA CompleteIs == Complete = {Written(t, n) : t \in TypeName, n \in Digits \ {<< >>}}
  BY DEF Complete, Written, Numbered

\* Every complete placeholder: two opening brackets, two closing ones, and no
\* opening bracket but the first two.
CompleteOf(p, t, n) ==
  /\ t \in TypeName /\ n \in Digits \ {<< >>}
  /\ p \in Text /\ Len(p) = Len(t) + Len(n) + 5
  /\ Len(t) \in Nat \ {0} /\ Len(n) \in Nat \ {0}
  /\ \A k \in 1..Len(t) + Len(n) + 3 : p[k] = Numbered(t, n)[k]
  /\ p[Len(t) + Len(n) + 4] = "]" /\ p[Len(t) + Len(n) + 5] = "]"

LEMMA CompleteShape ==
  ASSUME NEW p \in Complete
  PROVE  \E t \in TypeName, n \in Digits : CompleteOf(p, t, n)
<1> DEFINE v == <<"]", "]">>
<1>0. \A q \in {Written(t, n) : t \in TypeName, n \in Digits \ {<< >>}} :
        \E t \in TypeName, n \in Digits \ {<< >>} : q = Written(t, n)
  OBVIOUS
<1>1. PICK t \in TypeName, n \in Digits \ {<< >>} : p = Written(t, n)
  BY <1>0, CompleteIs
<1>2. v \in Text /\ Len(v) = 2 /\ v[1] = "]" /\ v[2] = "]"
  BY Signs, Two, Zenon DEF Text
<1> HIDE DEF v
<1>3. Len(t) \in Nat \ {0} /\ Len(n) \in Nat \ {0}
  BY OpeningShape, Digitals, EmptySeq
<1>4. Numbered(t, n) \in Text /\ Len(Numbered(t, n)) = Len(t) + 3 + Len(n)
  BY NumberedShape
<1> DEFINE h == Numbered(t, n)
<1> HIDE DEF h
<1>5. h \in Seq(Char) /\ v \in Seq(Char)
  BY <1>2, <1>4 DEF Text, h
<1>6. Len(h) = Len(t) + 3 + Len(n)
  BY <1>4 DEF h
<1> DEFINE q == h \o v
<1>9. /\ q \in Text /\ Len(q) = Len(h) + Len(v)
      /\ \A k \in 1..Len(h) + Len(v) : q[k] = IF k <= Len(h) THEN h[k] ELSE v[k - Len(h)]
  BY <1>5, ConcatProperties DEF Text
<1> HIDE DEF q
<1>7. /\ q \in Text /\ Len(q) = Len(h) + 2
      /\ q[Len(h) + 1] = v[1] /\ q[Len(h) + 2] = v[2]
      /\ \A k \in 1..Len(h) : q[k] = h[k]
  BY <1>2, <1>3, <1>6, <1>9
<1>10. p = q
  BY <1>1 DEF Written, q, h, v
<1>8. /\ Len(t) + Len(n) + 3 = Len(h) /\ Len(t) + Len(n) + 4 = Len(h) + 1
      /\ Len(t) + Len(n) + 5 = Len(h) + 2
  BY <1>3, <1>6
<1>11. /\ p \in Text /\ Len(p) = Len(t) + Len(n) + 5
       /\ p[Len(t) + Len(n) + 4] = "]" /\ p[Len(t) + Len(n) + 5] = "]"
       /\ \A k \in 1..Len(t) + Len(n) + 3 : p[k] = h[k]
  BY <1>2, <1>7, <1>8, <1>10
<1>12. CompleteOf(p, t, n)
  BY <1>1, <1>3, <1>11 DEF CompleteOf, h
<1> QED BY <1>1, <1>12

\* The start of a text.
LEMMA Start ==
  ASSUME NEW s \in Text, NEW l \in Nat, l <= Len(s)
  PROVE  /\ SubSeq(s, 1, l) \in Text /\ Len(SubSeq(s, 1, l)) = l
         /\ \A k \in 1..l : SubSeq(s, 1, l)[k] = s[k]
<1>1. Len(s) \in Nat /\ \A k \in 1..l : s[k] \in Char
  BY LenProperties, ElementOfSeq DEF Text
<1>2. /\ SubSeq(s, 1, l) \in Seq(Char)
      /\ Len(SubSeq(s, 1, l)) = IF 1 <= l THEN l - 1 + 1 ELSE 0
      /\ \A i \in 1..l - 1 + 1 : SubSeq(s, 1, l)[i] = s[1 + i - 1]
  BY <1>1, SubSeqProperties
<1>3. l - 1 + 1 = l /\ \A i \in 1..l : 1 + i - 1 = i
  OBVIOUS
<1> QED BY <1>2, <1>3 DEF Text

LEMMA InPartial ==
  /\ \A t \in TypeName, n \in Digits, close \in {<< >>, <<"]">>} :
       Numbered(t, n) \o close \in Partial
  /\ \A t \in TypeName : \A l \in 1..Len(Opening(t)) : SubSeq(Opening(t), 1, l) \in Partial
  /\ \A s \in Partial :
       \/ \E t \in TypeName, n \in Digits, close \in {<< >>, <<"]">>} : s = Numbered(t, n) \o close
       \/ \E t \in TypeName : \E l \in 1..Len(Opening(t)) : s = SubSeq(Opening(t), 1, l)
<1> DEFINE C == {<< >>, <<"]">>}
<1>1. Partial = Openings \cup {Numbered(t, n) \o close :
                   t \in TypeName, n \in Digits, close \in C}
  BY DEF Partial, Numbered
<1> HIDE DEF C
<1>2. ASSUME NEW t \in TypeName, NEW l \in 1..Len(Opening(t))
      PROVE  SubSeq(Opening(t), 1, l) \in Openings
  <2>1. Opening(t) \in Text /\ Len(Opening(t)) \in Nat
    BY OpeningShape
  <2>2. l \in Nat /\ l # 0 /\ l <= Len(Opening(t)) /\ l \in 0..Len(Opening(t))
    BY <2>1
  <2>3. Len(SubSeq(Opening(t), 1, l)) = l
    BY <2>1, <2>2, Start
  <2>4. SubSeq(Opening(t), 1, l) # << >>
    BY <2>2, <2>3, EmptySeq
  <2>5. SubSeq(Opening(t), 1, l) \in Prefixes(Opening(t))
    BY <2>2 DEF Prefixes
  <2>6. Prefixes(Opening(t)) \in {Prefixes(Opening(u)) : u \in TypeName}
    OBVIOUS
  <2> HIDE DEF Prefixes
  <2>7. SubSeq(Opening(t), 1, l) \in UNION {Prefixes(Opening(u)) : u \in TypeName}
    BY <2>5, <2>6
  <2> QED BY <2>4, <2>7 DEF Openings
<1>3. ASSUME NEW s \in Openings
      PROVE  \E t \in TypeName : \E l \in 1..Len(Opening(t)) : s = SubSeq(Opening(t), 1, l)
  <2>0. s \in UNION {Prefixes(Opening(u)) : u \in TypeName} /\ s # << >>
    BY DEF Openings
  <2>1. PICK t \in TypeName : s \in Prefixes(Opening(t))
    BY <2>0
  <2>2. PICK l \in 0..Len(Opening(t)) : s = SubSeq(Opening(t), 1, l)
    BY <2>1 DEF Prefixes
  <2>3. Len(Opening(t)) \in Nat
    BY OpeningShape
  <2>4. CASE l = 0
    BY <2>0, <2>2, <2>4, SubSeqEmpty
  <2>5. CASE l # 0
    <3>1. l \in 1..Len(Opening(t))
      BY <2>3, <2>5
    <3> QED BY <2>2, <3>1
  <2> QED BY <2>4, <2>5
<1>4. \A s \in {Numbered(t, n) \o close :
               t \in TypeName, n \in Digits, close \in C} :
        \E t \in TypeName, n \in Digits, close \in C : s = Numbered(t, n) \o close
  OBVIOUS
<1> DEFINE N == {Numbered(x, y) \o z : x \in TypeName, y \in Digits, z \in C}
<1>6. Partial = Openings \cup N
  BY <1>1
<1>7. \A s \in N :
        \E t \in TypeName, n \in Digits, close \in C : s = Numbered(t, n) \o close
  BY <1>4
<1>8. \A t \in TypeName, n \in Digits, close \in C : Numbered(t, n) \o close \in N
  OBVIOUS
<1> HIDE DEF N
<1>9. \A t \in TypeName, n \in Digits, close \in C :
        Numbered(t, n) \o close \in Partial
  BY <1>6, <1>8
<1>10. \A t \in TypeName : \A l \in 1..Len(Opening(t)) : SubSeq(Opening(t), 1, l) \in Partial
  BY <1>2, <1>6
<1>11. ASSUME NEW s \in Partial
       PROVE  \/ \E t \in TypeName, n \in Digits, close \in C : s = Numbered(t, n) \o close
              \/ \E t \in TypeName : \E l \in 1..Len(Opening(t)) : s = SubSeq(Opening(t), 1, l)
  BY <1>3, <1>6, <1>7, Zenon
<1> QED BY <1>9, <1>10, <1>11, Zenon DEF C

\* "[[TYPE_", digits and at most one closing bracket.
LEMMA ClosedShape ==
  ASSUME NEW t \in TypeName, NEW n \in Digits, NEW close \in Text
  PROVE  /\ Numbered(t, n) \o close \in Text
         /\ Len(Numbered(t, n) \o close) = Len(t) + 3 + Len(n) + Len(close)
         /\ \A k \in 1..Len(t) + 3 + Len(n) : (Numbered(t, n) \o close)[k] = Numbered(t, n)[k]
         /\ \A k \in 1..Len(close) : (Numbered(t, n) \o close)[Len(t) + 3 + Len(n) + k] = close[k]
<1> DEFINE h == Numbered(t, n)
           m == Len(t) + 3 + Len(n)
<1>1. h \in Text /\ Len(h) = m /\ m \in Nat /\ Len(close) \in Nat
  <2>1. h \in Text /\ Len(h) = m /\ Len(n) \in Nat
    BY NumberedShape
  <2>2. Len(t) \in Nat /\ Len(close) \in Nat
    BY OpeningShape, LenProperties DEF Text
  <2> QED BY <2>1, <2>2
<1> HIDE DEF h, m
<1>2. h \in Seq(Char) /\ close \in Seq(Char)
  BY <1>1 DEF Text
<1>3. /\ h \o close \in Seq(Char) /\ Len(h \o close) = Len(h) + Len(close)
      /\ \A k \in 1..Len(h) + Len(close) : (h \o close)[k] = IF k <= Len(h) THEN h[k] ELSE close[k - Len(h)]
  BY <1>2, ConcatProperties
<1>4. /\ h \o close \in Text /\ Len(h \o close) = m + Len(close)
      /\ \A k \in 1..m : (h \o close)[k] = h[k]
      /\ \A k \in 1..Len(close) : (h \o close)[m + k] = close[k]
  BY <1>1, <1>3 DEF Text
<1> QED BY <1>4 DEF h, m

\* A placeholder arrives through texts that are held back: each of its proper
\* starts is a prefix that couldBePlaceholderPrefix accepts.
LEMMA CompletePrefix ==
  ASSUME NEW p \in Complete, NEW l \in 1..Len(p) - 1
  PROVE  SubSeq(p, 1, l) \in Partial
<1>1. PICK t \in TypeName, n \in Digits : CompleteOf(p, t, n)
  BY CompleteShape
<1>2. /\ p \in Text /\ Len(t) \in Nat /\ Len(n) \in Nat /\ Len(p) = Len(t) + Len(n) + 5
      /\ l \in Nat /\ l >= 1 /\ l <= Len(t) + Len(n) + 4
  BY <1>1 DEF CompleteOf
<1> DEFINE s == SubSeq(p, 1, l)
<1>3. s \in Text /\ Len(s) = l /\ \A k \in 1..l : s[k] = p[k]
  BY <1>2, Start
<1> HIDE DEF s
<1>4. CASE l <= Len(t) + 2
  <2> DEFINE o == SubSeq(Opening(t), 1, l)
  <2>1. Opening(t) \in Text /\ Len(Opening(t)) = Len(t) + 2
    BY OpeningShape
  <2>2. o \in Text /\ Len(o) = l /\ \A k \in 1..l : o[k] = Opening(t)[k]
    BY <1>2, <1>4, <2>1, Start
  <2> HIDE DEF o
  <2>3. \A k \in 1..l : Numbered(t, n)[k] = Opening(t)[k] /\ p[k] = Numbered(t, n)[k]
    <3>1. \A k \in 1..l : k \in 1..Len(t) + 2 /\ k \in 1..Len(t) + Len(n) + 3
      BY <1>2, <1>4
    <3>2. \A k \in 1..Len(t) + 2 : Numbered(t, n)[k] = Opening(t)[k]
      BY NumberedShape
    <3> QED BY <1>1, <3>1, <3>2 DEF CompleteOf
  <2>4. s \in Seq(Char) /\ o \in Seq(Char) /\ Len(s) = Len(o) /\ \A k \in 1..Len(s) : s[k] = o[k]
    BY <1>3, <2>2, <2>3 DEF Text
  <2>5. s = o
    BY <2>4, SeqEqual
  <2>6. l \in 1..Len(Opening(t))
    BY <1>2, <1>4, <2>1
  <2> QED BY <2>5, <2>6, InPartial DEF s, o
<1>5. CASE l > Len(t) + 2 /\ l <= Len(t) + Len(n) + 3
  <2> DEFINE m == l - (Len(t) + 3)
             d == SubSeq(n, 1, m)
  <2>1. m \in Nat /\ m <= Len(n) /\ l = Len(t) + 3 + m /\ n \in Text /\ n \in Seq(Digit) /\ Len(n) <= MaxDigits
    BY <1>2, <1>5, Digitals
  <2> HIDE DEF m
  <2>2. d \in Text /\ Len(d) = m /\ \A k \in 1..m : d[k] = n[k]
    BY <2>1, Start
  <2> HIDE DEF d
  <2>3. d \in Seq(Digit)
    <3>1. \A k \in 1..m : n[k] \in Digit
      BY <1>2, <2>1, ElementOfSeq
    <3> QED BY <2>1, <3>1, SubSeqProperties DEF d
  <2>4. d \in Digits
    BY <1>2, <2>1, <2>2, <2>3, Digitals, MaxDigitsPositive
  <2> DEFINE q == Numbered(t, d)
  <2>5. /\ q \in Text /\ Len(q) = Len(t) + 3 + m
        /\ \A k \in 1..Len(t) + 2 : q[k] = Opening(t)[k]
        /\ q[Len(t) + 3] = "_"
        /\ \A k \in 1..m : q[Len(t) + 3 + k] = d[k]
    BY <2>2, <2>4, NumberedShape
  <2> HIDE DEF q
  <2>6. /\ \A k \in 1..Len(t) + 2 : Numbered(t, n)[k] = Opening(t)[k]
        /\ Numbered(t, n)[Len(t) + 3] = "_"
        /\ \A k \in 1..Len(n) : Numbered(t, n)[Len(t) + 3 + k] = n[k]
    BY NumberedShape
  <2>7. ASSUME NEW k \in 1..l PROVE s[k] = q[k]
    <3>1. s[k] = Numbered(t, n)[k]
      <4>1. k \in 1..Len(t) + Len(n) + 3
        BY <1>2, <1>5
      <4> QED BY <1>1, <1>3, <4>1 DEF CompleteOf
    <3>2. CASE k <= Len(t) + 2
      <4>1. k \in 1..Len(t) + 2
        BY <1>2, <3>2
      <4> QED BY <2>5, <2>6, <3>1, <4>1
    <3>3. CASE k = Len(t) + 3
      BY <2>5, <2>6, <3>1, <3>3
    <3>4. CASE k > Len(t) + 3
      <4>1. k - (Len(t) + 3) \in 1..m /\ k = Len(t) + 3 + (k - (Len(t) + 3))
        BY <1>2, <2>1, <3>4
      <4>2. k - (Len(t) + 3) \in 1..Len(n)
        BY <1>2, <2>1, <4>1
      <4> DEFINE i == k - (Len(t) + 3)
      <4>3. i \in 1..m /\ i \in 1..Len(n) /\ k = Len(t) + 3 + i
        BY <4>1, <4>2
      <4> HIDE DEF i
      <4>4. q[Len(t) + 3 + i] = n[i] /\ Numbered(t, n)[Len(t) + 3 + i] = n[i]
        BY <2>2, <2>5, <2>6, <4>3
      <4> QED BY <3>1, <4>3, <4>4
    <3> QED BY <1>2, <3>2, <3>3, <3>4
  <2>8. s \in Seq(Char) /\ q \in Seq(Char) /\ Len(s) = Len(q) /\ \A k \in 1..Len(s) : s[k] = q[k]
    BY <1>3, <2>1, <2>5, <2>7 DEF Text
  <2>9. s = q
    BY <2>8, SeqEqual
  <2>10. q \o << >> \in Partial
    BY <2>4, InPartial DEF q
  <2>11. q \o << >> = q
    BY <2>8, ConcatEmptySeq
  <2> QED BY <2>9, <2>10, <2>11 DEF s
<1>6. CASE l = Len(t) + Len(n) + 4
  <2> DEFINE c == <<"]">>
  <2>1. c \in Text /\ Len(c) = 1 /\ c[1] = "]"
    BY Signs, One, Zenon DEF Text
  <2>2. Numbered(t, n) \o c \in Partial
    BY InPartial
  <2> HIDE DEF c
  <2> DEFINE q == Numbered(t, n) \o c
  <2>3. /\ q \in Text /\ Len(q) = Len(t) + 3 + Len(n) + Len(c)
        /\ \A k \in 1..Len(t) + 3 + Len(n) : q[k] = Numbered(t, n)[k]
        /\ \A k \in 1..Len(c) : q[Len(t) + 3 + Len(n) + k] = c[k]
    BY <2>1, ClosedShape
  <2> HIDE DEF q
  <2>4. ASSUME NEW k \in 1..l PROVE s[k] = q[k]
    <3>1. CASE k <= Len(t) + Len(n) + 3
      <4>1. k \in 1..Len(t) + Len(n) + 3 /\ Len(t) + 3 + Len(n) = Len(t) + Len(n) + 3
        BY <1>2, <3>1
      <4>2. p[k] = Numbered(t, n)[k]
        BY <1>1, <4>1 DEF CompleteOf
      <4> QED BY <1>3, <2>3, <4>1, <4>2
    <3>2. CASE k = Len(t) + Len(n) + 4
      <4>1. 1 \in 1..Len(c) /\ Len(t) + 3 + Len(n) + 1 = k
        BY <1>2, <2>1, <3>2
      <4>2. q[k] = "]"
        BY <2>1, <2>3, <4>1
      <4>3. s[k] = "]"
        BY <1>1, <1>3, <3>2 DEF CompleteOf
      <4> QED BY <4>2, <4>3
    <3> QED BY <1>2, <1>6, <3>1, <3>2
  <2>5. Len(q) = l
    BY <1>2, <1>6, <2>1, <2>3
  <2>6. s \in Seq(Char) /\ q \in Seq(Char) /\ Len(s) = Len(q) /\ \A k \in 1..Len(s) : s[k] = q[k]
    BY <1>3, <2>3, <2>4, <2>5 DEF Text
  <2>7. s = q
    BY <2>6, SeqEqual
  <2> QED BY <2>2, <2>7 DEF s, q
<1> QED BY <1>2, <1>4, <1>5, <1>6

\* What is held back begins with the brackets of a placeholder.
LEMMA PartialStart ==
  ASSUME NEW s \in Partial
  PROVE  s \in Text /\ Len(s) >= 1 /\ s[1] = "[" /\ (Len(s) >= 2 => s[2] = "[")
<1>1. CASE \E t \in TypeName : \E l \in 1..Len(Opening(t)) : s = SubSeq(Opening(t), 1, l)
  <2>1. PICK t \in TypeName : \E l \in 1..Len(Opening(t)) : s = SubSeq(Opening(t), 1, l)
    BY <1>1
  <2>2. PICK l \in 1..Len(Opening(t)) : s = SubSeq(Opening(t), 1, l)
    BY <2>1
  <2>3. Opening(t) \in Text /\ Len(Opening(t)) \in Nat /\ Opening(t)[1] = "[" /\ Opening(t)[2] = "["
    BY OpeningShape
  <2>4. l \in Nat /\ l >= 1 /\ l <= Len(Opening(t))
    BY <2>3
  <2>5. s \in Text /\ Len(s) = l /\ \A k \in 1..l : s[k] = Opening(t)[k]
    BY <2>2, <2>3, <2>4, Start
  <2> QED BY <2>3, <2>4, <2>5
<1>2. CASE \E t \in TypeName, n \in Digits, close \in {<< >>, <<"]">>} : s = Numbered(t, n) \o close
  <2> DEFINE c == <<"]">>
  <2>1. PICK t \in TypeName, n \in Digits, close \in {<< >>, c} : s = Numbered(t, n) \o close
    BY <1>2
  <2>2. c \in Text
    BY Signs, One, Zenon DEF Text
  <2> HIDE DEF c
  <2>3. close \in Text
    BY <2>2, EmptySeq DEF Text
  <2>4. /\ s \in Text /\ Len(s) = Len(t) + 3 + Len(n) + Len(close)
        /\ \A k \in 1..Len(t) + 3 + Len(n) : s[k] = Numbered(t, n)[k]
    BY <2>1, <2>3, ClosedShape
  <2>5. Len(t) \in Nat /\ Len(n) \in Nat /\ Len(close) \in Nat
    BY <2>3, OpeningShape, NumberedShape, LenProperties DEF Text
  <2>6. /\ \A k \in 1..Len(t) + 2 : Numbered(t, n)[k] = Opening(t)[k]
        /\ Opening(t)[1] = "[" /\ Opening(t)[2] = "["
    BY OpeningShape, NumberedShape
  <2>7. Numbered(t, n)[1] = "[" /\ Numbered(t, n)[2] = "["
    BY <2>5, <2>6
  <2>8. s[1] = "[" /\ s[2] = "[" /\ Len(s) >= 1
    BY <2>4, <2>5, <2>7
  <2> QED BY <2>4, <2>8
<1> QED BY <1>1, <1>2, InPartial

\* In a placeholder no opening bracket but the first is followed by another,
\* and it is longer than two characters.
LEMMA CompleteBrackets ==
  ASSUME NEW p \in Complete
  PROVE  /\ p \in Text /\ Len(p) >= 7
         /\ \A k \in 3..Len(p) : p[k] # "["
<1>1. PICK t \in TypeName, n \in Digits : CompleteOf(p, t, n)
  BY CompleteShape
<1>2. /\ p \in Text /\ Len(t) \in Nat \ {0} /\ Len(n) \in Nat \ {0} /\ Len(p) = Len(t) + Len(n) + 5
  BY <1>1 DEF CompleteOf
<1>3. ASSUME NEW k \in 3..Len(p) PROVE p[k] # "["
  <2>1. CASE k <= Len(t) + 2
    <3>0. k \in 1..Len(t) + 2 /\ k \in 1..Len(t) + Len(n) + 3
      BY <1>2, <2>1
    <3>1. p[k] = Numbered(t, n)[k] /\ Numbered(t, n)[k] = Opening(t)[k]
      <4>1. p[k] = Numbered(t, n)[k]
        BY <1>1, <3>0 DEF CompleteOf
      <4>2. Numbered(t, n)[k] = Opening(t)[k]
        BY <3>0, NumberedShape
      <4> QED BY <4>1, <4>2
    <3>2. Opening(t)[k] = t[k - 2] /\ k - 2 \in DOMAIN t
      BY <1>2, <2>1, OpeningShape, LenProperties DEF Text
    <3> QED BY <3>1, <3>2, TypeNamesPlain
  <2>2. CASE k = Len(t) + 3
    <3>1. k \in 1..Len(t) + Len(n) + 3
      BY <1>2, <2>2
    <3>2. p[k] = Numbered(t, n)[k]
      BY <1>1, <3>1 DEF CompleteOf
    <3>3. Numbered(t, n)[k] = "_"
      BY <2>2, NumberedShape
    <3> QED BY <3>2, <3>3
  <2>3. CASE k > Len(t) + 3 /\ k <= Len(t) + Len(n) + 3
    <3> DEFINE m == k - (Len(t) + 3)
    <3>1. m \in 1..Len(n) /\ k = Len(t) + 3 + m
      BY <1>2, <2>3
    <3> HIDE DEF m
    <3>2. p[k] = Numbered(t, n)[k]
      BY <1>1, <1>2, <2>3 DEF CompleteOf
    <3>3. Numbered(t, n)[k] = n[m] /\ n \in Seq(Digit)
      BY <3>1, NumberedShape, Digitals
    <3>4. n[m] \in Digit
      BY <1>2, <3>1, <3>3, ElementOfSeq
    <3> QED BY <3>2, <3>3, <3>4, DigitsPlain
  <2>4. CASE k > Len(t) + Len(n) + 3
    <3>1. k = Len(t) + Len(n) + 4 \/ k = Len(t) + Len(n) + 5
      BY <1>2, <2>4
    <3>2. p[k] = "]"
      BY <1>1, <3>1 DEF CompleteOf
    <3> QED BY <3>2
  <2> QED BY <1>2, <2>1, <2>2, <2>3, <2>4
<1> QED BY <1>2, <1>3
--------------------------------------------------------------------------------
(* The text that lines carry. *)

LEMMA FlattenAppend ==
  ASSUME NEW ss \in Seq(Text), NEW s \in Text
  PROVE  /\ FlattenSeq(ss) \in Text
         /\ FlattenSeq(Append(ss, s)) = FlattenSeq(ss) \o s
<1>1. Strings(Char) = Text
  BY DEF Strings, Text
<1> QED BY <1>1, FlattenOneMore

\* The lines that the transform reads and sends.
Kind == {"delta", "other", "done", "piece", "flush"}
Wire == [kind : Kind, text : Text]

LEMMA TextOfAppend ==
  ASSUME NEW lines \in Seq(Wire), NEW line \in Wire
  PROVE  /\ TextOf(lines) \in Text
         /\ TextOf(Append(lines, line)) = TextOf(lines) \o line.text
<1> DEFINE texts == [i \in DOMAIN lines |-> lines[i].text]
           more == [i \in DOMAIN Append(lines, line) |-> Append(lines, line)[i].text]
<1>1. /\ Append(lines, line) \in Seq(Wire) /\ Len(Append(lines, line)) = Len(lines) + 1
      /\ \A i \in 1..Len(lines) : Append(lines, line)[i] = lines[i]
      /\ Append(lines, line)[Len(lines) + 1] = line
      /\ Len(lines) \in Nat /\ DOMAIN lines = 1..Len(lines)
      /\ DOMAIN Append(lines, line) = 1..Len(lines) + 1
  <2>1. /\ Append(lines, line) \in Seq(Wire) /\ Len(Append(lines, line)) = Len(lines) + 1
        /\ \A i \in 1..Len(lines) : Append(lines, line)[i] = lines[i]
        /\ Append(lines, line)[Len(lines) + 1] = line
    BY AppendProperties
  <2> QED BY <2>1, LenProperties
<1>2. line.text \in Text /\ \A i \in 1..Len(lines) : lines[i].text \in Text
  <2>1. \A i \in 1..Len(lines) : lines[i] \in Wire
    BY ElementOfSeq
  <2> QED BY <2>1 DEF Wire
<1>3. texts \in Seq(Text) /\ Len(texts) = Len(lines)
  BY <1>1, <1>2
<1>4. more \in Seq(Text) /\ Len(more) = Len(lines) + 1
  <2>1. \A i \in 1..Len(lines) + 1 : Append(lines, line)[i].text \in Text
    BY <1>1, <1>2
  <2> QED BY <1>1, <2>1
<1>5. /\ \A i \in 1..Len(lines) : more[i] = texts[i]
      /\ more[Len(lines) + 1] = line.text
  BY <1>1
<1>6. TextOf(lines) = FlattenSeq(texts) /\ TextOf(Append(lines, line)) = FlattenSeq(more)
  BY DEF TextOf
<1> HIDE DEF texts, more
<1>7. /\ Append(texts, line.text) \in Seq(Text) /\ Len(Append(texts, line.text)) = Len(texts) + 1
      /\ \A i \in 1..Len(texts) : Append(texts, line.text)[i] = texts[i]
      /\ Append(texts, line.text)[Len(texts) + 1] = line.text
  BY <1>2, <1>3, AppendProperties
<1>8. \A i \in 1..Len(more) : more[i] = Append(texts, line.text)[i]
  BY <1>1, <1>3, <1>4, <1>5, <1>7
<1>9. more = Append(texts, line.text)
  BY <1>3, <1>4, <1>7, <1>8, SeqEqual
<1> QED BY <1>2, <1>3, <1>6, <1>9, FlattenAppend

LEMMA TextOfNone == TextOf(<< >>) = << >>
<1> DEFINE none == [i \in DOMAIN << >> |-> << >>[i].text]
<1>1. none \in Seq(Text) /\ Len(none) = 0
  OBVIOUS
<1>2. none = << >>
  BY <1>1, EmptySeq
<1>3. TextOf(<< >>) = FlattenSeq(none)
  BY DEF TextOf
<1> QED BY <1>1, <1>2, <1>3 DEF FlattenSeq
--------------------------------------------------------------------------------
(* Replacing the placeholders of a text. *)

\* Induction from the end of a text to its start.
LEMMA DownInduction ==
  ASSUME NEW L \in Nat, NEW Q \in SUBSET (1..L + 1),
         \A i \in 1..L + 1 : (\A j \in i + 1..L + 1 : j \in Q) => i \in Q
  PROVE  Q = 1..L + 1
<1> DEFINE P == {n \in Nat : \A i \in 1..L + 1 : L + 1 - i <= n => i \in Q}
<1>1. 0 \in P
  <2>1. SUFFICES ASSUME NEW i \in 1..L + 1, L + 1 - i <= 0 PROVE i \in Q
    OBVIOUS
  <2>2. i + 1..L + 1 = {}
    BY <2>1
  <2> QED BY <2>2
<1>2. ASSUME NEW n \in P PROVE n + 1 \in P
  <2>1. SUFFICES ASSUME NEW i \in 1..L + 1, L + 1 - i <= n + 1 PROVE i \in Q
    OBVIOUS
  <2>2. ASSUME NEW j \in i + 1..L + 1 PROVE j \in Q
    <3>1. j \in 1..L + 1 /\ L + 1 - j <= n
      BY <2>1
    <3> QED BY <3>1
  <2> QED BY <2>2
<1>3. P = Nat
  <2> HIDE DEF P
  <2>1. P \in SUBSET Nat
    BY DEF P
  <2> QED BY <1>1, <1>2, <2>1, NatSetInduction
<1>4. ASSUME NEW i \in 1..L + 1 PROVE i \in Q
  <2>1. L + 1 - i \in P
    <3> HIDE DEF P
    <3> QED BY <1>3
  <2> QED BY <2>1
<1> QED BY <1>4

\* The placeholder found at i, what takes its place, and how far it reaches.
Found(text, i) == CHOOSE q \in At(text, i) : TRUE
Out(text, i) == IF At(text, i) = {} THEN <<text[i]>> ELSE Resolve(Found(text, i))
Step(text, i) == IF At(text, i) = {} THEN 1 ELSE Len(Found(text, i))

\* The function that Resolved computes, from the end of the text.
IsScan(text, f) ==
  f = [i \in 1..Len(text) + 1 |->
         IF i > Len(text) THEN << >> ELSE Out(text, i) \o f[i + Step(text, i)]]

LEMMA ScanAt ==
  ASSUME NEW text \in Text, NEW f, IsScan(text, f)
  PROVE  \A i \in 1..Len(text) + 1 :
           f[i] = IF i > Len(text) THEN << >> ELSE Out(text, i) \o f[i + Step(text, i)]
<1> DEFINE g == [i \in 1..Len(text) + 1 |->
                   IF i > Len(text) THEN << >> ELSE Out(text, i) \o f[i + Step(text, i)]]
<1>1. f = g
  BY DEF IsScan
<1>2. \A i \in 1..Len(text) + 1 :
        g[i] = IF i > Len(text) THEN << >> ELSE Out(text, i) \o f[i + Step(text, i)]
  OBVIOUS
<1> HIDE DEF g
<1> QED BY <1>1, <1>2

\* Where a placeholder is, character by character.
LEMMA AtIs ==
  ASSUME NEW s \in Text, NEW i \in 1..Len(s), NEW p \in Complete
  PROVE  p \in At(s, i) <=> Len(p) <= Len(s) - i + 1 /\ \A k \in 1..Len(p) : s[i + k - 1] = p[k]
<1>1. p \in Seq(Char) /\ Len(p) \in Nat /\ Len(p) >= 7 /\ Len(s) \in Nat
  BY CompleteBrackets, LenProperties DEF Text
<1>2. SUFFICES ASSUME Len(p) <= Len(s) - i + 1
      PROVE  SubSeq(s, i, i + Len(p) - 1) = p <=> \A k \in 1..Len(p) : s[i + k - 1] = p[k]
  BY <1>1 DEF At
<1> DEFINE m == i + Len(p) - 1
           c == SubSeq(s, i, m)
<1>3. m \in Int /\ m - i + 1 = Len(p) /\ i <= m /\ \A k \in i..m : s[k] \in Char
  <2>1. \A k \in i..m : k \in 1..Len(s)
    BY <1>1, <1>2
  <2> QED BY <1>1, <2>1, ElementOfSeq DEF Text
<1> HIDE DEF m
<1>4. /\ c \in Seq(Char) /\ Len(c) = IF i <= m THEN m - i + 1 ELSE 0
      /\ \A k \in 1..m - i + 1 : c[k] = s[i + k - 1]
  BY <1>3, SubSeqProperties
<1> HIDE DEF c
<1>5. Len(c) = Len(p) /\ \A k \in 1..Len(p) : c[k] = s[i + k - 1]
  BY <1>3, <1>4
<1>6. ASSUME \A k \in 1..Len(p) : s[i + k - 1] = p[k] PROVE c = p
  <2>1. \A k \in 1..Len(c) : c[k] = p[k]
    BY <1>5, <1>6
  <2> QED BY <1>1, <1>4, <1>5, <2>1, SeqEqual
<1>7. ASSUME c = p PROVE \A k \in 1..Len(p) : s[i + k - 1] = p[k]
  BY <1>5, <1>7
<1> QED BY <1>6, <1>7 DEF c, m

LEMMA StepTyped ==
  ASSUME NEW text \in Text, NEW i \in 1..Len(text)
  PROVE  /\ Out(text, i) \in Text
         /\ Step(text, i) \in Nat \ {0}
         /\ i + Step(text, i) \in i + 1..Len(text) + 1
<1>1. Len(text) \in Nat /\ text[i] \in Char
  BY LenProperties, ElementOfSeq DEF Text
<1>2. CASE At(text, i) = {}
  <2>1. <<text[i]>> \in Text
    BY <1>1, One DEF Text
  <2> QED BY <1>1, <1>2, <2>1 DEF Out, Step
<1>3. CASE At(text, i) # {}
  <2> DEFINE p == Found(text, i)
  <2>1. p \in At(text, i)
    BY <1>3 DEF Found
  <2> HIDE DEF p
  <2>2. p \in Complete /\ Len(p) <= Len(text) - i + 1
    BY <2>1 DEF At
  <2>3. p \in Text /\ Len(p) \in Nat /\ Len(p) >= 7
    BY <2>2, CompleteBrackets, LenProperties DEF Text
  <2>4. Resolve(p) \in Text
    BY <2>3, ResolverTyped DEF Resolve, Text
  <2>5. Out(text, i) = Resolve(p) /\ Step(text, i) = Len(p)
    BY <1>3 DEF Out, Step, p
  <2> QED BY <1>1, <2>2, <2>3, <2>4, <2>5
<1> QED BY <1>2, <1>3

LEMMA ScanTyped ==
  ASSUME NEW text \in Text, NEW f, IsScan(text, f)
  PROVE  \A i \in 1..Len(text) + 1 : f[i] \in Text
<1> DEFINE L == Len(text)
           Q == {i \in 1..L + 1 : f[i] \in Text}
<1>1. L \in Nat
  BY LenProperties DEF Text
<1>2. ASSUME NEW i \in 1..L + 1, \A j \in i + 1..L + 1 : j \in Q PROVE i \in Q
  <2>1. f[i] = IF i > Len(text) THEN << >> ELSE Out(text, i) \o f[i + Step(text, i)]
    BY ScanAt
  <2>2. CASE i > L
    BY <2>1, <2>2, EmptySeq DEF Text
  <2>3. CASE ~ (i > L)
    <3>1. i \in 1..Len(text)
      BY <1>1, <2>3
    <3>2. Out(text, i) \in Text /\ f[i + Step(text, i)] \in Text
      BY <1>2, <3>1, StepTyped
    <3>3. Out(text, i) \o f[i + Step(text, i)] \in Text
      BY <3>2, ConcatProperties DEF Text
    <3> QED BY <2>1, <2>3, <3>3
  <2> QED BY <2>2, <2>3
<1>3. Q = 1..L + 1
  <2> HIDE DEF Q
  <2>1. Q \in SUBSET (1..L + 1)
    BY DEF Q
  <2> HIDE DEF L
  <2> QED BY <1>1, <1>2, <2>1, DownInduction
<1> QED BY <1>3

LEMMA ScanExists ==
  ASSUME NEW text \in Text
  PROVE  \E f : IsScan(text, f)
<1> DEFINE L == Len(text)
           Good(i, f) == \A j \in i..L + 1 : f[j] = IF j > L THEN << >> ELSE Out(text, j) \o f[j + Step(text, j)]
           Q == {i \in 1..L + 1 : \E f : f = [j \in i..L + 1 |-> f[j]] /\ Good(i, f)}
<1>1. L \in Nat
  BY LenProperties DEF Text
<1>2. ASSUME NEW i \in 1..L + 1, \A j \in i + 1..L + 1 : j \in Q PROVE i \in Q
  <2>1. CASE i > L
    <3> DEFINE f == [j \in i..L + 1 |-> << >>]
    <3>1. f = [j \in i..L + 1 |-> f[j]] /\ \A j \in i..L + 1 : j > L /\ f[j] = << >>
      BY <1>1, <2>1
    <3>2. Good(i, f)
      BY <3>1
    <3> QED BY <3>1, <3>2
  <2>2. CASE ~ (i > L)
    <3>1. i + 1 \in i + 1..L + 1 /\ i \in 1..Len(text)
      BY <1>1, <2>2
    <3>2. PICK g : Good(i + 1, g)
      BY <1>2, <3>1
    <3> DEFINE x == Out(text, i) \o g[i + Step(text, i)]
               f == [j \in i..L + 1 |-> IF j = i THEN x ELSE g[j]]
    <3>3. f = [j \in i..L + 1 |-> f[j]]
      OBVIOUS
    <3>4. ASSUME NEW j \in i..L + 1
          PROVE  f[j] = IF j > L THEN << >> ELSE Out(text, j) \o f[j + Step(text, j)]
      <4>1. CASE j = i
        <5>1. i + Step(text, i) \in i + 1..L + 1
          BY <3>1, StepTyped
        <5>2. i + Step(text, i) \in i..L + 1 /\ i + Step(text, i) # i
          BY <1>1, <5>1
        <5>3. f[i + Step(text, i)] = g[i + Step(text, i)]
          BY <5>2
        <5>4. f[i] = x
          BY <4>1
        <5> QED BY <2>2, <4>1, <5>3, <5>4
      <4>2. CASE j # i
        <5>1. j \in i + 1..L + 1
          BY <1>1, <4>2
        <5>2. f[j] = g[j]
          BY <4>2
        <5>3. g[j] = IF j > L THEN << >> ELSE Out(text, j) \o g[j + Step(text, j)]
          BY <3>2, <5>1
        <5>4. CASE j > L
          BY <5>2, <5>3, <5>4
        <5>5. CASE ~ (j > L)
          <6>1. j \in 1..Len(text)
            BY <1>1, <5>5
          <6>2. j + Step(text, j) \in j + 1..L + 1
            BY <6>1, StepTyped
          <6>3. j + Step(text, j) \in i..L + 1 /\ j + Step(text, j) # i
            BY <1>1, <5>1, <6>2
          <6>4. f[j + Step(text, j)] = g[j + Step(text, j)]
            BY <6>3
          <6> QED BY <5>2, <5>3, <5>5, <6>4
        <5> QED BY <5>4, <5>5
      <4> QED BY <4>1, <4>2
    <3> HIDE DEF f
    <3>5. Good(i, f)
      BY <3>4
    <3> QED BY <3>3, <3>5
  <2> QED BY <2>1, <2>2
<1>3. Q = 1..L + 1
  <2> HIDE DEF Q
  <2>1. Q \in SUBSET (1..L + 1)
    BY DEF Q
  <2> HIDE DEF L
  <2> QED BY <1>1, <1>2, <2>1, DownInduction
<1>4. 1 \in Q
  <2> HIDE DEF Q, L
  <2> QED BY <1>1, <1>3
<1>5. PICK f : f = [j \in 1..L + 1 |-> f[j]] /\ Good(1, f)
  BY <1>4
<1>6. [j \in 1..L + 1 |-> f[j]] =
        [j \in 1..L + 1 |-> IF j > L THEN << >> ELSE Out(text, j) \o f[j + Step(text, j)]]
  BY <1>5
<1> QED BY <1>5, <1>6 DEF IsScan

LEMMA ResolvedIs ==
  ASSUME NEW text \in Text
  PROVE  \E f : IsScan(text, f) /\ Resolved(text) = f[1]
<1> DEFINE Scans(f) ==
      f = [i \in 1..Len(text) + 1 |->
             IF i > Len(text) THEN << >>
             ELSE IF At(text, i) = {} THEN <<text[i]>> \o f[i + 1]
             ELSE LET p == CHOOSE q \in At(text, i) : TRUE IN Resolve(p) \o f[i + Len(p)]]
<1>1. Resolved(text) = (CHOOSE f : Scans(f))[1]
  BY DEF Resolved
<1>2. ASSUME NEW f PROVE Scans(f) <=> IsScan(text, f)
  <2>1. ASSUME NEW i \in 1..Len(text) + 1
        PROVE  (IF At(text, i) = {} THEN <<text[i]>> \o f[i + 1]
                ELSE LET p == CHOOSE q \in At(text, i) : TRUE IN Resolve(p) \o f[i + Len(p)])
                 = Out(text, i) \o f[i + Step(text, i)]
    <3>1. CASE At(text, i) = {}
      BY <3>1 DEF Out, Step
    <3>2. CASE At(text, i) # {}
      <4>1. Out(text, i) = Resolve(Found(text, i)) /\ Step(text, i) = Len(Found(text, i))
        BY <3>2 DEF Out, Step
      <4> DEFINE p == CHOOSE q \in At(text, i) : TRUE
      <4>2. Out(text, i) = Resolve(p) /\ Step(text, i) = Len(p)
        BY <4>1, Zenon DEF Found
      <4> HIDE DEF p
      <4>3. Resolve(p) \o f[i + Len(p)] = Out(text, i) \o f[i + Step(text, i)]
        BY <4>2
      <4> QED BY <3>2, <4>3 DEF p
    <3> QED BY <3>1, <3>2
  <2> QED BY <2>1 DEF IsScan
<1>3. Scans(CHOOSE f : Scans(f))
  BY <1>2, ScanExists
<1> QED BY <1>1, <1>2, <1>3
\* No placeholder of the two texts joined lies across the joint.
Apart(a, b) == \A i \in 1..Len(a) : \A p \in At(a \o b, i) : i + Len(p) <= Len(a) + 1

LEMMA AtLeft ==
  ASSUME NEW a \in Text, NEW b \in Text, Apart(a, b), NEW i \in 1..Len(a)
  PROVE  At(a \o b, i) = At(a, i)
<1> DEFINE c == a \o b
<1>1. /\ c \in Text /\ Len(c) = Len(a) + Len(b) /\ Len(a) \in Nat /\ Len(b) \in Nat
      /\ \A k \in 1..Len(a) : c[k] = a[k]
      /\ i \in 1..Len(c)
  BY Both
<1>2. \A p \in At(c, i) : i + Len(p) <= Len(a) + 1
  BY DEF Apart
<1> HIDE DEF c
<1>3. ASSUME NEW p \in Complete PROVE p \in At(c, i) <=> p \in At(a, i)
  <2>1. Len(p) \in Nat
    BY CompleteBrackets, LenProperties DEF Text
  <2>2. ASSUME Len(p) <= Len(a) - i + 1, NEW k \in 1..Len(p) PROVE c[i + k - 1] = a[i + k - 1]
    <3>1. i + k - 1 \in 1..Len(a)
      BY <1>1, <2>1, <2>2
    <3> QED BY <1>1, <3>1
  <2>3. p \in At(c, i) <=> Len(p) <= Len(c) - i + 1 /\ \A k \in 1..Len(p) : c[i + k - 1] = p[k]
    BY <1>1, AtIs
  <2>4. p \in At(a, i) <=> Len(p) <= Len(a) - i + 1 /\ \A k \in 1..Len(p) : a[i + k - 1] = p[k]
    BY AtIs
  <2>5. ASSUME p \in At(c, i) PROVE p \in At(a, i)
    <3>1. Len(p) <= Len(a) - i + 1
      BY <1>1, <1>2, <2>1, <2>5
    <3> QED BY <2>2, <2>3, <2>4, <2>5, <3>1
  <2>6. ASSUME p \in At(a, i) PROVE p \in At(c, i)
    <3>1. Len(p) <= Len(c) - i + 1
      BY <1>1, <2>1, <2>4, <2>6
    <3> QED BY <2>2, <2>3, <2>4, <2>6, <3>1
  <2> QED BY <2>5, <2>6
<1>4. At(c, i) \subseteq Complete /\ At(a, i) \subseteq Complete
  BY DEF At
<1>5. At(c, i) = At(a, i)
  BY <1>3, <1>4
<1> QED BY <1>5 DEF c

LEMMA AtRight ==
  ASSUME NEW a \in Text, NEW b \in Text, NEW i \in 1..Len(b)
  PROVE  At(a \o b, Len(a) + i) = At(b, i)
<1> DEFINE c == a \o b
           j == Len(a) + i
<1>1. /\ c \in Text /\ Len(c) = Len(a) + Len(b) /\ Len(a) \in Nat /\ Len(b) \in Nat
      /\ \A k \in 1..Len(b) : c[Len(a) + k] = b[k]
      /\ j = Len(a) + i /\ j \in 1..Len(c)
  <2>1. /\ c \in Text /\ Len(c) = Len(a) + Len(b) /\ Len(a) \in Nat /\ Len(b) \in Nat
        /\ \A k \in 1..Len(b) : c[Len(a) + k] = b[k]
    BY Both
  <2> HIDE DEF c
  <2>2. j = Len(a) + i /\ j \in 1..Len(c)
    BY <2>1
  <2> QED BY <2>1, <2>2
<1> HIDE DEF c, j
<1>3. ASSUME NEW p \in Complete PROVE p \in At(c, j) <=> p \in At(b, i)
  <2>1. Len(p) \in Nat
    BY CompleteBrackets, LenProperties DEF Text
  <2>2. ASSUME Len(p) <= Len(b) - i + 1, NEW k \in 1..Len(p) PROVE c[j + k - 1] = b[i + k - 1]
    <3>1. i + k - 1 \in 1..Len(b) /\ j + k - 1 = Len(a) + (i + k - 1)
      BY <1>1, <2>1, <2>2
    <3> QED BY <1>1, <3>1
  <2>3. p \in At(c, j) <=> Len(p) <= Len(c) - j + 1 /\ \A k \in 1..Len(p) : c[j + k - 1] = p[k]
    BY <1>1, AtIs
  <2>4. p \in At(b, i) <=> Len(p) <= Len(b) - i + 1 /\ \A k \in 1..Len(p) : b[i + k - 1] = p[k]
    BY AtIs
  <2>5. Len(p) <= Len(c) - j + 1 <=> Len(p) <= Len(b) - i + 1
    BY <1>1, <2>1
  <2> QED BY <2>2, <2>3, <2>4, <2>5
<1>4. At(c, j) \subseteq Complete /\ At(b, i) \subseteq Complete
  BY DEF At
<1>5. At(c, j) = At(b, i)
  BY <1>3, <1>4
<1> QED BY <1>5 DEF c, j

LEMMA SameOut ==
  ASSUME NEW s, NEW i, NEW t, NEW j, At(s, i) = At(t, j), s[i] = t[j]
  PROVE  Out(s, i) = Out(t, j) /\ Step(s, i) = Step(t, j)
<1>1. Found(s, i) = Found(t, j)
  BY Zenon DEF Found
<1>2. <<s[i]>> = <<t[j]>>
  BY Zenon
<1> QED BY <1>1, <1>2, Zenon DEF Out, Step

\* Then the two texts can be resolved one by one.
LEMMA ResolvedSplit ==
  ASSUME NEW a \in Text, NEW b \in Text, Apart(a, b)
  PROVE  Resolved(a \o b) = Resolved(a) \o Resolved(b)
<1> DEFINE c == a \o b
<1>1. /\ c \in Text /\ Len(c) = Len(a) + Len(b) /\ Len(a) \in Nat /\ Len(b) \in Nat
      /\ \A k \in 1..Len(a) : c[k] = a[k]
      /\ \A k \in 1..Len(b) : c[Len(a) + k] = b[k]
  BY Both
<1>2. \A i \in 1..Len(a) : At(c, i) = At(a, i)
  BY AtLeft
<1>3. \A i \in 1..Len(b) : At(c, Len(a) + i) = At(b, i)
  BY AtRight
<1> HIDE DEF c
<1>4. PICK f : IsScan(c, f) /\ Resolved(c) = f[1]
  BY <1>1, ResolvedIs
<1>5. PICK g : IsScan(a, g) /\ Resolved(a) = g[1]
  BY ResolvedIs
<1>6. PICK h : IsScan(b, h) /\ Resolved(b) = h[1]
  BY ResolvedIs
<1>7. \A i \in 1..Len(c) + 1 :
        f[i] = IF i > Len(c) THEN << >> ELSE Out(c, i) \o f[i + Step(c, i)]
  BY <1>1, <1>4, ScanAt
<1>8. \A i \in 1..Len(a) + 1 :
        g[i] = IF i > Len(a) THEN << >> ELSE Out(a, i) \o g[i + Step(a, i)]
  BY <1>5, ScanAt
<1>9. \A i \in 1..Len(b) + 1 :
        h[i] = IF i > Len(b) THEN << >> ELSE Out(b, i) \o h[i + Step(b, i)]
  BY <1>6, ScanAt
<1>10. \A i \in 1..Len(a) : Out(c, i) = Out(a, i) /\ Step(c, i) = Step(a, i)
  BY <1>1, <1>2, SameOut
<1>11. \A i \in 1..Len(b) : Out(c, Len(a) + i) = Out(b, i) /\ Step(c, Len(a) + i) = Step(b, i)
  BY <1>1, <1>3, SameOut
<1> DEFINE m == Len(a)
           n == Len(b)
           R == {i \in 1..n + 1 : f[m + i] = h[i]}
<1>12. m \in Nat /\ n \in Nat /\ Len(c) = m + n
  BY <1>1
<1>13. ASSUME NEW i \in 1..n + 1, \A j \in i + 1..n + 1 : j \in R PROVE i \in R
  <2>1. m + i \in 1..Len(c) + 1 /\ (m + i > Len(c) <=> i > n)
    BY <1>12
  <2>2. CASE i > n
    BY <1>7, <1>9, <2>1, <2>2
  <2>3. CASE ~ (i > n)
    <3>1. i \in 1..Len(b)
      BY <1>12, <2>3
    <3>2. i + Step(b, i) \in i + 1..n + 1 /\ Step(b, i) \in Nat
      BY <3>1, StepTyped
    <3>3. f[m + (i + Step(b, i))] = h[i + Step(b, i)]
      BY <1>13, <3>2
    <3>4. m + i + Step(b, i) = m + (i + Step(b, i))
      BY <1>12, <3>2
    <3>5. f[m + i] = Out(c, m + i) \o f[m + i + Step(c, m + i)]
      BY <1>7, <2>1, <2>3
    <3>6. f[m + i] = Out(b, i) \o f[m + i + Step(b, i)]
      BY <1>11, <3>1, <3>5
    <3>7. h[i] = Out(b, i) \o h[i + Step(b, i)]
      BY <1>9, <2>3
    <3> QED BY <3>3, <3>4, <3>6, <3>7
  <2> QED BY <2>2, <2>3
<1>14. R = 1..n + 1
  <2> HIDE DEF R
  <2>1. R \in SUBSET (1..n + 1)
    BY DEF R
  <2> HIDE DEF m, n
  <2> QED BY <1>12, <1>13, <2>1, DownInduction
<1>15. f[m + 1] = h[1]
  <2>1. 1 \in 1..n + 1
    BY <1>12
  <2> QED BY <1>14, <2>1
<1>16. \A i \in 1..m + 1 : g[i] \in Text
  BY <1>5, ScanTyped
<1>17. h[1] \in Text
  <2>1. 1 \in 1..Len(b) + 1
    BY <1>1
  <2> QED BY <1>6, <2>1, ScanTyped
<1> DEFINE Q == {i \in 1..m + 1 : f[i] = g[i] \o h[1]}
<1>18. ASSUME NEW i \in 1..m + 1, \A j \in i + 1..m + 1 : j \in Q PROVE i \in Q
  <2>1. CASE i > m
    <3>1. g[i] = << >> /\ i = m + 1
      BY <1>8, <1>12, <2>1
    <3>2. << >> \o h[1] = h[1]
      BY <1>17, ConcatEmptySeq DEF Text
    <3> QED BY <1>15, <3>1, <3>2
  <2>2. CASE ~ (i > m)
    <3>1. i \in 1..Len(a) /\ i \in 1..Len(c) + 1 /\ ~ (i > Len(c))
      BY <1>12, <2>2
    <3>2. i + Step(a, i) \in i + 1..m + 1 /\ Out(a, i) \in Text
      BY <3>1, StepTyped
    <3>3. f[i + Step(a, i)] = g[i + Step(a, i)] \o h[1]
      BY <1>18, <3>2
    <3>4. f[i] = Out(a, i) \o f[i + Step(a, i)]
      BY <1>7, <1>10, <3>1
    <3>5. g[i] = Out(a, i) \o g[i + Step(a, i)]
      BY <1>8, <2>2
    <3>6. g[i + Step(a, i)] \in Text
      <4>1. i + Step(a, i) \in 1..m + 1
        BY <1>12, <3>2
      <4> QED BY <1>16, <4>1
    <3>7. Out(a, i) \o (g[i + Step(a, i)] \o h[1]) = (Out(a, i) \o g[i + Step(a, i)]) \o h[1]
      <4>1. Out(a, i) \in Text
        BY <3>2
      <4> HIDE DEF c, m, n, R, Q
      <4>2. Out(a, i) \o (g[i + Step(a, i)] \o h[1]) = (Out(a, i) \o g[i + Step(a, i)]) \o h[1]
        BY <1>17, <3>6, <4>1, Regroup, Zenon
      <4> QED BY <4>2
    <3> QED BY <3>3, <3>4, <3>5, <3>7
  <2> QED BY <2>1, <2>2
<1>19. Q = 1..m + 1
  <2> HIDE DEF Q
  <2>1. Q \in SUBSET (1..m + 1)
    BY DEF Q
  <2> HIDE DEF m, n
  <2> QED BY <1>12, <1>18, <2>1, DownInduction
<1>20. f[1] = g[1] \o h[1]
  <2>1. 1 \in 1..m + 1
    BY <1>12
  <2> QED BY <1>19, <2>1
<1> QED BY <1>4, <1>5, <1>6, <1>20 DEF c

\* ... and their placeholders counted one by one.
LEMMA OccurrencesSplit ==
  ASSUME NEW a \in Text, NEW b \in Text, Apart(a, b), NEW which
  PROVE  /\ Occurrences(a, which) \in Nat /\ Occurrences(b, which) \in Nat
         /\ Occurrences(a \o b, which) = Occurrences(a, which) + Occurrences(b, which)
<1> DEFINE c == a \o b
           m == Len(a)
           n == Len(b)
           A == {i \in 1..m : At(a, i) \cap which # {}}
           B == {i \in 1..n : At(b, i) \cap which # {}}
           C == {i \in 1..m + n : At(c, i) \cap which # {}}
           D == {m + i : i \in B}
<1>1. /\ c \in Text /\ Len(c) = m + n /\ m \in Nat /\ n \in Nat
      /\ DOMAIN a = 1..m /\ DOMAIN b = 1..n /\ DOMAIN c = 1..m + n
  <2>1. c \in Text /\ Len(c) = m + n /\ m \in Nat /\ n \in Nat
    BY Both
  <2> QED BY <2>1, LenProperties DEF Text
<1>2. /\ Occurrences(a, which) = Cardinality(A)
      /\ Occurrences(b, which) = Cardinality(B)
      /\ Occurrences(c, which) = Cardinality(C)
  BY <1>1 DEF Occurrences
<1>3. \A i \in 1..m : At(c, i) = At(a, i)
  BY AtLeft
<1>4. \A i \in 1..n : At(c, m + i) = At(b, i)
  BY AtRight
<1> HIDE DEF c, m, n
<1>5. IsFiniteSet(A) /\ IsFiniteSet(B)
  <2>1. IsFiniteSet(1..m) /\ IsFiniteSet(1..n)
    BY <1>1, FS_Interval
  <2>2. A \in SUBSET (1..m) /\ B \in SUBSET (1..n)
    OBVIOUS
  <2> HIDE DEF A, B
  <2> QED BY <2>1, <2>2, FS_Subset
<1>6. ExistsBijection(B, D)
  <2> DEFINE f == [i \in B |-> m + i]
  <2>1. f \in [B -> D] /\ \A x, y \in B : f[x] = f[y] => x = y
    BY <1>1
  <2>2. \A d \in D : \E x \in B : f[x] = d
    OBVIOUS
  <2>3. f \in Bijection(B, D)
    BY <2>1, <2>2 DEF Bijection, Injection, Surjection, IsInjective
  <2> QED BY <2>3 DEF ExistsBijection
<1>7. C = A \cup D /\ A \cap D = {}
  <2>1. ASSUME NEW i \in C PROVE i \in A \cup D
    <3>1. CASE i \in 1..m
      BY <1>3, <3>1
    <3>2. CASE i \notin 1..m
      <4>1. i - m \in 1..n /\ i = m + (i - m)
        BY <1>1, <3>2
      <4>2. At(c, i) = At(b, i - m)
        BY <1>4, <4>1
      <4>3. i - m \in B
        BY <4>1, <4>2
      <4> QED BY <4>1, <4>3
    <3> QED BY <3>1, <3>2
  <2>2. ASSUME NEW i \in A PROVE i \in C /\ i \notin D
    BY <1>1, <1>3
  <2>3. ASSUME NEW i \in B PROVE m + i \in C
    <3>1. i \in 1..n /\ m + i \in 1..m + n
      BY <1>1
    <3> QED BY <1>4, <3>1
  <2> QED BY <2>1, <2>2, <2>3
<1> HIDE DEF A, B, C, D
<1>8. IsFiniteSet(D) /\ Cardinality(D) = Cardinality(B)
  BY <1>5, <1>6, FS_Bijection
<1>9. Cardinality(A \cup D) = Cardinality(A) + Cardinality(D) - Cardinality(A \cap D)
  BY <1>5, <1>8, FS_Union
<1>10. Cardinality({}) = 0 /\ Cardinality(A) \in Nat /\ Cardinality(B) \in Nat
  BY <1>5, FS_EmptySet, FS_CardinalityType
<1>11. Cardinality(C) = Cardinality(A) + Cardinality(B)
  <2>1. Cardinality(A \cap D) = 0 /\ Cardinality(C) = Cardinality(A \cup D)
    BY <1>7, <1>10
  <2> QED BY <1>8, <1>9, <1>10, <2>1
<1> QED BY <1>2, <1>10, <1>11 DEF c
--------------------------------------------------------------------------------
(* What may be let out. *)

LEMMA Ending ==
  ASSUME NEW text \in Text, NEW j \in 1..Len(text) + 1
  PROVE  /\ SubSeq(text, j, Len(text)) \in Text
         /\ Len(SubSeq(text, j, Len(text))) = Len(text) - j + 1
         /\ \A k \in 1..Len(text) - j + 1 : SubSeq(text, j, Len(text))[k] = text[j + k - 1]
<1>1. Len(text) \in Nat
  BY LenProperties DEF Text
<1>2. \A k \in j..Len(text) : text[k] \in Char
  <2>1. \A k \in j..Len(text) : k \in 1..Len(text)
    BY <1>1
  <2> QED BY <2>1, ElementOfSeq DEF Text
<1> DEFINE m == Len(text)
           c == SubSeq(text, j, m)
<1>3. m \in Int /\ j \in Int /\ \A k \in j..m : text[k] \in Char
  BY <1>1, <1>2
<1>4. j <= m + 1
  BY <1>1
<1> HIDE DEF m
<1>5. /\ c \in Seq(Char) /\ Len(c) = IF j <= m THEN m - j + 1 ELSE 0
      /\ \A k \in 1..m - j + 1 : c[k] = text[j + k - 1]
  BY <1>3, SubSeqProperties
<1> HIDE DEF c
<1>6. Len(c) = m - j + 1
  BY <1>3, <1>4, <1>5
<1> QED BY <1>5, <1>6 DEF c, m, Text

LEMMA SafeIs ==
  ASSUME NEW text \in Text
  PROVE  /\ SafeBoundary(text) \in 0..Len(text)
         /\ TailStarts(text) = {} => SafeBoundary(text) = Len(text)
         /\ TailStarts(text) # {} => SafeBoundary(text) + 1 \in TailStarts(text)
         /\ \A j \in TailStarts(text) : SafeBoundary(text) + 1 <= j
         /\ TailStarts(text) \subseteq 1..Len(text)
<1> DEFINE S == TailStarts(text)
<1>1. Len(text) \in Nat /\ S \subseteq 1..Len(text)
  BY LenProperties DEF TailStarts, Text
<1>2. CASE S = {}
  <2>1. SafeBoundary(text) = Len(text)
    BY <1>2 DEF SafeBoundary
  <2> QED BY <1>1, <1>2, <2>1
<1>3. CASE S # {}
  <2> DEFINE x == CHOOSE i \in S : \A j \in S : i <= j
  <2>1. SafeBoundary(text) = x - 1
    BY <1>3 DEF SafeBoundary
  <2> HIDE DEF S
  <2>2. S \subseteq Nat
    BY <1>1
  <2>3. PICK y \in S : \A z \in S : ~ (<<z, y>> \in Below)
    BY <1>3, <2>2, BelowWellFounded, WFMin
  <2>4. \A z \in S : y <= z
    <3>1. ASSUME NEW z \in S PROVE ~ (z < y)
      <4>1. z \in Nat /\ y \in Nat /\ ~ (<<z, y>> \in Below)
        BY <2>2, <2>3
      <4> QED BY <4>1 DEF Below
    <3> QED BY <2>2, <3>1
  <2>5. x \in S /\ \A j \in S : x <= j
    BY <2>4
  <2> HIDE DEF x
  <2>6. x \in 1..Len(text) /\ x - 1 + 1 = x
    BY <1>1, <2>5
  <2>7. x - 1 \in 0..Len(text)
    BY <1>1, <2>6
  <2> QED BY <1>1, <1>3, <2>1, <2>5, <2>6, <2>7 DEF S
<1> QED BY <1>2, <1>3

\* The text up to the safe boundary, and what is held back.
Safe(text) == SubSeq(text, 1, SafeBoundary(text))
Held(text) == SubSeq(text, SafeBoundary(text) + 1, Len(text))

LEMMA SafeAndHeld ==
  ASSUME NEW text \in Text
  PROVE  /\ Safe(text) \in Text /\ Len(Safe(text)) = SafeBoundary(text)
         /\ Held(text) \in Partial \cup {<< >>} /\ Held(text) \in Text
         /\ Safe(text) \o Held(text) = text
<1> DEFINE b == SafeBoundary(text)
<1>1. b \in 0..Len(text) /\ Len(text) \in Nat /\ b \in Nat /\ b <= Len(text)
  <2>1. b \in 0..Len(text) /\ Len(text) \in Nat
    BY SafeIs, LenProperties DEF Text
  <2> HIDE DEF b
  <2> QED BY <2>1
<1>2. Safe(text) \in Text /\ Len(Safe(text)) = b
  BY <1>1, Start DEF Safe
<1>3. Held(text) \in Text
  <2>1. b + 1 \in 1..Len(text) + 1
    <3> HIDE DEF b
    <3> QED BY <1>1
  <2> QED BY <2>1, Ending DEF Held
<1>4. Held(text) \in Partial \cup {<< >>}
  <2>1. CASE TailStarts(text) = {}
    <3>1. b = Len(text)
      BY <2>1, SafeIs
    <3>2. Held(text) = << >>
      <4>1. Len(text) + 1 \in Int /\ Len(text) \in Int /\ Len(text) < Len(text) + 1
        BY <1>1
      <4> QED BY <3>1, <4>1, SubSeqEmpty DEF Held
    <3> QED BY <3>2
  <2>2. CASE TailStarts(text) # {}
    <3>1. b + 1 \in TailStarts(text)
      BY <2>2, SafeIs
    <3> QED BY <3>1 DEF TailStarts, CouldBePlaceholderPrefix, Held
  <2> QED BY <2>1, <2>2
<1>5. Safe(text) \o Held(text) = text
  <2>1. SubSeq(text, 1, b) \o SubSeq(text, b + 1, Len(text)) = SubSeq(text, 1, Len(text))
    <3> HIDE DEF b
    <3>1. /\ text \in Seq(Char) /\ 1 \in 1..Len(text) + 1
          /\ b \in 1 - 1..Len(text) /\ Len(text) \in b..Len(text)
      BY <1>1 DEF Text
    <3> QED BY <3>1, ConcatAdjacentSubSeq
  <2>2. SubSeq(text, 1, Len(text)) = text
    BY SubSeqFull DEF Text
  <2> QED BY <2>1, <2>2 DEF Safe, Held
<1> QED BY <1>2, <1>3, <1>4, <1>5

\* Whatever arrives later, no placeholder lies across the safe boundary.
LEMMA SafeApart ==
  ASSUME NEW text \in Text, NEW rest \in Text
  PROVE  Apart(Safe(text), Held(text) \o rest)
<1> DEFINE b == SafeBoundary(text)
           c == text \o rest
<1>1. /\ b \in 0..Len(text) /\ Len(text) \in Nat
      /\ TailStarts(text) # {} => b + 1 \in TailStarts(text)
      /\ TailStarts(text) = {} => b = Len(text)
      /\ \A j \in TailStarts(text) : b + 1 <= j
  BY SafeIs, LenProperties DEF Text
<1>2. /\ Safe(text) \in Text /\ Len(Safe(text)) = b /\ Held(text) \in Text
      /\ Safe(text) \o (Held(text) \o rest) = c
  <2>1. /\ Safe(text) \in Text /\ Len(Safe(text)) = b /\ Held(text) \in Text
        /\ Safe(text) \o Held(text) = text
    BY SafeAndHeld
  <2>2. Safe(text) \o (Held(text) \o rest) = (Safe(text) \o Held(text)) \o rest
    BY <2>1, Regroup, Zenon
  <2> QED BY <2>1, <2>2
<1>3. /\ c \in Text /\ Len(c) = Len(text) + Len(rest) /\ Len(rest) \in Nat
      /\ \A k \in 1..Len(text) : c[k] = text[k]
  BY Both
<1> HIDE DEF b, c
<1>4. SUFFICES ASSUME NEW i \in 1..b, NEW p \in At(c, i), i + Len(p) > b + 1 PROVE FALSE
  <2>1. ASSUME NEW i \in 1..b, NEW p \in At(c, i) PROVE i + Len(p) <= b + 1
    <3>1. p \in Complete
      BY DEF At
    <3>2. Len(p) \in Nat
      BY <3>1, CompleteBrackets, LenProperties DEF Text
    <3> QED BY <1>1, <1>4, <3>2
  <2> QED BY <1>2, <2>1 DEF Apart
<1>5. /\ p \in Complete /\ p \in Text /\ Len(p) \in Nat /\ Len(p) >= 7
      /\ \A k \in 3..Len(p) : p[k] # "["
  <2>1. p \in Complete
    BY DEF At
  <2> QED BY <2>1, CompleteBrackets, LenProperties DEF Text
<1>6. /\ Len(p) <= Len(c) - i + 1
      /\ \A k \in 1..Len(p) : c[i + k - 1] = p[k]
  <2>1. i \in 1..Len(c)
    BY <1>1, <1>3
  <2> QED BY <1>3, <1>5, <2>1, AtIs
<1>7. CASE i + Len(p) - 1 <= Len(text)
  <2>1. b < Len(text) /\ b + 1 \in 1..Len(text) + 1
    BY <1>1, <1>4, <1>5, <1>7
  <2>2. b + 1 \in TailStarts(text)
    BY <1>1, <2>1
  <2> DEFINE tail == SubSeq(text, b + 1, Len(text))
  <2>3. tail \in Partial
    BY <2>2 DEF TailStarts, CouldBePlaceholderPrefix
  <2>4. /\ Len(tail) = Len(text) - (b + 1) + 1
        /\ \A k \in 1..Len(text) - (b + 1) + 1 : tail[k] = text[b + 1 + k - 1]
    BY <2>1, Ending
  <2> HIDE DEF tail
  <2>5. tail[1] = "[" /\ (Len(tail) >= 2 => tail[2] = "[")
    BY <2>3, PartialStart
  <2>6. c[b + 1] = "["
    <3>1. 1 \in 1..Len(text) - (b + 1) + 1 /\ b + 1 + 1 - 1 = b + 1 /\ b + 1 \in 1..Len(text)
      BY <1>1, <2>1
    <3>2. tail[1] = text[b + 1]
      BY <2>4, <3>1
    <3> QED BY <1>3, <2>5, <3>1, <3>2
  <2> DEFINE k == b - i + 2
  <2>7. k \in 2..Len(p) /\ i + k - 1 = b + 1 /\ k \in 1..Len(p)
    BY <1>1, <1>4, <1>5
  <2>8. p[k] = "["
    <3> HIDE DEF k
    <3> QED BY <1>6, <2>6, <2>7
  <2>9. k = 2
    <3> HIDE DEF k
    <3> QED BY <1>5, <2>7, <2>8
  <2>10. i = b
    BY <1>1, <2>9
  <2>11. b + 2 <= Len(text) /\ 2 \in 1..Len(text) - (b + 1) + 1 /\ b + 2 \in 1..Len(text) /\ b + 1 + 2 - 1 = b + 2
    BY <1>1, <1>5, <1>7, <2>10
  <2>12. Len(tail) >= 2
    BY <1>1, <2>4, <2>11
  <2>13. tail[2] = text[b + 2]
    BY <2>4, <2>11
  <2>14. c[b + 2] = "["
    BY <1>3, <2>5, <2>11, <2>12, <2>13
  <2>15. 3 \in 1..Len(p) /\ 3 \in 3..Len(p) /\ i + 3 - 1 = b + 2
    BY <1>1, <1>5, <2>10
  <2>16. p[3] = c[b + 2]
    BY <1>6, <2>15
  <2> QED BY <1>5, <2>14, <2>15, <2>16
<1>8. CASE ~ (i + Len(p) - 1 <= Len(text))
  <2> DEFINE l == Len(text) - i + 1
  <2>1. l \in 1..Len(p) - 1 /\ l \in Nat /\ l <= Len(p) /\ i \in 1..Len(text) + 1 /\ i \in 1..Len(text)
    BY <1>1, <1>5, <1>8
  <2> DEFINE t == SubSeq(text, i, Len(text))
             s == SubSeq(p, 1, l)
  <2>2. t \in Text /\ Len(t) = l /\ \A k \in 1..l : t[k] = text[i + k - 1]
    BY <2>1, Ending
  <2>3. s \in Text /\ Len(s) = l /\ \A k \in 1..l : s[k] = p[k]
    <3> HIDE DEF l
    <3> QED BY <1>5, <2>1, Start
  <2>4. s \in Partial
    <3> HIDE DEF l
    <3> QED BY <1>5, <2>1, CompletePrefix
  <2> HIDE DEF s, t
  <2>5. ASSUME NEW k \in 1..l PROVE t[k] = s[k]
    <3>1. i + k - 1 \in 1..Len(text) /\ k \in 1..Len(p)
      BY <1>1, <1>5, <2>1
    <3>2. c[i + k - 1] = text[i + k - 1] /\ c[i + k - 1] = p[k]
      BY <1>3, <1>6, <3>1
    <3> QED BY <2>2, <2>3, <3>2
  <2>6. t = s
    <3>1. t \in Seq(Char) /\ s \in Seq(Char) /\ Len(t) = Len(s) /\ \A k \in 1..Len(t) : t[k] = s[k]
      BY <2>2, <2>3, <2>5 DEF Text
    <3> QED BY <3>1, SeqEqual
  <2>7. i \in DOMAIN text
    BY <2>1, LenProperties DEF Text
  <2>8. i \in TailStarts(text)
    BY <2>4, <2>6, <2>7 DEF TailStarts, CouldBePlaceholderPrefix, t
  <2>9. b + 1 <= i
    BY <1>1, <2>8
  <2> QED BY <1>1, <2>9
<1> QED BY <1>7, <1>8
--------------------------------------------------------------------------------
(* The un-redactor. *)

LEMMA NoText ==
  /\ << >> \in Text /\ Len(<< >>) = 0
  /\ \A a \in Text : a \o << >> = a /\ << >> \o a = a
<1>1. << >> \in Text /\ Len(<< >>) = 0
  BY EmptySeq DEF Text
<1>2. ASSUME NEW a \in Text PROVE a \o << >> = a /\ << >> \o a = a
  BY ConcatEmptySeq DEF Text
<1> QED BY <1>1, <1>2

LEMMA ResolvedText ==
  ASSUME NEW text \in Text
  PROVE  Resolved(text) \in Text
<1>1. PICK f : IsScan(text, f) /\ Resolved(text) = f[1]
  BY ResolvedIs
<1>2. 1 \in 1..Len(text) + 1
  BY LenProperties DEF Text
<1> QED BY <1>1, <1>2, ScanTyped

LEMMA ResolvedNone == Resolved(<< >>) = << >>
<1>1. << >> \in Text /\ Len(<< >>) = 0
  BY NoText
<1>2. PICK f : IsScan(<< >>, f) /\ Resolved(<< >>) = f[1]
  BY <1>1, ResolvedIs
<1>3. \A i \in 1..Len(<< >>) + 1 :
        f[i] = IF i > Len(<< >>) THEN << >> ELSE Out(<< >>, i) \o f[i + Step(<< >>, i)]
  BY <1>1, <1>2, ScanAt
<1>4. 1 \in 1..Len(<< >>) + 1 /\ 1 > Len(<< >>)
  BY <1>1
<1> QED BY <1>2, <1>3, <1>4

LEMMA OccurrencesNat ==
  ASSUME NEW text \in Text, NEW which
  PROVE  Occurrences(text, which) \in Nat
<1> DEFINE A == {i \in DOMAIN text : At(text, i) \cap which # {}}
<1>1. IsFiniteSet(DOMAIN text)
  BY LenProperties, FS_Interval DEF Text
<1>2. A \in SUBSET (DOMAIN text)
  OBVIOUS
<1> HIDE DEF A
<1>3. IsFiniteSet(A)
  BY <1>1, <1>2, FS_Subset
<1>4. Cardinality(A) \in Nat
  BY <1>3, FS_CardinalityType
<1>5. Occurrences(text, which) = Cardinality(A)
  BY DEF Occurrences, A
<1> QED BY <1>4, <1>5

LEMMA OccurrencesNone ==
  ASSUME NEW which
  PROVE  Occurrences(<< >>, which) = 0
<1>1. {i \in DOMAIN << >> : At(<< >>, i) \cap which # {}} = {}
  OBVIOUS
<1>2. Occurrences(<< >>, which) = Cardinality({})
  BY <1>1 DEF Occurrences
<1> QED BY <1>2, FS_EmptySet

Known == DOMAIN ValueOf
Unknown == Complete \ DOMAIN ValueOf

\* u let out, of a text to come, nothing that could turn out otherwise.
Faithful(u, v, chunk) ==
  \A rest \in Text :
    /\ Resolved(u.held \o (chunk \o rest)) = v.out \o Resolved(v.held \o rest)
    /\ u.replaced + Occurrences(u.held \o (chunk \o rest), Known)
         = v.replaced + Occurrences(v.held \o rest, Known)
    /\ u.unknown + Occurrences(u.held \o (chunk \o rest), Unknown)
         = v.unknown + Occurrences(v.held \o rest, Unknown)

LEMMA EmitTyped ==
  ASSUME NEW u \in Unredactor, NEW a \in Text, NEW h \in Text
  PROVE  /\ Emit(u, a, h) \in Unredactor /\ Emit(u, a, h).held = h
         /\ Emit(u, a, h).replaced = u.replaced + Occurrences(a, Known)
         /\ Emit(u, a, h).unknown = u.unknown + Occurrences(a, Unknown)
         /\ Emit(u, a, h).out = Resolved(a)
<1>1. Occurrences(a, Known) \in Nat /\ Occurrences(a, Unknown) \in Nat /\ Resolved(a) \in Text
  BY OccurrencesNat, ResolvedText
<1>2. u.replaced \in Nat /\ u.unknown \in Nat
  BY DEF Unredactor
<1>3. Emit(u, a, h) = [held |-> h, replaced |-> u.replaced + Occurrences(a, Known),
                       unknown |-> u.unknown + Occurrences(a, Unknown), out |-> Resolved(a)]
  BY DEF Emit, Known, Unknown
<1> HIDE DEF Known, Unknown
<1>4. u.replaced + Occurrences(a, Known) \in Nat /\ u.unknown + Occurrences(a, Unknown) \in Nat
  BY <1>1, <1>2
<1> QED BY <1>1, <1>3, <1>4 DEF Unredactor, Text

LEMMA PushFaithful ==
  ASSUME NEW u \in Unredactor, u.held \in Partial \cup {<< >>}, NEW chunk \in Text
  PROVE  /\ Push(u, chunk) \in Unredactor
         /\ Push(u, chunk).held \in Partial \cup {<< >>}
         /\ Faithful(u, Push(u, chunk), chunk)
<1>1. u.held \in Text /\ u.replaced \in Nat /\ u.unknown \in Nat
  BY DEF Unredactor, Text
<1>2. CASE chunk = << >>
  <2> DEFINE v == [u EXCEPT !.out = << >>]
  <2>1. Push(u, chunk) = v
    BY <1>2 DEF Push
  <2>2. /\ v \in Unredactor /\ v.held = u.held /\ v.replaced = u.replaced
        /\ v.unknown = u.unknown /\ v.out = << >>
    BY NoText DEF Unredactor, Text
  <2> HIDE DEF v
  <2>3. ASSUME NEW rest \in Text PROVE Resolved(u.held \o (chunk \o rest)) = v.out \o Resolved(v.held \o rest)
    <3>1. chunk \o rest = rest
      BY <1>2, NoText
    <3>2. u.held \o rest \in Text
      BY <1>1, Both
    <3>3. << >> \o Resolved(u.held \o rest) = Resolved(u.held \o rest)
      BY <3>2, ResolvedText, NoText
    <3> QED BY <2>2, <3>1, <3>3
  <2>4. \A rest \in Text : chunk \o rest = rest
    BY <1>2, NoText
  <2>5. Faithful(u, v, chunk)
    BY <2>2, <2>3, <2>4 DEF Faithful
  <2> QED BY <2>1, <2>2, <2>5
<1>3. CASE chunk # << >>
  <2> DEFINE text == u.held \o chunk
             v == Emit(u, Safe(text), Held(text))
  <2>1. Push(u, chunk) = v
    BY <1>3 DEF Push, Safe, Held
  <2>2. text \in Text
    BY <1>1, Both
  <2>3. /\ Safe(text) \in Text /\ Held(text) \in Text
        /\ Held(text) \in Partial \cup {<< >>} /\ Safe(text) \o Held(text) = text
    BY <2>2, SafeAndHeld
  <2>4. /\ v \in Unredactor /\ v.held = Held(text)
        /\ v.replaced = u.replaced + Occurrences(Safe(text), Known)
        /\ v.unknown = u.unknown + Occurrences(Safe(text), Unknown)
        /\ v.out = Resolved(Safe(text))
    BY <2>3, EmitTyped
  <2> HIDE DEF v
  <2>5. ASSUME NEW rest \in Text
        PROVE  /\ Resolved(u.held \o (chunk \o rest)) = v.out \o Resolved(v.held \o rest)
               /\ u.replaced + Occurrences(u.held \o (chunk \o rest), Known)
                    = v.replaced + Occurrences(v.held \o rest, Known)
               /\ u.unknown + Occurrences(u.held \o (chunk \o rest), Unknown)
                    = v.unknown + Occurrences(v.held \o rest, Unknown)
    <3> DEFINE a == Safe(text)
               b == Held(text) \o rest
    <3>1. u.held \o (chunk \o rest) = text \o rest
      BY <1>1, Regroup, Zenon
    <3>2. text \o rest = a \o b
      <4>1. Safe(text) \o (Held(text) \o rest) = (Safe(text) \o Held(text)) \o rest
        BY <2>3, Regroup, Zenon
      <4> QED BY <2>3, <4>1
    <3>3. a \in Text /\ b \in Text /\ Apart(a, b)
      <4>1. b \in Text
        BY <2>3, Both
      <4> QED BY <2>2, <2>3, <4>1, SafeApart
    <3> HIDE DEF a, b, text, Known, Unknown
    <3>4. Resolved(a \o b) = Resolved(a) \o Resolved(b)
      BY <3>3, ResolvedSplit
    <3>5. /\ Occurrences(a \o b, Known) = Occurrences(a, Known) + Occurrences(b, Known)
          /\ Occurrences(a, Known) \in Nat /\ Occurrences(b, Known) \in Nat
      BY <3>3, OccurrencesSplit
    <3>6. /\ Occurrences(a \o b, Unknown) = Occurrences(a, Unknown) + Occurrences(b, Unknown)
          /\ Occurrences(a, Unknown) \in Nat /\ Occurrences(b, Unknown) \in Nat
      BY <3>3, OccurrencesSplit
    <3>7. /\ v.out = Resolved(a) /\ v.held \o rest = b
          /\ v.replaced = u.replaced + Occurrences(a, Known)
          /\ v.unknown = u.unknown + Occurrences(a, Unknown)
      BY <2>4 DEF a, b
    <3>8. u.held \o (chunk \o rest) = a \o b
      BY <3>1, <3>2
    <3>9. Resolved(u.held \o (chunk \o rest)) = v.out \o Resolved(v.held \o rest)
      BY <3>4, <3>7, <3>8
    <3>10. \A x, y, z \in Nat : x + (y + z) = (x + y) + z
      OBVIOUS
    <3>11. u.replaced + Occurrences(a \o b, Known) = v.replaced + Occurrences(b, Known)
      BY <1>1, <3>5, <3>7, <3>10
    <3>12. u.unknown + Occurrences(a \o b, Unknown) = v.unknown + Occurrences(b, Unknown)
      BY <1>1, <3>6, <3>7, <3>10
    <3> QED BY <3>7, <3>8, <3>9, <3>11, <3>12
  <2>6. Faithful(u, v, chunk)
    BY <2>5 DEF Faithful
  <2> QED BY <2>1, <2>3, <2>4, <2>6
<1> QED BY <1>2, <1>3

LEMMA FlushIs ==
  ASSUME NEW u \in Unredactor
  PROVE  /\ Flush(u) \in Unredactor /\ Flush(u).held = << >>
         /\ Flush(u).replaced = u.replaced + Occurrences(u.held, Known)
         /\ Flush(u).unknown = u.unknown + Occurrences(u.held, Unknown)
         /\ Flush(u).out = Resolved(u.held)
<1>1. u.held \in Text
  BY DEF Unredactor, Text
<1>2. Flush(u) = Emit(u, u.held, << >>)
  BY DEF Flush
<1> QED BY <1>1, <1>2, NoText, EmitTyped

\* The whole body at once gives what replacing in one pass gives.
LEMMA BodyIs ==
  ASSUME NEW text \in Text
  PROVE  UnredactBody(text) = Resolved(text)
<1>1. Fresh \in Unredactor /\ Fresh.held = << >>
  BY NoText DEF Fresh, Unredactor, Text
<1> DEFINE v == Push(Fresh, text)
<1>2. v \in Unredactor /\ Faithful(Fresh, v, text)
  BY <1>1, PushFaithful
<1>3. UnredactBody(text) = v.out \o Flush(v).out
  BY DEF UnredactBody
<1> HIDE DEF v
<1>4. Flush(v).out = Resolved(v.held) /\ v.held \in Text
  BY <1>2, FlushIs DEF Unredactor, Text
<1>5. Resolved(Fresh.held \o (text \o << >>)) = v.out \o Resolved(v.held \o << >>)
  BY <1>2, NoText DEF Faithful
<1>6. text \o << >> = text /\ << >> \o text = text /\ v.held \o << >> = v.held
  BY <1>4, NoText
<1> QED BY <1>1, <1>3, <1>4, <1>5, <1>6
--------------------------------------------------------------------------------
(* The lines in and out. *)

DoneIn(lines) == \E i \in DOMAIN lines : lines[i].kind = "done"
LateIn(lines) == \E i, j \in DOMAIN lines :
                   i < j /\ lines[i].kind = "done" /\ lines[j].kind = "delta"

LEMMA Appended ==
  ASSUME NEW lines \in Seq(Wire), NEW line \in Wire
  PROVE  /\ Append(lines, line) \in Seq(Wire)
         /\ Len(Append(lines, line)) = Len(lines) + 1
         /\ \A i \in 1..Len(lines) : Append(lines, line)[i] = lines[i]
         /\ Append(lines, line)[Len(lines) + 1] = line
         /\ Len(lines) \in Nat /\ DOMAIN lines = 1..Len(lines)
         /\ DOMAIN Append(lines, line) = 1..Len(lines) + 1
<1>1. /\ Append(lines, line) \in Seq(Wire) /\ Len(Append(lines, line)) = Len(lines) + 1
      /\ \A i \in 1..Len(lines) : Append(lines, line)[i] = lines[i]
      /\ Append(lines, line)[Len(lines) + 1] = line
  BY AppendProperties
<1> QED BY <1>1, LenProperties

LEMMA DoneAppend ==
  ASSUME NEW lines \in Seq(Wire), NEW line \in Wire
  PROVE  /\ DoneIn(Append(lines, line)) <=> DoneIn(lines) \/ line.kind = "done"
         /\ LateIn(lines) => LateIn(Append(lines, line))
         /\ DoneIn(lines) /\ line.kind = "delta" => LateIn(Append(lines, line))
         /\ LateIn(Append(lines, line)) => DoneIn(lines)
<1> DEFINE more == Append(lines, line)
           n == Len(lines)
<1>1. /\ \A i \in 1..n : more[i] = lines[i]
      /\ more[n + 1] = line /\ n \in Nat
      /\ DOMAIN lines = 1..n /\ DOMAIN more = 1..n + 1
  BY Appended
<1> HIDE DEF more, n
<1>2. DoneIn(more) <=> DoneIn(lines) \/ line.kind = "done"
  BY <1>1 DEF DoneIn
<1>3. LateIn(lines) => LateIn(more)
  BY <1>1 DEF LateIn
<1>4. DoneIn(lines) /\ line.kind = "delta" => LateIn(more)
  <2>1. SUFFICES ASSUME NEW i \in 1..n, lines[i].kind = "done", line.kind = "delta" PROVE LateIn(more)
    BY <1>1 DEF DoneIn
  <2>2. /\ i \in 1..n + 1 /\ n + 1 \in 1..n + 1 /\ i < n + 1
        /\ more[i].kind = "done" /\ more[n + 1].kind = "delta"
    BY <1>1, <2>1
  <2> QED BY <1>1, <2>2 DEF LateIn
<1>5. LateIn(more) => DoneIn(lines)
  <2>1. SUFFICES ASSUME NEW i \in 1..n + 1, NEW j \in 1..n + 1, i < j, more[i].kind = "done"
        PROVE  DoneIn(lines)
    BY <1>1 DEF LateIn
  <2>2. i \in 1..n
    BY <1>1, <2>1
  <2> QED BY <1>1, <2>1, <2>2 DEF DoneIn
<1> QED BY <1>2, <1>3, <1>4, <1>5 DEF more

\* A terminator fixes what comes before it.
LEMMA UpToAppend ==
  ASSUME NEW lines \in Seq(Wire), NEW line \in Wire
  PROVE  /\ DoneIn(lines) => UpToDone(Append(lines, line)) = UpToDone(lines)
         /\ ~ DoneIn(lines) => UpToDone(Append(lines, line)) = Append(lines, line)
<1> DEFINE more == Append(lines, line)
           n == Len(lines)
           e == {i \in DOMAIN lines : lines[i].kind = "done"}
           f == {i \in DOMAIN more : more[i].kind = "done"}
<1>1. /\ more \in Seq(Wire) /\ Len(more) = n + 1
      /\ \A i \in 1..n : more[i] = lines[i]
      /\ more[n + 1] = line /\ n \in Nat
      /\ DOMAIN lines = 1..n /\ DOMAIN more = 1..n + 1
  BY Appended
<1>2. /\ UpToDone(lines) = IF e = {} THEN lines
                            ELSE SubSeq(lines, 1, CHOOSE i \in e : \A j \in e : i <= j)
      /\ UpToDone(more) = IF f = {} THEN more
                           ELSE SubSeq(more, 1, CHOOSE i \in f : \A j \in f : i <= j)
  BY DEF UpToDone
<1>3. DoneIn(lines) <=> e # {}
  BY DEF DoneIn
<1> HIDE DEF more, n
<1>4. e \subseteq 1..n /\ f \subseteq 1..n + 1 /\ e = f \cap 1..n
  BY <1>1
<1>5. ASSUME e # {} PROVE UpToDone(more) = UpToDone(lines)
  <2> HIDE DEF e, f
  <2>1. e \subseteq Nat
    BY <1>1, <1>4
  <2>2. PICK x \in e : \A y \in e : ~ (<<y, x>> \in Below)
    BY <1>5, <2>1, BelowWellFounded, WFMin
  <2>3. ASSUME NEW y \in e PROVE x <= y
    <3>1. x \in Nat /\ y \in Nat /\ ~ (<<y, x>> \in Below)
      BY <2>1, <2>2
    <3>2. ~ (y < x)
      BY <3>1 DEF Below
    <3> QED BY <3>1, <3>2
  <2>4. x \in f /\ \A y \in f : x <= y
    <3>1. x \in 1..n /\ x \in f
      BY <1>4, <2>2
    <3>2. ASSUME NEW y \in f PROVE x <= y
      <4>1. CASE y \in 1..n
        BY <1>4, <2>3, <4>1
      <4>2. CASE y \notin 1..n
        BY <1>1, <1>4, <3>1, <4>2
      <4> QED BY <4>1, <4>2
    <3> QED BY <3>1, <3>2
  <2>5. (CHOOSE i \in e : \A j \in e : i <= j) = x
    <3>1. \A i \in e : (\A j \in e : i <= j) => i = x
      BY <2>1, <2>2, <2>3
    <3> QED BY <2>2, <2>3, <3>1
  <2>6. (CHOOSE i \in f : \A j \in f : i <= j) = x
    <3>1. f \subseteq Nat
      BY <1>1, <1>4
    <3>2. \A i \in f : (\A j \in f : i <= j) => i = x
      BY <2>4, <3>1
    <3> QED BY <2>4, <3>2
  <2>7. x \in 1..n /\ x \in Nat /\ x <= n
    BY <1>1, <1>4, <2>2
  <2>8. \A i \in 1..x : lines[i] \in Wire /\ more[i] \in Wire /\ more[i] = lines[i]
    <3>1. \A i \in 1..x : i \in 1..n
      BY <1>1, <2>7
    <3>2. \A i \in 1..n : lines[i] \in Wire
      BY ElementOfSeq DEF n
    <3> QED BY <1>1, <3>1, <3>2
  <2> DEFINE p == SubSeq(lines, 1, x)
             q == SubSeq(more, 1, x)
  <2>9. /\ p \in Seq(Wire) /\ Len(p) = IF 1 <= x THEN x - 1 + 1 ELSE 0
        /\ \A i \in 1..x - 1 + 1 : p[i] = lines[1 + i - 1]
    BY <2>7, <2>8, SubSeqProperties
  <2>10. /\ q \in Seq(Wire) /\ Len(q) = IF 1 <= x THEN x - 1 + 1 ELSE 0
         /\ \A i \in 1..x - 1 + 1 : q[i] = more[1 + i - 1]
    BY <2>7, <2>8, SubSeqProperties
  <2> HIDE DEF p, q
  <2>11. Len(p) = Len(q) /\ \A i \in 1..Len(p) : p[i] = q[i]
    <3>1. Len(p) = x /\ Len(q) = x /\ x - 1 + 1 = x /\ \A i \in 1..x : 1 + i - 1 = i
      BY <2>7, <2>9, <2>10
    <3> QED BY <2>8, <2>9, <2>10, <3>1
  <2>12. p = q
    BY <2>9, <2>10, <2>11, SeqEqual
  <2>13. f # {}
    BY <2>4
  <2>14. UpToDone(lines) = p /\ UpToDone(more) = q
    BY <1>2, <1>5, <2>5, <2>6, <2>13 DEF p, q
  <2> QED BY <2>12, <2>14
<1>6. ASSUME e = {} PROVE UpToDone(more) = more
  <2>1. f \subseteq {n + 1}
    BY <1>1, <1>4, <1>6
  <2>2. CASE f = {}
    BY <1>2, <2>2
  <2>3. CASE f # {}
    <3>1. f = {n + 1}
      BY <2>1, <2>3
    <3> HIDE DEF f
    <3>2. (CHOOSE i \in f : \A j \in f : i <= j) = n + 1
      BY <1>1, <3>1
    <3>3. UpToDone(more) = SubSeq(more, 1, Len(more))
      BY <1>1, <1>2, <2>3, <3>2
    <3> QED BY <1>1, <3>3, SubSeqFull
  <2> QED BY <2>2, <2>3
<1> QED BY <1>3, <1>5, <1>6 DEF more

\* What processLine is given.
LineIn == Line \cup {Piece}

LEMMA LineInIs ==
  ASSUME NEW line \in LineIn
  PROVE  /\ line \in Wire /\ line.kind \in {"delta", "other", "done", "piece"}
         /\ line.kind # "delta" => line.text = << >>
<1>1. << >> \in Text
  BY NoText
<1>2. DeltaText \subseteq Text
  BY DeltasAreText DEF Text
<1>3. CASE line \in [kind : {"delta"}, text : DeltaText]
  BY <1>2, <1>3 DEF Wire, Kind
<1>4. CASE line \in [kind : {"other", "done"}, text : {<< >>}]
  BY <1>1, <1>4 DEF Wire, Kind
<1>5. CASE line = Piece
  BY <1>1, <1>5 DEF Piece, Wire, Kind
<1> QED BY <1>3, <1>4, <1>5 DEF LineIn, Line
--------------------------------------------------------------------------------
(* The transform. *)

Transform == [u : Unredactor, done : BOOLEAN, input : Seq(Wire), client : Seq(Wire)]

Well(s) ==
  /\ s \in Transform
  /\ s.u.held \in Partial \cup {<< >>}
  /\ \A i \in DOMAIN s.input : s.input[i].kind # "flush"
  /\ s.done <=> DoneIn(s.input)
  /\ s.done <=> DoneIn(s.client)

\* Whatever is still to come, the client has of the whole answer all but what
\* the text held back and the text to come will give.
Owed(s) ==
  \A rest \in Text :
    /\ Resolved(TextOf(s.input) \o rest) = TextOf(s.client) \o Resolved(s.u.held \o rest)
    /\ Occurrences(TextOf(s.input) \o rest, Known)
         = s.u.replaced + Occurrences(s.u.held \o rest, Known)
    /\ Occurrences(TextOf(s.input) \o rest, Unknown)
         = s.u.unknown + Occurrences(s.u.held \o rest, Unknown)

\* The client has everything.
Paid(s) ==
  /\ s.u.held = << >>
  /\ TextOf(s.client) = Resolved(TextOf(s.input))
  /\ s.u.replaced = Occurrences(TextOf(s.input), Known)
  /\ s.u.unknown = Occurrences(TextOf(s.input), Unknown)

\* The client has all but what is held back.
Due(s) ==
  /\ TextOf(s.client) \o Resolved(s.u.held) = Resolved(TextOf(s.input))
  /\ s.u.replaced + Occurrences(s.u.held, Known) = Occurrences(TextOf(s.input), Known)
  /\ s.u.unknown + Occurrences(s.u.held, Unknown) = Occurrences(TextOf(s.input), Unknown)

Kept(s, ended) == ~ LateIn(s.input) => IF s.done \/ ended THEN Paid(s) ELSE Owed(s)

AtDone(s) == s.done => TextOf(UpToDone(s.client)) = Resolved(TextOf(UpToDone(s.input)))

LEMMA TextOfIs ==
  ASSUME NEW lines \in Seq(Wire)
  PROVE  TextOf(lines) \in Text
<1>1. [kind |-> "other", text |-> << >>] \in Wire
  BY NoText DEF Wire, Kind
<1> QED BY <1>1, TextOfAppend

LEMMA TransformIs ==
  ASSUME NEW s \in Transform
  PROVE  /\ s.u \in Unredactor /\ s.u.held \in Text /\ s.u.replaced \in Nat /\ s.u.unknown \in Nat
         /\ s.u.out \in Text /\ s.done \in BOOLEAN
         /\ s.input \in Seq(Wire) /\ s.client \in Seq(Wire)
         /\ TextOf(s.input) \in Text /\ TextOf(s.client) \in Text
<1>1. /\ s.u \in Unredactor /\ s.done \in BOOLEAN
      /\ s.input \in Seq(Wire) /\ s.client \in Seq(Wire)
  BY DEF Transform
<1>2. /\ s.u.held \in Text /\ s.u.replaced \in Nat /\ s.u.unknown \in Nat /\ s.u.out \in Text
  BY <1>1 DEF Unredactor, Text
<1> QED BY <1>1, <1>2, TextOfIs

LEMMA DueOf ==
  ASSUME NEW s \in Transform, NEW ended \in BOOLEAN, Kept(s, ended), ~ LateIn(s.input)
  PROVE  Due(s)
<1>1. /\ s.u.held \in Text /\ s.u.replaced \in Nat /\ s.u.unknown \in Nat
      /\ TextOf(s.input) \in Text /\ TextOf(s.client) \in Text
  BY TransformIs
<1>2. CASE s.done \/ ended
  <2>1. Paid(s)
    BY <1>2 DEF Kept
  <2>2. /\ Occurrences(s.u.held, Known) = 0 /\ Occurrences(s.u.held, Unknown) = 0
        /\ Resolved(s.u.held) = << >>
    BY <2>1, OccurrencesNone, ResolvedNone DEF Paid
  <2>3. TextOf(s.client) \o << >> = TextOf(s.client)
    BY <1>1, NoText
  <2>4. s.u.replaced + 0 = s.u.replaced /\ s.u.unknown + 0 = s.u.unknown
    BY <1>1
  <2> QED BY <2>1, <2>2, <2>3, <2>4 DEF Paid, Due
<1>3. CASE ~ (s.done \/ ended)
  <2>1. Owed(s)
    BY <1>3 DEF Kept
  <2>2. TextOf(s.input) \o << >> = TextOf(s.input) /\ s.u.held \o << >> = s.u.held
    BY <1>1, NoText
  <2>3. << >> \in Text
    BY NoText
  <2> QED BY <2>1, <2>2, <2>3 DEF Owed, Due
<1> QED BY <1>2, <1>3

\* A line that is recorded as read.
Read(s, line) == [s EXCEPT !.input = Append(@, line)]

LEMMA ReadIs ==
  ASSUME NEW s \in Transform, NEW line \in LineIn
  PROVE  /\ Read(s, line) \in Transform
         /\ Read(s, line).u = s.u /\ Read(s, line).done = s.done
         /\ Read(s, line).client = s.client
         /\ Read(s, line).input = Append(s.input, line)
         /\ TextOf(Append(s.input, line)) = TextOf(s.input) \o line.text
<1>1. s.input \in Seq(Wire) /\ line \in Wire
  BY TransformIs, LineInIs
<1>2. Append(s.input, line) \in Seq(Wire)
  BY <1>1, Appended
<1>3. /\ Read(s, line) \in Transform
      /\ Read(s, line).u = s.u /\ Read(s, line).done = s.done
      /\ Read(s, line).client = s.client
      /\ Read(s, line).input = Append(s.input, line)
  BY <1>2 DEF Read, Transform
<1> QED BY <1>1, <1>3, TextOfAppend

LEMMA PassIs ==
  ASSUME NEW s \in Transform, NEW line \in Wire
  PROVE  /\ Pass(s, line) \in Transform
         /\ Pass(s, line).u = s.u /\ Pass(s, line).done = s.done
         /\ Pass(s, line).input = s.input
         /\ Pass(s, line).client = Append(s.client, line)
         /\ TextOf(Append(s.client, line)) = TextOf(s.client) \o line.text
<1>1. s.client \in Seq(Wire)
  BY TransformIs
<1>2. Append(s.client, line) \in Seq(Wire)
  BY <1>1, Appended
<1>3. /\ Pass(s, line) \in Transform
      /\ Pass(s, line).u = s.u /\ Pass(s, line).done = s.done
      /\ Pass(s, line).input = s.input
      /\ Pass(s, line).client = Append(s.client, line)
  BY <1>2 DEF Pass, Transform
<1> QED BY <1>1, <1>3, TextOfAppend

LEMMA FlushEventIs ==
  ASSUME NEW s \in Transform
  PROVE  /\ FlushEvent(s) \in Transform
         /\ FlushEvent(s).u = Flush(s.u) /\ FlushEvent(s).done = s.done
         /\ FlushEvent(s).input = s.input
         /\ TextOf(FlushEvent(s).client) = TextOf(s.client) \o Resolved(s.u.held)
         /\ DoneIn(FlushEvent(s).client) <=> DoneIn(s.client)
         /\ DoneIn(s.client) => UpToDone(FlushEvent(s).client) = UpToDone(s.client)
<1> DEFINE u == Flush(s.u)
           event == [kind |-> "flush", text |-> u.out]
           more == Append(s.client, event)
           client == IF u.out = << >> THEN s.client ELSE more
<1>1. /\ s.u \in Unredactor /\ s.client \in Seq(Wire) /\ TextOf(s.client) \in Text
  BY TransformIs
<1>2. u \in Unredactor /\ u.out = Resolved(s.u.held) /\ u.out \in Text
  <2>1. u \in Unredactor /\ u.out = Resolved(s.u.held)
    BY <1>1, FlushIs
  <2> HIDE DEF u
  <2> QED BY <2>1 DEF Unredactor, Text
<1>3. FlushEvent(s) = [s EXCEPT !.u = u, !.client = client]
  BY DEF FlushEvent
<1> HIDE DEF u
<1>4. event \in Wire /\ event.text = u.out /\ event.kind = "flush"
  BY <1>2 DEF Wire, Kind
<1> HIDE DEF event
<1>5. /\ more \in Seq(Wire)
      /\ TextOf(more) = TextOf(s.client) \o u.out
      /\ DoneIn(more) <=> DoneIn(s.client)
      /\ DoneIn(s.client) => UpToDone(more) = UpToDone(s.client)
  <2>1. more \in Seq(Wire)
    BY <1>1, <1>4, Appended
  <2>2. TextOf(more) = TextOf(s.client) \o u.out
    BY <1>1, <1>4, TextOfAppend
  <2>3. DoneIn(more) <=> DoneIn(s.client)
    BY <1>1, <1>4, DoneAppend
  <2>4. DoneIn(s.client) => UpToDone(more) = UpToDone(s.client)
    BY <1>1, <1>4, UpToAppend
  <2> QED BY <2>1, <2>2, <2>3, <2>4
<1> HIDE DEF more
<1>6. /\ client \in Seq(Wire)
      /\ TextOf(client) = TextOf(s.client) \o u.out
      /\ DoneIn(client) <=> DoneIn(s.client)
      /\ DoneIn(s.client) => UpToDone(client) = UpToDone(s.client)
  <2>1. CASE u.out = << >>
    <3>1. client = s.client
      BY <2>1
    <3>2. TextOf(s.client) \o << >> = TextOf(s.client)
      BY <1>1, NoText
    <3> QED BY <1>1, <2>1, <3>1, <3>2
  <2>2. CASE u.out # << >>
    <3>1. client = more
      BY <2>2
    <3> QED BY <1>5, <3>1
  <2> QED BY <2>1, <2>2
<1> HIDE DEF client
<1>7. /\ FlushEvent(s) \in Transform
      /\ FlushEvent(s).u = u /\ FlushEvent(s).done = s.done
      /\ FlushEvent(s).input = s.input /\ FlushEvent(s).client = client
  BY <1>2, <1>3, <1>6 DEF Transform
<1> QED BY <1>2, <1>6, <1>7 DEF u

\* Flushing what is held back pays the client what is due.
LEMMA FlushPays ==
  ASSUME NEW s \in Transform, Due(s)
  PROVE  Paid(FlushEvent(s))
<1>1. /\ FlushEvent(s).u = Flush(s.u) /\ FlushEvent(s).input = s.input
      /\ TextOf(FlushEvent(s).client) = TextOf(s.client) \o Resolved(s.u.held)
  BY FlushEventIs
<1>2. /\ Flush(s.u).held = << >>
      /\ Flush(s.u).replaced = s.u.replaced + Occurrences(s.u.held, Known)
      /\ Flush(s.u).unknown = s.u.unknown + Occurrences(s.u.held, Unknown)
  BY TransformIs, FlushIs
<1> QED BY <1>1, <1>2 DEF Due, Paid
(* processLine, kind by kind. *)

Sound(s) == Well(s) /\ Kept(s, FALSE) /\ AtDone(s)

LEMMA InputAppend ==
  ASSUME NEW s \in Transform, NEW line \in LineIn, \A i \in DOMAIN s.input : s.input[i].kind # "flush"
  PROVE  \A i \in DOMAIN Append(s.input, line) : Append(s.input, line)[i].kind # "flush"
<1>1. line \in Wire /\ line.kind # "flush"
  BY LineInIs
<1>2. /\ \A i \in 1..Len(s.input) : Append(s.input, line)[i] = s.input[i]
      /\ Append(s.input, line)[Len(s.input) + 1] = line
      /\ Len(s.input) \in Nat /\ DOMAIN s.input = 1..Len(s.input)
      /\ DOMAIN Append(s.input, line) = 1..Len(s.input) + 1
  BY <1>1, TransformIs, Appended
<1> QED BY <1>1, <1>2

\* A line that adds no text and is no terminator.
LEMMA PassSound ==
  ASSUME NEW s, Sound(s), NEW line \in LineIn, line.kind \notin {"delta", "done"}
  PROVE  Sound(Pass(Read(s, line), line))
<1> DEFINE r == Read(s, line)
           p == Pass(r, line)
<1>1. s \in Transform /\ line \in Wire /\ line.text = << >>
  BY LineInIs DEF Sound, Well
<1>2. /\ r \in Transform /\ r.u = s.u /\ r.done = s.done /\ r.client = s.client
      /\ r.input = Append(s.input, line)
      /\ TextOf(Append(s.input, line)) = TextOf(s.input) \o line.text
  BY <1>1, ReadIs
<1> HIDE DEF r
<1>3. /\ p \in Transform /\ p.u = r.u /\ p.done = r.done /\ p.input = r.input
      /\ p.client = Append(r.client, line)
      /\ TextOf(Append(r.client, line)) = TextOf(r.client) \o line.text
  BY <1>1, <1>2, PassIs
<1> HIDE DEF p
<1>4. /\ s.input \in Seq(Wire) /\ s.client \in Seq(Wire)
      /\ TextOf(s.input) \in Text /\ TextOf(s.client) \in Text
  BY <1>1, TransformIs
<1>5. TextOf(p.input) = TextOf(s.input) /\ TextOf(p.client) = TextOf(s.client)
  BY <1>1, <1>2, <1>3, <1>4, NoText
<1>6. /\ DoneIn(p.input) <=> DoneIn(s.input)
      /\ DoneIn(p.client) <=> DoneIn(s.client)
      /\ LateIn(s.input) => LateIn(p.input)
  BY <1>1, <1>2, <1>3, <1>4, DoneAppend
<1>7. Well(p)
  BY <1>1, <1>2, <1>3, <1>6, InputAppend DEF Sound, Well
<1>8. Kept(p, FALSE)
  BY <1>2, <1>3, <1>5, <1>6 DEF Sound, Kept, Paid, Owed
<1>9. AtDone(p)
  <2>1. SUFFICES ASSUME p.done PROVE TextOf(UpToDone(p.client)) = Resolved(TextOf(UpToDone(p.input)))
    BY DEF AtDone
  <2>2. s.done /\ DoneIn(s.input) /\ DoneIn(s.client)
    BY <1>2, <1>3, <2>1 DEF Sound, Well
  <2>3. UpToDone(p.input) = UpToDone(s.input) /\ UpToDone(p.client) = UpToDone(s.client)
    BY <1>1, <1>2, <1>3, <1>4, <2>2, UpToAppend
  <2> QED BY <2>2, <2>3 DEF Sound, AtDone
<1> QED BY <1>7, <1>8, <1>9 DEF Sound, p, r

LEMMA DeltaSound ==
  ASSUME NEW s, Sound(s), NEW line \in LineIn, line.kind = "delta"
  PROVE  Sound(Delta(Read(s, line), line))
<1> DEFINE r == Read(s, line)
           v == Push(s.u, line.text)
           out == [line EXCEPT !.text = v.out]
           d == Delta(r, line)
<1>1. s \in Transform /\ line \in Wire /\ line.text \in Text
  BY LineInIs DEF Sound, Well, Wire
<1>2. /\ r \in Transform /\ r.u = s.u /\ r.done = s.done /\ r.client = s.client
      /\ r.input = Append(s.input, line)
      /\ TextOf(Append(s.input, line)) = TextOf(s.input) \o line.text
  BY <1>1, ReadIs
<1>3. d = [r EXCEPT !.u = v, !.client = Append(@, out)]
  BY <1>2 DEF Delta
<1>4. /\ s.u \in Unredactor /\ s.u.held \in Text /\ s.u.replaced \in Nat /\ s.u.unknown \in Nat
      /\ s.input \in Seq(Wire) /\ s.client \in Seq(Wire) /\ s.done \in BOOLEAN
      /\ TextOf(s.input) \in Text /\ TextOf(s.client) \in Text
  BY <1>1, TransformIs
<1>5. v \in Unredactor /\ v.held \in Partial \cup {<< >>} /\ Faithful(s.u, v, line.text)
  BY <1>1, <1>4, PushFaithful DEF Sound, Well
<1> HIDE DEF r, v, d
<1>6. /\ v.out \in Text /\ v.held \in Text
  BY <1>5 DEF Unredactor, Text
<1>7. out \in Wire /\ out.kind = "delta" /\ out.text = v.out
  BY <1>1, <1>6 DEF Wire, Kind
<1> HIDE DEF out
<1>8. /\ Append(s.client, out) \in Seq(Wire)
      /\ TextOf(Append(s.client, out)) = TextOf(s.client) \o v.out
  <2>1. Append(s.client, out) \in Seq(Wire)
    BY <1>4, <1>7, Appended
  <2>2. TextOf(Append(s.client, out)) = TextOf(s.client) \o out.text
    BY <1>4, <1>7, TextOfAppend
  <2> QED BY <1>7, <2>1, <2>2
<1>9. /\ d \in Transform /\ d.u = v /\ d.done = s.done
      /\ d.input = Append(s.input, line) /\ d.client = Append(s.client, out)
  BY <1>2, <1>3, <1>5, <1>8 DEF Transform
<1>10. /\ DoneIn(d.input) <=> DoneIn(s.input)
       /\ DoneIn(d.client) <=> DoneIn(s.client)
       /\ LateIn(s.input) => LateIn(d.input)
       /\ DoneIn(s.input) => LateIn(d.input)
  BY <1>1, <1>4, <1>7, <1>9, DoneAppend
<1>11. Well(d)
  BY <1>1, <1>5, <1>9, <1>10, InputAppend DEF Sound, Well
<1>12. AtDone(d)
  <2>1. SUFFICES ASSUME d.done PROVE TextOf(UpToDone(d.client)) = Resolved(TextOf(UpToDone(d.input)))
    BY DEF AtDone
  <2>2. s.done /\ DoneIn(s.input) /\ DoneIn(s.client)
    BY <1>9, <2>1 DEF Sound, Well
  <2>3. UpToDone(d.input) = UpToDone(s.input) /\ UpToDone(d.client) = UpToDone(s.client)
    BY <1>1, <1>4, <1>7, <1>9, <2>2, UpToAppend
  <2> QED BY <2>2, <2>3 DEF Sound, AtDone
<1>13. Kept(d, FALSE)
  <2>1. SUFFICES ASSUME ~ LateIn(d.input) PROVE Owed(d) /\ ~ d.done
    BY DEF Kept
  <2>2. ~ s.done /\ ~ LateIn(s.input) /\ ~ d.done
    BY <1>9, <1>10, <2>1 DEF Sound, Well
  <2>3. Owed(s)
    BY <2>2 DEF Sound, Kept
  <2>4. ASSUME NEW rest \in Text
        PROVE  /\ Resolved(TextOf(d.input) \o rest) = TextOf(d.client) \o Resolved(d.u.held \o rest)
               /\ Occurrences(TextOf(d.input) \o rest, Known)
                    = d.u.replaced + Occurrences(d.u.held \o rest, Known)
               /\ Occurrences(TextOf(d.input) \o rest, Unknown)
                    = d.u.unknown + Occurrences(d.u.held \o rest, Unknown)
    <3> DEFINE c == line.text
               more == c \o rest
    <3>1. more \in Text /\ v.held \o rest \in Text
      BY <1>1, <1>6, Both
    <3>2. TextOf(d.input) \o rest = TextOf(s.input) \o more
      <4>1. TextOf(s.input) \o (c \o rest) = (TextOf(s.input) \o c) \o rest
        <5>1. c \in Text
          BY <1>1
        <5>2. TextOf(s.input) \in Text
          BY <1>4
        <5> HIDE DEF c, more
        <5>3. TextOf(s.input) \o (c \o rest) = (TextOf(s.input) \o c) \o rest
          BY <2>4, <5>1, <5>2, Regroup, Zenon
        <5> QED BY <5>3
      <4> QED BY <1>2, <1>9, <4>1
    <3>3. /\ Resolved(TextOf(s.input) \o more) = TextOf(s.client) \o Resolved(s.u.held \o more)
          /\ Occurrences(TextOf(s.input) \o more, Known)
               = s.u.replaced + Occurrences(s.u.held \o more, Known)
          /\ Occurrences(TextOf(s.input) \o more, Unknown)
               = s.u.unknown + Occurrences(s.u.held \o more, Unknown)
      BY <2>3, <3>1 DEF Owed
    <3>4. /\ Resolved(s.u.held \o more) = v.out \o Resolved(v.held \o rest)
          /\ s.u.replaced + Occurrences(s.u.held \o more, Known)
               = v.replaced + Occurrences(v.held \o rest, Known)
          /\ s.u.unknown + Occurrences(s.u.held \o more, Unknown)
               = v.unknown + Occurrences(v.held \o rest, Unknown)
      BY <1>5 DEF Faithful
    <3> HIDE DEF more
    <3>5. Resolved(v.held \o rest) \in Text
      BY <3>1, ResolvedText
    <3>6. TextOf(s.client) \o (v.out \o Resolved(v.held \o rest))
            = TextOf(d.client) \o Resolved(v.held \o rest)
      <4>1. TextOf(d.client) = TextOf(s.client) \o v.out
        BY <1>8, <1>9
      <4>2. TextOf(s.client) \o (v.out \o Resolved(v.held \o rest))
              = (TextOf(s.client) \o v.out) \o Resolved(v.held \o rest)
        <5>1. TextOf(s.client) \in Text
          BY <1>4
        <5>2. v.out \in Text
          BY <1>6
        <5> HIDE DEF c
        <5>3. TextOf(s.client) \o (v.out \o Resolved(v.held \o rest))
                = (TextOf(s.client) \o v.out) \o Resolved(v.held \o rest)
          BY <3>5, <5>1, <5>2, Regroup, Zenon
        <5> QED BY <5>3
      <4> QED BY <4>1, <4>2
    <3> QED BY <1>9, <3>2, <3>3, <3>4, <3>6
  <2>5. Owed(d)
    BY <2>4 DEF Owed
  <2> QED BY <2>2, <2>5
<1> QED BY <1>11, <1>12, <1>13 DEF Sound, d, r

LEMMA TerminatorSound ==
  ASSUME NEW s, Sound(s), NEW line \in LineIn, line.kind = "done"
  PROVE  Sound(Terminator(Read(s, line), line))
<1> DEFINE r == Read(s, line)
           q == [r EXCEPT !.done = TRUE]
           f == FlushEvent(q)
           t == Pass(f, line)
<1>1. s \in Transform /\ line \in Wire /\ line.text = << >>
  BY LineInIs DEF Sound, Well
<1>2. /\ r \in Transform /\ r.u = s.u /\ r.done = s.done /\ r.client = s.client
      /\ r.input = Append(s.input, line)
      /\ TextOf(Append(s.input, line)) = TextOf(s.input) \o line.text
  BY <1>1, ReadIs
<1>3. Terminator(r, line) = t
  BY DEF Terminator
<1> HIDE DEF r
<1>4. /\ q \in Transform /\ q.u = s.u /\ q.done = TRUE /\ q.client = s.client
      /\ q.input = Append(s.input, line)
  BY <1>2 DEF Transform
<1> HIDE DEF q
<1>5. /\ f \in Transform /\ f.u = Flush(q.u) /\ f.done = q.done /\ f.input = q.input
      /\ DoneIn(f.client) <=> DoneIn(q.client)
      /\ DoneIn(q.client) => UpToDone(f.client) = UpToDone(q.client)
  BY <1>4, FlushEventIs
<1> HIDE DEF f
<1>6. /\ t \in Transform /\ t.u = f.u /\ t.done = f.done /\ t.input = f.input
      /\ t.client = Append(f.client, line)
      /\ TextOf(Append(f.client, line)) = TextOf(f.client) \o line.text
  BY <1>1, <1>5, PassIs
<1> HIDE DEF t
<1>7. /\ s.input \in Seq(Wire) /\ s.client \in Seq(Wire) /\ s.u \in Unredactor
      /\ TextOf(s.input) \in Text /\ TextOf(s.client) \in Text
  BY <1>1, TransformIs
<1>8. f.client \in Seq(Wire) /\ TextOf(f.client) \in Text
  BY <1>5, TransformIs
<1>9. TextOf(t.input) = TextOf(s.input) /\ TextOf(t.client) = TextOf(f.client)
  BY <1>1, <1>2, <1>4, <1>5, <1>6, <1>7, <1>8, NoText
<1>10. /\ DoneIn(t.input) /\ DoneIn(t.client)
       /\ LateIn(s.input) => LateIn(t.input)
       /\ LateIn(t.input) => DoneIn(s.input)
  BY <1>1, <1>4, <1>5, <1>6, <1>7, <1>8, DoneAppend
<1>11. t.u.held = << >> /\ t.done
  BY <1>4, <1>5, <1>6, <1>7, FlushIs
<1>12. Well(t)
  BY <1>1, <1>4, <1>5, <1>6, <1>10, <1>11, InputAppend DEF Sound, Well
<1>13. ~ LateIn(s.input) => Paid(t)
  <2>1. SUFFICES ASSUME ~ LateIn(s.input) PROVE Paid(t)
    OBVIOUS
  <2>2. Due(s)
    BY <1>1, <2>1, DueOf DEF Sound
  <2>3. TextOf(q.input) = TextOf(s.input)
    BY <1>1, <1>2, <1>4, <1>7, NoText
  <2>4. Due(q)
    BY <1>4, <2>2, <2>3 DEF Due
  <2>5. Paid(f)
    BY <1>4, <2>4, FlushPays DEF f
  <2>6. TextOf(f.input) = TextOf(s.input)
    BY <1>5, <2>3
  <2> QED BY <1>6, <1>9, <2>5, <2>6 DEF Paid
<1>14. Kept(t, FALSE)
  BY <1>10, <1>11, <1>13 DEF Kept
<1>15. AtDone(t)
  <2>1. CASE s.done
    <3>1. DoneIn(s.input) /\ DoneIn(s.client)
      BY <2>1 DEF Sound, Well
    <3>2. UpToDone(t.input) = UpToDone(s.input)
      BY <1>1, <1>4, <1>5, <1>6, <1>7, <3>1, UpToAppend
    <3>3. UpToDone(t.client) = UpToDone(f.client)
      BY <1>1, <1>4, <1>5, <1>6, <1>8, <3>1, UpToAppend
    <3>4. UpToDone(f.client) = UpToDone(s.client)
      BY <1>4, <1>5, <3>1
    <3> QED BY <2>1, <3>2, <3>3, <3>4 DEF Sound, AtDone
  <2>2. CASE ~ s.done
    <3>1. ~ DoneIn(s.input) /\ ~ DoneIn(s.client)
      BY <2>2 DEF Sound, Well
    <3>2. UpToDone(t.input) = t.input
      BY <1>1, <1>4, <1>5, <1>6, <1>7, <3>1, UpToAppend
    <3>3. UpToDone(t.client) = t.client
      BY <1>1, <1>4, <1>5, <1>6, <1>8, <3>1, UpToAppend
    <3>4. ~ LateIn(s.input)
      BY <1>10, <3>1
    <3>5. TextOf(t.client) = Resolved(TextOf(t.input))
      BY <1>13, <3>4 DEF Paid
    <3> QED BY <3>2, <3>3, <3>5 DEF AtDone
  <2> QED BY <2>1, <2>2
<1> QED BY <1>3, <1>12, <1>14, <1>15 DEF Sound, r

LEMMA ProcessSound ==
  ASSUME NEW s, Sound(s), NEW line \in LineIn
  PROVE  /\ Sound(ProcessLine(s, line))
         /\ ProcessLine(s, line).input = Append(s.input, line)
<1> DEFINE r == Read(s, line)
<1>1. s \in Transform /\ line \in Wire
  BY LineInIs DEF Sound, Well
<1>2. r \in Transform /\ r.input = Append(s.input, line)
  BY <1>1, ReadIs
<1>3. ProcessLine(s, line) = CASE line.kind = "delta" -> Delta(r, line)
                               [] line.kind = "done" -> Terminator(r, line)
                               [] OTHER -> Pass(r, line)
  BY DEF ProcessLine, Read
<1>4. CASE line.kind = "delta"
  <2>1. ProcessLine(s, line) = Delta(r, line)
    BY <1>3, <1>4
  <2>2. Delta(r, line).input = r.input
    BY <1>2 DEF Delta, Transform
  <2> QED BY <1>2, <1>4, <2>1, <2>2, DeltaSound
<1>5. CASE line.kind = "done"
  <2>1. ProcessLine(s, line) = Terminator(r, line)
    BY <1>3, <1>5
  <2> DEFINE q == [r EXCEPT !.done = TRUE]
  <2>2. q \in Transform /\ q.input = r.input
    BY <1>2 DEF Transform
  <2>3. Terminator(r, line) = Pass(FlushEvent(q), line)
    BY DEF Terminator
  <2> HIDE DEF q
  <2>4. FlushEvent(q) \in Transform /\ FlushEvent(q).input = r.input
    BY <2>2, FlushEventIs
  <2>5. Pass(FlushEvent(q), line).input = r.input
    BY <1>1, <2>4, PassIs
  <2> QED BY <1>2, <1>5, <2>1, <2>3, <2>5, TerminatorSound
<1>6. CASE line.kind \notin {"delta", "done"}
  <2>1. ProcessLine(s, line) = Pass(r, line)
    BY <1>3, <1>6
  <2>2. Pass(r, line).input = r.input
    BY <1>1, <1>2, PassIs
  <2> QED BY <1>2, <1>6, <2>1, <2>2, PassSound
<1> QED BY <1>4, <1>5, <1>6

\* At the end of the stream everything is paid.
LEMMA EndSound ==
  ASSUME NEW s, Sound(s), NEW rest \in LineIn \cup {NoLine}
  PROVE  /\ Well(End(s, rest)) /\ Kept(End(s, rest), TRUE) /\ AtDone(End(s, rest))
         /\ End(s, rest).input = IF rest = NoLine THEN s.input ELSE Append(s.input, rest)
<1> DEFINE last == IF rest = NoLine THEN s ELSE ProcessLine(s, rest)
<1>1. Sound(last) /\ last.input = IF rest = NoLine THEN s.input ELSE Append(s.input, rest)
  <2>1. CASE rest = NoLine
    BY <2>1
  <2>2. CASE rest # NoLine
    <3>1. rest \in LineIn
      BY <2>2
    <3> QED BY <2>2, <3>1, ProcessSound
  <2> QED BY <2>1, <2>2
<1>2. End(s, rest) = IF last.done THEN last ELSE FlushEvent(last)
  BY DEF End
<1> HIDE DEF last
<1>3. last \in Transform /\ last.u \in Unredactor
  BY <1>1, TransformIs DEF Sound, Well
<1>4. CASE last.done
  <2>1. Kept(last, TRUE)
    BY <1>1, <1>4 DEF Sound, Kept
  <2> QED BY <1>1, <1>2, <1>4, <2>1 DEF Sound
<1>5. CASE ~ last.done
  <2> DEFINE f == FlushEvent(last)
  <2>1. /\ f \in Transform /\ f.u = Flush(last.u) /\ f.done = last.done /\ f.input = last.input
        /\ DoneIn(f.client) <=> DoneIn(last.client)
    BY <1>3, FlushEventIs
  <2>2. ~ LateIn(last.input) => Paid(f)
    <3>1. SUFFICES ASSUME ~ LateIn(last.input) PROVE Paid(f)
      OBVIOUS
    <3>2. Due(last)
      BY <1>1, <1>3, <3>1, DueOf DEF Sound
    <3> QED BY <1>3, <3>2, FlushPays
  <2>3. f.u.held = << >>
    BY <1>3, <2>1, FlushIs
  <2>4. End(s, rest) = f
    BY <1>2, <1>5
  <2> HIDE DEF f
  <2>5. Well(f)
    BY <1>1, <2>1, <2>3 DEF Sound, Well
  <2>6. Kept(f, TRUE)
    BY <2>1, <2>2 DEF Kept
  <2>7. AtDone(f)
    BY <1>5, <2>1 DEF AtDone
  <2> QED BY <1>1, <2>1, <2>4, <2>5, <2>6, <2>7
<1> QED BY <1>4, <1>5
--------------------------------------------------------------------------------
(* The stream. *)

BrokenIn(lines) == \E i \in DOMAIN lines : lines[i].kind = "piece" /\ i # Len(lines)

\* The raw stream keeps what the transform was given, unless a line was broken:
\* of a line that was cut when it was whole, the transform is one line ahead;
\* of one that was not, it was last given a piece.
Raw ==
  /\ buf = NoLine => ~ whole /\ ~ cut
  /\ closed => buf = NoLine
  /\ cut /\ ~ whole => sse.input # << >> /\ sse.input[Len(sse.input)].kind = "piece"
  /\ ~ BrokenIn(sse.input) =>
       TextOf(sse.input) = IF cut /\ whole THEN stored \o buf.text ELSE stored

Typed ==
  /\ sent \in 0..MaxLines
  /\ buf \in Line \cup {NoLine}
  /\ whole \in BOOLEAN /\ cut \in BOOLEAN /\ closed \in BOOLEAN
  /\ stored \in Text

\* The inductive invariant.
Inv ==
  /\ Typed
  /\ Well(sse) /\ Kept(sse, closed) /\ AtDone(sse)
  /\ Raw

LEMMA BrokenAppend ==
  ASSUME NEW lines \in Seq(Wire), NEW line \in Wire
  PROVE  /\ BrokenIn(lines) => BrokenIn(Append(lines, line))
         /\ lines # << >> /\ lines[Len(lines)].kind = "piece" => BrokenIn(Append(lines, line))
<1> DEFINE more == Append(lines, line)
           n == Len(lines)
<1>1. /\ \A i \in 1..n : more[i] = lines[i]
      /\ Len(more) = n + 1 /\ n \in Nat
      /\ DOMAIN lines = 1..n /\ DOMAIN more = 1..n + 1
  BY Appended
<1>2. lines # << >> => n # 0
  BY EmptySeq
<1>3. BrokenIn(lines) <=> \E i \in DOMAIN lines : lines[i].kind = "piece" /\ i # n
  BY DEF BrokenIn
<1> HIDE DEF more, n
<1>4. ASSUME NEW i \in 1..n, lines[i].kind = "piece" PROVE BrokenIn(more)
  <2>1. i \in 1..n + 1 /\ i # n + 1 /\ more[i].kind = "piece"
    BY <1>1, <1>4
  <2> QED BY <1>1, <2>1 DEF BrokenIn
<1>5. lines # << >> => n \in 1..n
  BY <1>1, <1>2
<1> QED BY <1>1, <1>3, <1>4, <1>5 DEF more, n

LEMMA InitInv == Init => Inv
<1> SUFFICES ASSUME Init PROVE Inv
  OBVIOUS
<1>1. << >> \in Text /\ << >> \o << >> = << >>
  BY NoText
<1>2. Fresh \in Unredactor /\ Fresh.held = << >> /\ Fresh.replaced = 0 /\ Fresh.unknown = 0
  BY <1>1 DEF Fresh, Unredactor, Text
<1>3. /\ sse \in Transform /\ sse.u = Fresh /\ sse.done = FALSE
      /\ sse.input = << >> /\ sse.client = << >>
  <2>1. << >> \in Seq(Wire)
    BY EmptySeq
  <2> QED BY <1>2, <2>1 DEF Init, Transform
<1>4. Typed
  <2>1. sent = 0 /\ buf = NoLine /\ whole = FALSE /\ cut = FALSE /\ closed = FALSE /\ stored = << >>
    BY DEF Init
  <2>2. 0 \in 0..MaxLines
    BY MaxLinesNat
  <2> QED BY <1>1, <2>1, <2>2 DEF Typed
<1>5. ~ DoneIn(<< >>)
  BY DEF DoneIn
<1>6. Well(sse)
  BY <1>2, <1>3, <1>5 DEF Well
<1>7. Owed(sse)
  <2>1. SUFFICES ASSUME NEW rest \in Text
        PROVE  /\ Resolved(<< >> \o rest) = << >> \o Resolved(<< >> \o rest)
               /\ Occurrences(<< >> \o rest, Known) = 0 + Occurrences(<< >> \o rest, Known)
               /\ Occurrences(<< >> \o rest, Unknown) = 0 + Occurrences(<< >> \o rest, Unknown)
    BY <1>2, <1>3, TextOfNone DEF Owed
  <2>2. << >> \o rest = rest
    BY NoText
  <2>3. << >> \o Resolved(rest) = Resolved(rest)
    BY ResolvedText, NoText
  <2>4. 0 + Occurrences(rest, Known) = Occurrences(rest, Known)
    BY OccurrencesNat
  <2>5. 0 + Occurrences(rest, Unknown) = Occurrences(rest, Unknown)
    BY OccurrencesNat
  <2> QED BY <2>2, <2>3, <2>4, <2>5
<1>8. closed = FALSE /\ whole = FALSE /\ cut = FALSE /\ stored = << >>  /\ buf = NoLine
  BY DEF Init
<1>9. Kept(sse, closed) /\ AtDone(sse)
  BY <1>3, <1>7, <1>8 DEF Kept, AtDone
<1>10. Raw
  BY <1>3, <1>8, TextOfNone DEF Raw
<1> QED BY <1>4, <1>6, <1>9, <1>10 DEF Inv

LEMMA LineText ==
  ASSUME NEW line \in LineIn
  PROVE  line.text \in Text
BY LineInIs DEF Wire

\* What the transform is given extends what it was given.
LEMMA Given ==
  ASSUME NEW s, Well(s), NEW line \in LineIn
  PROVE  /\ TextOf(Append(s.input, line)) = TextOf(s.input) \o line.text
         /\ line = Piece => TextOf(Append(s.input, line)) = TextOf(s.input)
         /\ Append(s.input, line) # << >>
         /\ Append(s.input, line)[Len(Append(s.input, line))] = line
         /\ BrokenIn(s.input) => BrokenIn(Append(s.input, line))
         /\ s.input # << >> /\ s.input[Len(s.input)].kind = "piece" =>
              BrokenIn(Append(s.input, line))
<1>1. s.input \in Seq(Wire) /\ TextOf(s.input) \in Text /\ line \in Wire
  BY TransformIs, LineInIs DEF Well
<1>2. TextOf(Append(s.input, line)) = TextOf(s.input) \o line.text
  BY <1>1, TextOfAppend
<1>3. line = Piece => TextOf(Append(s.input, line)) = TextOf(s.input)
  <2>1. SUFFICES ASSUME line = Piece PROVE TextOf(s.input) \o line.text = TextOf(s.input)
    BY <1>2
  <2>2. line.text = << >>
    BY <2>1 DEF Piece
  <2> QED BY <1>1, <2>2, NoText
<1>4. /\ Append(s.input, line) # << >>
      /\ Append(s.input, line)[Len(Append(s.input, line))] = line
  <2>1. /\ Append(s.input, line) # << >>
        /\ Len(Append(s.input, line)) = Len(s.input) + 1
        /\ Append(s.input, line)[Len(s.input) + 1] = line
    BY <1>1, AppendProperties
  <2> QED BY <2>1
<1>5. /\ BrokenIn(s.input) => BrokenIn(Append(s.input, line))
      /\ s.input # << >> /\ s.input[Len(s.input)].kind = "piece" =>
           BrokenIn(Append(s.input, line))
  BY <1>1, BrokenAppend
<1> QED BY <1>2, <1>3, <1>4, <1>5

LEMMA StepInv == Inv /\ [Next]_vars => Inv'
<1> SUFFICES ASSUME Inv, [Next]_vars PROVE Inv'
  OBVIOUS
<1> USE DEF Inv
<1>1. CASE UNCHANGED vars
  BY <1>1 DEF vars, Typed, Well, Kept, AtDone, Paid, Owed, Raw
<1>0. Piece \in LineIn /\ Piece # NoLine /\ Line \subseteq LineIn /\ Piece.kind = "piece"
  BY DEF LineIn, Piece, NoLine
<1>2. ASSUME NEW line \in Line, Begin(line) PROVE Inv'
  <2>1. /\ ~ closed /\ buf = NoLine /\ buf' = line /\ sent < MaxLines /\ sent' = sent + 1
        /\ whole' \in BOOLEAN
        /\ cut' = cut /\ sse' = sse /\ stored' = stored /\ closed' = closed
    BY <1>2 DEF Begin
  <2>2. Typed'
    BY <2>1, MaxLinesNat DEF Typed
  <2>3. Well(sse') /\ Kept(sse', closed') /\ AtDone(sse')
    BY <2>1
  <2>4. ~ cut' /\ ~ closed'
    BY <2>1 DEF Raw
  <2>5. line # NoLine
    BY DEF Line, NoLine
  <2>6. Raw'
    BY <2>1, <2>4, <2>5 DEF Raw
  <2> QED BY <2>2, <2>3, <2>6
<1>3. CASE Newline
  <2> DEFINE line == IF cut THEN Piece ELSE buf
  <2>1. /\ ~ closed /\ buf # NoLine /\ sse' = ProcessLine(sse, line)
        /\ stored' = stored \o buf.text /\ buf' = NoLine /\ whole' = FALSE /\ cut' = FALSE
        /\ sent' = sent /\ closed' = closed
    BY <1>3 DEF Newline, Extracted
  <2>2. buf \in LineIn /\ line \in LineIn
    BY <1>0, <2>1 DEF Typed
  <2>3. Sound(sse)
    BY <2>1 DEF Sound, Typed
  <2> HIDE DEF line
  <2>4. Sound(sse') /\ sse'.input = Append(sse.input, line)
    BY <2>1, <2>2, <2>3, ProcessSound
  <2>5. stored' \in Text
    BY <2>1, <2>2, LineText, Both DEF Typed
  <2>6. Typed'
    BY <2>1, <2>5 DEF Typed
  <2>7. Well(sse') /\ Kept(sse', closed') /\ AtDone(sse')
    BY <2>1, <2>4 DEF Sound, Typed
  <2>8. ~ BrokenIn(sse'.input) => TextOf(sse'.input) = stored'
    <3>1. SUFFICES ASSUME ~ BrokenIn(sse'.input) PROVE TextOf(sse'.input) = stored'
      OBVIOUS
    <3>2. ~ BrokenIn(sse.input)
      BY <2>2, <2>4, <3>1, Given
    <3>3. CASE cut
      <4>1. line = Piece
        BY <3>3 DEF line
      <4>2. whole
        BY <1>0, <2>2, <2>4, <3>1, <3>3, Given DEF Raw
      <4>3. TextOf(sse.input) = stored \o buf.text
        BY <3>2, <3>3, <4>2 DEF Raw
      <4>4. TextOf(Append(sse.input, line)) = TextOf(sse.input)
        BY <2>2, <4>1, Given
      <4> QED BY <2>1, <2>4, <4>3, <4>4
    <3>4. CASE ~ cut
      <4>1. line = buf
        BY <3>4 DEF line
      <4>2. TextOf(sse.input) = stored
        BY <3>2, <3>4 DEF Raw
      <4>3. TextOf(Append(sse.input, line)) = TextOf(sse.input) \o line.text
        BY <2>2, Given
      <4> QED BY <2>1, <2>4, <4>1, <4>2, <4>3
    <3> QED BY <3>3, <3>4
  <2>9. Raw'
    BY <2>1, <2>8 DEF Raw
  <2> QED BY <2>6, <2>7, <2>9
<1>4. CASE Overflow
  <2>1. /\ ~ closed /\ buf # NoLine /\ ~ cut /\ cut' = TRUE
        /\ sent' = sent /\ buf' = buf /\ whole' = whole /\ stored' = stored /\ closed' = closed
    BY <1>4 DEF Overflow
  <2>2. PICK line \in Buffered : sse' = ProcessLine(sse, line)
    BY <1>4 DEF Overflow
  <2>3. line = IF whole THEN buf ELSE Piece
    BY <2>1, <2>2 DEF Buffered
  <2>4. line \in LineIn
    BY <1>0, <2>1, <2>3 DEF Typed
  <2>5. Sound(sse)
    BY <2>1 DEF Sound, Typed
  <2>6. Sound(sse') /\ sse'.input = Append(sse.input, line)
    BY <2>2, <2>4, <2>5, ProcessSound
  <2>7. Typed'
    BY <2>1 DEF Typed
  <2>8. Well(sse') /\ Kept(sse', closed') /\ AtDone(sse')
    BY <2>1, <2>6 DEF Sound, Typed
  <2>9. ~ whole => sse'.input # << >> /\ sse'.input[Len(sse'.input)].kind = "piece"
    BY <1>0, <2>3, <2>4, <2>6, Given
  <2>10. ~ BrokenIn(sse'.input) =>
           TextOf(sse'.input) = IF whole THEN stored \o buf.text ELSE stored
    <3>1. SUFFICES ASSUME ~ BrokenIn(sse'.input)
          PROVE  TextOf(sse'.input) = IF whole THEN stored \o buf.text ELSE stored
      OBVIOUS
    <3>2. ~ BrokenIn(sse.input)
      BY <2>4, <2>6, <3>1, Given
    <3>3. TextOf(sse.input) = stored
      BY <2>1, <3>2 DEF Raw
    <3>4. /\ TextOf(Append(sse.input, line)) = TextOf(sse.input) \o line.text
          /\ line = Piece => TextOf(Append(sse.input, line)) = TextOf(sse.input)
      BY <2>4, Given
    <3>5. CASE whole
      BY <2>3, <2>6, <3>3, <3>4, <3>5
    <3>6. CASE ~ whole
      BY <2>3, <2>6, <3>3, <3>4, <3>6
    <3> QED BY <3>5, <3>6
  <2>11. Raw'
    BY <2>1, <2>9, <2>10 DEF Raw
  <2> QED BY <2>7, <2>8, <2>11
<1>5. CASE Close
  <2>1. /\ ~ closed /\ closed' = TRUE /\ buf' = NoLine /\ whole' = FALSE /\ cut' = FALSE
        /\ stored' = (IF whole THEN stored \o buf.text ELSE stored) /\ sent' = sent
    BY <1>5 DEF Close, Extracted
  <2>2. PICK rest \in Buffered : sse' = End(sse, rest)
    BY <1>5 DEF Close
  <2>3. rest \in IF buf = NoLine THEN {NoLine} ELSE IF cut THEN {NoLine, Piece}
                  ELSE IF whole THEN {buf} ELSE {Piece}
    BY <2>2 DEF Buffered
  <2>4. rest \in LineIn \cup {NoLine}
    BY <1>0, <2>3 DEF Typed
  <2>5. Sound(sse)
    BY <2>1 DEF Sound, Typed
  <2>6. /\ Well(sse') /\ Kept(sse', TRUE) /\ AtDone(sse')
        /\ sse'.input = IF rest = NoLine THEN sse.input ELSE Append(sse.input, rest)
    BY <2>2, <2>4, <2>5, EndSound
  <2>7. whole => buf \in LineIn
    BY <1>0 DEF Raw, Typed
  <2>8. stored' \in Text
    <3>1. CASE whole
      BY <2>1, <2>7, <3>1, LineText, Both DEF Typed
    <3>2. CASE ~ whole
      BY <2>1, <3>2 DEF Typed
    <3> QED BY <3>1, <3>2
  <2>9. Typed'
    BY <2>1, <2>8 DEF Typed
  <2>10. ~ BrokenIn(sse'.input) => TextOf(sse'.input) = stored'
    <3>1. SUFFICES ASSUME ~ BrokenIn(sse'.input) PROVE TextOf(sse'.input) = stored'
      OBVIOUS
    <3>2. CASE rest = NoLine
      <4>1. sse'.input = sse.input
        BY <2>6, <3>2
      <4>2. buf = NoLine \/ cut
        BY <1>0, <2>3, <3>2
      <4>3. TextOf(sse.input) = IF cut /\ whole THEN stored \o buf.text ELSE stored
        BY <3>1, <4>1 DEF Raw
      <4>4. whole => cut
        BY <4>2 DEF Raw
      <4> QED BY <2>1, <4>1, <4>3, <4>4
    <3>3. CASE rest # NoLine
      <4>1. rest \in LineIn /\ sse'.input = Append(sse.input, rest)
        BY <2>4, <2>6, <3>3
      <4>2. ~ BrokenIn(sse.input)
        BY <3>1, <4>1, Given
      <4>3. TextOf(sse.input) = IF cut /\ whole THEN stored \o buf.text ELSE stored
        BY <4>2 DEF Raw
      <4>4. buf # NoLine
        BY <2>3, <3>3
      <4>5. CASE cut
        <5>1. rest = Piece
          BY <2>3, <3>3, <4>4, <4>5
        <5>2. whole
          BY <3>1, <4>1, <4>5, Given DEF Raw
        <5>3. TextOf(Append(sse.input, rest)) = TextOf(sse.input)
          BY <4>1, <5>1, Given
        <5> QED BY <2>1, <4>1, <4>3, <4>5, <5>2, <5>3
      <4>6. CASE ~ cut /\ whole
        <5>1. rest = buf
          BY <2>3, <4>4, <4>6
        <5>2. TextOf(Append(sse.input, rest)) = TextOf(sse.input) \o rest.text
          BY <4>1, Given
        <5> QED BY <2>1, <4>1, <4>3, <4>6, <5>1, <5>2
      <4>7. CASE ~ cut /\ ~ whole
        <5>1. rest = Piece
          BY <2>3, <4>4, <4>7
        <5>2. TextOf(Append(sse.input, rest)) = TextOf(sse.input)
          BY <4>1, <5>1, Given
        <5> QED BY <2>1, <4>1, <4>3, <4>7, <5>2
      <4> QED BY <4>5, <4>6, <4>7
    <3> QED BY <3>2, <3>3
  <2>11. Raw'
    BY <2>1, <2>10 DEF Raw
  <2> QED BY <2>1, <2>6, <2>9, <2>11
<1> QED BY <1>1, <1>2, <1>3, <1>4, <1>5 DEF Next

LEMMA Invariance == Spec => []Inv
<1> QED BY InitInv, StepInv, PTL DEF Spec

--------------------------------------------------------------------------------
(* The properties. *)

LEMMA LateIs == Late <=> LateIn(sse.input)
  BY DEF Late, LateIn

LEMMA BrokenIs == Broken <=> BrokenIn(sse.input)
  BY DEF Broken, BrokenIn

\* Every variable has its type, and the un-redactor holds back no more than an
\* unfinished placeholder, however the provider cuts its text.
THEOREM TypeCorrect == Spec => []TypeOK
<1>1. Inv => TypeOK
  <2> SUFFICES ASSUME Inv PROVE TypeOK
    OBVIOUS
  <2>1. /\ sse.u \in Unredactor /\ sse.done \in BOOLEAN
        /\ sse.input \in Seq(Wire) /\ sse.client \in Seq(Wire)
    BY TransformIs DEF Inv, Well
  <2>2. \A i \in DOMAIN sse.input : sse.input[i].kind \in {"delta", "other", "done", "piece"}
    <3>1. ASSUME NEW i \in DOMAIN sse.input PROVE sse.input[i].kind \in {"delta", "other", "done", "piece"}
      <4>1. sse.input[i] \in Wire
        BY <2>1
      <4>2. sse.input[i].kind # "flush"
        BY DEF Inv, Well
      <4> QED BY <4>1, <4>2 DEF Wire, Kind
    <3> QED BY <3>1
  <2>3. \A i \in DOMAIN sse.client : sse.client[i].text \in Seq(Char)
    <3>1. ASSUME NEW i \in DOMAIN sse.client PROVE sse.client[i].text \in Seq(Char)
      <4>1. sse.client[i] \in Wire
        BY <2>1
      <4> QED BY <4>1 DEF Wire, Text
    <3> QED BY <3>1
  <2> QED BY <2>1, <2>2, <2>3 DEF Inv, Typed, Well, TypeOK, Text
<1> QED BY <1>1, Invariance, PTL

\* What the client has and what is held back are the un-redaction of what the
\* provider has sent: nothing is let out too early, lost, doubled or resolved
\* twice.
THEOREM Final == Spec => []EmittedIsFinal
<1>1. Inv => EmittedIsFinal
  <2> SUFFICES ASSUME Inv, ~ Late
      PROVE  TextOf(sse.client) \o Resolved(sse.u.held) = Resolved(TextOf(sse.input))
    BY DEF EmittedIsFinal
  <2>1. sse \in Transform /\ closed \in BOOLEAN /\ Kept(sse, closed) /\ ~ LateIn(sse.input)
    BY LateIs DEF Inv, Well, Typed
  <2>2. Due(sse)
    BY <2>1, DueOf
  <2> QED BY <2>2 DEF Due
<1> QED BY <1>1, Invariance, PTL

\* A client that stops at the terminator has the whole answer.
THEOREM WholeAnswer == Spec => []CompleteAtDone
<1>1. Inv => CompleteAtDone
  BY DEF Inv, AtDone, CompleteAtDone
<1> QED BY <1>1, Invariance, PTL

\* When the stream has ended the client has what un-redacting the whole body
\* gives, and what un-redacting the stored reply gives, unless a line over the
\* limit was broken up.
THEOREM Reloaded == Spec => []StreamedAsReloaded
<1>1. Inv => StreamedAsReloaded
  <2> SUFFICES ASSUME Inv, closed, ~ Late
      PROVE  /\ TextOf(sse.client) = UnredactBody(TextOf(sse.input))
             /\ ~ Broken => TextOf(sse.client) = UnredactBody(stored)
    BY DEF StreamedAsReloaded
  <2>1. Paid(sse)
    BY LateIs DEF Inv, Kept
  <2>2. TextOf(sse.input) \in Text /\ stored \in Text
    BY TransformIs DEF Inv, Well, Typed
  <2>3. ~ Broken => TextOf(sse.input) = stored
    BY BrokenIs DEF Inv, Raw
  <2>4. UnredactBody(TextOf(sse.input)) = Resolved(TextOf(sse.input))
    BY <2>2, BodyIs
  <2> QED BY <2>1, <2>3, <2>4 DEF Paid
<1> QED BY <1>1, Invariance, PTL

\* Each placeholder of the answer is counted once, as replaced or as unknown.
THEOREM Counted == Spec => []CountedOnce
<1>1. Inv => CountedOnce
  <2> SUFFICES ASSUME Inv, closed, ~ Late
      PROVE  /\ sse.u.replaced = Occurrences(TextOf(sse.input), DOMAIN ValueOf)
             /\ sse.u.unknown = Occurrences(TextOf(sse.input), Complete \ DOMAIN ValueOf)
    BY DEF CountedOnce
  <2>1. Paid(sse)
    BY LateIs DEF Inv, Kept
  <2> QED BY <2>1 DEF Paid, Known, Unknown
<1> QED BY <1>1, Invariance, PTL
================================================================================
