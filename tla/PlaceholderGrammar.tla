--------------------------- MODULE PlaceholderGrammar ---------------------------
(***************************************************************************)
(* The closed grammar [[TYPE_N]] that redactor, gateway and un-redactor    *)
(* share.  Text is a sequence of characters; with the finite sets of types *)
(* and digits of an instance, the language is a finite set.                *)
(***************************************************************************)
EXTENDS Naturals, Sequences, FiniteSets, SequencesExt

CONSTANTS Char,       \* the characters of texts
          TypeName,   \* ENTITY_TYPES, each a sequence of characters
          Digit,      \* the digits
          MaxDigits   \* an index has 1 to MaxDigits digits

ASSUME CharsEnough == {"[", "]", "_"} \cup Digit \subseteq Char
ASSUME TypeNamesPlain ==
  /\ TypeName \subseteq Seq(Char)
  /\ \A t \in TypeName : t # << >> /\ \A i \in DOMAIN t : t[i] \notin Digit \cup {"[", "]", "_"}
ASSUME DigitsPlain == Digit \cap {"[", "]", "_"} = {}
ASSUME MaxDigitsPositive == MaxDigits \in Nat \ {0}

Opening(t) == <<"[", "[">> \o t
Digits == BoundedSeq(Digit, MaxDigits)

\* The complete placeholders.
Complete == {Opening(t) \o <<"_">> \o n \o <<"]", "]">> : t \in TypeName, n \in Digits \ {<< >>}}

\* What may have arrived of "[[TYPE" while the type is still incomplete.
Openings == (UNION {Prefixes(Opening(t)) : t \in TypeName}) \ {<< >>}

\* The texts that couldBePlaceholderPrefix accepts: a start of "[[TYPE", then
\* "_" with up to MaxDigits digits, perhaps none, and at most one "]".
Partial ==
  Openings \cup
    {Opening(t) \o <<"_">> \o n \o close :
       t \in TypeName, n \in Digits, close \in {<< >>, <<"]">>}}

\* Fault: a complete placeholder still counts as a prefix.
PrefixOrComplete(s) == s \in Partial \cup Complete

CouldBePlaceholderPrefix(s) == s \in Partial

\* The complete placeholder that starts at position i of s, if there is one.
\* (At most one: no placeholder is a proper prefix of another.)
At(s, i) == {p \in Complete : Len(p) <= Len(s) - i + 1 /\ SubSeq(s, i, i + Len(p) - 1) = p}

\* How many placeholders s contains; they cannot overlap.
Occurrences(s, which) == Cardinality({i \in DOMAIN s : At(s, i) \cap which # {}})
================================================================================
