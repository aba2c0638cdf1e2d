---------------------------- MODULE StreamUnredactor ----------------------------
(***************************************************************************)
(* class StreamUnredactor: placeholders are replaced by their values in a  *)
(* text that arrives in chunks.  An un-redactor is a record: the text held *)
(* back, the counters, and what its last call returned.                    *)
(***************************************************************************)
EXTENDS PlaceholderGrammar

CONSTANT ValueOf   \* the resolver: known placeholder -> its value

ASSUME ResolverTyped == /\ DOMAIN ValueOf \subseteq Complete
                        /\ \A p \in DOMAIN ValueOf : ValueOf[p] \in Seq(Char)

Unredactor == [held : Seq(Char), replaced : Nat, unknown : Nat, out : Seq(Char)]

Fresh == [held |-> << >>, replaced |-> 0, unknown |-> 0, out |-> << >>]

\* The value of a known placeholder; an unknown one passes through.
Resolve(p) == IF p \in DOMAIN ValueOf THEN ValueOf[p] ELSE p

\* text.replace(COMPLETE_PLACEHOLDER, resolve): left to right, and the values
\* put in are not scanned again.
Resolved(text) ==
  LET from[i \in 1..Len(text) + 1] ==
        IF i > Len(text) THEN << >>
        ELSE IF At(text, i) = {} THEN <<text[i]>> \o from[i + 1]
        ELSE LET p == CHOOSE q \in At(text, i) : TRUE IN Resolve(p) \o from[i + Len(p)]
  IN from[1]

\* Where the held-back tails of text may start.
TailStarts(text) ==
  {i \in DOMAIN text : CouldBePlaceholderPrefix(SubSeq(text, i, Len(text)))}

\* Fault: the shortest tail that could become a placeholder is held back.
ShortestTail(text) ==
  IF TailStarts(text) = {} THEN Len(text)
  ELSE (CHOOSE i \in TailStarts(text) : \A j \in TailStarts(text) : j <= i) - 1

\* safeBoundary: all characters before the longest such tail.
SafeBoundary(text) ==
  IF TailStarts(text) = {} THEN Len(text)
  ELSE (CHOOSE i \in TailStarts(text) : \A j \in TailStarts(text) : i <= j) - 1

\* Fault: a repeated unknown placeholder is not counted again.
EmitOnce(u, text, held) ==
  [held |-> held,
   replaced |-> u.replaced + Occurrences(text, DOMAIN ValueOf),
   unknown |-> IF Occurrences(text, Complete \ DOMAIN ValueOf) = 0 THEN u.unknown ELSE 1,
   out |-> Resolved(text)]

\* resolveComplete: text leaves, its placeholders resolved and counted.
Emit(u, text, held) ==
  [held |-> held,
   replaced |-> u.replaced + Occurrences(text, DOMAIN ValueOf),
   unknown |-> u.unknown + Occurrences(text, Complete \ DOMAIN ValueOf),
   out |-> Resolved(text)]

Push(u, chunk) ==
  LET text == u.held \o chunk
      boundary == SafeBoundary(text)
  IN  IF chunk = << >> THEN [u EXCEPT !.out = << >>]
      ELSE Emit(u, SubSeq(text, 1, boundary), SubSeq(text, boundary + 1, Len(text)))

Flush(u) == Emit(u, u.held, << >>)

\* unredactBody: the whole text at once.
UnredactBody(text) == LET u == Push(Fresh, text) IN u.out \o Flush(u).out
================================================================================
