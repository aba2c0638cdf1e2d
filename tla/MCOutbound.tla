------------------------------- MODULE MCOutbound -------------------------------
(***************************************************************************)
(* Small instances of Outbound for TLC.                                    *)
(***************************************************************************)
EXTENDS Outbound, TLC

\* fi_nk is fink with a ligature, which casefold splits and toLowerCase does not.
CONSTANTS anna, ANNA, bert, acme, smile, fink, fi_nk

Folded == [w \in {anna, ANNA, bert, acme, smile, fink, fi_nk} |->
             IF w = ANNA THEN anna ELSE IF w = fi_nk THEN fink ELSE w]
Lowered == [Folded EXCEPT ![fi_nk] = fi_nk]

P(from, to, score) == [start |-> from, end |-> to, type |-> "PERSON", score |-> score, action |-> NoAction]
O(from, to, score) == [start |-> from, end |-> to, type |-> "ORG", score |-> score, action |-> NoAction]
C(from, to, score, action) ==
  [start |-> from, end |-> to, type |-> "CUSTOM", score |-> score, action |-> action]

Text(role, text, spans) == [role |-> role, text |-> text, spans |-> spans, images |-> << >>]
Picture(role, images) == [role |-> role, text |-> << >>, spans |-> << >>, images |-> images]

\* ORG allowed; unsure spans ignored; persons blocked.
Policies ==
  {[entities |-> [t \in {"ORG"} |-> "allow"], default |-> "redact", min |-> 1],
   [entities |-> << >>, default |-> "redact", min |-> 2],
   [entities |-> [t \in {"PERSON"} |-> "block"], default |-> "allow", min |-> 2]}

\* One text with any three of the spans that may overlap, tie and disagree.
Detected ==
  {P(0, 1, 2), P(2, 3, 2), P(0, 2, 1), P(1, 2, 0), O(1, 2, 2), O(1, 3, 3),
   C(1, 2, 2, "block"), C(0, 1, 2, "redact")}
OneText == {<<Text("user", <<anna, acme, ANNA>>, spans)>> : spans \in BoundedSeq(Detected, 3)}

\* Conversations of up to three messages, with images and a wide character.
Face(score) == {[type |-> "PERSON", score |-> score], [type |-> "ORG", score |-> 2]}
Messages ==
  {Text("user", <<ANNA, acme>>, <<P(0, 1, 2), O(1, 2, 2)>>),
   Text("user", <<smile, bert>>, <<P(1, 2, 2)>>),
   Text("user", <<fi_nk, fink>>, <<P(0, 1, 2), P(1, 2, 2)>>),
   Text("assistant", <<bert, anna>>, <<P(1, 2, 2), P(0, 1, 2)>>),
   Text("assistant", <<anna, bert>>, <<P(0, 2, 1)>>),
   Text("system", <<acme>>, <<O(0, 1, 2)>>),
   Picture("user", <<Face(1)>>),
   Picture("user", <<{}, Face(2)>>)}
Talk == BoundedSeq(Messages, 3) \ {<< >>}

FirstTurn ==
  {<<Text("user", <<w>>, <<P(0, 1, 2)>>)>> : w \in {anna, ANNA, bert, fi_nk}}
  \cup {<<Text("user", <<bert, acme, anna>>, <<P(0, 1, 2), P(2, 3, 2), O(1, 2, 2)>>)>>}

Turns == <<FirstTurn, OneText \cup Talk>>
PictureLast == <<{<<Text("user", <<anna>>, <<P(0, 1, 2)>>), Picture("user", <<{}>>)>>} \cup Talk>>
================================================================================
