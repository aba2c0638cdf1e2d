-------------------------------- MODULE Redactor --------------------------------
(***************************************************************************)
(* The redactor: what becomes of a text, or an image, in which spans of    *)
(* personal data have been detected, under a policy and given the          *)
(* placeholders the conversation already has (apply_policy, redact_image). *)
(*                                                                         *)
(* A text is a sequence of words, one to a position; a span covers the     *)
(* positions start + 1 to end.  What is detected, and how surely (score),  *)
(* is input.  An entry of the conversation's map is [ph, type, val]: a     *)
(* placeholder, and the type and text it first stood for.  Of the entries  *)
(* there are already the redactor is told [ph, hash], and it goes by the   *)
(* hash.                                                                   *)
(***************************************************************************)
EXTENDS Integers, SequencesExt, FiniteSetsExt

CONSTANTS Word,       \* the words of texts
          Canon,      \* word -> what the redactor's normalize makes of it
          EntityType, \* the kinds of personal data
          MaxIndex,   \* largest index of a placeholder (MAX_INDEX, 9999)
          NoAction    \* action of a span that does not carry one

Action == {"redact", "block", "allow"}
Placeholder == [type : EntityType, index : 1..MaxIndex]

ASSUME CanonIdempotent == /\ Canon \in [Word -> Word]
                          /\ \A w \in Word : Canon[Canon[w]] = Canon[w]
ASSUME MaxIndexNat == MaxIndex \in Nat
ASSUME WordsApart == Word \cap Placeholder = {}
ASSUME NoActionApart == NoAction \notin Action

Slice(text, s) == SubSeq(text, s.start + 1, s.end)
Normalize(raw) == [i \in DOMAIN raw |-> Canon[raw[i]]]

\* value_hash: what tells entities apart.
ValueHash(type, raw) == <<type, Normalize(raw)>>

\* policy is [entities, default, min]: entities gives some types an action.
ActionFor(policy, s) ==
  IF s.action # NoAction THEN s.action
  ELSE IF s.type \in DOMAIN policy.entities THEN policy.entities[s.type]
  ELSE policy.default

Overlap(s, k) == s.end > k.start /\ s.start < k.end
--------------------------------------------------------------------------------
(* Spans. *)

\* spans[i] goes before spans[j]: the higher score, then the longer, then the
\* earlier, then the one detected first (sorted is stable).
Key(spans, i) ==
  <<- spans[i].score, spans[i].start - spans[i].end, spans[i].start, i>>
Before(spans, i, j) ==
  \E n \in 1..4 :
    /\ Key(spans, i)[n] < Key(spans, j)[n]
    /\ \A m \in 1..(n - 1) : Key(spans, i)[m] = Key(spans, j)[m]

\* The positions S of spans, by rank.
ByRank(spans, S) ==
  CHOOSE order \in [1..Cardinality(S) -> S] :
    \A m, n \in 1..Cardinality(S) : m < n => Before(spans, order[m], order[n])

\* The positions S of spans in the order of the text; of two that start
\* together the better goes first.
Sooner(spans, i, j) ==
  \/ spans[i].start < spans[j].start
  \/ spans[i].start = spans[j].start /\ Before(spans, i, j)
ByStart(spans, S) ==
  CHOOSE order \in [1..Cardinality(S) -> S] :
    \A m, n \in 1..Cardinality(S) : m < n => Sooner(spans, order[m], order[n])

\* Fault: a span is compared only with the one kept last.
FitsLast(spans, kept, i) == kept # << >> => ~ Overlap(spans[i], spans[Last(kept)])

Fits(spans, kept, i) == \A n \in DOMAIN kept : ~ Overlap(spans[i], spans[kept[n]])

\* Of the positions in order, those that fit with the ones kept before them.
Greedy(spans, order) ==
  LET kept[n \in 0..Len(order)] ==
        IF n = 0 THEN << >>
        ELSE IF Fits(spans, kept[n - 1], order[n]) THEN Append(kept[n - 1], order[n])
        ELSE kept[n - 1]
  IN  kept[Len(order)]

\* _drop_overlaps of the spans at positions S, in the order of the text.
DropOverlaps(spans, S) ==
  LET order == ByStart(spans, ToSet(Greedy(spans, ByRank(spans, S))))
  IN  [n \in DOMAIN order |-> spans[order[n]]]

Confident(policy, s) == s.score >= policy.min

\* Fault: only the first entity of the text is looked at.
BlocksFirst(policy, kept) == kept # << >> /\ ActionFor(policy, Head(kept)) = "block"

Blocks(policy, kept) == \E n \in DOMAIN kept : ActionFor(policy, kept[n]) = "block"
--------------------------------------------------------------------------------
(* Numbering and replacement. *)

\* Fault: the first index is zero.
IndexFromZero(reuse, type) ==
  Max({-1} \cup {k.ph.index : k \in {l \in reuse : l.ph.type = type}}) + 1

NextIndex(reuse, type) ==
  Max({0} \cup {k.ph.index : k \in {l \in reuse : l.ph.type = type}}) + 1

\* One entity more: a known one keeps its placeholder, a new one gets the next
\* index of its type; without one left make_placeholder raises.  The hashes of
\* the entries from before are as told, those of this text's the redactor's own.
\* acc is [entities, new, failed].
Number(text, told, acc, s) ==
  LET raw     == Slice(text, s)
      reuse   == told \cup {[ph |-> e.ph, hash |-> ValueHash(e.type, e.val)] : e \in ToSet(acc.new)}
      same    == {k \in reuse : k.hash = ValueHash(s.type, raw)}
      index   == NextIndex(reuse, s.type)
      ph      == IF same # {} THEN (CHOOSE k \in same : TRUE).ph
                 ELSE [type |-> s.type, index |-> index]
      entity  == [ph |-> ph, type |-> s.type, start |-> s.start, end |-> s.end]
  IN  IF acc.failed \/ (same = {} /\ index > MaxIndex)
        THEN [acc EXCEPT !.failed = TRUE]
        ELSE [acc EXCEPT !.entities = Append(@, entity),
                         !.new = IF same # {} THEN @
                                 ELSE Append(@, [ph |-> ph, type |-> s.type, val |-> raw])]

\* The entities of kept, numbered one after the other.
Numbered(text, told, policy, kept) ==
  LET acc[n \in 0..Len(kept)] ==
        IF n = 0 THEN [entities |-> << >>, new |-> << >>, failed |-> FALSE]
        ELSE IF ActionFor(policy, kept[n]) = "allow" THEN acc[n - 1]
        ELSE Number(text, told, acc[n - 1], kept[n])
  IN  acc[Len(kept)]

Replace(out, e) == SubSeq(out, 1, e.start) \o <<e.ph>> \o SubSeq(out, e.end + 1, Len(out))

\* The replacements, one after the other.
ReplaceAllOf(text, entities) ==
  LET out[n \in 0..Len(entities)] ==
        IF n = 0 THEN text ELSE Replace(out[n - 1], entities[n])
  IN  out[Len(entities)]

\* Fault: the replacements are made from the left.
FromTheLeft(entities) == entities

\* The order of the replacements: offsets to the left stay valid.
FromTheRight(entities) == Reverse(entities)

\* apply_policy: the verdict, the redacted text, what was replaced, and the
\* new entries.
ApplyPolicy(text, spans, policy, told) ==
  LET kept == DropOverlaps(spans, {i \in DOMAIN spans : Confident(policy, spans[i])})
      numbered == Numbered(text, told, policy, kept)
      Nothing(verdict) == [verdict |-> verdict, text |-> << >>, entities |-> << >>, new |-> << >>]
  IN  IF Blocks(policy, kept) THEN Nothing("blocked")
      ELSE IF numbered.failed THEN Nothing("failed")
      ELSE [verdict |-> "ok", entities |-> numbered.entities, new |-> numbered.new,
            text |-> ReplaceAllOf(text, FromTheRight(numbered.entities))]

\* redact_image: regions of an image, [type, score], are boxed out for good.
\* Custom entities are not looked for in images.
ImageAction(policy, region) ==
  ActionFor(policy, [type |-> region.type, action |-> NoAction])
RedactImage(image, policy) ==
  LET sure == {region \in image : Confident(policy, region)}
      With(action) == {region \in sure : ImageAction(policy, region) = action}
  IN  IF With("block") # {}
        THEN [verdict |-> "blocked", boxed |-> {}]
        ELSE [verdict |-> "ok", boxed |-> With("redact")]
================================================================================
