-------------------------------- MODULE Outbound --------------------------------
(***************************************************************************)
(* prepareOutbound: the messages of one chat request after another of a    *)
(* conversation on their way through the redactor, until the request may   *)
(* leave for the provider.                                                 *)
(*                                                                         *)
(* Every message is sent to the redactor in a call of its own, with all    *)
(* the entries the conversation has got so far; any call may throw, and    *)
(* then nothing is kept and nothing leaves.  The transactions that races   *)
(* between requests are about are the subject of TokenVault: here a        *)
(* conversation has one request at a time.                                 *)
(***************************************************************************)
EXTENDS Redactor

CONSTANTS Policy,        \* the policies in force from request to request
          Requests,      \* bound: the i-th element has the requests of turn i
          RedactImages,  \* config.redactImages
          GatewayCanon,  \* word -> what the gateway's normalize makes of it
          Wide           \* words outside Unicode's BMP: two units of a JS string

\* A message: its role, its text with what the analyser detects in it, and
\* its images with what is detected in them.
Message ==
  [role : {"user", "assistant", "system"}, text : Seq(Word), spans : Seq([
     start : Nat, end : Nat, type : EntityType, score : Nat, action : Action \cup {NoAction}]),
   images : Seq(SUBSET [type : EntityType, score : Nat])]

ASSUME MessagesTyped ==
  /\ Requests \in Seq(SUBSET Seq(Message))
  /\ \A turn \in DOMAIN Requests : \A request \in Requests[turn] : \A i \in DOMAIN request :
       LET m == request[i] IN
         \A n \in DOMAIN m.spans : m.spans[n].start < m.spans[n].end /\ m.spans[n].end <= Len(m.text)
ASSUME WideWords == Wide \subseteq Word

\* What toLowerCase leaves of a word casefold turns into the same as the word.
ASSUME GatewayFoldsLess ==
  /\ GatewayCanon \in [Word -> Word]
  /\ \A w \in Word : Canon[GatewayCanon[w]] = Canon[w]

VARIABLES
  vault,     \* the conversation's committed entries
  turn,      \* number of requests so far
  pc,        \* where the request stands
  messages,  \* ctx.messages
  policy,
  existing,  \* the placeholders and hashes the redactor is told of
  fresh,     \* collectedNew
  results,   \* redactedMessages: the text (or placeholders) and boxed images
  last       \* lastUserSpans and lastUserRedacted

vars == <<vault, turn, pc, messages, policy, existing, fresh, results, last>>

Entry == [ph : Placeholder, type : EntityType, val : Seq(Word)]

\* matchHash: the gateway's own version of value_hash.
MatchHash(type, raw) == <<type, [i \in DOMAIN raw |-> GatewayCanon[raw[i]]]>>

\* Entries as the redactor is told of them.
Told(entries) == {[ph |-> e.ph, hash |-> MatchHash(e.type, e.val)] : e \in entries}
NoUser == [spans |-> << >>, text |-> << >>]

Init ==
  /\ vault = {}
  /\ turn = 0
  /\ pc = "idle"
  /\ messages = << >>
  /\ policy \in Policy
  /\ existing = {}
  /\ fresh = << >>
  /\ results = << >>
  /\ last = NoUser

\* The answer is out, or an error: what the request knew is gone.
Finish ==
  /\ pc' = "idle"
  /\ messages' = << >>
  /\ existing' = {}
  /\ fresh' = << >>
  /\ results' = << >>
  /\ last' = NoUser
  /\ UNCHANGED <<turn, policy>>

\* A request arrives: loadPolicy and existingEntities.
Begin ==
  /\ pc = "idle"
  /\ turn < Len(Requests)
  /\ turn' = turn + 1
  /\ messages' \in Requests[turn + 1]
  /\ policy' \in Policy
  /\ existing' = Told(vault)
  /\ pc' = "images"
  /\ UNCHANGED <<vault, fresh, results, last>>
--------------------------------------------------------------------------------
(* One message. *)

Done    == Len(results) = Len(messages)
Current == messages[Len(results) + 1]

\* The images of the current message as the redactor returns them.
Boxed == [i \in DOMAIN Current.images |-> RedactImage(Current.images[i], policy)]
ForwardedImages ==
  IF RedactImages THEN [i \in DOMAIN Boxed |-> Current.images[i] \ Boxed[i].boxed]
  ELSE Current.images

PushResult(text, entities) ==
  results' = Append(results, [text |-> text, entities |-> entities, images |-> ForwardedImages])

\* The policy blocks an image: prepareOutbound returns at once.
BlockedByImage ==
  /\ pc = "images"
  /\ ~ Done
  /\ RedactImages
  /\ \E i \in DOMAIN Boxed : Boxed[i].verdict = "blocked"
  /\ Finish
  /\ UNCHANGED vault

ImagesRedacted ==
  /\ pc = "images"
  /\ ~ Done
  /\ RedactImages => \A i \in DOMAIN Boxed : Boxed[i].verdict = "ok"
  /\ Current.text # << >>
  /\ pc' = "text"
  /\ UNCHANGED <<vault, turn, messages, policy, existing, fresh, results, last>>

\* A message without a text: on to the next one.
NoText ==
  /\ pc = "images"
  /\ ~ Done
  /\ RedactImages => \A i \in DOMAIN Boxed : Boxed[i].verdict = "ok"
  /\ Current.text = << >>
  /\ PushResult(<< >>, << >>)
  /\ UNCHANGED <<vault, turn, pc, messages, policy, existing, fresh, last>>

Answer == ApplyPolicy(Current.text, Current.spans, policy, existing)

\* Fault: later messages do not learn of the new entries.
LearnNothing(new) == existing' = existing

\* "Make new entries visible to subsequent messages in THIS request."
Learn(new) == existing' = existing \cup Told(ToSet(new))

\* Fault: each message's entries take the place of the earlier ones'.
CollectLast(new) == fresh' = new

\* collectedNew is persisted after the last message.
Collect(new) == fresh' = fresh \o new

\* Fault: the newest message counts, whoever wrote it.
RememberAny(answer) == last' = [spans |-> answer.entities, text |-> answer.text]

\* What the author's shield and the stored history are made of.
Remember(answer) ==
  last' = IF Current.role = "user" THEN [spans |-> answer.entities, text |-> answer.text] ELSE last

TextRedacted ==
  /\ pc = "text"
  /\ Answer.verdict = "ok"
  /\ Collect(Answer.new)
  /\ Learn(Answer.new)
  /\ Remember(Answer)
  /\ PushResult(Answer.text, Answer.entities)
  /\ pc' = "images"
  /\ UNCHANGED <<vault, turn, messages, policy>>

\* Blocked by the policy, or out of indexes.
TextRejected ==
  /\ pc = "text"
  /\ Answer.verdict # "ok"
  /\ Finish
  /\ UNCHANGED vault
--------------------------------------------------------------------------------
(* After the last message. *)

\* persistNewEntries commits, and the request is ready to leave.
Persist ==
  /\ pc = "images"
  /\ Done
  /\ vault' = vault \cup ToSet(fresh)
  /\ pc' = "ready"
  /\ UNCHANGED <<turn, messages, policy, existing, fresh, results, last>>

\* Forwarded, answered and stored: chatCore's part.
Leave ==
  /\ pc = "ready"
  /\ Finish
  /\ UNCHANGED vault

\* The redactor, Redis or Postgres throws, or the process dies.
Fail ==
  /\ pc # "idle"
  /\ Finish
  /\ UNCHANGED vault

Next ==
  \/ Begin
  \/ BlockedByImage \/ ImagesRedacted \/ NoText
  \/ TextRedacted \/ TextRejected
  \/ Persist \/ Leave
  \/ Fail

Spec == Init /\ [][Next]_vars
--------------------------------------------------------------------------------
(* The browser: resolveRedactions shows the author what was hidden. *)

\* A text as a JavaScript string has it.
Units(text) == FlattenSeq([i \in DOMAIN text |->
                             IF text[i] \in Wide THEN <<text[i], text[i]>> ELSE <<text[i]>>])

\* slice: what lies beyond the end is missing.
JsSlice(units, s) == SubSeq(units, s.start + 1, IF s.end < Len(units) THEN s.end ELSE Len(units))

ResolveRedactions(spans, authorText) ==
  [n \in DOMAIN spans |-> [ph |-> spans[n].ph, value |-> JsSlice(Units(authorText), spans[n])]]
--------------------------------------------------------------------------------
(* Properties. *)

Results == DOMAIN results

\* Entries and results are of their kinds; in particular no placeholder is
\* numbered outside the grammar's range.
TypeOK ==
  /\ vault \subseteq Entry
  /\ existing \subseteq [ph : Placeholder, hash : EntityType \X Seq(Word)]
  /\ fresh \in Seq(Entry)
  /\ turn \in 0..Len(Requests)
  /\ pc \in {"idle", "images", "text", "ready"}
  /\ Len(results) <= Len(messages)
  /\ \A i \in Results :
       /\ results[i].text \in Seq(Word \cup Placeholder)
       /\ \A n \in DOMAIN results[i].entities : results[i].entities[n].ph \in Placeholder
  /\ policy \in Policy

\* Of the confident spans, those that rank before every one they overlap that
\* is itself kept.
Kept(m) ==
  LET sure == {i \in DOMAIN m.spans : m.spans[i].score >= policy.min} IN
  {m.spans[i] : i \in CHOOSE K \in SUBSET sure :
     /\ \A i, j \in K : i # j => ~ Overlap(m.spans[i], m.spans[j])
     /\ \A i \in sure \ K :
          \E k \in K : Overlap(m.spans[i], m.spans[k]) /\ Before(m.spans, k, i)}

\* Exactly the best spans are hidden: no two that overlap, and every span the
\* policy is sure of and does not allow is hidden or overlaps a better one
\* (_drop_overlaps: "Keep highest-score span on overlap").
BestAreHidden ==
  \A i \in Results :
    LET entities == results[i].entities IN
    {<<entities[n].start, entities[n].end, entities[n].type>> : n \in DOMAIN entities}
      = {<<s.start, s.end, s.type>> :
           s \in {k \in Kept(messages[i]) : ActionFor(policy, k) # "allow"}}

\* The text with position p replaced or left alone, each on its own.
Rendered(text, entities) ==
  FlattenSeq([p \in DOMAIN text |->
    IF \E n \in DOMAIN entities : entities[n].start < p /\ p <= entities[n].end
      THEN LET e == entities[CHOOSE n \in DOMAIN entities :
                               entities[n].start < p /\ p <= entities[n].end]
           IN  IF p = e.start + 1 THEN <<e.ph>> ELSE << >>
      ELSE <<text[p]>>])

\* Every replacement lands on its own span, whatever the others' lengths: no
\* word of a hidden span leaves and no other word is lost ("Replace
\* right-to-left so earlier offsets stay valid").
PlacedRight ==
  \A i \in Results : results[i].text = Rendered(messages[i].text, results[i].entities)

ResolvedBy(entries, text) ==
  FlattenSeq([p \in DOMAIN text |->
    IF \E e \in entries : e.ph = text[p] THEN (CHOOSE e \in entries : e.ph = text[p]).val
    ELSE <<text[p]>>])

\* When a request leaves, the committed map turns each of its texts back into
\* what its author wrote, up to normalisation, whichever message or earlier
\* turn first named a value.
RoundTrip ==
  pc = "ready" =>
    \A i \in Results :
      LET back == ResolvedBy(vault, results[i].text) IN
        back \in Seq(Word) /\ Normalize(back) = Normalize(messages[i].text)

SameValue(e, f) == e.type = f.type /\ Normalize(e.val) = Normalize(f.val)

\* The gateway's hash of the value, by which later messages find the entry, is
\* the one the redactor computes.
HashesMatch(e) == MatchHash(e.type, e.val) = ValueHash(e.type, e.val)

\* Within a conversation one placeholder has one value; and one value of a type
\* keeps its placeholder however it is written later ("so the same entity keeps
\* the same placeholder"), if the two normalisations, one in TypeScript and one
\* in Python, make the same of the value as it was written first.
SamePlaceholder ==
  \A e, f \in vault \cup ToSet(fresh) :
    /\ e.ph = f.ph => SameValue(e, f)
    /\ SameValue(e, f) /\ HashesMatch(e) => e.ph = f.ph \/ f.ph.index < e.ph.index

\* A request with a kept span, or a region of an image, that the policy blocks
\* never leaves and records nothing, in whichever message or image it is.
BlockIsWhole ==
  pc = "ready" =>
    \A i \in DOMAIN messages :
      /\ \A s \in Kept(messages[i]) : ActionFor(policy, s) # "block"
      /\ RedactImages =>
           \A n \in DOMAIN messages[i].images, region \in UNION ToSet(messages[i].images) :
             Confident(policy, region) => ImageAction(policy, region) # "block"

\* The newest message of the user, if there is one.
UserMessages == {i \in DOMAIN messages : messages[i].role = "user"}
Newest == Max(UserMessages)
NarrowUpTo(text, p) == \A i \in DOMAIN text : i <= p => text[i] \notin Wide

\* What the author's shield lists are the values that the placeholders of the
\* newest message stand for -- as long as that message has a text, without a
\* character of two UTF-16 units before a value (the redactor counts code
\* points, the browser slices UTF-16).
ShieldMatches ==
  pc = "ready" /\ UserMessages # {} =>
    LET text  == messages[Newest].text
        shown == ResolveRedactions(last.spans, text) IN
    text # << >> =>
      /\ last.text = results[Newest].text
      /\ \A n \in DOMAIN shown :
           NarrowUpTo(text, last.spans[n].end) =>
             \E e \in vault : e.ph = shown[n].ph /\ Normalize(e.val) = Normalize(shown[n].value)

\* lastUserRedacted is the "Redacted text of the latest user message", which
\* is stored as this turn's.
StoredIsNewest ==
  pc = "ready" /\ UserMessages # {} => last.text = results[Newest].text
================================================================================
