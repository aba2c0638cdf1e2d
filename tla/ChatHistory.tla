------------------------------- MODULE ChatHistory -------------------------------
(***************************************************************************)
(* The stored history of a user's conversations, as the gateway writes and *)
(* reads it.                                                               *)
(*                                                                         *)
(* A turn is posted to a conversation, which is created if it does not     *)
(* exist (any more); it is answered, token by token, and only when the     *)
(* answer has been streamed to its end does the gateway look for the next  *)
(* number in the conversation and store the newest text of the user and    *)
(* the answer under it and the following one -- at best: a failure of that *)
(* transaction is swallowed.  The client going away stops none of this.    *)
(* What the texts are is the matter of Outbound; here a text is a sequence *)
(* of turns: <<t>> the user's of turn t, <<t, ..., t>> that many tokens of *)
(* its answer.                                                             *)
(***************************************************************************)
EXTENDS Integers, SequencesExt, FiniteSetsExt

CONSTANTS Turns,           \* bound: the number of turns
          Conversations,   \* bound: the number of conversations that are created
          Longest,         \* bound: turn -> the most tokens its answer may have
          NoConversation

Turn == 1..Turns
Conversation == 1..Conversations

ASSUME Bounds == Turns \in Nat /\ Conversations \in Nat /\ Longest \in [Turn -> Nat]
ASSUME NoConversationApart == NoConversation \notin Conversation

VARIABLES
  conversations,  \* committed rows of table conversations
  created,        \* how many have been created by POST /api/conversations
  table,          \* conversation -> its rows of table messages
  sv,             \* where the gateway stands with each turn
  convOf,         \* the conversation each turn is posted to
  question,       \* turn -> the newest text of the user among the messages posted
  answer,         \* turn -> how many tokens of its answer there are
  next,           \* turn -> the number it read
  crossed         \* history: conversations on which two turns were under way at once

stored     == <<conversations, created, table, next>>
serverVars == <<conversations, created, table, sv, convOf, question, answer, next, crossed>>

Text    == Seq(Turn)
Message == [role : {"user", "assistant"}, turn : Turn, of : Text, seq : Nat]

ServerInit ==
  /\ conversations = {}
  /\ created = 0
  /\ table = [c \in Conversation |-> {}]
  /\ sv = [t \in Turn |-> "none"]
  /\ convOf = [t \in Turn |-> NoConversation]
  /\ question = [t \in Turn |-> << >>]
  /\ answer = [t \in Turn |-> 0]
  /\ next = [t \in Turn |-> 0]
  /\ crossed = {}

UnderWay == {"posted", "answering", "answered", "read"}
At(t, at) == sv' = [sv EXCEPT ![t] = at]

\* POST /api/conversations
CreateConversation ==
  /\ created < Conversations
  /\ created' = created + 1
  /\ conversations' = conversations \cup {created + 1}

\* POST messages leaves the client.
Post(t, c, text) ==
  /\ At(t, "posted")
  /\ convOf' = [convOf EXCEPT ![t] = c]
  /\ question' = [question EXCEPT ![t] = text]
  /\ crossed' = IF \E u \in Turn : sv[u] \in UnderWay /\ convOf[u] = c
                  THEN crossed \cup {c} ELSE crossed
  /\ UNCHANGED answer

\* ownsConversation and ensureConversation commit.
Ensure(t) ==
  /\ sv[t] = "posted"
  /\ conversations' = conversations \cup {convOf[t]}
  /\ At(t, "answering")
  /\ UNCHANGED <<created, table, convOf, question, answer, next, crossed>>

\* A chunk of the provider's answer goes to the client, one token more.
Chunk(t) ==
  /\ sv[t] = "answering"
  /\ answer[t] < Longest[t]
  /\ answer' = [answer EXCEPT ![t] = @ + 1]
  /\ UNCHANGED <<stored, sv, convOf, question, crossed>>

\* The provider's stream is over, or its error without a text is passed on.
AnswerEnds(t) ==
  /\ sv[t] = "answering"
  /\ At(t, "answered")
  /\ UNCHANGED <<stored, convOf, question, answer, crossed>>

\* The request is rejected, blocked or fails before anything is answered.
Reject(t) ==
  /\ sv[t] \in {"posted", "answering"}
  /\ answer[t] = 0
  /\ At(t, "failed")
  /\ UNCHANGED <<stored, convOf, question, answer, crossed>>

\* persistChatTurn with nothing to store.
NoEntries(t) ==
  /\ sv[t] = "answered"
  /\ question[t] = << >> /\ answer[t] = 0
  /\ At(t, "stored")
  /\ UNCHANGED <<stored, convOf, question, answer, crossed>>

\* persistMessages: SELECT COALESCE(MAX(seq) + 1, 0)
ReadNext(t) ==
  /\ sv[t] = "answered"
  /\ question[t] # << >> \/ answer[t] > 0
  /\ next' = [next EXCEPT ![t] = Max({-1} \cup {m.seq : m \in table[convOf[t]]}) + 1]
  /\ At(t, "read")
  /\ UNCHANGED <<conversations, created, table, convOf, question, answer, crossed>>

QuestionRow(t) == [role |-> "user", turn |-> t, of |-> question[t], seq |-> next[t]]
AnswerRow(t) ==
  [role |-> "assistant", turn |-> t, of |-> [i \in 1..answer[t] |-> t],
   seq |-> IF question[t] = << >> THEN next[t] ELSE next[t] + 1]

\* Fault: both messages of a turn get the same number.
EntriesAtOne(t) ==
  {m \in {QuestionRow(t), [AnswerRow(t) EXCEPT !.seq = next[t]]} : m.of # << >>}

\* persistChatTurn's entries, numbered by persistMessages.
Entries(t) == {m \in {QuestionRow(t), AnswerRow(t)} : m.of # << >>}

\* Fault: messages need no conversation.
StoreAnyway(t) ==
  /\ sv[t] = "read"
  /\ table' = [table EXCEPT ![convOf[t]] = @ \cup Entries(t)]
  /\ At(t, "stored")
  /\ next' = [next EXCEPT ![t] = 0]
  /\ UNCHANGED <<conversations, created, convOf, question, answer, crossed>>

\* persistMessages inserts and commits; without the conversation the foreign
\* key fails, and nobody is told.
Store(t) ==
  /\ sv[t] = "read"
  /\ IF convOf[t] \in conversations
       THEN /\ table' = [table EXCEPT ![convOf[t]] = @ \cup Entries(t)]
            /\ At(t, "stored")
       ELSE At(t, "unstored") /\ UNCHANGED table
  /\ next' = [next EXCEPT ![t] = 0]
  /\ UNCHANGED <<conversations, created, convOf, question, answer, crossed>>

\* "persistence is best-effort"; or the provider's stream breaks off, or the
\* process dies, before that.
StoreFails(t) ==
  /\ sv[t] \in {"answering", "answered", "read"}
  /\ At(t, "unstored")
  /\ next' = [next EXCEPT ![t] = 0]
  /\ UNCHANGED <<conversations, created, table, convOf, question, answer, crossed>>

\* DELETE /api/conversations/:id, with the cascade to its messages.
DeleteConversation(c) ==
  /\ conversations' = conversations \ {c}
  /\ table' = [table EXCEPT ![c] = {}]
  /\ UNCHANGED <<created, sv, convOf, question, answer, next, crossed>>

ServerStep(t) ==
  \/ Ensure(t) \/ Reject(t)
  \/ Chunk(t) \/ AnswerEnds(t)
  \/ NoEntries(t) \/ ReadNext(t) \/ Store(t) \/ StoreFails(t)

\* loadMessages: ORDER BY seq; which of equal numbers comes first is open.
Histories(c) ==
  {h \in [1..Cardinality(table[c]) -> table[c]] :
     IsInjective(h) /\ \A i, j \in DOMAIN h : i < j => h[i].seq <= h[j].seq}
--------------------------------------------------------------------------------
(* Properties. *)

ServerTypeOK ==
  /\ conversations \subseteq Conversation
  /\ created \in 0..Conversations
  /\ table \in [Conversation -> SUBSET Message]
  /\ \A c \in Conversation \ conversations : table[c] = {}
  /\ sv \in [Turn -> {"none", "failed", "stored", "unstored"} \cup UnderWay]
  /\ \A t \in Turn : sv[t] # "none" => convOf[t] \in Conversation
  /\ question \in [Turn -> Text]
  /\ \A t \in Turn : answer[t] \in 0..Longest[t]
  /\ next \in [Turn -> Nat]

\* If the turns of a conversation never overlapped on the server, its history
\* has them in the order they were sent, each with its answer right after the
\* question, under numbers without a gap (persistMessages reads the number long
\* after the turn began and in a transaction of its own).
HistoryInOrder ==
  \A c \in Conversation \ crossed :
    /\ {m.seq : m \in table[c]} = 0..(Cardinality(table[c]) - 1)
    /\ \A m, n \in table[c] :
         m.seq < n.seq <=> (m.turn < n.turn \/ (m.turn = n.turn /\ m.role = "user" /\ n.role = "assistant"))
================================================================================
