------------------------------ MODULE ChatPageProofs ------------------------------
(***************************************************************************)
(* Proofs about ChatPage and the ChatHistory under it, for any number of   *)
(* turns, conversations, loads and deletions.                              *)
(***************************************************************************)
EXTENDS ChatPage, InductionLemmas, SequenceTheorems

--------------------------------------------------------------------------------
(* Type correctness. *)

Shownable == Seq(PageMessage)
Load      == [id : Conversation, loaded : Shownable \cup {Nothing}]
Deletion  == [id : Conversation, gone : BOOLEAN, seen : Shownable \cup {Nothing}]

ServerTypes ==
  /\ conversations \subseteq Conversation
  /\ created \in 0..Conversations
  /\ table \in [Conversation -> SUBSET Message]
  /\ \A c \in Conversation : IsFiniteSet(table[c])
  /\ \A c \in Conversation \ conversations : table[c] = {}
  /\ sv \in [Turn -> {"none", "failed", "stored", "unstored"} \cup UnderWay]
  /\ \A t \in Turn : sv[t] # "none" => convOf[t] \in Conversation
  /\ next \in [Turn -> Nat]
  /\ convOf \in [Turn -> Conversation \cup {NoConversation}]
  /\ question \in [Turn -> Text]
  /\ answer \in [Turn -> Nat]
  /\ \A t \in Turn : answer[t] \in 0..Longest[t]
  /\ got \in [Turn -> Nat]
  /\ \A t \in Turn : got[t] \in 0..answer[t]
  /\ \A t \in Turn : sending[t] = "waiting" => sv[t] # "none"
  /\ sending \in [Turn -> {"idle", "creating", "waiting", "done"}]

PageTypes ==
  /\ conversationId \in Conversation \cup {NoConversation}
  /\ activeRef \in Conversation \cup {NoConversation}
  /\ messages \in Shownable
  /\ convStore \in [Conversation -> Shownable \cup {Nothing}]
  /\ fetches \in [Fetch -> Load \cup {Nothing}]
  /\ deletion \in Deletion \cup {Nothing}
  /\ deletable \subseteq Deletable

TypeInv == ServerTypes /\ PageTypes

LEMMA TypeInit == Init => TypeInv
<1> SUFFICES ASSUME Init PROVE TypeInv
  OBVIOUS
<1>1. << >> \in Shownable
  BY DEF Shownable
<1>2. << >> \in Text
  BY DEF Text
<1>3. \A t \in Turn : Longest[t] \in Nat /\ 0 \in 0..Longest[t]
  BY Bounds
<1>4. ServerTypes
  BY <1>2, <1>3, Bounds, FS_EmptySet DEF Init, ServerInit, ServerTypes, UnderWay
<1> QED BY <1>1, <1>4 DEF Init, TypeInv, PageTypes

LEMMA TypedText == \A t \in Turn : \A text \in Typed(t) : text \in Text /\ text \in {<<t>>, << >>}
<1> SUFFICES ASSUME NEW t \in Turn, NEW text \in Typed(t) PROVE text \in Text /\ text \in {<<t>>, << >>}
  OBVIOUS
<1>1. text \in {<<t>>, << >>}
  BY DEF Typed
<1>2. <<t>> \in Text /\ << >> \in Text
  BY DEF Text
<1> QED BY <1>1, <1>2

LEMMA NewMessages ==
  ASSUME NEW seen \in Shownable, NEW text \in Text
  PROVE  /\ seen \o <<User(text), Blank>> \in Shownable
         /\ Append(seen, User(text)) \in Shownable
<1>1. User(text) \in PageMessage /\ Blank \in PageMessage
  BY DEF User, Blank, PageMessage, Text
<1> QED BY <1>1 DEF Shownable

\* The newest text of the user is that of a message of his, if there is one.
LEMMA NewestIs ==
  ASSUME NEW posted \in Shownable
  PROVE  /\ NewestText(posted) \in Text
         /\ \/ NewestText(posted) = << >>
            \/ \E i \in DOMAIN posted : posted[i] = User(NewestText(posted))
         /\ \A i \in DOMAIN posted : posted[i].role = "user" /\ posted[i].of # << >> =>
              \E j \in DOMAIN posted : j >= i /\ posted[j] = User(NewestText(posted))
<1> DEFINE texts == {i \in DOMAIN posted : posted[i].role = "user" /\ posted[i].of # << >>}
<1>1. /\ DOMAIN posted = 1..Len(posted) /\ Len(posted) \in Nat
      /\ \A i \in DOMAIN posted : posted[i] \in PageMessage
  BY DEF Shownable
<1>2. NewestText(posted) = IF texts = {} THEN << >> ELSE posted[Max(texts)].of
  BY DEF NewestText
<1>3. texts \in SUBSET Int /\ IsFiniteSet(texts) /\ texts \subseteq DOMAIN posted
  <2>1. IsFiniteSet(1..Len(posted)) /\ texts \subseteq 1..Len(posted)
    BY <1>1, FS_Interval
  <2> QED BY <1>1, <2>1, FS_Subset
<1>4. CASE texts = {}
  BY <1>2, <1>4 DEF Text
<1>5. CASE texts # {}
  <2> DEFINE last == Max(texts)
  <2>1. last \in texts /\ \A i \in texts : last >= i
    <3> HIDE DEF texts
    <3> QED BY <1>3, <1>5, MaxOfFinite
  <2>2. NewestText(posted) = posted[last].of
    BY <1>2, <1>5
  <2>3. posted[last] \in PageMessage /\ posted[last].role = "user" /\ last \in DOMAIN posted
    BY <1>1, <2>1
  <2>4. posted[last] = User(NewestText(posted)) /\ NewestText(posted) \in Text
    BY <2>2, <2>3 DEF User, PageMessage
  <2> HIDE DEF last
  <2> QED BY <2>1, <2>3, <2>4
<1> QED BY <1>4, <1>5

LEMMA TokenTyped ==
  ASSUME NEW shown \in Shownable, shown # << >>, NEW t \in Turn
  PROVE  [shown EXCEPT ![Len(shown)].of = Append(@, t)] \in Shownable
<1>1. Len(shown) \in 1..Len(shown) /\ shown[Len(shown)] \in PageMessage
  BY DEF Shownable
<1>2. Append(shown[Len(shown)].of, t) \in Text
  BY <1>1 DEF PageMessage, Text
<1>3. [shown[Len(shown)] EXCEPT !.of = Append(@, t)] \in PageMessage
  BY <1>1, <1>2 DEF PageMessage
<1> QED BY <1>1, <1>3 DEF Shownable

\* A stored history, shown, is a list of messages.
LEMMA HistoryTyped ==
  ASSUME TypeInv, NEW c \in Conversation, NEW h \in Histories(c)
  PROVE  Shown(h) \in Shownable
<1>1. Cardinality(table[c]) \in Nat
  BY FS_CardinalityType DEF TypeInv, ServerTypes
<1>2. h \in [1..Cardinality(table[c]) -> table[c]]
  BY DEF Histories
<1>3. \A m \in table[c] : [role |-> m.role, of |-> m.of] \in PageMessage
  BY DEF TypeInv, ServerTypes, Message, PageMessage
<1>4. Shown(h) \in [1..Cardinality(table[c]) -> PageMessage]
  BY <1>2, <1>3 DEF Shown
<1> QED BY <1>1, <1>4 DEF Shownable

\* A turn's entries, numbered from where it has read.
LEMMA EntriesTyped ==
  ASSUME TypeInv, NEW t \in Turn
  PROVE  Entries(t) \in SUBSET Message /\ IsFiniteSet(Entries(t))
<1>1. next[t] \in Nat /\ question[t] \in Text /\ answer[t] \in Nat
  BY DEF TypeInv, ServerTypes
<1>2. QuestionRow(t) \in Message
  BY <1>1 DEF QuestionRow, Message
<1>3. AnswerRow(t) \in Message
  <2>1. [i \in 1..answer[t] |-> t] \in Text
    BY <1>1 DEF Text
  <2> QED BY <1>1, <2>1 DEF AnswerRow, Message
<1>4. Entries(t) \in SUBSET ({QuestionRow(t)} \cup {AnswerRow(t)})
  BY DEF Entries
<1>5. IsFiniteSet({QuestionRow(t)} \cup {AnswerRow(t)})
  BY FS_Singleton, FS_AddElement
<1> QED BY <1>2, <1>3, <1>4, <1>5, FS_Subset

\* The number a turn reads is that of none of the messages there are, and next
\* to that of the last.
LEMMA NextNumber ==
  ASSUME NEW S \in SUBSET Message, IsFiniteSet(S)
  PROVE  LET top == Max({-1} \cup {m.seq : m \in S}) IN
           /\ top \in {-1} \cup {m.seq : m \in S}
           /\ \A y \in {-1} \cup {m.seq : m \in S} : top >= y
           /\ top + 1 \in Nat
<1> DEFINE seqs == {m.seq : m \in S}
           all  == seqs \cup {-1}
<1>1. IsFiniteSet(seqs)
  <2> DEFINE P == {T \in SUBSET S : IsFiniteSet({m.seq : m \in T})}
  <2>1. {m.seq : m \in {}} = {}
    OBVIOUS
  <2>2. ASSUME NEW T \in P, NEW x \in S PROVE T \cup {x} \in P
    <3>1. {m.seq : m \in T \cup {x}} = {m.seq : m \in T} \cup {x.seq}
      OBVIOUS
    <3>2. IsFiniteSet({m.seq : m \in T})
      OBVIOUS
    <3>3. IsFiniteSet({m.seq : m \in T} \cup {x.seq})
      BY <3>2, FS_AddElement
    <3> QED BY <3>1, <3>3
  <2>3. P \in SUBSET (SUBSET S) /\ {} \in P
    BY <2>1, FS_EmptySet
  <2>4. P = SUBSET S
    <3> HIDE DEF P
    <3> QED BY <2>2, <2>3, SubsetInduction
  <2> QED BY <2>4
<1>2. IsFiniteSet(all)
  BY <1>1, FS_AddElement
<1>3. all \in SUBSET Int /\ all # {} /\ \A y \in all : y >= -1
  BY DEF Message
<1>4. Max(all) \in all /\ \A y \in all : Max(all) >= y
  <2> HIDE DEF all
  <2> QED BY <1>2, <1>3, MaxOfFinite
<1>5. all = {-1} \cup {m.seq : m \in S}
  OBVIOUS
<1>6. Max(all) \in Int /\ Max(all) >= -1
  BY <1>3, <1>4
<1>7. Max(all) + 1 \in Nat
  BY <1>6
<1> QED BY <1>4, <1>5, <1>7

LEMMA ServerStepTyped ==
  ASSUME TypeInv, NEW t \in Turn, ServerStep(t), UNCHANGED <<sending, got>> PROVE ServerTypes'
<1> USE DEF TypeInv, ServerTypes, UnderWay, At, stored
<1>1. CASE Ensure(t)
  BY <1>1 DEF Ensure
<1>2. CASE Chunk(t)
  <2>1. Longest[t] \in Nat
    BY Bounds
  <2> QED BY <1>2, <2>1 DEF Chunk
<1>3. CASE AnswerEnds(t) \/ Reject(t) \/ NoEntries(t)
  BY <1>3 DEF AnswerEnds, Reject, NoEntries
<1>4. CASE ReadNext(t)
  <2>1. next' = [next EXCEPT ![t] = Max({-1} \cup {m.seq : m \in table[convOf[t]]}) + 1]
    BY <1>4 DEF ReadNext
  <2>2. next' \in [Turn -> Nat]
    <3>1. table[convOf[t]] \in SUBSET Message /\ IsFiniteSet(table[convOf[t]])
      BY <1>4 DEF ReadNext
    <3>2. Max({-1} \cup {m.seq : m \in table[convOf[t]]}) + 1 \in Nat
      BY <3>1, NextNumber
    <3> QED BY <2>1, <3>2
  <2> QED BY <1>4, <2>2 DEF ReadNext
<1>5. CASE Store(t)
  <2>1. CASE convOf[t] \in conversations
    <3>1. table' = [table EXCEPT ![convOf[t]] = @ \cup Entries(t)]
      BY <1>5, <2>1 DEF Store
    <3>2. /\ table[convOf[t]] \cup Entries(t) \in SUBSET Message
          /\ IsFiniteSet(table[convOf[t]] \cup Entries(t))
      BY <2>1, EntriesTyped, FS_Union
    <3> QED BY <1>5, <2>1, <3>1, <3>2 DEF Store
  <2>2. CASE convOf[t] \notin conversations
    BY <1>5, <2>2 DEF Store
  <2> QED BY <2>1, <2>2
<1>6. CASE StoreFails(t)
  BY <1>6 DEF StoreFails
<1> QED BY <1>1, <1>2, <1>3, <1>4, <1>5, <1>6 DEF ServerStep
\* A step of the page alone leaves the gateway's part typed.
LEMMA ServerKeeps ==
  ASSUME TypeInv, UNCHANGED serverVars,
         sending' \in [Turn -> {"idle", "creating", "waiting", "done"}],
         \A t \in Turn : sending'[t] = "waiting" => sending[t] = "waiting",
         got' \in [Turn -> Nat], \A t \in Turn : got'[t] \in 0..answer[t]
  PROVE  ServerTypes'
  BY DEF TypeInv, ServerTypes, serverVars, UnderWay

LEMMA KeepTyped ==
  ASSUME TypeInv, NEW id \in Conversation \cup {NoConversation}, NEW shown \in Shownable,
         Keep(id, shown)
  PROVE  convStore' \in [Conversation -> Shownable \cup {Nothing}]
  BY DEF TypeInv, PageTypes, Keep

\* send() with a conversation, existing or just created.
LEMMA StreamTyped ==
  ASSUME TypeInv, NEW t \in Turn, NEW c \in Conversation, NEW seen \in Shownable,
         Stream(t, c, seen), UNCHANGED <<table, next, convStore, got, fetches, deletion, deletable>>,
         \/ UNCHANGED <<conversations, created>>
         \/ CreateConversation
  PROVE  TypeInv'
<1>0. PICK text \in Typed(t) : /\ messages' = seen \o <<User(text), Blank>>
                               /\ Post(t, c, NewestText(Append(seen, User(text))))
  BY DEF Stream
<1>1. messages' \in Shownable /\ NewestText(Append(seen, User(text))) \in Text
  BY <1>0, TypedText, NewMessages, NewestIs
<1>2. PageTypes'
  BY <1>1 DEF TypeInv, PageTypes, Stream
<1>3. /\ conversations' \subseteq Conversation
      /\ created' \in 0..Conversations
      /\ conversations \subseteq conversations'
  <2>1. CASE UNCHANGED <<conversations, created>>
    BY <2>1 DEF TypeInv, ServerTypes
  <2>2. CASE CreateConversation
    <3>1. created \in 0..Conversations /\ created + 1 \in Conversation
      BY <2>2, Bounds DEF TypeInv, ServerTypes, CreateConversation, Conversation
    <3> QED BY <2>2, <3>1, Bounds DEF TypeInv, ServerTypes, CreateConversation, Conversation
  <2> QED BY <2>1, <2>2
<1>4. /\ sending' \in [Turn -> {"idle", "creating", "waiting", "done"}]
      /\ sv' \in [Turn -> {"none", "failed", "stored", "unstored"} \cup UnderWay]
      /\ convOf' \in [Turn -> Conversation \cup {NoConversation}]
      /\ question' \in [Turn -> Text]
      /\ UNCHANGED <<answer, got>>
  BY <1>0, <1>1 DEF TypeInv, ServerTypes, Stream, Post, At, UnderWay
<1>5. /\ \A u \in Turn : sv'[u] # "none" => convOf'[u] \in Conversation
      /\ \A u \in Turn : sending'[u] = "waiting" => sv'[u] # "none"
  BY <1>0 DEF TypeInv, ServerTypes, Stream, Post, At
<1> QED BY <1>2, <1>3, <1>4, <1>5 DEF TypeInv, ServerTypes

LEMMA ReloadTyped == ASSUME TypeInv, Reload PROVE TypeInv'
<1>1. << >> \in Shownable
  BY DEF Shownable
<1>2. ServerTypes'
  <2>1. /\ sending' \in [Turn -> {"idle", "creating", "waiting", "done"}]
        /\ \A t \in Turn : sending'[t] # "waiting"
    BY DEF Reload
  <2>2. got' \in [Turn -> Nat] /\ \A t \in Turn : got'[t] \in 0..answer[t]
    BY DEF Reload, TypeInv, ServerTypes
  <2> QED BY <2>1, <2>2, ServerKeeps DEF Reload
<1> QED BY <1>1, <1>2 DEF Reload, TypeInv, PageTypes

LEMMA EndTyped == ASSUME TypeInv, NEW t \in Turn, NEW told, EndSend(t, told) PROVE TypeInv'
<1>1. ServerTypes'
  BY ServerKeeps DEF EndSend, TypeInv, ServerTypes
<1> QED BY <1>1 DEF EndSend, TypeInv, PageTypes

LEMMA ChangesTyped ==
  ASSUME TypeInv,
         NewChat \/ DeleteServed \/ Deleted \/ DeleteRejected \/ \E c \in Conversation : Open(c) \/ Delete(c)
  PROVE  TypeInv'
<1>0. << >> \in Shownable
  BY DEF Shownable
<1>1. CASE NewChat
  <2>1. convStore' \in [Conversation -> Shownable \cup {Nothing}]
    BY <1>1, KeepTyped DEF NewChat, TypeInv, PageTypes
  <2>2. ServerTypes'
    BY <1>1, ServerKeeps DEF NewChat, TypeInv, ServerTypes
  <2> QED BY <1>0, <1>1, <2>1, <2>2 DEF NewChat, TypeInv, PageTypes
<1>2. CASE DeleteServed
  <2>1. deletion \in Deletion
    BY <1>2 DEF DeleteServed, TypeInv, PageTypes
  <2>2. deletion' \in Deletion
    BY <1>2, <2>1 DEF DeleteServed, Deletion
  <2>3. CASE DeleteConversation(deletion.id)
    <3>1. deletion.id \in Conversation
      BY <2>1 DEF Deletion
    <3>2. /\ table' \in [Conversation -> SUBSET Message]
          /\ \A c \in Conversation : IsFiniteSet(table'[c])
          /\ \A c \in Conversation \ conversations' : table'[c] = {}
      BY <2>3, <3>1, FS_EmptySet DEF DeleteConversation, TypeInv, ServerTypes
    <3>3. ServerTypes'
      BY <1>2, <2>3, <3>2 DEF DeleteServed, DeleteConversation, TypeInv, ServerTypes
    <3> QED BY <1>2, <2>2, <3>3 DEF DeleteServed, TypeInv, PageTypes
  <2>4. CASE UNCHANGED serverVars
    <3>1. ServerTypes'
      BY <1>2, <2>4, ServerKeeps DEF DeleteServed, TypeInv, ServerTypes
    <3> QED BY <1>2, <2>2, <3>1 DEF DeleteServed, TypeInv, PageTypes
  <2> QED BY <1>2, <2>3, <2>4 DEF DeleteServed
<1>3. CASE Deleted
  <2>1. deletion \in Deletion
    BY <1>3 DEF Deleted, TypeInv, PageTypes
  <2>2. ServerTypes'
    BY <1>3, ServerKeeps DEF Deleted, TypeInv, ServerTypes
  <2>3. convStore' \in [Conversation -> Shownable \cup {Nothing}]
    <3>1. CASE deletion.seen # Nothing
      <4>1. deletion.seen \in Shownable /\ deletion.id \in Conversation
        BY <2>1, <3>1 DEF Deletion
      <4> QED BY <1>3, <3>1, <4>1, KeepTyped DEF Deleted
    <3> QED BY <1>3, <3>1 DEF Deleted, TypeInv, PageTypes
  <2> QED BY <1>0, <1>3, <2>2, <2>3 DEF Deleted, TypeInv, PageTypes
<1>4. ASSUME NEW c \in Conversation, Open(c) PROVE TypeInv'
  <2>1. convStore' \in [Conversation -> Shownable \cup {Nothing}]
    BY <1>4, KeepTyped DEF Open, TypeInv, PageTypes
  <2>2. ServerTypes'
    BY <1>4, ServerKeeps DEF Open, TypeInv, ServerTypes
  <2>3. messages' \in Shownable /\ fetches' \in [Fetch -> Load \cup {Nothing}]
    <3>1. CASE convStore[c] # Nothing
      BY <1>4, <3>1 DEF Open, TypeInv, PageTypes
    <3>2. CASE convStore[c] = Nothing
      <4>1. [id |-> c, loaded |-> Nothing] \in Load
        BY DEF Load
      <4> QED BY <1>0, <1>4, <3>2, <4>1 DEF Open, TypeInv, PageTypes
    <3> QED BY <3>1, <3>2
  <2> QED BY <1>4, <2>1, <2>2, <2>3 DEF Open, TypeInv, PageTypes
<1>5. ASSUME NEW c \in Conversation, Delete(c) PROVE TypeInv'
  <2>1. deletion' \in Deletion
    BY <1>5 DEF Delete, Deletion, TypeInv, PageTypes
  <2>2. ServerTypes'
    BY <1>5, ServerKeeps DEF Delete, TypeInv, ServerTypes
  <2> QED BY <1>5, <2>1, <2>2 DEF Delete, TypeInv, PageTypes
<1>6. CASE DeleteRejected
  <2>1. ServerTypes'
    BY <1>6, ServerKeeps DEF DeleteRejected, TypeInv, ServerTypes
  <2> QED BY <1>6, <2>1 DEF DeleteRejected, TypeInv, PageTypes
<1> QED BY <1>1, <1>2, <1>3, <1>4, <1>5, <1>6

LEMMA LoadsTyped ==
  ASSUME TypeInv, NEW f \in Fetch, FetchAnswered(f) \/ FetchArrives(f) PROVE TypeInv'
<1>0. fetches[f] \in Load
  BY DEF FetchAnswered, FetchArrives, TypeInv, PageTypes
<1>1. ServerTypes'
  BY ServerKeeps DEF FetchAnswered, FetchArrives, TypeInv, ServerTypes
<1>2. CASE FetchAnswered(f)
  <2>1. fetches[f].id \in Conversation
    BY <1>0 DEF Load
  <2>2. PICK shown \in Shownable : fetches' = [fetches EXCEPT ![f].loaded = shown]
    <3>1. CASE \E h \in Histories(fetches[f].id) : fetches' = [fetches EXCEPT ![f].loaded = Shown(h)]
      BY <2>1, <3>1, HistoryTyped
    <3>2. << >> \in Shownable
      BY DEF Shownable
    <3> QED BY <1>2, <3>1, <3>2 DEF FetchAnswered
  <2>3. [fetches[f] EXCEPT !.loaded = shown] \in Load
    BY <1>0 DEF Load
  <2>4. fetches' \in [Fetch -> Load \cup {Nothing}]
    BY <2>2, <2>3 DEF TypeInv, PageTypes
  <2> QED BY <1>1, <1>2, <2>4 DEF FetchAnswered, TypeInv, PageTypes
<1>3. CASE FetchArrives(f)
  <2>1. fetches[f].id \in Conversation /\ fetches[f].loaded \in Shownable
    BY <1>0, <1>3 DEF FetchArrives, Load
  <2>2. messages' \in Shownable
    BY <1>3, <2>1 DEF FetchArrives, ShowIfActive, TypeInv, PageTypes
  <2> QED BY <1>1, <1>3, <2>1, <2>2 DEF FetchArrives, TypeInv, PageTypes
<1> QED BY <1>2, <1>3

LEMMA TurnTyped ==
  ASSUME TypeInv, NEW t \in Turn, Send(t) \/ Reply(t) \/ Stop(t) \/ Server(t) PROVE TypeInv'
<1>1. CASE Send(t)
  <2>1. CASE conversationId = NoConversation
    <3>1. ServerTypes'
      BY <1>1, <2>1, ServerKeeps DEF Send, TypeInv, ServerTypes
    <3> QED BY <1>1, <2>1, <3>1 DEF Send, TypeInv, PageTypes
  <2>2. CASE conversationId # NoConversation
    BY <1>1, <2>2, StreamTyped DEF Send, TypeInv, PageTypes, stored
  <2> QED BY <2>1, <2>2
<1>2. CASE Created(t)
  <2>1. << >> \in Shownable /\ created + 1 \in Conversation
    BY <1>2, Bounds DEF Created, CreateConversation, Shownable, Conversation, TypeInv, ServerTypes
  <2> QED BY <1>2, <2>1, StreamTyped DEF Created
<1>3. CASE NotCreated(t)
  <2>1. ServerTypes'
    BY <1>3, ServerKeeps DEF NotCreated, TypeInv, ServerTypes
  <2> QED BY <1>3, <2>1 DEF NotCreated, TypeInv, PageTypes
<1>4. CASE Token(t)
  <2>1. CASE messages = << >>
    BY <1>4, <2>1, ReloadTyped DEF Token
  <2>2. CASE messages # << >>
    <3>1. messages' \in Shownable
      BY <1>4, <2>2, TokenTyped DEF Token, TypeInv, PageTypes
    <3>2. ServerTypes'
      <4>1. got' \in [Turn -> Nat] /\ \A u \in Turn : got'[u] \in 0..answer[u]
        <5>1. got' = [got EXCEPT ![t] = got[t] + 1] /\ got[t] < answer[t]
          BY <1>4, <2>2 DEF Token
        <5>2. got[t] + 1 \in 0..answer[t] /\ got[t] + 1 \in Nat
          BY <5>1 DEF TypeInv, ServerTypes
        <5> QED BY <5>1, <5>2 DEF TypeInv, ServerTypes
      <4> QED BY <1>4, <2>2, <4>1, ServerKeeps DEF Token, TypeInv, ServerTypes
    <3> QED BY <1>4, <2>2, <3>1, <3>2 DEF Token, TypeInv, PageTypes
  <2> QED BY <2>1, <2>2
<1>5. CASE StreamEnds(t) \/ Error(t) \/ Stop(t)
  BY <1>5, EndTyped DEF StreamEnds, Error, Stop
<1>6. CASE Server(t)
  BY <1>6, ServerStepTyped DEF Server, TypeInv, PageTypes
<1> QED BY <1>1, <1>2, <1>3, <1>4, <1>5, <1>6 DEF Reply

LEMMA TypeStep == TypeInv /\ [Next]_vars => TypeInv'
<1> SUFFICES ASSUME TypeInv, [Next]_vars PROVE TypeInv'
  OBVIOUS
<1>1. CASE UNCHANGED vars
  BY <1>1 DEF vars, serverVars, page, TypeInv, ServerTypes, PageTypes
<1>2. CASE Next
  BY <1>2, ReloadTyped, ChangesTyped, LoadsTyped, TurnTyped DEF Next
<1> QED BY <1>1, <1>2

LEMMA AlwaysTyped == Spec => []TypeInv
  BY TypeInit, TypeStep, PTL DEF Spec

\* However handlers, loads and the gateway interleave, the state of page and
\* gateway is of its kind, and no message is stored for a conversation that is
\* gone: DELETE takes a conversation's messages along, and persistMessages adds
\* none to one that is not there.
THEOREM TypeCorrect == Spec => []TypeOK
<1>1. TypeInv => TypeOK
  BY DEF TypeInv, ServerTypes, PageTypes, TypeOK, ServerTypeOK, Shownable, PageMessage
<1> QED BY <1>1, AlwaysTyped, PTL

--------------------------------------------------------------------------------
(* What the numbers of turns and conversations say. *)

Tokens(t, n) == [i \in 1..n |-> t]

\* The text a message is stored with.
TextOf(m) == IF m.role = "user" THEN question[m.turn] ELSE Tokens(m.turn, answer[m.turn])

SendInv ==
  /\ \A t \in Turn : sv[t] = "none" => question[t] = << >>
  /\ \A t \in Turn : sv[t] \in {"none", "posted", "failed"} => answer[t] = 0
  /\ \A c \in Conversation : \A m \in table[c] : m.of # << >> /\ m.of = TextOf(m)
  /\ \A t \in Turn : sending[t] \in {"idle", "creating"} => sv[t] = "none"
  /\ \A t \in Turn : sv[t] = "none" => convOf[t] = NoConversation
  /\ \A t, u \in Turn : u < t /\ sending[t] # "idle" => sending[u] # "idle"
  /\ conversations \subseteq 1..created
  /\ \A t \in Turn : sv[t] # "none" => convOf[t] \in 1..created
  /\ conversationId \in 1..created \cup {NoConversation}
  /\ deletion # Nothing => deletion.id \in 1..created
  /\ \A c \in Conversation : \A m \in table[c] : sv[m.turn] = "stored" /\ convOf[m.turn] = c

OneTurn ==
  \A t, u \in Turn :
    /\ sv[t] \in UnderWay /\ sv[u] \in UnderWay
    /\ convOf[t] = convOf[u] /\ convOf[t] \notin crossed
    => t = u

OrderInv ==
  /\ HistoryInOrder
  /\ OneTurn
  /\ \A c \in Conversation \ crossed : \A t \in Turn :
       sv[t] \in UnderWay /\ convOf[t] = c =>
         /\ \A m \in table[c] : m.turn < t
         /\ sv[t] = "read" /\ c \in conversations => next[t] = Cardinality(table[c])

Active(t) == sending[t] \in {"creating", "waiting"}

PageOwn ==
  /\ conversationId = activeRef
  /\ From(conversationId, messages)
  /\ conversationId = NoConversation => messages = << >>
  /\ \A c \in Conversation : convStore[c] # Nothing => From(c, convStore[c])
  /\ deletion # Nothing /\ deletion.seen # Nothing => From(deletion.id, deletion.seen)
  /\ \A t \in Turn : sending[t] = "waiting" => convOf[t] = conversationId
  /\ \A t, u \in Turn : Active(t) /\ Active(u) => t = u

LoadsOwn ==
  \A f \in Fetch : fetches[f] # Nothing /\ fetches[f].loaded # Nothing => From(fetches[f].id, fetches[f].loaded)

OwnInv == LoadsOwn /\ (~ mixed => PageOwn)

LEMMA SendInit == Init => SendInv
  BY DEF Init, ServerInit, SendInv

LEMMA SendQuiet ==
  ASSUME TypeInv, SendInv, UNCHANGED serverVars,
         \A t \in Turn : \/ sending'[t] = sending[t]
                         \/ sending[t] # "idle" /\ sending'[t] \notin {"idle", "creating"},
         conversationId' \in 1..created \cup {NoConversation},
         deletion' # Nothing => deletion'.id \in 1..created
  PROVE  SendInv'
<1>1. \A c \in Conversation : \A m \in table[c] : TextOf(m)' = TextOf(m)
  BY DEF TextOf, Tokens, serverVars
<1> QED BY <1>1 DEF SendInv, serverVars

LEMMA SendStream ==
  ASSUME TypeInv, SendInv, NEW t \in Turn, NEW c \in Conversation, NEW seen \in Shownable,
         Stream(t, c, seen), UNCHANGED <<table, deletion>>,
         sending[t] = "creating" \/ IsNew(t),
         \/ UNCHANGED <<conversations, created>> /\ c \in 1..created
         \/ CreateConversation /\ c = created + 1
  PROVE  SendInv'
<1>0. PICK text : Post(t, c, text)
  BY DEF Stream
<1>1. /\ conversations' \subseteq 1..created' /\ c \in 1..created'
      /\ 1..created \subseteq 1..created'
  <2>1. created \in Nat
    BY Bounds DEF TypeInv, ServerTypes
  <2>2. conversations \subseteq 1..created
    BY DEF SendInv
  <2>3. CASE UNCHANGED <<conversations, created>> /\ c \in 1..created
    BY <2>2, <2>3
  <2>4. CASE CreateConversation /\ c = created + 1
    BY <2>1, <2>2, <2>4 DEF CreateConversation
  <2> QED BY <2>3, <2>4
<1>2. /\ sv[t] = "none"
      /\ sending' = [sending EXCEPT ![t] = "waiting"]
      /\ sv' = [sv EXCEPT ![t] = "posted"]
      /\ convOf' = [convOf EXCEPT ![t] = c]
      /\ conversationId' = c
      /\ question' = [question EXCEPT ![t] = text]
      /\ UNCHANGED answer
  BY <1>0 DEF SendInv, Stream, Post, At, IsNew
<1>3. /\ \A u \in Turn : sending'[u] \in {"idle", "creating"} => sv'[u] = "none"
      /\ \A u \in Turn : sv'[u] = "none" => convOf'[u] = NoConversation
      /\ \A u \in Turn : sv'[u] # "none" => convOf'[u] \in 1..created'
  BY <1>1, <1>2 DEF SendInv, TypeInv, ServerTypes
<1>4. \A u, v \in Turn : v < u /\ sending'[u] # "idle" => sending'[v] # "idle"
  BY <1>2 DEF SendInv, TypeInv, ServerTypes, IsNew
<1>5. \A d \in Conversation : \A m \in table'[d] : sv'[m.turn] = "stored" /\ convOf'[m.turn] = d
  BY <1>2 DEF SendInv, TypeInv, ServerTypes, Message
<1>6. deletion' # Nothing => deletion'.id \in 1..created'
  BY <1>1 DEF SendInv
<1>7. /\ \A u \in Turn : sv'[u] = "none" => question'[u] = << >>
      /\ \A u \in Turn : sv'[u] \in {"none", "posted", "failed"} => answer'[u] = 0
  BY <1>2 DEF SendInv, TypeInv, ServerTypes
<1>8. ASSUME NEW d \in Conversation, NEW m \in table'[d] PROVE m.of # << >> /\ m.of = TextOf(m)'
  <2>1. m \in table[d] /\ m.turn \in Turn /\ sv[m.turn] = "stored"
    BY <1>8 DEF SendInv, TypeInv, ServerTypes, Message
  <2>2. m.turn # t
    BY <1>2, <2>1
  <2>3. TextOf(m)' = TextOf(m)
    BY <1>2, <2>1, <2>2 DEF TextOf, Tokens, TypeInv, ServerTypes
  <2> QED BY <2>1, <2>3 DEF SendInv
<1> QED BY <1>1, <1>2, <1>3, <1>4, <1>5, <1>6, <1>7, <1>8 DEF SendInv

\* A step of the gateway with a turn: what may change.
LEMMA ServerMoves ==
  ASSUME TypeInv, NEW t \in Turn, ServerStep(t)
  PROVE  /\ sv[t] \in UnderWay
         /\ \E at \in {"answering", "answered", "failed", "read", "stored", "unstored"} :
              sv' = [sv EXCEPT ![t] = at]
         /\ UNCHANGED <<created, convOf, question, crossed>>
         /\ answer' # answer => answer' = [answer EXCEPT ![t] = @ + 1] /\ sv[t] = "answering" /\ UNCHANGED sv
         /\ sv'[t] = "failed" => answer'[t] = 0
         /\ conversations' \subseteq conversations \cup {convOf[t]}
         /\ \/ UNCHANGED table
            \/ /\ sv[t] = "read" /\ sv' = [sv EXCEPT ![t] = "stored"]
               /\ convOf[t] \in conversations /\ UNCHANGED conversations
               /\ table' = [table EXCEPT ![convOf[t]] = @ \cup Entries(t)]
<1> USE DEF At, stored, UnderWay
<1>1. CASE Ensure(t)
  BY <1>1 DEF Ensure
<1>2. CASE Chunk(t)
  <2>1. sv' = [sv EXCEPT ![t] = "answering"]
    BY <1>2 DEF Chunk, TypeInv, ServerTypes
  <2> QED BY <1>2, <2>1 DEF Chunk, TypeInv, ServerTypes
<1>3. CASE AnswerEnds(t) \/ Reject(t) \/ NoEntries(t)
  BY <1>3 DEF AnswerEnds, Reject, NoEntries, TypeInv, ServerTypes
<1>4. CASE ReadNext(t)
  BY <1>4 DEF ReadNext, TypeInv, ServerTypes
<1>5. CASE Store(t)
  BY <1>5 DEF Store, TypeInv, ServerTypes
<1>6. CASE StoreFails(t)
  BY <1>6 DEF StoreFails, TypeInv, ServerTypes
<1> QED BY <1>1, <1>2, <1>3, <1>4, <1>5, <1>6 DEF ServerStep

LEMMA EntriesOf ==
  ASSUME TypeInv, NEW t \in Turn, NEW m \in Entries(t)
  PROVE  /\ m.turn = t /\ m.of # << >> /\ m.of = TextOf(m)
         /\ m.role = "user" => question[t] # << >>
         /\ m.role = "assistant" => answer[t] > 0
<1>1. CASE m = QuestionRow(t)
  <2>1. m.turn = t /\ m.role = "user" /\ m.of = question[t]
    BY <1>1 DEF QuestionRow
  <2> QED BY <2>1 DEF Entries, TextOf
<1>2. CASE m = AnswerRow(t)
  <2>1. m.turn = t /\ m.role = "assistant" /\ m.of = Tokens(t, answer[t])
    BY <1>2 DEF AnswerRow, Tokens
  <2>2. answer[t] \in Nat /\ (answer[t] = 0 => Tokens(t, answer[t]) = << >>)
    BY DEF TypeInv, ServerTypes, Tokens
  <2> QED BY <2>1, <2>2 DEF Entries, TextOf
<1> QED BY <1>1, <1>2 DEF Entries

\* Which rows a turn has.
LEMMA EntriesAre ==
  ASSUME TypeInv, NEW t \in Turn
  PROVE  Entries(t) = (IF question[t] # << >> THEN {QuestionRow(t)} ELSE {})
                        \cup (IF answer[t] > 0 THEN {AnswerRow(t)} ELSE {})
<1>1. QuestionRow(t).of = question[t] /\ AnswerRow(t).of = Tokens(t, answer[t])
  BY DEF QuestionRow, AnswerRow, Tokens
<1>2. answer[t] \in Nat
  BY DEF TypeInv, ServerTypes
<1>3. answer[t] = 0 => Tokens(t, answer[t]) = << >>
  BY DEF Tokens
<1>4. answer[t] > 0 => Tokens(t, answer[t]) # << >>
  <2> SUFFICES ASSUME answer[t] > 0 PROVE Tokens(t, answer[t]) # << >>
    OBVIOUS
  <2>1. 1 \in DOMAIN Tokens(t, answer[t])
    BY <1>2 DEF Tokens
  <2> QED BY <2>1
<1> QED BY <1>1, <1>2, <1>3, <1>4 DEF Entries

LEMMA SendServer == ASSUME TypeInv, SendInv, NEW t \in Turn, Server(t) PROVE SendInv'
<1>1. PICK at \in {"answering", "answered", "failed", "read", "stored", "unstored"} :
        sv' = [sv EXCEPT ![t] = at]
  BY ServerMoves DEF Server
<1>2. /\ sv[t] \in UnderWay
      /\ UNCHANGED <<created, convOf, question, sending, deletion, conversationId>>
      /\ answer' # answer => answer' = [answer EXCEPT ![t] = @ + 1] /\ sv[t] = "answering" /\ UNCHANGED sv
      /\ sv'[t] = "failed" => answer'[t] = 0
      /\ conversations' \subseteq conversations \cup {convOf[t]}
  BY ServerMoves DEF Server
<1>3. sv[t] # "none" /\ convOf[t] \in 1..created
  BY <1>2 DEF SendInv, UnderWay
<1>4. \A d \in Conversation : \A m \in table'[d] : sv'[m.turn] = "stored" /\ convOf'[m.turn] = d
  <2>1. ASSUME NEW d \in Conversation, NEW m \in table[d]
        PROVE  sv'[m.turn] = "stored" /\ convOf'[m.turn] = d
    <3>1. sv[m.turn] = "stored" /\ convOf[m.turn] = d
      BY <2>1 DEF SendInv
    <3>2. m.turn # t
      BY <1>2, <3>1 DEF UnderWay
    <3>3. m.turn \in Turn
      BY <2>1 DEF TypeInv, ServerTypes, Message
    <3> QED BY <1>1, <1>2, <3>1, <3>2, <3>3 DEF TypeInv, ServerTypes
  <2>2. CASE UNCHANGED table
    BY <2>1, <2>2
  <2>3. CASE /\ sv' = [sv EXCEPT ![t] = "stored"]
             /\ table' = [table EXCEPT ![convOf[t]] = @ \cup Entries(t)]
    <3> SUFFICES ASSUME NEW d \in Conversation, NEW m \in table'[d], m \notin table[d]
                 PROVE  sv'[m.turn] = "stored" /\ convOf'[m.turn] = d
      BY <2>1
    <3>1. d = convOf[t] /\ m \in Entries(t)
      BY <2>3 DEF TypeInv, ServerTypes
    <3>2. m.turn = t
      BY <3>1, EntriesOf
    <3> QED BY <1>2, <2>3, <3>1, <3>2 DEF TypeInv, ServerTypes
  <2> QED BY <2>2, <2>3, ServerMoves DEF Server
<1>5. /\ \A u \in Turn : sending[u] \in {"idle", "creating"} => sv'[u] = "none"
      /\ \A u \in Turn : sv'[u] = "none" => convOf[u] = NoConversation
      /\ \A u \in Turn : sv'[u] # "none" => convOf[u] \in 1..created
  BY <1>1, <1>3 DEF SendInv, TypeInv, ServerTypes
<1>6. \A u \in Turn : sv'[u] \in {"none", "posted", "failed"} => answer'[u] = 0
  <2>1. \A u \in Turn : u # t => sv'[u] = sv[u] /\ answer'[u] = answer[u]
    BY <1>1, <1>2 DEF TypeInv, ServerTypes
  <2>2. sv'[t] \in {"none", "posted", "failed"} => answer'[t] = 0
    BY <1>1, <1>2 DEF TypeInv, ServerTypes
  <2> QED BY <2>1, <2>2 DEF SendInv
<1>7. \A u \in Turn : sv'[u] = "none" => question'[u] = << >>
  BY <1>1, <1>2 DEF SendInv, TypeInv, ServerTypes
<1>8. ASSUME NEW d \in Conversation, NEW m \in table'[d] PROVE m.of # << >> /\ m.of = TextOf(m)'
  <2>1. CASE m \in table[d]
    <3>1. m.turn \in Turn /\ sv[m.turn] = "stored" /\ m.turn # t
      BY <1>2, <2>1 DEF SendInv, TypeInv, ServerTypes, Message, UnderWay
    <3>2. question'[m.turn] = question[m.turn] /\ answer'[m.turn] = answer[m.turn]
      BY <1>2, <3>1 DEF TypeInv, ServerTypes
    <3>3. TextOf(m)' = TextOf(m)
      BY <3>2 DEF TextOf, Tokens
    <3> QED BY <2>1, <3>3 DEF SendInv
  <2>2. CASE m \notin table[d]
    <3>1. m \in Entries(t) /\ sv[t] = "read"
      BY <1>8, <2>2, ServerMoves DEF Server, TypeInv, ServerTypes
    <3>2. UNCHANGED <<question, answer>>
      BY <1>2, <3>1
    <3>3. TextOf(m)' = TextOf(m)
      BY <3>2 DEF TextOf, Tokens
    <3> QED BY <3>1, <3>3, EntriesOf
  <2> QED BY <2>1, <2>2
<1> QED BY <1>2, <1>3, <1>4, <1>5, <1>6, <1>7, <1>8 DEF SendInv

LEMMA ListedCreated == Listed \subseteq 1..created
  BY DEF Listed

LEMMA SendStep == TypeInv /\ SendInv /\ [Next]_vars => SendInv'
<1> SUFFICES ASSUME TypeInv, SendInv, [Next]_vars PROVE SendInv'
  OBVIOUS
<1>0. /\ deletion # Nothing => deletion.id \in 1..created
      /\ conversationId \in 1..created \cup {NoConversation}
  BY DEF SendInv
<1>1. CASE UNCHANGED vars
  BY <1>0, <1>1, SendQuiet DEF vars, page
<1>2. CASE NewChat
  BY <1>0, <1>2, SendQuiet DEF NewChat
<1>3. ASSUME Reload PROVE SendInv'
  <2>1. \A t \in Turn : \/ sending'[t] = sending[t]
                        \/ sending[t] # "idle" /\ sending'[t] \notin {"idle", "creating"}
    BY <1>3 DEF Reload
  <2> QED BY <1>0, <1>3, <2>1, SendQuiet DEF Reload
<1>4. CASE DeleteServed
  <2>1. /\ deletion \in Deletion /\ deletion.id \in Conversation
        /\ deletion' = [deletion EXCEPT !.gone = TRUE]
    BY <1>4 DEF DeleteServed, TypeInv, PageTypes, Deletion
  <2>2. deletion'.id \in 1..created
    BY <1>0, <1>4, <2>1 DEF DeleteServed, Deletion
  <2>3. CASE UNCHANGED serverVars
    BY <1>0, <1>4, <2>2, <2>3, SendQuiet DEF DeleteServed
  <2>4. CASE DeleteConversation(deletion.id)
    <3>1. \A c \in Conversation : table'[c] \subseteq table[c]
      BY <2>1, <2>4 DEF DeleteConversation, TypeInv, ServerTypes
    <3>2. \A c \in Conversation : \A m \in table[c] : TextOf(m)' = TextOf(m)
      BY <2>4 DEF DeleteConversation, TextOf, Tokens
    <3> QED BY <1>4, <2>2, <2>4, <3>1, <3>2 DEF DeleteServed, DeleteConversation, SendInv
  <2> QED BY <1>4, <2>3, <2>4 DEF DeleteServed
<1>5. CASE Deleted \/ DeleteRejected
  BY <1>0, <1>5, SendQuiet DEF Deleted, DeleteRejected
<1>6. ASSUME NEW c \in Conversation, Open(c) PROVE SendInv'
  BY <1>0, <1>6, SendQuiet, ListedCreated DEF Open
<1>7. ASSUME NEW c \in Conversation, Delete(c) PROVE SendInv'
  BY <1>0, <1>7, SendQuiet, ListedCreated DEF Delete
<1>8. ASSUME NEW f \in Fetch, FetchAnswered(f) \/ FetchArrives(f) PROVE SendInv'
  BY <1>0, <1>8, SendQuiet DEF FetchAnswered, FetchArrives
<1>9. ASSUME NEW t \in Turn, Send(t) PROVE SendInv'
  <2>1. CASE conversationId = NoConversation
    <3>1. /\ sending[t] = "idle" /\ \A u \in Turn : u < t => sending[u] # "idle"
          /\ sending' = [sending EXCEPT ![t] = "creating"]
          /\ UNCHANGED <<serverVars, conversationId, deletion>>
      BY <1>9, <2>1 DEF Send, IsNew
    <3>2. /\ \A u \in Turn : sending'[u] \in {"idle", "creating"} => sv[u] = "none"
          /\ \A u, v \in Turn : v < u /\ sending'[u] # "idle" => sending'[v] # "idle"
      BY <3>1 DEF SendInv, TypeInv, ServerTypes
    <3>3. \A c \in Conversation : \A m \in table[c] : TextOf(m)' = TextOf(m)
      BY <3>1 DEF TextOf, Tokens, serverVars
    <3> QED BY <3>1, <3>2, <3>3 DEF SendInv, serverVars
  <2>2. CASE conversationId # NoConversation
    <3>1. conversationId \in Conversation /\ messages \in Shownable
      BY <2>2 DEF TypeInv, PageTypes
    <3>2. /\ Stream(t, conversationId, messages) /\ IsNew(t)
          /\ UNCHANGED <<conversations, created, table, deletion>>
      BY <1>9, <2>2 DEF Send, stored
    <3> QED BY <1>0, <2>2, <3>1, <3>2, SendStream
  <2> QED BY <2>1, <2>2
<1>10. ASSUME NEW t \in Turn, Created(t) PROVE SendInv'
  <2>1. << >> \in Shownable /\ created + 1 \in Conversation
    BY <1>10, Bounds DEF Created, CreateConversation, Shownable, Conversation, TypeInv, ServerTypes
  <2> QED BY <1>10, <2>1, SendStream DEF Created
<1>11. ASSUME NEW t \in Turn, NotCreated(t) PROVE SendInv'
  BY <1>0, <1>11, SendQuiet DEF NotCreated, TypeInv, ServerTypes
<1>12. ASSUME NEW t \in Turn, Token(t) PROVE SendInv'
  <2>1. CASE messages = << >>
    BY <1>3, <1>12, <2>1 DEF Token
  <2>2. CASE messages # << >>
    BY <1>0, <1>12, <2>2, SendQuiet DEF Token, TypeInv, ServerTypes
  <2> QED BY <2>1, <2>2
<1>13. ASSUME NEW t \in Turn, StreamEnds(t) \/ Error(t) \/ Stop(t) PROVE SendInv'
  BY <1>0, <1>13, SendQuiet DEF StreamEnds, Error, Stop, EndSend, TypeInv, ServerTypes
<1> QED BY <1>1, <1>2, <1>3, <1>4, <1>5, <1>6, <1>7, <1>8, <1>9, <1>10, <1>11, <1>12, <1>13,
           SendServer DEF Next, Reply

LEMMA AlwaysSend == Spec => [](TypeInv /\ SendInv)
<1>1. Init => TypeInv /\ SendInv
  BY TypeInit, SendInit
<1>2. TypeInv /\ SendInv /\ [Next]_vars => TypeInv' /\ SendInv'
  BY TypeStep, SendStep
<1> QED BY <1>1, <1>2, PTL DEF Spec

--------------------------------------------------------------------------------
(* The order of the stored history. *)

\* Which of two messages comes first.
Precedes(m, n) == m.turn < n.turn \/ (m.turn = n.turn /\ m.role = "user" /\ n.role = "assistant")

InOrder(S) ==
  /\ {m.seq : m \in S} = 0..(Cardinality(S) - 1)
  /\ \A m, n \in S : m.seq < n.seq <=> Precedes(m, n)

LEMMA HistoryIsInOrder == HistoryInOrder <=> \A c \in Conversation \ crossed : InOrder(table[c])
  BY DEF HistoryInOrder, InOrder, Precedes

\* A message that comes after those there are, under the next number, keeps
\* them in order.
LEMMA OneMore ==
  ASSUME NEW S \in SUBSET Message, IsFiniteSet(S), InOrder(S),
         NEW e \in Message, e.seq = Cardinality(S),
         \A m \in S : Precedes(m, e)
  PROVE  /\ InOrder(S \cup {e})
         /\ Cardinality(S \cup {e}) = Cardinality(S) + 1
         /\ IsFiniteSet(S \cup {e})
<1> DEFINE n == Cardinality(S)
<1>1. n \in Nat
  BY FS_CardinalityType
<1>2. \A m \in S : m.seq \in 0..(n - 1)
  BY DEF InOrder
<1>3. e \notin S
  BY <1>1, <1>2
<1>4. Cardinality(S \cup {e}) = n + 1 /\ IsFiniteSet(S \cup {e})
  BY <1>3, FS_AddElement
<1>5. {m.seq : m \in S \cup {e}} = 0..n
  <2>1. {m.seq : m \in S \cup {e}} = {m.seq : m \in S} \cup {e.seq}
    OBVIOUS
  <2>2. {m.seq : m \in S} = 0..(n - 1)
    BY DEF InOrder
  <2>3. (0..(n - 1)) \cup {n} = 0..n
    BY <1>1
  <2> QED BY <2>1, <2>2, <2>3
<1>6. (n + 1) - 1 = n
  BY <1>1
<1>7. ASSUME NEW a \in S \cup {e}, NEW b \in S \cup {e} PROVE a.seq < b.seq <=> Precedes(a, b)
  <2>1. CASE a \in S /\ b \in S
    BY <2>1 DEF InOrder
  <2>2. CASE a \in S /\ b = e
    BY <1>1, <1>2, <2>2
  <2>3. CASE a = e /\ b \in S
    <3>1. ~ (a.seq < b.seq)
      BY <1>1, <1>2, <2>3
    <3>2. Precedes(b, e)
      BY <2>3
    <3>3. e.turn \in Int /\ b.turn \in Int
      BY <2>3, Bounds DEF Message, Turn
    <3> QED BY <2>3, <3>1, <3>2, <3>3 DEF Precedes
  <2>4. CASE a = e /\ b = e
    <3>1. e.turn \in Int
      BY Bounds DEF Message, Turn
    <3> QED BY <1>1, <2>4, <3>1 DEF Precedes
  <2> QED BY <2>1, <2>2, <2>3, <2>4
<1> QED BY <1>4, <1>5, <1>6, <1>7 DEF InOrder

LEMMA EmptyInOrder == InOrder({})
<1>1. {m.seq : m \in {}} = {} /\ Cardinality({}) = 0
  BY FS_EmptySet
<1>2. 0..(0 - 1) = {}
  OBVIOUS
<1> QED BY <1>1, <1>2 DEF InOrder

\* So do the entries of a turn later than those stored.
LEMMA EntriesInOrder ==
  ASSUME TypeInv, NEW S \in SUBSET Message, IsFiniteSet(S), InOrder(S),
         NEW t \in Turn, next[t] = Cardinality(S), \A m \in S : m.turn < t
  PROVE  InOrder(S \cup Entries(t))
<1> DEFINE asked == QuestionRow(t)
           told  == AnswerRow(t)
           base  == IF question[t] # << >> THEN S \cup {asked} ELSE S
<1>1. next[t] \in Nat /\ answer[t] \in Nat /\ question[t] \in Text
  BY DEF TypeInv, ServerTypes
<1>2. /\ asked \in Message /\ asked.turn = t /\ asked.role = "user" /\ asked.seq = next[t]
      /\ told \in Message /\ told.turn = t /\ told.role = "assistant"
      /\ told.seq = IF question[t] = << >> THEN next[t] ELSE next[t] + 1
  <2>1. [i \in 1..answer[t] |-> t] \in Text
    BY <1>1 DEF Text
  <2> QED BY <1>1, <2>1 DEF Message, QuestionRow, AnswerRow
<1>3. \A m \in S : Precedes(m, asked) /\ Precedes(m, told)
  BY <1>2 DEF Precedes
<1>4. Precedes(asked, told)
  BY <1>2 DEF Precedes
<1>5. /\ InOrder(base) /\ IsFiniteSet(base) /\ base \in SUBSET Message
      /\ Cardinality(base) = told.seq
      /\ \A m \in base : Precedes(m, told)
  <2>1. CASE question[t] = << >>
    BY <1>2, <1>3, <2>1
  <2>2. CASE question[t] # << >>
    <3> HIDE DEF asked, told
    <3>1. /\ InOrder(S \cup {asked})
          /\ Cardinality(S \cup {asked}) = next[t] + 1
          /\ IsFiniteSet(S \cup {asked})
      BY <1>2, <1>3, OneMore
    <3> QED BY <1>2, <1>3, <1>4, <2>2, <3>1
  <2> QED BY <2>1, <2>2
<1>6. S \cup Entries(t) = IF answer[t] > 0 THEN base \cup {told} ELSE base
  BY EntriesAre
<1>7. InOrder(base \cup {told})
  <2> HIDE DEF asked, told, base
  <2> QED BY <1>2, <1>5, OneMore
<1> QED BY <1>5, <1>6, <1>7

\* What the number read is, in a history in order.
LEMMA NextInOrder ==
  ASSUME NEW S \in SUBSET Message, IsFiniteSet(S), InOrder(S)
  PROVE  Max({-1} \cup {m.seq : m \in S}) + 1 = Cardinality(S)
<1> DEFINE top == Max({-1} \cup {m.seq : m \in S})
           n   == Cardinality(S)
<1>1. n \in Nat
  BY FS_CardinalityType
<1>2. {m.seq : m \in S} = 0..(n - 1)
  BY DEF InOrder
<1>3. top \in {-1} \cup 0..(n - 1) /\ \A y \in {-1} \cup 0..(n - 1) : top >= y
  BY <1>2, NextNumber
<1> QED
  <2> HIDE DEF top, n
  <2>1. top + 1 = n
    BY <1>1, <1>3
  <2> QED BY <2>1 DEF top, n

LEMMA OrderInit == Init => OrderInv
<1> SUFFICES ASSUME Init PROVE OrderInv
  OBVIOUS
<1>1. HistoryInOrder
  BY EmptyInOrder, HistoryIsInOrder DEF Init, ServerInit
<1>2. \A t \in Turn : sv[t] \notin UnderWay
  BY DEF Init, ServerInit, UnderWay
<1> QED BY <1>1, <1>2 DEF OrderInv, OneTurn

LEMMA OrderQuiet == ASSUME OrderInv, UNCHANGED serverVars PROVE OrderInv'
<1>1. UNCHANGED <<conversations, table, sv, convOf, next, crossed>>
  BY DEF serverVars
<1>2. HistoryInOrder'
  BY <1>1 DEF OrderInv, HistoryInOrder
<1>3. OneTurn'
  BY <1>1 DEF OrderInv, OneTurn
<1> QED BY <1>1, <1>2, <1>3 DEF OrderInv

LEMMA OrderPost ==
  ASSUME TypeInv, SendInv, OrderInv, NEW t \in Turn, NEW c \in Conversation, NEW text,
         Post(t, c, text), UNCHANGED <<table, next>>,
         sending[t] = "creating" \/ IsNew(t),
         \/ UNCHANGED conversations
         \/ conversations' = conversations \cup {c} /\ c = created + 1,
         \A m \in table[c] : m.turn < t
  PROVE  OrderInv'
<1>1. /\ sv' = [sv EXCEPT ![t] = "posted"]
      /\ convOf' = [convOf EXCEPT ![t] = c]
      /\ crossed \subseteq crossed'
      /\ c \notin crossed' => \A u \in Turn : ~ (sv[u] \in UnderWay /\ convOf[u] = c)
      /\ sv[t] = "none"
  BY DEF Post, At, SendInv, IsNew
<1>2. HistoryInOrder'
  BY <1>1, HistoryIsInOrder DEF OrderInv, HistoryInOrder
<1>3. OneTurn'
  <2> SUFFICES ASSUME NEW u \in Turn, NEW v \in Turn,
                      sv'[u] \in UnderWay, sv'[v] \in UnderWay,
                      convOf'[u] = convOf'[v], convOf'[u] \notin crossed'
               PROVE  u = v
    BY DEF OneTurn
  <2>1. CASE u # t /\ v # t
    BY <1>1, <2>1 DEF OrderInv, OneTurn, TypeInv, ServerTypes
  <2>2. CASE u = t /\ v # t
    BY <1>1, <2>2 DEF TypeInv, ServerTypes
  <2>3. CASE u # t /\ v = t
    BY <1>1, <2>3 DEF TypeInv, ServerTypes
  <2> QED BY <2>1, <2>2, <2>3
<1>4. ASSUME NEW d \in Conversation \ crossed', NEW u \in Turn, sv'[u] \in UnderWay, convOf'[u] = d
      PROVE  /\ \A m \in table[d] : m.turn < u
             /\ sv'[u] = "read" /\ d \in conversations' => next[u] = Cardinality(table[d])
  <2>1. CASE u = t
    <3>1. d = c /\ sv'[u] = "posted"
      BY <1>1, <1>4, <2>1 DEF TypeInv, ServerTypes
    <3> QED BY <2>1, <3>1
  <2>2. CASE u # t
    <3>1. sv'[u] = sv[u] /\ convOf'[u] = convOf[u] /\ d \in Conversation \ crossed
      BY <1>1, <2>2 DEF TypeInv, ServerTypes
    <3>2. convOf[u] \in 1..created
      BY <1>4, <3>1 DEF SendInv, UnderWay
    <3>3. d \in conversations' => d \in conversations
      <4>1. created \in Nat /\ convOf[u] # created + 1
        BY <3>2, Bounds DEF TypeInv, ServerTypes
      <4> QED BY <1>4, <3>1, <4>1
    <3> QED BY <1>4, <3>1, <3>3 DEF OrderInv
  <2> QED BY <2>1, <2>2
<1> QED BY <1>2, <1>3, <1>4 DEF OrderInv

\* The messages stored of a conversation are of turns before one that is sent now.
LEMMA StoredEarlier ==
  ASSUME TypeInv, SendInv, NEW t \in Turn, IsNew(t), NEW c \in Conversation, NEW m \in table[c]
  PROVE  m.turn < t
<1>1. m.turn \in Turn /\ sv[m.turn] = "stored"
  BY DEF TypeInv, ServerTypes, Message, SendInv
<1>2. sending[m.turn] # "idle"
  BY <1>1 DEF SendInv
<1>3. ~ (t < m.turn) /\ t # m.turn
  BY <1>1, <1>2 DEF SendInv, IsNew
<1>4. t \in Int /\ m.turn \in Int
  BY <1>1, Bounds DEF Turn
<1> QED BY <1>3, <1>4

LEMMA OrderServer ==
  ASSUME TypeInv, SendInv, OrderInv, NEW t \in Turn, ServerStep(t) PROVE OrderInv'
<1> DEFINE c == convOf[t]
<1>1. /\ sv[t] \in UnderWay /\ c \in Conversation
      /\ UNCHANGED <<convOf, crossed>>
      /\ conversations' \subseteq conversations \cup {c}
      /\ \A u \in Turn : u # t => sv'[u] = sv[u]
      /\ \A u \in Turn : sv'[u] \in UnderWay => sv[u] \in UnderWay
  BY ServerMoves DEF TypeInv, ServerTypes, UnderWay
<1>2. OneTurn'
  BY <1>1 DEF OrderInv, OneTurn
<1>3. \A d \in Conversation : table[d] \in SUBSET Message /\ IsFiniteSet(table[d])
  BY DEF TypeInv, ServerTypes
<1>4. c \notin crossed => InOrder(table[c]) /\ \A m \in table[c] : m.turn < t
  BY <1>1, HistoryIsInOrder DEF OrderInv
<1>5. CASE Store(t) /\ c \in conversations
  <2>1. /\ table' = [table EXCEPT ![c] = @ \cup Entries(t)]
        /\ sv'[t] = "stored" /\ UNCHANGED conversations
        /\ sv[t] = "read"
        /\ next' = [next EXCEPT ![t] = 0]
    BY <1>5 DEF Store, At, TypeInv, ServerTypes
  <2>2. c \notin crossed => next[t] = Cardinality(table[c])
    BY <1>1, <1>5, <2>1 DEF OrderInv
  <2>3. ASSUME NEW d \in Conversation \ crossed' PROVE InOrder(table'[d])
    <3>1. CASE d = c
      BY <1>1, <1>3, <1>4, <2>1, <2>2, <3>1, EntriesInOrder DEF TypeInv, ServerTypes
    <3>2. CASE d # c
      BY <1>1, <2>1, <3>2, HistoryIsInOrder DEF OrderInv, TypeInv, ServerTypes
    <3> QED BY <3>1, <3>2
  <2>4. HistoryInOrder'
    <3>1. HistoryInOrder' <=> \A d \in Conversation \ crossed' : InOrder(table'[d])
      BY DEF HistoryInOrder, InOrder, Precedes
    <3> QED BY <2>3, <3>1
  <2>5. ASSUME NEW d \in Conversation \ crossed', NEW u \in Turn, sv'[u] \in UnderWay, convOf'[u] = d
        PROVE  /\ \A m \in table'[d] : m.turn < u
               /\ sv'[u] = "read" /\ d \in conversations' => next'[u] = Cardinality(table'[d])
    <3>1. u # t
      BY <2>1, <2>5 DEF UnderWay
    <3>2. sv[u] \in UnderWay /\ convOf[u] = d /\ d \notin crossed
      BY <1>1, <2>5
    <3>3. d # c
      BY <1>1, <3>1, <3>2 DEF OrderInv, OneTurn
    <3>4. table'[d] = table[d] /\ next'[u] = next[u] /\ sv'[u] = sv[u]
      BY <1>1, <2>1, <3>1, <3>3 DEF TypeInv, ServerTypes
    <3> QED BY <2>1, <3>2, <3>4 DEF OrderInv
  <2> QED BY <1>2, <2>4, <2>5 DEF OrderInv
<1>6. CASE ~ (Store(t) /\ c \in conversations)
  <2>1. UNCHANGED table
    BY <1>6 DEF ServerStep, Ensure, Chunk, AnswerEnds, Reject, NoEntries, ReadNext, Store, StoreFails, stored
  <2>2. HistoryInOrder'
    BY <1>1, <2>1 DEF OrderInv, HistoryInOrder
  <2>3. \A u \in Turn : u # t => next'[u] = next[u]
    BY DEF ServerStep, Ensure, Chunk, AnswerEnds, Reject, NoEntries, ReadNext, Store, StoreFails, stored, TypeInv, ServerTypes
  <2>4. sv'[t] = "read" /\ c \notin crossed => next'[t] = Cardinality(table[c])
    <3> SUFFICES ASSUME sv'[t] = "read", c \notin crossed PROVE next'[t] = Cardinality(table[c])
      OBVIOUS
    <3>1. ReadNext(t)
      BY DEF ServerStep, Ensure, Chunk, AnswerEnds, Reject, NoEntries, ReadNext, Store, StoreFails, At, TypeInv, ServerTypes
    <3>2. next'[t] = Max({-1} \cup {m.seq : m \in table[c]}) + 1
      BY <3>1 DEF ReadNext, TypeInv, ServerTypes
    <3> QED BY <1>1, <1>3, <1>4, <3>2, NextInOrder
  <2>5. ASSUME NEW d \in Conversation \ crossed', NEW u \in Turn, sv'[u] \in UnderWay, convOf'[u] = d
        PROVE  /\ \A m \in table'[d] : m.turn < u
               /\ sv'[u] = "read" /\ d \in conversations' => next'[u] = Cardinality(table'[d])
    <3>1. sv[u] \in UnderWay /\ convOf[u] = d /\ d \notin crossed
      BY <1>1, <2>5
    <3>2. CASE u = t
      BY <1>4, <2>1, <2>4, <3>1, <3>2
    <3>3. CASE u # t
      <4>1. d # c
        BY <1>1, <3>1, <3>3 DEF OrderInv, OneTurn
      <4>2. d \in conversations' => d \in conversations
        BY <1>1, <4>1
      <4> QED BY <1>1, <2>1, <2>3, <3>1, <3>3, <4>2 DEF OrderInv
    <3> QED BY <3>2, <3>3
  <2> QED BY <1>2, <2>2, <2>5 DEF OrderInv
<1> QED BY <1>5, <1>6

LEMMA OrderDelete ==
  ASSUME TypeInv, OrderInv, NEW c \in Conversation, DeleteConversation(c) PROVE OrderInv'
<1>1. /\ conversations' = conversations \ {c}
      /\ table' = [table EXCEPT ![c] = {}]
      /\ UNCHANGED <<sv, convOf, next, crossed>>
  BY DEF DeleteConversation
<1>2. HistoryInOrder'
  <2>1. HistoryInOrder' <=> \A d \in Conversation \ crossed' : InOrder(table'[d])
    BY DEF HistoryInOrder, InOrder, Precedes
  <2> QED BY <1>1, <2>1, EmptyInOrder, HistoryIsInOrder DEF OrderInv, TypeInv, ServerTypes
<1>3. OneTurn'
  BY <1>1 DEF OrderInv, OneTurn
<1>4. ASSUME NEW d \in Conversation \ crossed', NEW u \in Turn, sv'[u] \in UnderWay, convOf'[u] = d
      PROVE  /\ \A m \in table'[d] : m.turn < u
             /\ sv'[u] = "read" /\ d \in conversations' => next'[u] = Cardinality(table'[d])
  BY <1>1, <1>4 DEF OrderInv, TypeInv, ServerTypes
<1> QED BY <1>2, <1>3, <1>4 DEF OrderInv

LEMMA OrderStep == TypeInv /\ SendInv /\ OrderInv /\ [Next]_vars => OrderInv'
<1> SUFFICES ASSUME TypeInv, SendInv, OrderInv, [Next]_vars PROVE OrderInv'
  OBVIOUS
<1>1. CASE UNCHANGED serverVars
  BY <1>1, OrderQuiet
<1>2. ASSUME NEW t \in Turn, Send(t), conversationId # NoConversation PROVE OrderInv'
  <2>1. conversationId \in Conversation
    BY <1>2 DEF TypeInv, PageTypes
  <2>2. PICK text : /\ Post(t, conversationId, text) /\ IsNew(t)
                    /\ UNCHANGED <<conversations, table, next>>
    BY <1>2 DEF Send, Stream, stored
  <2>3. \A m \in table[conversationId] : m.turn < t
    BY <2>1, <2>2, StoredEarlier
  <2> QED BY <2>1, <2>2, <2>3, OrderPost
<1>3. ASSUME NEW t \in Turn, Created(t) PROVE OrderInv'
  <2>1. created \in Nat /\ created + 1 \in Conversation
    BY <1>3, Bounds DEF Created, CreateConversation, Conversation, TypeInv, ServerTypes
  <2>2. created + 1 \notin conversations
    <3>1. conversations \subseteq 1..created
      BY DEF SendInv
    <3> QED BY <2>1, <3>1
  <2>3. table[created + 1] = {}
    BY <2>1, <2>2 DEF TypeInv, ServerTypes
  <2>4. PICK text : /\ Post(t, created + 1, text) /\ sending[t] = "creating"
                    /\ UNCHANGED <<table, next>>
                    /\ conversations' = conversations \cup {created + 1}
    BY <1>3 DEF Created, CreateConversation, Stream
  <2> QED BY <2>1, <2>3, <2>4, OrderPost
<1>4. ASSUME NEW t \in Turn, Server(t) PROVE OrderInv'
  BY <1>4, OrderServer DEF Server
<1>5. ASSUME DeleteServed, ~ UNCHANGED serverVars PROVE OrderInv'
  <2>1. deletion.id \in Conversation
    BY <1>5 DEF DeleteServed, TypeInv, PageTypes, Deletion
  <2> QED BY <1>5, <2>1, OrderDelete DEF DeleteServed
<1>6. CASE UNCHANGED vars
  BY <1>1, <1>6 DEF vars
<1>7. NewChat \/ Reload \/ Deleted \/ DeleteRejected => UNCHANGED serverVars
  BY DEF NewChat, Reload, Deleted, DeleteRejected
<1>8. \A c \in Conversation : Open(c) \/ Delete(c) => UNCHANGED serverVars
  BY DEF Open, Delete
<1>9. \A f \in Fetch : FetchAnswered(f) \/ FetchArrives(f) => UNCHANGED serverVars
  BY DEF FetchAnswered, FetchArrives
<1>10. \A t \in Turn : NotCreated(t) \/ Token(t) \/ StreamEnds(t) \/ Error(t) \/ Stop(t) => UNCHANGED serverVars
  BY DEF NotCreated, Token, Reload, StreamEnds, Error, Stop, EndSend
<1>11. \A t \in Turn : Send(t) /\ conversationId = NoConversation => UNCHANGED serverVars
  BY DEF Send
<1> QED BY <1>1, <1>2, <1>3, <1>4, <1>5, <1>6, <1>7, <1>8, <1>9, <1>10, <1>11 DEF Next, Reply

\* However the gateway's steps with several turns interleave -- each reads its
\* number long after it began and stores in a transaction of its own -- a
\* conversation on which no two turns were under way at once has its messages
\* stored in the order they were sent, each answer right after its question,
\* under numbers without a gap.
THEOREM StoredInOrder == Spec => []HistoryInOrder
<1>1. Init => OrderInv
  BY OrderInit
<1>2. TypeInv /\ SendInv /\ OrderInv /\ [Next]_vars => OrderInv'
  BY OrderStep
<1>3. OrderInv => HistoryInOrder
  BY DEF OrderInv
<1> QED BY <1>1, <1>2, <1>3, AlwaysSend, PTL DEF Spec

--------------------------------------------------------------------------------
(* Whose messages the page has. *)

\* From, of the conversations the turns are posted to as a value, and those
\* that are left out of it.
OfOne(posted, out, c, shown) ==
  \/ c \in out
  \/ \A i \in DOMAIN shown : \A n \in DOMAIN shown[i].of : posted[shown[i].of[n]] = c

LEMMA RepeatedGrows ==
  ASSUME TypeInv, SendInv, NEW t \in Turn, sv[t] = "none", NEW c, NEW text, Post(t, c, text)
  PROVE  Repeated \subseteq Repeated'
<1> SUFFICES ASSUME NEW u \in Turn, question[u] \notin {<<u>>, << >>} PROVE convOf[u] \in Repeated'
  BY DEF Repeated
<1>1. u # t
  BY DEF SendInv
<1>2. question'[u] = question[u] /\ convOf'[u] = convOf[u]
  BY <1>1 DEF Post, TypeInv, ServerTypes
<1> QED BY <1>2 DEF Repeated

LEMMA FromIsOfOne ==
  \A c, shown : From(c, shown) <=> OfOne(convOf, Repeated, c, shown)
  BY DEF From, OfOne

\* That a new turn is posted to a conversation says nothing of what is shown
\* of another.
LEMMA PostingKeeps ==
  ASSUME NEW posted \in [Turn -> Conversation \cup {NoConversation}],
         NEW t \in Turn, posted[t] = NoConversation,
         NEW c \in Conversation, NEW d \in Conversation,
         NEW out, NEW more, out \subseteq more,
         NEW shown \in Shownable, OfOne(posted, out, d, shown)
  PROVE  OfOne([posted EXCEPT ![t] = c], more, d, shown)
<1> SUFFICES ASSUME d \notin out, NEW i \in DOMAIN shown, NEW n \in DOMAIN shown[i].of
             PROVE  [posted EXCEPT ![t] = c][shown[i].of[n]] = d
  BY DEF OfOne
<1>1. shown[i].of[n] \in Turn /\ posted[shown[i].of[n]] = d
  <2>1. shown[i] \in PageMessage
    BY DEF Shownable
  <2>2. shown[i].of \in Seq(Turn)
    BY <2>1 DEF PageMessage, Text
  <2>3. shown[i].of[n] \in Turn
    BY <2>2
  <2> QED BY <2>3 DEF OfOne
<1>2. shown[i].of[n] # t
  BY <1>1, NoConversationApart
<1> QED BY <1>1, <1>2

LEMMA StreamOfOne ==
  ASSUME NEW posted, NEW out, NEW c, NEW t \in Turn, posted[t] = c, NEW text \in {<<t>>, << >>},
         NEW shown \in Shownable, OfOne(posted, out, c, shown)
  PROVE  OfOne(posted, out, c, shown \o <<User(text), Blank>>)
<1> DEFINE all == shown \o <<User(text), Blank>>
<1>1. Len(shown) \in Nat
  BY DEF Shownable
<1>2. /\ DOMAIN all = 1..(Len(shown) + 2)
      /\ \A i \in 1..Len(shown) : all[i] = shown[i]
      /\ all[Len(shown) + 1] = User(text)
      /\ all[Len(shown) + 2] = Blank
  BY DEF Shownable
<1>3. ASSUME c \notin out, NEW i \in DOMAIN all, NEW n \in DOMAIN all[i].of PROVE posted[all[i].of[n]] = c
  <2>1. CASE i \in 1..Len(shown)
    BY <1>2, <1>3, <2>1 DEF OfOne, Shownable
  <2>2. CASE i = Len(shown) + 1
    <3>1. all[i].of = text
      BY <1>2, <2>2 DEF User
    <3>2. n = 1 /\ text = <<t>>
      BY <3>1
    <3> QED BY <3>1, <3>2
  <2>3. CASE i = Len(shown) + 2
    <3>1. all[i].of = << >>
      BY <1>2, <2>3 DEF Blank
    <3> QED BY <3>1
  <2> QED BY <1>1, <1>2, <2>1, <2>2, <2>3
<1> HIDE DEF all
<1>4. OfOne(posted, out, c, all)
  BY <1>3 DEF OfOne
<1> QED BY <1>4 DEF all

LEMMA TokenOfOne ==
  ASSUME NEW posted, NEW out, NEW c, NEW t \in Turn, posted[t] = c,
         NEW shown \in Shownable, shown # << >>, OfOne(posted, out, c, shown)
  PROVE  OfOne(posted, out, c, [shown EXCEPT ![Len(shown)].of = Append(@, t)])
<1> DEFINE last == Len(shown)
           all  == [shown EXCEPT ![last].of = Append(@, t)]
<1>1. last \in 1..Len(shown) /\ shown[last] \in PageMessage /\ DOMAIN shown = 1..Len(shown)
  BY DEF Shownable
<1>2. /\ DOMAIN all = DOMAIN shown
      /\ \A i \in DOMAIN shown : i # last => all[i] = shown[i]
      /\ all[last].of = Append(shown[last].of, t)
  BY <1>1 DEF PageMessage
<1>3. shown[last].of \in Seq(Turn)
  BY <1>1 DEF PageMessage, Text
<1>4. ASSUME c \notin out, NEW i \in DOMAIN all, NEW n \in DOMAIN all[i].of PROVE posted[all[i].of[n]] = c
  <2>1. CASE i # last
    BY <1>2, <1>4, <2>1 DEF OfOne
  <2>2. CASE i = last
    <3> DEFINE was == shown[last].of
    <3>1. n \in 1..(Len(was) + 1) /\ Len(was) \in Nat
      BY <1>2, <1>3, <2>2
    <3>2. CASE n = Len(was) + 1
      BY <1>2, <1>3, <2>2, <3>2
    <3>3. CASE n \in 1..Len(was)
      <4>1. was \in Seq(Turn) /\ all[i].of = Append(was, t)
        BY <1>2, <1>3, <2>2
      <4>2. Append(was, t)[n] = was[n] /\ n \in DOMAIN was
        <5> HIDE DEF was
        <5> QED BY <3>3, <4>1
      <4> QED BY <1>1, <1>4, <4>1, <4>2 DEF OfOne
    <3> QED BY <3>1, <3>2, <3>3
  <2> QED BY <2>1, <2>2
<1> HIDE DEF all
<1>5. OfOne(posted, out, c, all)
  BY <1>4 DEF OfOne
<1> QED BY <1>5 DEF all

\* The stored history of a conversation, shown, is its own.
LEMMA HistoryOfOne ==
  ASSUME TypeInv, SendInv, NEW c \in Conversation, NEW h \in Histories(c)
  PROVE  OfOne(convOf, Repeated, c, Shown(h))
<1>1. h \in [1..Cardinality(table[c]) -> table[c]]
  BY DEF Histories
<1> SUFFICES ASSUME c \notin Repeated, NEW i \in DOMAIN Shown(h), NEW n \in DOMAIN Shown(h)[i].of
             PROVE  convOf[Shown(h)[i].of[n]] = c
  BY DEF OfOne
<1>2. i \in DOMAIN h /\ Shown(h)[i].of = h[i].of
  BY DEF Shown
<1> DEFINE m == h[i]
<1>3. m \in table[c]
  BY <1>1, <1>2
<1>4. m.turn \in Turn /\ convOf[m.turn] = c /\ m.of = TextOf(m)
  BY <1>3 DEF SendInv, TypeInv, ServerTypes, Message
<1>5. CASE m.role = "user"
  <2>1. m.of = question[m.turn] /\ question[m.turn] \in {<<m.turn>>, << >>}
    BY <1>4, <1>5 DEF TextOf, Repeated
  <2>2. n = 1 /\ m.of[n] = m.turn
    BY <1>2, <2>1
  <2> QED BY <1>2, <1>4, <2>2
<1>6. CASE m.role # "user"
  <2>1. m.of = Tokens(m.turn, answer[m.turn])
    BY <1>4, <1>6 DEF TextOf
  <2>2. m.of[n] = m.turn
    BY <1>2, <2>1 DEF Tokens
  <2> QED BY <1>2, <1>4, <2>2
<1> QED BY <1>5, <1>6

LEMMA OwnInit == Init => OwnInv
  BY DEF Init, ServerInit, OwnInv, LoadsOwn, PageOwn, From, Active

\* A load under way stays one of its own conversation.
LEMMA LoadsKeep ==
  ASSUME TypeInv, LoadsOwn, UNCHANGED <<convOf, question>>,
         \A f \in Fetch : fetches'[f] \in {fetches[f], Nothing} \/ fetches'[f].loaded = Nothing
  PROVE  LoadsOwn'
  BY DEF LoadsOwn, From, Repeated

LEMMA LoadsStep == TypeInv /\ SendInv /\ LoadsOwn /\ [Next]_vars => LoadsOwn'
<1> SUFFICES ASSUME TypeInv, SendInv, LoadsOwn, [Next]_vars PROVE LoadsOwn'
  OBVIOUS
<1>1. CASE UNCHANGED <<convOf, question, fetches>>
  BY <1>1, LoadsKeep
<1>2. ASSUME NEW t \in Turn, NEW c \in Conversation, NEW text, Post(t, c, text), UNCHANGED fetches,
             sending[t] = "creating" \/ IsNew(t)
      PROVE  LoadsOwn'
  <2>1. convOf[t] = NoConversation /\ convOf' = [convOf EXCEPT ![t] = c] /\ sv[t] = "none"
    BY <1>2 DEF Post, IsNew, SendInv
  <2>3. Repeated \subseteq Repeated'
    BY <1>2, <2>1, RepeatedGrows
  <2>2. ASSUME NEW f \in Fetch, fetches[f] # Nothing, fetches[f].loaded # Nothing
        PROVE  OfOne(convOf', Repeated', fetches[f].id, fetches[f].loaded)
    <3>1. fetches[f].id \in Conversation /\ fetches[f].loaded \in Shownable
      BY <2>2 DEF TypeInv, PageTypes, Load
    <3>2. OfOne(convOf, Repeated, fetches[f].id, fetches[f].loaded)
      BY <2>2, FromIsOfOne DEF LoadsOwn
    <3>3. convOf \in [Turn -> Conversation \cup {NoConversation}]
      BY DEF TypeInv, ServerTypes
    <3> QED BY <2>1, <2>3, <3>1, <3>2, <3>3, PostingKeeps
  <2> QED BY <1>2, <2>2 DEF LoadsOwn, From, OfOne
<1>3. ASSUME Reload PROVE LoadsOwn'
  BY <1>3 DEF Reload, LoadsOwn
<1>4. ASSUME NEW c \in Conversation, Open(c) PROVE LoadsOwn'
  <2>1. UNCHANGED <<convOf, question>>
    BY <1>4 DEF Open, serverVars
  <2>2. CASE UNCHANGED fetches
    BY <2>1, <2>2, LoadsKeep
  <2>3. CASE \E f \in Fetch : fetches' = [fetches EXCEPT ![f] = [id |-> c, loaded |-> Nothing]]
    <3>1. \A f \in Fetch : fetches'[f] = fetches[f] \/ fetches'[f].loaded = Nothing
      BY <2>3 DEF TypeInv, PageTypes
    <3> QED BY <2>1, <3>1, LoadsKeep
  <2> QED BY <1>4, <2>2, <2>3 DEF Open
<1>5. ASSUME NEW f \in Fetch, FetchAnswered(f) PROVE LoadsOwn'
  <2>1. UNCHANGED <<convOf, question>> /\ fetches[f] \in Load
    BY <1>5 DEF FetchAnswered, serverVars, TypeInv, PageTypes
  <2>2. fetches[f].id \in Conversation
    BY <2>1 DEF Load
  <2>3. PICK shown : /\ fetches' = [fetches EXCEPT ![f].loaded = shown]
                     /\ OfOne(convOf, Repeated, fetches[f].id, shown)
    <3>1. OfOne(convOf, Repeated, fetches[f].id, << >>)
      BY DEF OfOne
    <3>2. \A h \in Histories(fetches[f].id) : OfOne(convOf, Repeated, fetches[f].id, Shown(h))
      BY <2>2, HistoryOfOne
    <3> QED BY <1>5, <3>1, <3>2 DEF FetchAnswered
  <2>4. fetches'[f].id = fetches[f].id /\ fetches'[f].loaded = shown
    BY <2>1, <2>3 DEF TypeInv, PageTypes, Load
  <2>5. \A g \in Fetch : g # f => fetches'[g] = fetches[g]
    BY <2>3 DEF TypeInv, PageTypes
  <2>6. Repeated' = Repeated
    BY <2>1 DEF Repeated
  <2> QED BY <2>1, <2>3, <2>4, <2>5, <2>6 DEF LoadsOwn, From, OfOne
<1>6. ASSUME NEW f \in Fetch, FetchArrives(f) PROVE LoadsOwn'
  BY <1>6, LoadsKeep DEF FetchArrives, serverVars, TypeInv, PageTypes
<1>7. ASSUME NEW t \in Turn, Send(t) PROVE LoadsOwn'
  <2>1. CASE conversationId = NoConversation
    BY <1>1, <1>7, <2>1 DEF Send, serverVars
  <2>2. CASE conversationId # NoConversation
    BY <1>2, <1>7, <2>2 DEF Send, Stream, TypeInv, PageTypes
  <2> QED BY <2>1, <2>2
<1>8. ASSUME NEW t \in Turn, Created(t) PROVE LoadsOwn'
  <2>1. created + 1 \in Conversation
    BY <1>8, Bounds DEF Created, CreateConversation, Conversation, TypeInv, ServerTypes
  <2> QED BY <1>2, <1>8, <2>1 DEF Created, Stream
<1>9. ASSUME NEW t \in Turn, Token(t) PROVE LoadsOwn'
  BY <1>1, <1>3, <1>9 DEF Token, serverVars
<1>10. ASSUME NEW t \in Turn, Server(t) PROVE LoadsOwn'
  BY <1>1, <1>10, ServerMoves DEF Server
<1>11. CASE UNCHANGED vars
  BY <1>1, <1>11 DEF vars, serverVars, page
<1>12. NewChat \/ Deleted \/ DeleteServed \/ DeleteRejected => UNCHANGED <<convOf, question, fetches>>
  BY DEF NewChat, Deleted, DeleteServed, DeleteRejected, DeleteConversation, serverVars
<1>13. \A c \in Conversation : Delete(c) => UNCHANGED <<convOf, question, fetches>>
  BY DEF Delete, serverVars
<1>14. \A t \in Turn : NotCreated(t) \/ StreamEnds(t) \/ Error(t) \/ Stop(t) => UNCHANGED <<convOf, question, fetches>>
  BY DEF NotCreated, StreamEnds, Error, Stop, EndSend, serverVars
<1> QED BY <1>1, <1>3, <1>4, <1>5, <1>6, <1>7, <1>8, <1>9, <1>10, <1>11, <1>12, <1>13, <1>14 DEF Next, Reply

\* What the page has, where turns are posted as before.
LEMMA PageKeeps ==
  ASSUME PageOwn, UNCHANGED <<convOf, question, conversationId, messages, convStore, activeRef, deletion>>,
         \A t \in Turn : sending'[t] \in {sending[t], "done"}
  PROVE  PageOwn'
  BY DEF PageOwn, From, Repeated, Active

\* Showing another conversation, or none, when nothing is being sent.
LEMMA SwitchOwn ==
  ASSUME TypeInv, PageOwn, ~ Sending, UNCHANGED <<convOf, question, sending>>,
         NEW id, NEW shown, Keep(id, shown), OfOne(convOf, Repeated, id, shown),
         conversationId' = activeRef',
         OfOne(convOf, Repeated, conversationId', messages'),
         conversationId' = NoConversation => messages' = << >>,
         deletion' \in {deletion, Nothing}
  PROVE  PageOwn'
<1>1. \A t \in Turn : sending'[t] \notin {"creating", "waiting"}
  BY DEF Sending
<1>2. ASSUME NEW c \in Conversation, convStore'[c] # Nothing PROVE OfOne(convOf, Repeated, c, convStore'[c])
  <2>1. CASE convStore'[c] = convStore[c]
    BY <1>2, <2>1, FromIsOfOne DEF PageOwn
  <2>2. CASE convStore'[c] # convStore[c]
    BY <1>2, <2>2 DEF Keep, TypeInv, PageTypes
  <2> QED BY <2>1, <2>2
<1>3. Repeated' = Repeated
  BY DEF Repeated
<1> QED BY <1>1, <1>2, <1>3 DEF PageOwn, From, OfOne, Active

\* send() with a conversation, existing or just created, when no other send is
\* under way.
LEMMA StreamOwn ==
  ASSUME TypeInv, SendInv, PageOwn, NEW t \in Turn, NEW c \in Conversation, NEW seen \in Shownable,
         Stream(t, c, seen), UNCHANGED <<convStore, deletion>>,
         convOf[t] = NoConversation,
         OfOne(convOf, Repeated, c, seen),
         \A u \in Turn : Active(u) => u = t
  PROVE  PageOwn'
<1>0. PICK text \in Typed(t) : /\ messages' = seen \o <<User(text), Blank>>
                               /\ Post(t, c, NewestText(Append(seen, User(text))))
  BY DEF Stream
<1>1. /\ convOf' = [convOf EXCEPT ![t] = c]
      /\ convOf \in [Turn -> Conversation \cup {NoConversation}]
      /\ sending' = [sending EXCEPT ![t] = "waiting"]
      /\ conversationId' = c /\ activeRef' = c
      /\ messages' = seen \o <<User(text), Blank>>
      /\ text \in {<<t>>, << >>}
  BY <1>0, TypedText DEF Stream, Post, TypeInv, ServerTypes
<1>r. Repeated \subseteq Repeated'
  <2>1. sv[t] = "none"
    BY NoConversationApart DEF TypeInv, ServerTypes
  <2> QED BY <1>0, <2>1, RepeatedGrows
<1>2. convOf'[t] = c
  BY <1>1
<1>3. OfOne(convOf', Repeated', c, messages')
  <2>1. OfOne(convOf', Repeated', c, seen)
    BY <1>1, <1>r, PostingKeeps
  <2> QED BY <1>1, <1>2, <2>1, StreamOfOne
<1>4. ASSUME NEW d \in Conversation, convStore[d] # Nothing PROVE OfOne(convOf', Repeated', d, convStore[d])
  <2>1. convStore[d] \in Shownable /\ OfOne(convOf, Repeated, d, convStore[d])
    BY <1>4, FromIsOfOne DEF PageOwn, TypeInv, PageTypes
  <2> QED BY <1>1, <1>r, <2>1, PostingKeeps
<1>5. ASSUME deletion # Nothing, deletion.seen # Nothing PROVE OfOne(convOf', Repeated', deletion.id, deletion.seen)
  <2>1. /\ deletion.id \in Conversation /\ deletion.seen \in Shownable
        /\ OfOne(convOf, Repeated, deletion.id, deletion.seen)
    BY <1>5, FromIsOfOne DEF PageOwn, TypeInv, PageTypes, Deletion
  <2> QED BY <1>1, <1>r, <2>1, PostingKeeps
<1>6. \A u \in Turn : sending'[u] \in {"creating", "waiting"} => u = t
  BY <1>1 DEF Active, TypeInv, ServerTypes
<1>7. c # NoConversation
  BY NoConversationApart
<1>8. From(conversationId, messages)'
  BY <1>1, <1>3 DEF From, OfOne
<1>9. \A d \in Conversation : convStore'[d] # Nothing => From(d, convStore[d])'
  BY <1>4 DEF From, OfOne
<1>10. deletion' # Nothing /\ deletion'.seen # Nothing => From(deletion.id, deletion.seen)'
  BY <1>5 DEF From, OfOne
<1> QED BY <1>1, <1>2, <1>6, <1>7, <1>8, <1>9, <1>10 DEF PageOwn, Active

LEMMA PageStep == TypeInv /\ SendInv /\ OwnInv /\ [Next]_vars => (~ mixed => PageOwn)'
<1> SUFFICES ASSUME TypeInv, SendInv, OwnInv, [Next]_vars, ~ mixed' PROVE PageOwn'
  OBVIOUS
<1>0. ~ mixed => PageOwn
  BY DEF OwnInv
<1>t. /\ messages \in Shownable /\ << >> \in Shownable
      /\ conversationId \in Conversation \cup {NoConversation}
      /\ deletion \in Deletion \cup {Nothing}
  BY DEF TypeInv, PageTypes, Shownable
<1>e. \A c : OfOne(convOf, Repeated, c, << >>)
  BY DEF OfOne
<1>1. CASE UNCHANGED vars
  BY <1>0, <1>1, PageKeeps DEF vars, serverVars, page
<1>2. CASE NewChat
  <2>1. PageOwn /\ ~ Sending
    BY <1>0, <1>2 DEF NewChat, Switched, Mixed
  <2>2. OfOne(convOf, Repeated, conversationId, messages)
    BY <2>1, FromIsOfOne DEF PageOwn
  <2> QED BY <1>2, <1>e, <2>1, <2>2, SwitchOwn DEF NewChat, serverVars
<1>3. ASSUME Reload PROVE PageOwn'
  <2>1. \A t \in Turn : sending'[t] \in {"idle", "done"}
    BY <1>3 DEF Reload
  <2> QED BY <1>3, <2>1 DEF Reload, PageOwn, From, Active
<1>4. CASE DeleteServed
  <2>1. PageOwn /\ deletion \in Deletion
    BY <1>0, <1>4, <1>t DEF DeleteServed
  <2>2. deletion'.id = deletion.id /\ deletion'.seen = deletion.seen
    BY <1>4, <2>1 DEF DeleteServed, Deletion
  <2>3. UNCHANGED <<convOf, question, conversationId, messages, convStore, activeRef, sending>> /\ deletion # Nothing
    BY <1>4 DEF DeleteServed, DeleteConversation, serverVars
  <2> QED BY <2>1, <2>2, <2>3 DEF PageOwn, From, Repeated, Active
<1>5. CASE Deleted
  <2>1. CASE deletion.seen # Nothing
    <3>1. PageOwn /\ ~ Sending
      BY <1>0, <1>5, <2>1 DEF Deleted, Switched, Mixed
    <3>2. OfOne(convOf, Repeated, deletion.id, deletion.seen)
      BY <1>5, <2>1, <3>1, FromIsOfOne DEF PageOwn, Deleted
    <3> QED BY <1>5, <1>e, <2>1, <3>1, <3>2, SwitchOwn DEF Deleted, serverVars
  <2>2. CASE deletion.seen = Nothing
    BY <1>0, <1>5, <2>2 DEF Deleted, serverVars, PageOwn, From, Repeated, Active
  <2> QED BY <2>1, <2>2
<1>6. ASSUME NEW c \in Conversation, Open(c) PROVE PageOwn'
  <2>1. PageOwn /\ ~ Sending
    BY <1>0, <1>6 DEF Open, Switched, Mixed
  <2>2. OfOne(convOf, Repeated, conversationId, messages)
    BY <2>1, FromIsOfOne DEF PageOwn
  <2>3. OfOne(convOf, Repeated, c, messages')
    <3>1. CASE convStore[c] # Nothing
      BY <1>6, <2>1, <3>1, FromIsOfOne DEF Open, PageOwn
    <3>2. CASE convStore[c] = Nothing
      BY <1>6, <1>e, <3>2 DEF Open
    <3> QED BY <3>1, <3>2
  <2>4. /\ conversationId' = c /\ activeRef' = c /\ Keep(conversationId, messages)
        /\ UNCHANGED <<convOf, question, sending, deletion>>
    BY <1>6 DEF Open, serverVars
  <2> QED BY <2>1, <2>2, <2>3, <2>4, SwitchOwn, NoConversationApart
<1>7. ASSUME NEW c \in Conversation, Delete(c) PROVE PageOwn'
  <2>1. /\ PageOwn
        /\ UNCHANGED <<convOf, question, conversationId, messages, convStore, activeRef, sending>>
    BY <1>0, <1>7 DEF Delete, serverVars
  <2>2. deletion'.id = c /\ (deletion'.seen = Nothing \/ (deletion'.seen = messages /\ c = conversationId))
    BY <1>7 DEF Delete
  <2> QED BY <2>1, <2>2 DEF PageOwn, From, Repeated, Active
<1>8. ASSUME NEW f \in Fetch, FetchAnswered(f) PROVE PageOwn'
  BY <1>0, <1>8, PageKeeps DEF FetchAnswered, serverVars
<1>9. ASSUME NEW f \in Fetch, FetchArrives(f) PROVE PageOwn'
  <2> DEFINE c == fetches[f].id
  <2>1. /\ PageOwn
        /\ UNCHANGED <<convOf, question, conversationId, activeRef, sending, deletion>>
        /\ convStore' = [convStore EXCEPT ![c] = fetches[f].loaded]
        /\ messages' = IF activeRef = c THEN fetches[f].loaded ELSE messages
    BY <1>0, <1>9 DEF FetchArrives, ShowIfActive, serverVars
  <2>2. OfOne(convOf, Repeated, c, fetches[f].loaded)
    BY <1>9, FromIsOfOne DEF FetchArrives, OwnInv, LoadsOwn
  <2>3. c \in Conversation
    BY <1>9 DEF FetchArrives, TypeInv, PageTypes, Load
  <2>4. /\ OfOne(convOf, Repeated, conversationId, messages')
        /\ conversationId = NoConversation => messages' = << >>
    BY <2>1, <2>2, <2>3, FromIsOfOne, NoConversationApart DEF PageOwn
  <2>5. ASSUME NEW d \in Conversation, convStore'[d] # Nothing PROVE OfOne(convOf, Repeated, d, convStore'[d])
    <3>1. CASE d = c
      BY <2>1, <2>2, <3>1 DEF TypeInv, PageTypes
    <3>2. CASE d # c
      BY <2>1, <2>5, <3>2, FromIsOfOne DEF PageOwn, TypeInv, PageTypes
    <3> QED BY <3>1, <3>2
  <2>6. Repeated' = Repeated
    BY <2>1 DEF Repeated
  <2>7. From(conversationId, messages)'
    BY <2>1, <2>4, <2>6 DEF From, OfOne
  <2>8. \A d \in Conversation : convStore'[d] # Nothing => From(d, convStore[d])'
    BY <2>1, <2>5, <2>6 DEF From, OfOne
  <2>9. deletion' # Nothing /\ deletion'.seen # Nothing => From(deletion.id, deletion.seen)'
    BY <2>1, <2>6 DEF PageOwn, From
  <2> QED BY <2>1, <2>4, <2>7, <2>8, <2>9 DEF PageOwn, Active
<1>10. ASSUME NEW t \in Turn, Send(t) PROVE PageOwn'
  <2>1. PageOwn /\ ~ Sending /\ sending[t] = "idle"
    BY <1>0, <1>10 DEF Send, Mixed, IsNew
  <2>2. \A u \in Turn : ~ Active(u)
    BY <2>1 DEF Sending, Active
  <2>3. CASE conversationId = NoConversation
    <3>1. /\ sending' = [sending EXCEPT ![t] = "creating"]
          /\ UNCHANGED <<convOf, question, conversationId, messages, convStore, activeRef, deletion>>
      BY <1>10, <2>3 DEF Send, serverVars
    <3>2. \A u \in Turn : sending'[u] \in {"creating", "waiting"} => u = t /\ sending'[u] = "creating"
      BY <2>2, <3>1 DEF Active, TypeInv, ServerTypes
    <3> QED BY <2>1, <3>1, <3>2 DEF PageOwn, From, Repeated, Active
  <2>4. CASE conversationId # NoConversation
    <3>1. conversationId \in Conversation
      BY <1>t, <2>4
    <3>2. OfOne(convOf, Repeated, conversationId, messages) /\ convOf[t] = NoConversation
      BY <2>1, FromIsOfOne DEF PageOwn, SendInv
    <3>3. Stream(t, conversationId, messages) /\ UNCHANGED <<convStore, deletion>>
      BY <1>10, <2>4 DEF Send
    <3> QED BY <1>t, <2>1, <2>2, <3>1, <3>2, <3>3, StreamOwn
  <2> QED BY <2>3, <2>4
<1>11. ASSUME NEW t \in Turn, Created(t) PROVE PageOwn'
  <2>1. created + 1 \in Conversation
    BY <1>11, Bounds DEF Created, CreateConversation, Conversation, TypeInv, ServerTypes
  <2>2. PageOwn /\ sending[t] = "creating" /\ convOf[t] = NoConversation
    BY <1>0, <1>11 DEF Created, SendInv
  <2>3. \A u \in Turn : Active(u) => u = t
    BY <2>2 DEF PageOwn, Active
  <2>4. Stream(t, created + 1, << >>) /\ UNCHANGED <<convStore, deletion>>
    BY <1>11 DEF Created
  <2> QED BY <1>t, <1>e, <2>1, <2>2, <2>3, <2>4, StreamOwn
<1>12. ASSUME NEW t \in Turn, NotCreated(t) PROVE PageOwn'
  BY <1>0, <1>12, PageKeeps DEF NotCreated, serverVars, TypeInv, ServerTypes
<1>13. ASSUME NEW t \in Turn, Token(t) PROVE PageOwn'
  <2>1. CASE messages = << >>
    BY <1>3, <1>13, <2>1 DEF Token
  <2>2. CASE messages # << >>
    <3>1. /\ PageOwn /\ sending[t] = "waiting"
          /\ UNCHANGED <<convOf, question, conversationId, convStore, activeRef, deletion, sending>>
          /\ messages' = [messages EXCEPT ![Len(messages)].of = Append(@, t)]
      BY <1>0, <1>13, <2>2 DEF Token, serverVars
    <3>2. OfOne(convOf, Repeated, conversationId, messages')
      <4>1. convOf[t] = conversationId /\ OfOne(convOf, Repeated, conversationId, messages)
        BY <3>1, FromIsOfOne DEF PageOwn
      <4> QED BY <1>t, <2>2, <3>1, <4>1, TokenOfOne
    <3>3. conversationId # NoConversation
      BY <2>2, <3>1 DEF PageOwn
    <3>4. Repeated' = Repeated
      BY <3>1 DEF Repeated
    <3> QED BY <3>1, <3>2, <3>3, <3>4 DEF PageOwn, From, OfOne, Active
  <2> QED BY <2>1, <2>2
<1>14. ASSUME NEW t \in Turn, StreamEnds(t) \/ Error(t) \/ Stop(t) PROVE PageOwn'
  BY <1>0, <1>14, PageKeeps DEF StreamEnds, Error, Stop, EndSend, serverVars, TypeInv, ServerTypes
<1>15. ASSUME NEW t \in Turn, Server(t) PROVE PageOwn'
  BY <1>0, <1>15, ServerMoves, PageKeeps DEF Server
<1>16. CASE DeleteRejected
  <2>1. /\ PageOwn /\ deletion' = Nothing
        /\ UNCHANGED <<convOf, question, conversationId, messages, convStore, activeRef, sending>>
    BY <1>0, <1>16 DEF DeleteRejected, serverVars
  <2> QED BY <2>1 DEF PageOwn, From, Repeated, Active
<1> QED BY <1>1, <1>2, <1>3, <1>4, <1>5, <1>6, <1>7, <1>8, <1>9, <1>10, <1>11, <1>12, <1>13,
           <1>14, <1>15, <1>16 DEF Next, Reply

LEMMA AlwaysOwn == Spec => []OwnInv
<1>1. Init => OwnInv
  BY OwnInit
<1>2. TypeInv /\ SendInv /\ OwnInv /\ [Next]_vars => OwnInv'
  BY LoadsStep, PageStep DEF OwnInv
<1> QED BY <1>1, <1>2, AlwaysSend, PTL DEF Spec

\* As long as the user stays in a conversation while a send is under way, the
\* page never shows, keeps or sends along a message of one conversation under
\* another, however late a history or the answer to a deletion comes -- but
\* where a message without a text had the gateway store an earlier text again.
THEOREM OwnConversation == Spec => []OwnMessages
<1>1. OwnInv => OwnMessages
  BY DEF OwnInv, PageOwn, OwnMessages
<1> QED BY <1>1, AlwaysOwn, PTL

--------------------------------------------------------------------------------
(* The lock of the input. *)

Awaited == \E t \in Turn : sending[t] = "waiting"

LEMMA BusyIsAwaited == BusyWhileSending <=> (busy => Awaited) /\ (~ mixed => (Awaited => busy))
  BY DEF BusyWhileSending, Awaited

LEMMA BusyStep ==
  TypeInv /\ SendInv /\ OwnInv /\ BusyWhileSending /\ [Next]_vars => BusyWhileSending'
<1> SUFFICES ASSUME TypeInv, SendInv, OwnInv, BusyWhileSending, [Next]_vars PROVE BusyWhileSending'
  OBVIOUS
<1>g. BusyWhileSending' <=> (busy' => Awaited') /\ (~ mixed' => (Awaited' => busy'))
  BY DEF BusyWhileSending, Awaited
<1>0. CASE UNCHANGED <<busy, sending>> /\ (mixed => mixed')
  BY <1>0, <1>g, BusyIsAwaited DEF Awaited
<1>1. ASSUME Reload PROVE BusyWhileSending'
  <2>1. \A t \in Turn : sending'[t] \in {"idle", "done"}
    BY <1>1 DEF Reload
  <2> QED BY <1>1, <1>g, <2>1 DEF Reload, Awaited
<1>2. ASSUME NEW t \in Turn, NEW c, NEW seen, Stream(t, c, seen) PROVE BusyWhileSending'
  <2>1. busy' /\ sending'[t] = "waiting"
    BY <1>2 DEF Stream, TypeInv, ServerTypes
  <2> QED BY <1>g, <2>1 DEF Awaited
<1>3. ASSUME NEW t \in Turn, NEW told, EndSend(t, told), sending[t] = "waiting"
      PROVE  BusyWhileSending'
  <2>1. ~ busy' /\ UNCHANGED mixed /\ sending' = [sending EXCEPT ![t] = "done"]
    BY <1>3 DEF EndSend
  <2>2. ~ mixed => \A u \in Turn : sending[u] = "waiting" => u = t
    BY <1>3 DEF OwnInv, PageOwn, Active
  <2>3. ~ mixed => ~ Awaited'
    BY <2>1, <2>2 DEF Awaited, TypeInv, ServerTypes
  <2> QED BY <1>g, <2>1, <2>3
<1>4. ASSUME NEW t \in Turn, Send(t) PROVE BusyWhileSending'
  <2>1. CASE conversationId = NoConversation
    <3>1. /\ ~ busy /\ ~ busy' /\ sending[t] = "idle"
          /\ sending' = [sending EXCEPT ![t] = "creating"]
          /\ mixed => mixed'
      BY <1>4, <2>1 DEF Send, IsNew, Mixed
    <3>2. Awaited' => Awaited
      BY <3>1 DEF Awaited, TypeInv, ServerTypes
    <3> QED BY <1>g, <3>1, <3>2, BusyIsAwaited
  <2>2. CASE conversationId # NoConversation
    BY <1>2, <1>4, <2>2 DEF Send
  <2> QED BY <2>1, <2>2
<1>5. ASSUME NEW t \in Turn, NotCreated(t) PROVE BusyWhileSending'
  <2>1. /\ sending[t] = "creating" /\ sending' = [sending EXCEPT ![t] = "done"]
        /\ UNCHANGED <<busy, mixed>>
    BY <1>5 DEF NotCreated
  <2>2. Awaited' <=> Awaited
    BY <2>1 DEF Awaited, TypeInv, ServerTypes
  <2> QED BY <1>g, <2>1, <2>2, BusyIsAwaited
<1>6. ASSUME NEW t \in Turn, Token(t) PROVE BusyWhileSending'
  <2>1. CASE messages = << >>
    BY <1>1, <1>6, <2>1 DEF Token
  <2>2. CASE messages # << >>
    BY <1>0, <1>6, <2>2 DEF Token
  <2> QED BY <2>1, <2>2
<1>7. ASSUME NEW t \in Turn, StreamEnds(t) \/ Error(t) \/ Stop(t) PROVE BusyWhileSending'
  BY <1>3, <1>7 DEF StreamEnds, Error, Stop
<1>8. ASSUME NEW t \in Turn, Created(t) PROVE BusyWhileSending'
  BY <1>2, <1>8 DEF Created
<1>9. UNCHANGED vars => UNCHANGED <<busy, sending, mixed>>
  BY DEF vars, page
<1>s. Switched \/ UNCHANGED mixed => (mixed => mixed')
  BY DEF Switched, Mixed
<1>10. NewChat \/ Deleted \/ DeleteServed \/ DeleteRejected =>
         UNCHANGED <<busy, sending>> /\ (Switched \/ UNCHANGED mixed)
  BY DEF NewChat, Deleted, DeleteServed, DeleteRejected
<1>11. \A c \in Conversation : Open(c) \/ Delete(c) => UNCHANGED <<busy, sending>> /\ (Switched \/ UNCHANGED mixed)
  BY DEF Open, Delete
<1>12. \A f \in Fetch : FetchAnswered(f) \/ FetchArrives(f) => UNCHANGED <<busy, sending, mixed>>
  BY DEF FetchAnswered, FetchArrives
<1>13. \A t \in Turn : Server(t) => UNCHANGED <<busy, sending, mixed>>
  BY DEF Server
<1> QED BY <1>0, <1>1, <1>4, <1>5, <1>6, <1>7, <1>8, <1>9, <1>s, <1>10, <1>11, <1>12, <1>13 DEF Next, Reply

\* However a send ends -- answered, failed, stopped, its stream broken -- the
\* input is locked while an answer is awaited and not a moment longer, as long
\* as the user stays in the conversation; and it is never locked for nothing.
THEOREM InputLock == Spec => []BusyWhileSending
<1>1. Init => BusyWhileSending
  BY DEF Init, BusyWhileSending
<1>2. TypeInv /\ SendInv /\ OwnInv /\ BusyWhileSending /\ [Next]_vars => BusyWhileSending'
  BY BusyStep
<1> QED BY <1>1, <1>2, AlwaysSend, AlwaysOwn, PTL DEF Spec

--------------------------------------------------------------------------------
(* What is shown is what is stored. *)

\* A question, the first tokens of an answer, and what has come of an answer.
Question(t) == User(<<t>>)
Said(t, n)  == [role |-> "assistant", of |-> Tokens(t, n)]
Come(t)     == IF sending[t] = "waiting" THEN got[t] ELSE answer[t]

\* The messages that have a text, and which of two comes first.
Texts(shown) == {i \in DOMAIN shown : shown[i].of # << >>}
Before(a, b) ==
  a.of[1] < b.of[1] \/ (a.of[1] = b.of[1] /\ a.role = "user" /\ b.role = "assistant")

\* The messages shown that have a text are these, in order, so each once.
Reads(shown, parts) ==
  /\ \A i \in Texts(shown) : shown[i] \in parts
  /\ \A e \in parts : \E i \in Texts(shown) : shown[i] = e
  /\ \A i, j \in Texts(shown) : i < j => Before(shown[i], shown[j])

\* The turns whose messages a page that knows all of c shows: those stored, and
\* those it, or the gateway, has in hand; and which messages these are.
Empty(t) == question[t] = << >> /\ answer[t] = 0
StoredTurns(c) ==
  {m.turn : m \in table[c]} \cup {t \in Turn : convOf[t] = c /\ sv[t] = "stored" /\ Empty(t)}
Asked(c) ==
  StoredTurns(c) \cup {t \in Turn : convOf[t] = c /\ (sv[t] \in UnderWay \/ sending[t] = "waiting")}
Parts(c) ==
  {Question(t) : t \in {u \in Asked(c) : question[u] # << >>}}
    \cup {Said(t, Come(t)) : t \in {u \in Asked(c) : Come(u) > 0}}

\* Question and answer of a turn are stored, as far as it has them, or neither.
HasRow(c, t, role) == \E m \in table[c] : m.turn = t /\ m.role = role
Whole ==
  \A c \in Conversation : \A m \in table[c] :
    /\ HasRow(c, m.turn, "user") <=> question[m.turn] # << >>
    /\ HasRow(c, m.turn, "assistant") <=> answer[m.turn] > 0

\* The page knows nothing of a conversation that is yet to be created.
Newness ==
  /\ \A c \in Conversation : c > created => convStore[c] = Nothing
  /\ \A f \in Fetch : fetches[f] # Nothing => fetches[f].id \in 1..created

\* The conversations whose copies say what is stored.
Calm == conversations \ (crossed \cup Repeated)

ShownTold ==
  conversationId \in Calm =>
    Loading(conversationId) \/ Reads(messages, Parts(conversationId))

KeptTold ==
  \A c \in Calm : c # conversationId /\ convStore[c] # Nothing =>
    Loading(c) \/ Reads(convStore[c], Parts(c))

LoadsTold ==
  \A f \in Fetch :
    fetches[f] # Nothing /\ fetches[f].loaded # Nothing /\ fetches[f].id \in conversations =>
      /\ ~ InTurn(fetches[f].id)
      /\ fetches[f].id \in Calm => Reads(fetches[f].loaded, Parts(fetches[f].id))

\* The handler of a deletion puts back what it saw, and drops what is shown by
\* then, of which a copy, if there is one, is as good.
DeletionTold ==
  deletion # Nothing =>
    /\ ~ InTurn(deletion.id)
    /\ deletion.seen # Nothing /\ deletion.id \in Calm => Reads(deletion.seen, Parts(deletion.id))
    /\ deletion.seen # Nothing /\ conversationId \in Calm \ {deletion.id} =>
         \/ convStore[conversationId] = Nothing
         \/ /\ \A t \in Turn : sending[t] = "waiting" => convOf[t] # conversationId
            /\ Loading(conversationId) \/ Reads(convStore[conversationId], Parts(conversationId))

CopiesTold == ShownTold /\ KeptTold /\ LoadsTold /\ DeletionTold

\* Where page and gateway stand with a turn.
WaitingOf(t) ==
  /\ convOf[t] = conversationId
  /\ ~ Loading(conversationId)
  /\ messages # << >> /\ messages[Len(messages)] = Said(t, got[t])
  /\ sv[t] # "unstored"
  /\ sv[t] = "stored" /\ conversationId \in conversations => t \in StoredTurns(conversationId)
TurnsTold ==
  \A t \in Turn :
    /\ sending[t] = "waiting" => WaitingOf(t)
    /\ sending[t] = "creating" => conversationId = NoConversation
    /\ sending[t] \in {"creating", "waiting"} => \A u \in Turn : u > t => sending[u] = "idle"
    /\ sv[t] \in {"posted", "answering"} => sending[t] = "waiting"

ShownInv ==
  /\ Whole /\ Newness /\ (mixed => loose)
  /\ ~ loose => CopiesTold /\ TurnsTold

LEMMA PartOf ==
  ASSUME NEW c, NEW e \in Parts(c)
  PROVE  \E t \in Asked(c) :
           \/ e = Question(t) /\ question[t] # << >>
           \/ e = Said(t, Come(t)) /\ Come(t) > 0
  BY DEF Parts

LEMMA ComeTyped == ASSUME TypeInv, NEW t \in Turn PROVE Come(t) \in Nat
  BY DEF Come, TypeInv, ServerTypes

LEMMA AskedTurns == ASSUME TypeInv, NEW c \in Conversation PROVE Asked(c) \subseteq Turn
  BY DEF Asked, StoredTurns, TypeInv, ServerTypes, Message

LEMMA SaidNothing == \A t : Said(t, 0) = Blank
  BY DEF Said, Tokens, Blank

LEMMA SaidTyped ==
  ASSUME NEW t \in Turn, NEW n \in Nat
  PROVE  /\ Said(t, n) \in PageMessage
         /\ n > 0 => Said(t, n).of # << >> /\ Said(t, n).of[1] = t
         /\ Append(Said(t, n).of, t) = Said(t, n + 1).of
<1>1. Tokens(t, n) \in Text /\ Len(Tokens(t, n)) = n
  BY DEF Tokens, Text
<1>2. Said(t, n) \in PageMessage /\ Said(t, n).of = Tokens(t, n) /\ Said(t, n + 1).of = Tokens(t, n + 1)
  BY <1>1 DEF Said, PageMessage
<1>3. n > 0 => Tokens(t, n) # << >> /\ Tokens(t, n)[1] = t
  <2> SUFFICES ASSUME n > 0 PROVE Tokens(t, n) # << >> /\ Tokens(t, n)[1] = t
    OBVIOUS
  <2>1. 1 \in 1..n
    OBVIOUS
  <2> QED BY <1>1, <2>1 DEF Tokens
<1>4. Append(Tokens(t, n), t) = Tokens(t, n + 1)
  <2> DEFINE was == Tokens(t, n)
             now == Tokens(t, n + 1)
  <2>1. now \in Seq(Turn) /\ Len(now) = n + 1 /\ \A i \in 1..(n + 1) : now[i] = t
    BY DEF Tokens
  <2>2. was \in Seq(Turn) /\ Len(was) = n /\ \A i \in 1..n : was[i] = t
    BY <1>1 DEF Tokens, Text
  <2> HIDE DEF was, now
  <2>3. Append(was, t) \in Seq(Turn) /\ Len(Append(was, t)) = n + 1
    BY <2>2
  <2>4. ASSUME NEW i \in 1..(n + 1) PROVE Append(was, t)[i] = now[i]
    <3>1. CASE i \in 1..n
      BY <2>1, <2>2, <3>1
    <3>2. CASE i = n + 1
      BY <2>1, <2>2, <3>2
    <3>3. i \in 1..n \/ i = n + 1
      OBVIOUS
    <3> QED BY <3>1, <3>2, <3>3
  <2>5. Append(was, t) = now
    BY <2>1, <2>3, <2>4, SeqEqual
  <2> QED BY <2>5 DEF was, now
<1> QED BY <1>2, <1>3, <1>4

\* An answer with its next token.
LEMMA SaidNext ==
  ASSUME NEW t \in Turn, NEW n \in Nat
  PROVE  [Said(t, n) EXCEPT !.of = Append(@, t)] = Said(t, n + 1)
<1>1. Append(Tokens(t, n), t) = Tokens(t, n + 1)
  BY SaidTyped DEF Said
<1> QED BY <1>1, SMTT(30) DEF Said

LEMMA BeforeOf ==
  ASSUME NEW t \in Turn, NEW u \in Turn, NEW n \in Nat, NEW k \in Nat
  PROVE  /\ u < t => Before(Question(u), Question(t))
         /\ u < t /\ k > 0 => Before(Said(u, k), Question(t))
         /\ u < t /\ n > 0 => Before(Question(u), Said(t, n))
         /\ u < t /\ k > 0 /\ n > 0 => Before(Said(u, k), Said(t, n))
         /\ n > 0 => Before(Question(t), Said(t, n))
         /\ n > 0 /\ k > 0 => ~ Before(Said(t, k), Said(t, n))
         /\ ~ Before(Question(t), Question(t))
         /\ <<t>> # << >>
         /\ Question(t) \in PageMessage
<1>1. /\ Question(t).of[1] = t /\ Question(t).role = "user"
      /\ Question(u).of[1] = u /\ Question(u).role = "user"
      /\ Question(t) \in PageMessage /\ <<t>> # << >>
  BY DEF Question, User, PageMessage, Text
<1>2. /\ Said(t, n).role = "assistant" /\ (n > 0 => Said(t, n).of[1] = t)
      /\ Said(u, k).role = "assistant" /\ (k > 0 => Said(u, k).of[1] = u)
      /\ Said(t, k).role = "assistant" /\ (k > 0 => Said(t, k).of[1] = t)
  BY SaidTyped DEF Said
<1>3. t \in Int /\ u \in Int
  BY Bounds DEF Turn
<1> QED BY <1>1, <1>2, <1>3 DEF Before

LEMMA ReadsNothing == Reads(<< >>, {})
  BY DEF Reads, Texts

\* A message of the user's after all that is shown, and room for its answer.
LEMMA StreamReads ==
  ASSUME NEW shown \in Shownable, NEW parts, Reads(shown, parts), NEW t \in Turn,
         NEW text \in {<<t>>, << >>},
         \A e \in parts : Before(e, Question(t))
  PROVE  Reads(shown \o <<User(text), Blank>>, parts \cup (IF text # << >> THEN {Question(t)} ELSE {}))
<1> DEFINE all == shown \o <<User(text), Blank>>
           n == Len(shown)
           more == parts \cup (IF text # << >> THEN {Question(t)} ELSE {})
<1>1. n \in Nat /\ DOMAIN shown = 1..n
  BY DEF Shownable
<1>2. /\ DOMAIN all = 1..(n + 2) /\ Len(all) = n + 2
      /\ \A i \in 1..n : all[i] = shown[i]
      /\ all[n + 1] = User(text)
      /\ all[n + 2] = Blank
  BY DEF Shownable
<1>3. User(text).of = text /\ Blank.of = << >> /\ (text # << >> => User(text) = Question(t))
  BY DEF User, Blank, Question
<1> HIDE DEF all, n
<1>4. Texts(all) = Texts(shown) \cup (IF text # << >> THEN {n + 1} ELSE {})
  <2>1. 1..(n + 2) = 1..n \cup {n + 1, n + 2}
    BY <1>1
  <2> QED BY <1>1, <1>2, <1>3, <2>1 DEF Texts
<1>5. \A i \in Texts(shown) : i \in 1..n
  BY <1>1 DEF Texts
<1>6. \A i \in Texts(all) : all[i] \in more
  BY <1>2, <1>3, <1>4, <1>5 DEF Reads
<1>7. \A e \in more : \E i \in Texts(all) : all[i] = e
  BY <1>2, <1>3, <1>4, <1>5 DEF Reads
<1>8. ASSUME NEW i \in Texts(all), NEW j \in Texts(all), i < j PROVE Before(all[i], all[j])
  <2>1. i \in Texts(shown)
    BY <1>1, <1>4, <1>5, <1>8
  <2>2. all[i] = shown[i] /\ shown[i] \in parts
    BY <1>2, <1>5, <2>1 DEF Reads
  <2>3. CASE j \in Texts(shown)
    BY <1>2, <1>5, <1>8, <2>1, <2>3 DEF Reads
  <2>4. CASE j = n + 1 /\ text # << >>
    BY <1>2, <1>3, <2>2, <2>4
  <2> QED BY <1>4, <2>3, <2>4
<1> HIDE DEF more
<1>9. Reads(all, more)
  BY <1>6, <1>7, <1>8 DEF Reads
<1> QED BY <1>9 DEF all, more

\* What the gateway takes for the newest text of the user is the text he sends,
\* unless it stores an earlier one again.
LEMMA NewestSent ==
  ASSUME NEW shown \in Shownable, NEW t \in Turn, NEW text \in {<<t>>, << >>},
         NewestText(Append(shown, User(text))) \in {<<t>>, << >>},
         \A i \in Texts(shown) : shown[i] # Question(t)
  PROVE  NewestText(Append(shown, User(text))) = text
<1> DEFINE posted == Append(shown, User(text))
           newest == NewestText(posted)
           n == Len(shown) + 1
<1>0. <<t>> \in Text /\ << >> \in Text
  BY DEF Text
<1>1. text \in Text
  BY <1>0
<1>2. /\ posted \in Shownable
      /\ DOMAIN posted = 1..n /\ n \in Nat /\ n \in DOMAIN posted
      /\ posted[n] = User(text)
      /\ \A i \in DOMAIN posted : i # n => i \in DOMAIN shown /\ posted[i] = shown[i]
  BY <1>1, NewMessages DEF Shownable
<1>3. User(text).role = "user" /\ User(text).of = text /\ User(newest).of = newest
  BY DEF User
<1>4. /\ newest = << >> \/ \E i \in DOMAIN posted : posted[i] = User(newest)
      /\ \A i \in DOMAIN posted : posted[i].role = "user" /\ posted[i].of # << >> =>
           \E j \in DOMAIN posted : j >= i /\ posted[j] = User(newest)
  <2> HIDE DEF posted
  <2> QED BY <1>2, NewestIs
<1> HIDE DEF posted, newest, n
<1>5. CASE text # << >>
  <2>1. PICK j \in DOMAIN posted : j >= n /\ posted[j] = User(newest)
    BY <1>2, <1>3, <1>4, <1>5
  <2>2. j = n
    BY <1>2, <2>1
  <2>3. newest = text
    BY <1>2, <1>3, <2>1, <2>2
  <2> QED BY <2>3 DEF newest, posted
<1>6. CASE text = << >>
  <2>1. newest = << >>
    <3> SUFFICES ASSUME newest # << >> PROVE FALSE
      OBVIOUS
    <3>1. newest = <<t>>
      BY DEF newest, posted
    <3>2. PICK i \in DOMAIN posted : posted[i] = User(newest)
      BY <1>4
    <3>3. i # n
      BY <1>2, <1>3, <1>6, <3>2
    <3>4. i \in DOMAIN shown /\ shown[i] = Question(t) /\ shown[i].of # << >>
      BY <1>2, <1>3, <3>1, <3>2, <3>3 DEF Question
    <3> QED BY <3>4 DEF Texts
  <2> QED BY <1>6, <2>1 DEF newest, posted
<1> QED BY <1>5, <1>6

\* The next token of an answer, in the place kept for it.
LEMMA TokenReads ==
  ASSUME NEW t \in Turn, NEW k \in Nat,
         NEW shown \in Shownable, shown # << >>, shown[Len(shown)] = Said(t, k),
         NEW base, Reads(shown, base \cup (IF k > 0 THEN {Said(t, k)} ELSE {})),
         \A e \in base : Before(e, Said(t, k + 1))
  PROVE  /\ Reads([shown EXCEPT ![Len(shown)].of = Append(@, t)], base \cup {Said(t, k + 1)})
         /\ [shown EXCEPT ![Len(shown)].of = Append(@, t)][Len(shown)] = Said(t, k + 1)
<1> DEFINE n == Len(shown)
           all == [shown EXCEPT ![n].of = Append(@, t)]
           old == Said(t, k)
           new == Said(t, k + 1)
<1>1. n \in Nat /\ n \in 1..n /\ DOMAIN shown = 1..n
  BY DEF Shownable
<1>2. /\ DOMAIN all = 1..n
      /\ \A i \in 1..n : i # n => all[i] = shown[i]
      /\ all[n] = [shown[n] EXCEPT !.of = Append(@, t)]
  BY <1>1
<1>3. all[n] = new /\ new.of # << >> /\ shown[n] = old
  <2>1. Append(old.of, t) = new.of /\ k + 1 > 0 /\ k + 1 \in Nat
    BY SaidTyped
  <2>2. new.of # << >>
    BY <2>1, SaidTyped
  <2>3. [old EXCEPT !.of = Append(@, t)] = new
    BY SaidNext
  <2>4. shown[n] = old
    OBVIOUS
  <2>5. all[n] = new
    BY <1>2, <2>3, <2>4
  <2> QED BY <2>2, <2>4, <2>5
<1>4. old.of # << >> <=> k > 0
  BY SaidTyped, SaidNothing DEF Blank
<1>5. old \notin base
  <2>1. k > 0 => ~ Before(old, new)
    BY BeforeOf
  <2>2. CASE k > 0
    BY <2>1, <2>2
  <2>3. CASE ~ (k > 0)
    <3> SUFFICES ASSUME old \in base PROVE FALSE
      OBVIOUS
    <3>1. PICK i \in Texts(shown) : shown[i] = old
      BY DEF Reads
    <3> QED BY <1>4, <2>3, <3>1 DEF Texts
  <2> QED BY <2>2, <2>3
<1> HIDE DEF all, n, new, old
<1>6. Texts(all) = Texts(shown) \cup {n}
  BY <1>1, <1>2, <1>3 DEF Texts
<1>7. /\ \A i \in Texts(shown) : shown[i] \in base \cup {old}
      /\ \A e \in base : \E i \in Texts(shown) : shown[i] = e
      /\ \A i, j \in Texts(shown) : i < j => Before(shown[i], shown[j])
  BY DEF Reads, old
<1>8. ASSUME NEW i \in Texts(shown), i # n
      PROVE  i \in 1..n /\ i < n /\ all[i] = shown[i] /\ all[i] \in base
  <2>1. i \in 1..n /\ i < n /\ all[i] = shown[i]
    BY <1>1, <1>2, <1>8 DEF Texts
  <2>2. shown[i] # old
    <3> SUFFICES ASSUME shown[i] = old PROVE FALSE
      OBVIOUS
    <3>1. k > 0
      BY <1>4 DEF Texts
    <3>2. n \in Texts(shown)
      BY <1>1, <1>3, <1>4, <3>1 DEF Texts
    <3>3. Before(old, old)
      BY <1>3, <1>7, <2>1, <3>2
    <3> QED BY <3>1, <3>3, BeforeOf DEF old
  <2> QED BY <1>7, <2>1, <2>2
<1>9. \A i \in Texts(all) : all[i] \in base \cup {new}
  BY <1>3, <1>6, <1>8
<1>10. \A e \in base \cup {new} : \E i \in Texts(all) : all[i] = e
  BY <1>3, <1>5, <1>6, <1>7, <1>8
<1>11. ASSUME NEW i \in Texts(all), NEW j \in Texts(all), i < j PROVE Before(all[i], all[j])
  <2>1. i \in Texts(shown) /\ i # n
    <3>1. \A l \in Texts(all) : l \in 1..n
      BY <1>2 DEF Texts
    <3> QED BY <1>1, <1>6, <1>11, <3>1
  <2>2. CASE j # n
    BY <1>6, <1>7, <1>8, <1>11, <2>1, <2>2
  <2>3. CASE j = n
    BY <1>3, <1>8, <2>1, <2>3 DEF new
  <2> QED BY <2>2, <2>3
<1>12. Reads(all, base \cup {new})
  BY <1>9, <1>10, <1>11 DEF Reads
<1> QED BY <1>3, <1>12 DEF all, n, new

\* Where nothing is under way, what is known is what is stored.
LEMMA AskedAtRest ==
  ASSUME TypeInv, NEW c \in Conversation, ~ InTurn(c)
  PROVE  Asked(c) = StoredTurns(c)
  BY DEF Asked, InTurn

LEMMA RowParts ==
  ASSUME TypeInv, SendInv, Whole, NEW c \in Conversation \ Repeated, ~ InTurn(c)
  PROVE  /\ \A m \in table[c] : [role |-> m.role, of |-> m.of] \in Parts(c)
         /\ \A m \in table[c] : m.of # << >> /\ m.of[1] = m.turn
         /\ \A e \in Parts(c) : \E m \in table[c] : e = [role |-> m.role, of |-> m.of]
<1>1. ASSUME NEW m \in table[c]
      PROVE  /\ m.turn \in Asked(c) /\ m.role \in {"user", "assistant"} /\ m.turn \in Turn
             /\ convOf[m.turn] = c /\ Come(m.turn) = answer[m.turn] /\ answer[m.turn] \in Nat
             /\ m.of # << >> /\ m.of = TextOf(m)
             /\ HasRow(c, m.turn, "user") <=> question[m.turn] # << >>
             /\ HasRow(c, m.turn, "assistant") <=> answer[m.turn] > 0
  <2>1. m.role \in {"user", "assistant"} /\ m.turn \in Turn
    BY DEF TypeInv, ServerTypes, Message
  <2>2. convOf[m.turn] = c /\ m.of # << >> /\ m.of = TextOf(m)
    BY DEF SendInv
  <2>3. Come(m.turn) = answer[m.turn] /\ answer[m.turn] \in Nat
    BY <2>1, <2>2 DEF InTurn, Come, TypeInv, ServerTypes
  <2> QED BY <2>1, <2>2, <2>3, AskedAtRest DEF StoredTurns, Whole
<1>2. ASSUME NEW u \in Turn, convOf[u] = c, question[u] # << >> PROVE question[u] = <<u>>
  BY <1>2 DEF Repeated
<1>3. ASSUME NEW m \in table[c]
      PROVE  /\ m.role = "user" => [role |-> m.role, of |-> m.of] = Question(m.turn)
             /\ m.role = "assistant" => [role |-> m.role, of |-> m.of] = Said(m.turn, answer[m.turn])
  <2>1. m.role = "user" => m.of = <<m.turn>>
    BY <1>1, <1>2 DEF TextOf
  <2>2. m.role = "assistant" => m.of = Tokens(m.turn, answer[m.turn])
    BY <1>1 DEF TextOf
  <2> QED BY <2>1, <2>2 DEF Question, User, Said
<1>4. ASSUME NEW m \in table[c] PROVE [role |-> m.role, of |-> m.of] \in Parts(c)
  <2>1. CASE m.role = "user"
    <3>1. question[m.turn] # << >>
      BY <1>1, <2>1 DEF HasRow
    <3> QED BY <1>1, <1>3, <2>1, <3>1 DEF Parts
  <2>2. CASE m.role = "assistant"
    <3>1. answer[m.turn] > 0
      BY <1>1, <2>2 DEF HasRow
    <3> QED BY <1>1, <1>3, <2>2, <3>1 DEF Parts
  <2> QED BY <1>1, <2>1, <2>2
<1>5. ASSUME NEW m \in table[c] PROVE m.of # << >> /\ m.of[1] = m.turn
  <2>1. CASE m.role = "user"
    <3>1. m.of = <<m.turn>>
      BY <1>1, <1>2, <2>1 DEF TextOf
    <3> QED BY <3>1
  <2>2. CASE m.role = "assistant"
    <3>1. answer[m.turn] > 0
      BY <1>1, <2>2 DEF HasRow
    <3>2. m.of = Said(m.turn, answer[m.turn]).of
      BY <1>1, <2>2 DEF TextOf, Said
    <3> QED BY <1>1, <3>1, <3>2, SaidTyped
  <2> QED BY <1>1, <2>1, <2>2
<1>6. ASSUME NEW e \in Parts(c) PROVE \E m \in table[c] : e = [role |-> m.role, of |-> m.of]
  <2>1. PICK t \in Asked(c) : \/ e = Question(t) /\ question[t] # << >>
                              \/ e = Said(t, Come(t)) /\ Come(t) > 0
    BY PartOf
  <2>2. t \in Turn /\ ~ Empty(t)
    <3>1. t \in Turn
      BY AskedTurns
    <3>2. convOf[t] = c
      BY AskedAtRest, <2>1 DEF StoredTurns, SendInv
    <3>3. Come(t) = answer[t]
      BY <3>1, <3>2 DEF Come, InTurn
    <3> QED BY <2>1, <3>1, <3>3 DEF Empty
  <2>3. PICK m \in table[c] : m.turn = t
    BY <2>1, <2>2, AskedAtRest DEF StoredTurns
  <2>4. /\ HasRow(c, t, "user") <=> question[t] # << >>
        /\ HasRow(c, t, "assistant") <=> answer[t] > 0
        /\ Come(t) = answer[t]
    BY <1>1, <2>3
  <2>5. CASE e = Question(t) /\ question[t] # << >>
    <3>1. PICK n \in table[c] : n.turn = t /\ n.role = "user"
      BY <2>4, <2>5 DEF HasRow
    <3> QED BY <1>3, <2>5, <3>1
  <2>6. CASE e = Said(t, Come(t)) /\ Come(t) > 0
    <3>1. PICK n \in table[c] : n.turn = t /\ n.role = "assistant"
      BY <2>4, <2>6 DEF HasRow
    <3> QED BY <1>3, <2>4, <2>6, <3>1
  <2> QED BY <2>1, <2>5, <2>6
<1> QED BY <1>4, <1>5, <1>6

\* A history that is loaded while nothing is under way.
LEMMA HistoryReads ==
  ASSUME TypeInv, SendInv, Whole, NEW c \in Conversation \ Repeated, ~ InTurn(c), InOrder(table[c]),
         NEW h \in Histories(c)
  PROVE  Reads(Shown(h), Parts(c))
<1> DEFINE n == Cardinality(table[c])
<1>1. n \in Nat /\ IsFiniteSet(table[c])
  BY FS_CardinalityType DEF TypeInv, ServerTypes
<1>2. /\ h \in [1..n -> table[c]]
      /\ IsInjective(h)
      /\ \A i, j \in 1..n : i < j => h[i].seq <= h[j].seq
  BY DEF Histories
<1>3. \A m \in table[c] : \E i \in 1..n : h[i] = m
  <2>1. h \in Injection(1..n, table[c])
    BY <1>2 DEF Injection
  <2>2. Cardinality(1..n) = n
    BY <1>1, FS_Interval
  <2>3. h \in Surjection(1..n, table[c])
    BY <1>1, <2>1, <2>2, FS_Injection
  <2> QED BY <2>3 DEF Surjection
<1> HIDE DEF n
<1>4. /\ DOMAIN Shown(h) = 1..n
      /\ \A i \in 1..n : Shown(h)[i] = [role |-> h[i].role, of |-> h[i].of]
  BY <1>2 DEF Shown
<1>5. Texts(Shown(h)) = 1..n
  BY <1>2, <1>4, RowParts DEF Texts
<1>6. \A i \in 1..n : h[i] \in table[c] /\ h[i] \in Message
  BY <1>2 DEF TypeInv, ServerTypes
<1>7. ASSUME NEW i \in 1..n, NEW j \in 1..n, i < j PROVE Before(Shown(h)[i], Shown(h)[j])
  <2>1. h[i] # h[j]
    BY <1>2, <1>7 DEF IsInjective
  <2>2. h[i].seq <= h[j].seq
    BY <1>2, <1>7
  <2>3. /\ h[i].seq < h[j].seq <=> Precedes(h[i], h[j])
        /\ h[j].seq < h[i].seq <=> Precedes(h[j], h[i])
    BY <1>6 DEF InOrder
  <2> DEFINE a == h[i]
             b == h[j]
  <2>4. a \in Message /\ b \in Message
    BY <1>6
  <2>5. /\ a.turn \in Int /\ b.turn \in Int /\ a.seq \in Nat /\ b.seq \in Nat
        /\ a.role \in {"user", "assistant"} /\ b.role \in {"user", "assistant"}
        /\ a = [role |-> a.role, turn |-> a.turn, of |-> a.of, seq |-> a.seq]
        /\ b = [role |-> b.role, turn |-> b.turn, of |-> b.of, seq |-> b.seq]
    BY <2>4, Bounds DEF Message, Turn
  <2>6. a.of = TextOf(a) /\ b.of = TextOf(b) /\ a.of[1] = a.turn /\ b.of[1] = b.turn
    BY <1>6, RowParts DEF SendInv
  <2>7. Precedes(a, b)
    <3> SUFFICES ASSUME ~ Precedes(a, b) PROVE FALSE
      OBVIOUS
    <3>1. a.seq = b.seq /\ ~ Precedes(b, a)
      BY <2>2, <2>3, <2>5
    <3>2. a.turn = b.turn /\ a.role = b.role
      BY <2>5, <3>1 DEF Precedes
    <3> HIDE DEF a, b
    <3>3. a.of = b.of
      BY <2>6, <3>2 DEF TextOf
    <3>4. a = b
      BY <2>5, <3>1, <3>2, <3>3
    <3> QED BY <2>1, <3>4 DEF a, b
  <2>8. Shown(h)[i].of[1] = a.turn /\ Shown(h)[i].role = a.role
    BY <1>4, <2>6
  <2>9. Shown(h)[j].of[1] = b.turn /\ Shown(h)[j].role = b.role
    BY <1>4, <2>6
  <2> HIDE DEF a, b
  <2> QED BY <2>7, <2>8, <2>9 DEF Before, Precedes
<1> QED BY <1>3, <1>4, <1>5, <1>6, <1>7, RowParts DEF Reads

\* With nothing under way, what reads as known reads as stored.
LEMMA ShownAtRest ==
  ASSUME TypeInv, SendInv, Whole, NEW c \in Conversation \ Repeated, ~ InTurn(c), InOrder(table[c]),
         NEW shown, Reads(shown, Parts(c))
  PROVE  ShowsRows(shown, table[c])
<1>1. \A i \in Texts(shown) : \E m \in table[c] : IsRow(shown[i], m)
  BY RowParts DEF Reads, IsRow
<1>2. \A m \in table[c] : \E i \in Texts(shown) : IsRow(shown[i], m)
  BY RowParts DEF Reads, IsRow
<1>3. ASSUME NEW i \in Texts(shown), NEW j \in Texts(shown), NEW m \in table[c], NEW n \in table[c],
             i < j, IsRow(shown[i], m), IsRow(shown[j], n)
      PROVE  m.seq < n.seq
  <2>1. Before(shown[i], shown[j])
    BY <1>3 DEF Reads
  <2>2. /\ shown[i].of[1] = m.turn /\ shown[i].role = m.role
        /\ shown[j].of[1] = n.turn /\ shown[j].role = n.role
    BY <1>3, RowParts DEF IsRow
  <2>3. Precedes(m, n)
    BY <2>1, <2>2 DEF Before, Precedes
  <2> QED BY <2>3 DEF InOrder
<1> QED BY <1>1, <1>2, <1>3 DEF ShowsRows, Texts

\* ShownIsStored is the case of nothing under way.
LEMMA ShownInvImplies ==
  ASSUME TypeInv, SendInv, OrderInv, ShownInv PROVE ShownIsStored
<1> SUFFICES ASSUME Quiet, conversationId \in Calm, ~ loose
             PROVE  ShowsRows(messages, table[conversationId])
  BY DEF ShownIsStored, Calm
<1>1. conversationId \in Conversation \ Repeated /\ conversationId \notin crossed
  BY DEF Calm, TypeInv, ServerTypes
<1>2. ~ InTurn(conversationId)
  BY DEF Quiet, InTurn, Sending
<1>3. InOrder(table[conversationId])
  BY <1>1, HistoryIsInOrder DEF OrderInv
<1>4. Reads(messages, Parts(conversationId))
  BY DEF Quiet, ShownInv, CopiesTold, ShownTold
<1> QED BY <1>1, <1>2, <1>3, <1>4, ShownAtRest DEF ShownInv

--------------------------------------------------------------------------------
(* What each step leaves known. *)

\* Which turns have to be compared, for the same messages to be known of c.
LEMMA PartsSame ==
  ASSUME NEW c, Asked(c)' = Asked(c), UNCHANGED question, \A t \in Asked(c) : Come(t)' = Come(t)
  PROVE  Parts(c)' = Parts(c)
  BY DEF Parts, Question, User, Said, Tokens

\* A step that goes on with no turn.
LEMMA NothingGoesOn ==
  ASSUME UNCHANGED <<table, sv, convOf, question, answer, sending, got>>
  PROVE  \A c : /\ Parts(c)' = Parts(c) /\ (InTurn(c)' <=> InTurn(c))
                /\ StoredTurns(c)' = StoredTurns(c)
<1>1. \A c : StoredTurns(c)' = StoredTurns(c) /\ (InTurn(c)' <=> InTurn(c))
  BY DEF StoredTurns, Empty, InTurn
<1>2. \A c : Asked(c)' = Asked(c)
  BY <1>1 DEF Asked
<1>3. \A t : Come(t)' = Come(t)
  BY DEF Come
<1>4. \A c : Parts(c)' = Parts(c)
  BY <1>2, <1>3, PartsSame
<1> QED BY <1>1, <1>4

LEMMA CalmSame ==
  ASSUME TypeInv, UNCHANGED <<conversations, convOf, question, crossed>>
  PROVE  Calm' = Calm /\ Calm \subseteq Conversation /\ Calm \subseteq conversations
  BY DEF Calm, Repeated, TypeInv, ServerTypes

\* Sends that begin to create a conversation, or fail to.
LEMMA PartsQuiet ==
  ASSUME UNCHANGED serverVars, UNCHANGED got, NEW c,
         \A t \in Turn : sending'[t] = "waiting" <=> sending[t] = "waiting",
         Asked(c) \subseteq Turn
  PROVE  Parts(c)' = Parts(c)
<1>1. Asked(c)' = Asked(c)
  BY DEF Asked, StoredTurns, Empty, serverVars
<1>2. \A t \in Asked(c) : Come(t)' = Come(t)
  BY DEF Come, serverVars
<1> QED BY <1>1, <1>2, PartsSame DEF serverVars

\* A send that is over.
LEMMA PartsEnd ==
  ASSUME TypeInv, SendInv, UNCHANGED serverVars,
         NEW t \in Turn, sending' = [sending EXCEPT ![t] = "done"], got' = [got EXCEPT ![t] = 0],
         NEW c \in conversations,
         sending[t] = "waiting" /\ convOf[t] = c =>
           got[t] = answer[t] /\ (sv[t] \in UnderWay \/ t \in StoredTurns(c))
  PROVE  Parts(c)' = Parts(c)
<1>1. /\ sending'[t] = "done" /\ \A u \in Turn : u # t => sending'[u] = sending[u] /\ got'[u] = got[u]
      /\ c \in Conversation
  BY DEF TypeInv, ServerTypes
<1>2. StoredTurns(c)' = StoredTurns(c)
  BY DEF StoredTurns, Empty, serverVars
<1>3. Asked(c)' = Asked(c)
  BY <1>1, <1>2 DEF Asked, serverVars
<1>4. ASSUME NEW u \in Asked(c) PROVE Come(u)' = Come(u)
  <2>1. u \in Turn /\ convOf[u] = c
    BY <1>1, AskedTurns DEF Asked, StoredTurns, SendInv
  <2> QED BY <1>1, <2>1 DEF Come, serverVars
<1> QED BY <1>3, <1>4, PartsSame DEF serverVars

\* A new turn.
LEMMA PartsStream ==
  ASSUME TypeInv, SendInv, NEW t \in Turn, NEW c \in Conversation, NEW seen,
         Stream(t, c, seen), UNCHANGED <<table, got>>, sending[t] = "creating" \/ IsNew(t)
  PROVE  /\ Parts(c)' = Parts(c) \cup (IF question'[t] # << >> THEN {Question(t)} ELSE {})
         /\ \A d \in Conversation : d # c => Parts(d)' = Parts(d)
<1>1. /\ sv[t] = "none" /\ convOf[t] = NoConversation /\ got[t] = 0 /\ answer[t] = 0
      /\ sending'[t] = "waiting" /\ sv'[t] = "posted" /\ convOf'[t] = c
      /\ \A u \in Turn : u # t => /\ sending'[u] = sending[u] /\ sv'[u] = sv[u]
                                  /\ convOf'[u] = convOf[u] /\ question'[u] = question[u]
      /\ UNCHANGED <<table, answer>>
      /\ sending[t] # "waiting"
  BY DEF SendInv, Stream, Post, At, IsNew, TypeInv, ServerTypes
<1>2. ASSUME NEW d \in Conversation PROVE t \notin Asked(d) /\ StoredTurns(d)' = StoredTurns(d)
  <2>1. t \notin StoredTurns(d)
    BY <1>1 DEF StoredTurns, SendInv
  <2>2. {u \in Turn : convOf'[u] = d /\ sv'[u] = "stored" /\ Empty(u)'}
          = {u \in Turn : convOf[u] = d /\ sv[u] = "stored" /\ Empty(u)}
    BY <1>1 DEF Empty
  <2>3. StoredTurns(d)' = StoredTurns(d)
    BY <1>1, <2>2 DEF StoredTurns
  <2> QED BY <1>1, <2>1, <2>3, NoConversationApart DEF Asked
<1>3. Asked(c)' = Asked(c) \cup {t}
  BY <1>1, <1>2 DEF Asked, UnderWay
<1>4. \A d \in Conversation : d # c => Asked(d)' = Asked(d)
  BY <1>1, <1>2 DEF Asked
<1>5. /\ Come(t)' = 0
      /\ \A u \in Turn : u # t => Come(u)' = Come(u)
  BY <1>1 DEF Come
<1>6. \A d \in Conversation : \A u \in Asked(d) : u # t /\ Come(u)' = Come(u) /\ question'[u] = question[u]
  BY <1>1, <1>2, <1>5, AskedTurns
<1>7. Parts(c)' = Parts(c) \cup (IF question'[t] # << >> THEN {Question(t)} ELSE {})
  BY <1>3, <1>5, <1>6 DEF Parts, Question, User, Said, Tokens
<1>8. \A d \in Conversation : d # c => Parts(d)' = Parts(d)
  BY <1>4, <1>6 DEF Parts, Question, User, Said, Tokens
<1> QED BY <1>7, <1>8

\* The other messages known of the conversation of a turn that is answered.
Others(c, t) ==
  {Question(u) : u \in {v \in Asked(c) : question[v] # << >>}}
    \cup {Said(u, Come(u)) : u \in {v \in Asked(c) \ {t} : Come(v) > 0}}

\* The next token of an answer.
LEMMA PartsToken ==
  ASSUME TypeInv, SendInv, UNCHANGED <<serverVars, sending>>, NEW t \in Turn, sending[t] = "waiting",
         got' = [got EXCEPT ![t] = got[t] + 1],
         NEW c \in Conversation
  PROVE  /\ convOf[t] # c => Parts(c)' = Parts(c)
         /\ convOf[t] = c => /\ Parts(c) = Others(c, t) \cup (IF got[t] > 0 THEN {Said(t, got[t])} ELSE {})
                             /\ Parts(c)' = Others(c, t) \cup {Said(t, got[t] + 1)}
<1>1. /\ Come(t) = got[t] /\ Come(t)' = got[t] + 1 /\ got[t] \in Nat /\ got[t] + 1 > 0
      /\ \A u \in Turn : u # t => Come(u)' = Come(u)
  BY DEF Come, serverVars, TypeInv, ServerTypes
<1>2. Asked(c)' = Asked(c) /\ UNCHANGED question
  BY DEF Asked, StoredTurns, Empty, serverVars
<1>3. Asked(c) \subseteq Turn /\ \A u \in Asked(c) : convOf[u] = c
  BY AskedTurns DEF Asked, StoredTurns, SendInv
<1>4. CASE convOf[t] = c
  <2>1. t \in Asked(c)
    BY <1>4 DEF Asked
  <2>2. \A u \in Asked(c) \ {t} : Come(u)' = Come(u)
    BY <1>1, <1>3
  <2>3. Parts(c) = Others(c, t) \cup (IF got[t] > 0 THEN {Said(t, got[t])} ELSE {})
    BY <1>1, <2>1 DEF Parts, Others
  <2>4. Parts(c)' = Others(c, t) \cup {Said(t, got[t] + 1)}
    BY <1>1, <1>2, <2>1, <2>2 DEF Parts, Others, Question, User, Said, Tokens
  <2> QED BY <1>4, <2>3, <2>4
<1>5. CASE convOf[t] # c
  <2>1. \A u \in Asked(c) : Come(u)' = Come(u)
    BY <1>1, <1>3, <1>5
  <2> QED BY <1>2, <1>5, <2>1, PartsSame
<1> QED BY <1>4, <1>5

\* The gateway's steps with a turn, unless it cannot be stored.
LEMMA PartsServer ==
  ASSUME TypeInv, SendInv, TurnsTold, NEW t \in Turn, ServerStep(t), UNCHANGED <<sending, got>>,
         sv'[t] # "unstored", NEW c \in conversations
  PROVE  /\ Parts(c)' = Parts(c)
         /\ StoredTurns(c)' = IF sv'[t] = "stored" /\ convOf[t] = c THEN StoredTurns(c) \cup {t} ELSE StoredTurns(c)
<1>1. /\ sv[t] \in UnderWay
      /\ \A u \in Turn : u # t => sv'[u] = sv[u]
      /\ UNCHANGED <<convOf, question>>
      /\ c \in Conversation
  BY ServerMoves DEF TypeInv, ServerTypes
<1>2. /\ sv'[t] \in UnderWay \cup {"failed", "stored"}
      /\ sv'[t] = "failed" => sv[t] \in {"posted", "answering"}
      /\ answer'[t] # answer[t] => sv[t] = "answering" /\ sv'[t] = "answering"
      /\ \A u \in Turn : u # t => answer'[u] = answer[u]
      /\ sv'[t] = "stored" => \/ table' = [table EXCEPT ![convOf[t]] = @ \cup Entries(t)]
                              \/ UNCHANGED table /\ Empty(t)
      /\ sv'[t] # "stored" => UNCHANGED table
  BY <1>1 DEF ServerStep, Ensure, Chunk, AnswerEnds, Reject, NoEntries, ReadNext, Store, StoreFails, At, stored, UnderWay,
              Empty, TypeInv, ServerTypes
<1>3. sv[t] \in {"posted", "answering"} => sending[t] = "waiting"
  BY DEF TurnsTold
<1>4. convOf[t] \in Conversation
  BY <1>1 DEF TypeInv, ServerTypes, UnderWay
<1>5. StoredTurns(c)' = IF sv'[t] = "stored" /\ convOf[t] = c THEN StoredTurns(c) \cup {t} ELSE StoredTurns(c)
  <2> DEFINE Bare == {u \in Turn : convOf[u] = c /\ sv[u] = "stored" /\ Empty(u)}
             bare == {u \in Turn : convOf'[u] = c /\ sv'[u] = "stored" /\ Empty(u)'}
  <2>1. bare = IF sv'[t] = "stored" /\ convOf[t] = c /\ Empty(t) THEN Bare \cup {t} ELSE Bare
    <3>1. \A u \in Turn : u # t => (u \in bare <=> u \in Bare)
      BY <1>1, <1>2 DEF Empty
    <3>2. t \notin Bare
      BY <1>1 DEF UnderWay
    <3>3. t \in bare <=> sv'[t] = "stored" /\ convOf[t] = c /\ Empty(t)
      BY <1>1, <1>2 DEF Empty
    <3> QED BY <3>1, <3>2, <3>3
  <2>2. \A m \in Entries(t) : m.turn = t
    BY EntriesOf
  <2>3. ~ Empty(t) => Entries(t) # {}
    <3>1. answer[t] \in Nat
      BY DEF TypeInv, ServerTypes
    <3>2. ~ Empty(t) => question[t] # << >> \/ answer[t] > 0
      BY <3>1 DEF Empty
    <3>3. Entries(t) = (IF question[t] # << >> THEN {QuestionRow(t)} ELSE {})
                         \cup (IF answer[t] > 0 THEN {AnswerRow(t)} ELSE {})
      BY EntriesAre
    <3> QED BY <3>2, <3>3
  <2>4. CASE sv'[t] = "stored" /\ convOf[t] = c /\ table' = [table EXCEPT ![convOf[t]] = @ \cup Entries(t)]
    <3>1. table'[c] = table[c] \cup Entries(t)
      BY <1>4, <2>4 DEF TypeInv, ServerTypes
    <3>2. {m.turn : m \in table'[c]} = {m.turn : m \in table[c]} \cup {m.turn : m \in Entries(t)}
      BY <3>1
    <3>3. {m.turn : m \in Entries(t)} = IF Entries(t) = {} THEN {} ELSE {t}
      BY <2>2
    <3> HIDE DEF Bare, bare
    <3>4. {m.turn : m \in table'[c]} \cup bare = {m.turn : m \in table[c]} \cup Bare \cup {t}
      BY <2>1, <2>3, <2>4, <3>2, <3>3
    <3> QED BY <2>4, <3>4 DEF StoredTurns, Bare, bare
  <2>5. CASE ~ (sv'[t] = "stored" /\ convOf[t] = c /\ table' = [table EXCEPT ![convOf[t]] = @ \cup Entries(t)])
    <3>1. table'[c] = table[c]
      BY <1>1, <1>2, <1>4, <2>5 DEF TypeInv, ServerTypes
    <3>2. sv'[t] = "stored" /\ convOf[t] = c => Empty(t)
      BY <1>2, <2>5
    <3> HIDE DEF Bare, bare
    <3>3. {m.turn : m \in table'[c]} \cup bare =
            IF sv'[t] = "stored" /\ convOf[t] = c THEN {m.turn : m \in table[c]} \cup Bare \cup {t}
                                                  ELSE {m.turn : m \in table[c]} \cup Bare
      BY <2>1, <3>1, <3>2
    <3> QED BY <3>3 DEF StoredTurns, Bare, bare
  <2> QED BY <2>4, <2>5
<1>6. Asked(c)' = Asked(c)
  <2>1. Asked(c) \subseteq Turn
    BY <1>1, AskedTurns
  <2>2. \A u \in Turn : u # t => (u \in Asked(c)' <=> u \in Asked(c))
    BY <1>1, <1>5 DEF Asked
  <2>3. t \in Asked(c)' <=> t \in Asked(c)
    <3>1. t \in Asked(c) <=> convOf[t] = c
      BY <1>1 DEF Asked, StoredTurns, SendInv
    <3>2. CASE convOf[t] = c
      BY <1>1, <1>2, <1>3, <1>5, <3>1, <3>2 DEF Asked
    <3>3. CASE convOf[t] # c
      BY <1>1, <1>5, <3>1, <3>3 DEF Asked
    <3> QED BY <3>2, <3>3
  <2>4. Asked(c)' \subseteq Turn
    BY <1>5, <2>1 DEF Asked
  <2> QED BY <2>1, <2>2, <2>3, <2>4
<1>7. \A u \in Turn : Come(u)' = Come(u)
  BY <1>2, <1>3 DEF Come
<1> QED BY <1>1, <1>5, <1>6, <1>7, AskedTurns, PartsSame

LEMMA ShownInit == Init => ShownInv
<1> SUFFICES ASSUME Init PROVE ShownInv
  OBVIOUS
<1>1. Whole
  BY DEF Init, ServerInit, Whole
<1>2. Newness /\ ~ mixed
  BY DEF Init, Newness
<1>3. Calm = {} /\ deletion = Nothing /\ \A f \in Fetch : fetches[f] = Nothing
  BY DEF Init, ServerInit, Calm
<1>4. CopiesTold
  BY <1>3 DEF CopiesTold, ShownTold, KeptTold, LoadsTold, DeletionTold
<1>5. TurnsTold
  BY DEF Init, ServerInit, TurnsTold
<1> QED BY <1>1, <1>2, <1>4, <1>5 DEF ShownInv

\* What is stored of a turn is stored at once.
LEMMA WholeServer ==
  ASSUME TypeInv, SendInv, Whole, NEW t \in Turn, ServerStep(t) PROVE Whole'
<1>1. /\ sv[t] \in UnderWay /\ convOf[t] \in Conversation /\ UNCHANGED question
      /\ \A u \in Turn : answer'[u] # answer[u] => sv[u] = "answering"
  BY DEF ServerStep, Ensure, Chunk, AnswerEnds, Reject, NoEntries, ReadNext, Store, StoreFails, stored, UnderWay,
         TypeInv, ServerTypes
<1>2. ASSUME NEW c \in Conversation, NEW m \in table[c]
      PROVE  /\ m.turn \in Turn /\ m.turn # t /\ answer'[m.turn] = answer[m.turn]
             /\ HasRow(c, m.turn, "user") <=> question[m.turn] # << >>
             /\ HasRow(c, m.turn, "assistant") <=> answer[m.turn] > 0
  <2>1. m.turn \in Turn /\ sv[m.turn] = "stored"
    BY DEF TypeInv, ServerTypes, Message, SendInv
  <2> QED BY <1>1, <2>1 DEF UnderWay, Whole
<1>3. CASE UNCHANGED table
  BY <1>1, <1>2, <1>3 DEF Whole, HasRow
<1>4. CASE /\ sv[t] = "read"
           /\ table' = [table EXCEPT ![convOf[t]] = @ \cup Entries(t)]
  <2> DEFINE asked == QuestionRow(t)
             told  == AnswerRow(t)
  <2>1. /\ question[t] # << >> => asked \in Entries(t)
        /\ answer[t] > 0 => told \in Entries(t)
        /\ \A m \in Entries(t) : (m = asked /\ question[t] # << >>) \/ (m = told /\ answer[t] > 0)
    BY EntriesAre
  <2>2. /\ asked.turn = t /\ asked.role = "user"
        /\ told.turn = t /\ told.role = "assistant"
    BY DEF QuestionRow, AnswerRow
  <2> HIDE DEF asked, told
  <2>3. answer'[t] = answer[t]
    BY <1>1, <1>4
  <2> SUFFICES ASSUME NEW c \in Conversation, NEW m \in table'[c]
               PROVE  /\ HasRow(c, m.turn, "user")' <=> question'[m.turn] # << >>
                      /\ HasRow(c, m.turn, "assistant")' <=> answer'[m.turn] > 0
    BY DEF Whole
  <2>4. table'[c] = IF c = convOf[t] THEN table[c] \cup Entries(t) ELSE table[c]
    BY <1>4 DEF TypeInv, ServerTypes
  <2>5. CASE m \in table[c]
    <3>1. m.turn # t /\ answer'[m.turn] = answer[m.turn]
      BY <1>2, <2>5
    <3>2. /\ HasRow(c, m.turn, "user") <=> question[m.turn] # << >>
          /\ HasRow(c, m.turn, "assistant") <=> answer[m.turn] > 0
      BY <1>2, <2>5
    <3>3. \A n \in Entries(t) : n.turn # m.turn
      BY <2>1, <2>2, <3>1
    <3> QED BY <1>1, <2>4, <3>1, <3>2, <3>3 DEF HasRow
  <2>6. CASE c = convOf[t] /\ m \in Entries(t)
    <3>1. m.turn = t
      BY <2>1, <2>2, <2>6
    <3>2. \A n \in table[c] : n.turn # t
      BY <1>2
    <3>3. question[t] # << >> => \E n \in table'[c] : n.turn = t /\ n.role = "user"
      BY <2>1, <2>2, <2>4, <2>6
    <3>4. answer[t] > 0 => \E n \in table'[c] : n.turn = t /\ n.role = "assistant"
      BY <2>1, <2>2, <2>4, <2>6
    <3>5. ASSUME NEW n \in table'[c], n.turn = t
          PROVE  (n.role = "assistant" => answer[t] > 0) /\ (n.role = "user" => question[t] # << >>)
      BY <2>1, <2>2, <2>4, <2>6, <3>2, <3>5
    <3> QED BY <1>1, <2>3, <3>1, <3>3, <3>4, <3>5 DEF HasRow
  <2> QED BY <2>4, <2>5, <2>6
<1> QED BY <1>3, <1>4, ServerMoves

LEMMA WholeStep == TypeInv /\ SendInv /\ Whole /\ [Next]_vars => Whole'
<1> SUFFICES ASSUME TypeInv, SendInv, Whole, [Next]_vars PROVE Whole'
  OBVIOUS
<1>1. CASE UNCHANGED <<table, question, answer>>
  BY <1>1 DEF Whole, HasRow
<1>2. ASSUME NEW t \in Turn, Server(t) PROVE Whole'
  BY <1>2, WholeServer DEF Server
<1>3. ASSUME DeleteServed, DeleteConversation(deletion.id) PROVE Whole'
  <2>1. /\ UNCHANGED <<question, answer>>
        /\ \A c \in Conversation : table'[c] = {} \/ table'[c] = table[c]
    BY <1>3 DEF DeleteConversation, TypeInv, ServerTypes
  <2> QED BY <2>1 DEF Whole, HasRow
<1>4. DeleteServed => DeleteConversation(deletion.id) \/ UNCHANGED <<table, question, answer>>
  BY DEF DeleteServed, serverVars
<1>5. NewChat \/ Reload \/ Deleted \/ DeleteRejected \/ UNCHANGED vars => UNCHANGED <<table, question, answer>>
  BY DEF NewChat, Reload, Deleted, DeleteRejected, vars, serverVars
<1>6. \A c \in Conversation : Open(c) \/ Delete(c) => UNCHANGED <<table, question, answer>>
  BY DEF Open, Delete, serverVars
<1>7. \A f \in Fetch : FetchAnswered(f) \/ FetchArrives(f) => UNCHANGED <<table, question, answer>>
  BY DEF FetchAnswered, FetchArrives, serverVars
<1>8. ASSUME NEW t \in Turn, Send(t) \/ Created(t) PROVE Whole'
  <2>1. CASE UNCHANGED serverVars
    BY <1>1, <2>1 DEF serverVars
  <2>2. CASE ~ UNCHANGED serverVars
    <3>1. PICK c, text : Post(t, c, text) /\ UNCHANGED table
      BY <1>8, <2>2 DEF Send, Created, Stream, stored
    <3>2. sv[t] = "none"
      BY <1>8 DEF Send, Created, IsNew, SendInv
    <3>3. UNCHANGED <<table, answer>> /\ \A u \in Turn : u # t => question'[u] = question[u]
      BY <3>1 DEF Post, TypeInv, ServerTypes
    <3>4. ASSUME NEW d \in Conversation, NEW m \in table[d] PROVE question'[m.turn] = question[m.turn]
      <4>1. m.turn \in Turn /\ sv[m.turn] = "stored"
        BY DEF TypeInv, ServerTypes, Message, SendInv
      <4> QED BY <3>2, <3>3, <4>1
    <3> QED BY <3>3, <3>4 DEF Whole, HasRow
  <2> QED BY <2>1, <2>2
<1>9. \A t \in Turn : NotCreated(t) \/ Token(t) \/ StreamEnds(t) \/ Error(t) \/ Stop(t) =>
        UNCHANGED <<table, question, answer>>
  BY DEF NotCreated, Token, Reload, StreamEnds, Error, Stop, EndSend, serverVars
<1> QED BY <1>1, <1>2, <1>3, <1>4, <1>5, <1>6, <1>7, <1>8, <1>9 DEF Next, Reply

LEMMA NewnessStep == TypeInv /\ SendInv /\ Newness /\ [Next]_vars => Newness'
<1> SUFFICES ASSUME TypeInv, SendInv, Newness, [Next]_vars PROVE Newness'
  OBVIOUS
<1>0. /\ created \in Nat
      /\ conversationId \in 1..created \cup {NoConversation}
      /\ deletion # Nothing => deletion.id \in 1..created
      /\ Listed \subseteq 1..created
  BY Bounds, ListedCreated DEF SendInv, TypeInv, ServerTypes
<1>1. ASSUME created' = created \/ created' = created + 1,
             UNCHANGED convStore,
             \A f \in Fetch : fetches'[f] = Nothing \/ (fetches[f] # Nothing /\ fetches'[f].id = fetches[f].id)
      PROVE  Newness'
  BY <1>0, <1>1 DEF Newness, Conversation
<1>2. ASSUME UNCHANGED created, NEW id, NEW shown, Keep(id, shown), id \in 1..created \cup {NoConversation},
             \A f \in Fetch : fetches'[f] = fetches[f] \/ fetches'[f].id \in 1..created
      PROVE  Newness'
  <2>1. ASSUME NEW c \in Conversation, c > created PROVE convStore'[c] = Nothing
    <3>1. c # id \/ id = NoConversation
      BY <1>0, <1>2, <2>1 DEF Conversation
    <3> QED BY <1>2, <2>1, <3>1 DEF Keep, Newness, TypeInv, PageTypes
  <2> QED BY <1>2, <2>1 DEF Newness
<1>3. CASE UNCHANGED <<created, convStore, fetches>>
  BY <1>1, <1>3 DEF Newness
<1>4. CASE NewChat
  BY <1>0, <1>2, <1>4 DEF NewChat, serverVars
<1>5. CASE Reload
  BY <1>5 DEF Reload, Newness
<1>6. CASE Deleted
  BY <1>0, <1>2, <1>3, <1>6 DEF Deleted, serverVars
<1>7. ASSUME NEW c \in Conversation, Open(c) PROVE Newness'
  <2>1. c \in 1..created
    BY <1>0, <1>7 DEF Open
  <2>2. \A f \in Fetch : fetches'[f] = fetches[f] \/ fetches'[f].id = c
    BY <1>7 DEF Open, TypeInv, PageTypes
  <2> QED BY <1>0, <1>2, <1>7, <2>1, <2>2 DEF Open, serverVars
<1>8. ASSUME NEW f \in Fetch, FetchAnswered(f) PROVE Newness'
  <2>1. \A g \in Fetch : fetches'[g] = Nothing \/ (fetches[g] # Nothing /\ fetches'[g].id = fetches[g].id)
    BY <1>8 DEF FetchAnswered, TypeInv, PageTypes, Load
  <2> QED BY <1>1, <1>8, <2>1 DEF FetchAnswered, serverVars
<1>9. ASSUME NEW f \in Fetch, FetchArrives(f) PROVE Newness'
  <2>1. fetches[f].id \in 1..created
    BY <1>9 DEF FetchArrives, Newness
  <2>2. \A c \in Conversation : c > created => convStore'[c] = Nothing
    BY <1>0, <1>9, <2>1 DEF FetchArrives, Newness, Conversation, TypeInv, PageTypes
  <2> QED BY <1>9, <2>2 DEF FetchArrives, Newness, serverVars, TypeInv, PageTypes
<1>10. ASSUME NEW t \in Turn, Created(t) PROVE Newness'
  BY <1>1, <1>10 DEF Created, CreateConversation
<1>11. \A t \in Turn : Send(t) \/ NotCreated(t) \/ StreamEnds(t) \/ Error(t) \/ Stop(t) => UNCHANGED <<created, convStore, fetches>>
  BY DEF Send, NotCreated, StreamEnds, Error, Stop, EndSend, serverVars, stored
<1>12. \A t \in Turn : Server(t) => UNCHANGED <<created, convStore, fetches>>
  BY ServerMoves DEF Server
<1>13. \A t \in Turn : Token(t) => Reload \/ UNCHANGED <<created, convStore, fetches>>
  BY DEF Token, serverVars
<1>14. DeleteServed \/ DeleteRejected \/ UNCHANGED vars => UNCHANGED <<created, convStore, fetches>>
  BY DEF DeleteServed, DeleteRejected, DeleteConversation, vars, serverVars, page
<1>15. \A c \in Conversation : Delete(c) => UNCHANGED <<created, convStore, fetches>>
  BY DEF Delete, serverVars
<1> QED BY <1>3, <1>4, <1>5, <1>6, <1>7, <1>8, <1>9, <1>10, <1>11, <1>12, <1>13, <1>14, <1>15 DEF Next, Reply

\* Turning away from a send is one of the ways of losing track of what is stored;
\* and only a page loaded anew is on its track again.
LEMMA LooseStep ==
  TypeInv /\ (mixed => loose) /\ [Next]_vars =>
    /\ (mixed => loose)'
    /\ loose /\ ~ loose' => Reload
<1> SUFFICES ASSUME TypeInv, mixed => loose, [Next]_vars
             PROVE  (mixed' => loose') /\ (loose /\ ~ loose' => Reload)
  OBVIOUS
<1>1. CASE Switched
  BY <1>1 DEF Switched, Mixed
<1>2. CASE UNCHANGED mixed /\ (loose => loose')
  BY <1>2
<1>3. CASE Reload
  BY <1>3 DEF Reload
<1>4. \A t \in Turn : Send(t) => Switched \/ (mixed' = Mixed /\ (loose \/ Mixed => loose'))
  BY DEF Send, Switched
<1>5. ASSUME NEW t \in Turn,
             Created(t) \/ NotCreated(t) \/ StreamEnds(t) \/ Error(t) \/ Stop(t) \/ Server(t)
      PROVE  UNCHANGED mixed /\ (loose => loose')
  <2>1. \A told : EndSend(t, told) => UNCHANGED mixed /\ (loose => loose')
    BY DEF EndSend
  <2>2. StreamEnds(t) \/ Error(t) \/ Stop(t) => \E told : EndSend(t, told)
    BY DEF StreamEnds, Error, Stop
  <2>3. Created(t) \/ NotCreated(t) => UNCHANGED <<mixed, loose>>
    BY DEF Created, NotCreated
  <2>4. Server(t) => UNCHANGED mixed /\ (loose => loose')
    BY DEF Server
  <2> QED BY <1>5, <2>1, <2>2, <2>3, <2>4
<1>6. \A t \in Turn : Token(t) => Reload \/ (UNCHANGED mixed /\ (loose => loose'))
  BY DEF Token
<1>7. NewChat \/ Deleted \/ DeleteServed \/ DeleteRejected \/ UNCHANGED vars =>
        Switched \/ (UNCHANGED mixed /\ (loose => loose'))
  BY DEF NewChat, Deleted, DeleteServed, DeleteRejected, vars, page
<1>8. \A c \in Conversation : Open(c) \/ Delete(c) => Switched \/ (UNCHANGED mixed /\ (loose => loose'))
  BY DEF Open, Delete
<1>9. ASSUME NEW f \in Fetch, FetchAnswered(f) \/ FetchArrives(f) PROVE UNCHANGED mixed /\ (loose => loose')
  <2>1. FetchAnswered(f) => UNCHANGED mixed /\ (loose => loose')
    BY DEF FetchAnswered
  <2>2. FetchArrives(f) => UNCHANGED <<mixed, loose>>
    BY DEF FetchArrives
  <2> QED BY <1>9, <2>1, <2>2
<1>10. ASSUME mixed' = Mixed, loose \/ Mixed => loose' PROVE (mixed' => loose') /\ (loose /\ ~ loose' => Reload)
  BY <1>10 DEF Mixed
<1> QED BY <1>1, <1>2, <1>3, <1>4, <1>5, <1>6, <1>7, <1>8, <1>9, <1>10 DEF Next, Reply


\* A step that leaves the copies alone.
LEMMA CopiesStay ==
  ASSUME TypeInv, CopiesTold,
         UNCHANGED <<conversationId, messages, convStore, fetches, convOf, question, crossed>>,
         deletion' # Nothing =>
           deletion # Nothing /\ deletion'.id = deletion.id /\ deletion'.seen = deletion.seen,
         conversations' \subseteq conversations,
         \A c \in conversations' : Parts(c)' = Parts(c),
         \A c \in Conversation : InTurn(c)' => InTurn(c),
         \A t \in Turn : sending'[t] = "waiting" => sending[t] = "waiting"
  PROVE  CopiesTold'
<1>1. \A c : Loading(c)' <=> Loading(c)
  BY DEF Loading
<1>2. Calm' \subseteq Calm /\ Calm \subseteq Conversation /\ Calm' \subseteq conversations'
  BY DEF Calm, Repeated, TypeInv, ServerTypes
<1>3. ShownTold'
  <2>1. ASSUME NEW c \in Calm', c = conversationId PROVE Loading(c)' \/ Reads(messages, Parts(c)')
    BY <1>1, <1>2, <2>1 DEF CopiesTold, ShownTold
  <2> QED BY <2>1 DEF ShownTold
<1>4. KeptTold'
  <2>1. ASSUME NEW c \in Calm', c # conversationId, convStore[c] # Nothing
        PROVE  Loading(c)' \/ Reads(convStore[c], Parts(c)')
    BY <1>1, <1>2, <2>1 DEF CopiesTold, KeptTold
  <2> QED BY <2>1 DEF KeptTold
<1>5. LoadsTold'
  <2>1. ASSUME NEW f \in Fetch, fetches[f] # Nothing, fetches[f].loaded # Nothing,
               NEW c \in conversations', fetches[f].id = c
        PROVE  /\ ~ InTurn(c)'
               /\ c \in Calm' => Reads(fetches[f].loaded, Parts(c)')
    <3>1. c \in conversations /\ c \in Conversation
      BY DEF TypeInv, ServerTypes
    <3>2. ~ InTurn(c) /\ (c \in Calm => Reads(fetches[f].loaded, Parts(c)))
      BY <2>1, <3>1 DEF CopiesTold, LoadsTold
    <3> QED BY <1>2, <2>1, <3>1, <3>2
  <2> QED BY <2>1 DEF LoadsTold
<1>6. DeletionTold'
  <2> SUFFICES ASSUME deletion' # Nothing PROVE DeletionTold'
    BY DEF DeletionTold
  <2>1. PICK d : d = deletion.id /\ d = deletion'.id
    OBVIOUS
  <2>2. d \in Conversation
    BY <2>1 DEF TypeInv, PageTypes, Deletion
  <2>3. ~ InTurn(d)'
    BY <2>1, <2>2 DEF CopiesTold, DeletionTold
  <2>4. ASSUME deletion.seen # Nothing, d \in Calm' PROVE Reads(deletion.seen, Parts(d)')
    BY <1>2, <2>1, <2>4 DEF CopiesTold, DeletionTold
  <2>5. ASSUME deletion.seen # Nothing, NEW c \in Calm' \ {d}, c = conversationId
        PROVE  \/ convStore[c] = Nothing
               \/ /\ \A t \in Turn : sending'[t] = "waiting" => convOf'[t] # c
                  /\ Loading(c)' \/ Reads(convStore[c], Parts(c)')
    <3>1. c \in Calm \ {d} /\ Parts(c)' = Parts(c)
      BY <1>2
    <3>2. \/ convStore[c] = Nothing
          \/ /\ \A t \in Turn : sending[t] = "waiting" => convOf[t] # c
             /\ Loading(c) \/ Reads(convStore[c], Parts(c))
      BY <2>1, <2>5, <3>1 DEF CopiesTold, DeletionTold
    <3> QED BY <1>1, <3>1, <3>2
  <2> QED BY <2>1, <2>3, <2>4, <2>5 DEF DeletionTold
<1> QED BY <1>3, <1>4, <1>5, <1>6 DEF CopiesTold

\* A step that goes on with no turn, except that one may be over.
LEMMA TurnsStay ==
  ASSUME TypeInv, TurnsTold, UNCHANGED <<conversationId, messages, sv, convOf>>,
         \A c : Loading(c)' => Loading(c),
         conversations' \subseteq conversations,
         \A c \in conversations' : StoredTurns(c)' = StoredTurns(c),
         \A t \in Turn :
           \/ sending'[t] = sending[t] /\ got'[t] = got[t]
           \/ /\ sending'[t] = "done" /\ sending[t] # "idle"
              /\ sending[t] = "waiting" => sv[t] \notin {"posted", "answering"}
  PROVE  TurnsTold'
<1>1. ASSUME NEW t \in Turn, sending'[t] = "waiting" PROVE WaitingOf(t)'
  <2>1. WaitingOf(t) /\ got'[t] = got[t]
    BY <1>1 DEF TurnsTold
  <2>2. ASSUME NEW c \in conversations', c = conversationId, sv[t] = "stored" PROVE t \in StoredTurns(c)'
    BY <2>1, <2>2 DEF WaitingOf
  <2>3. messages' # << >> /\ messages'[Len(messages')] = Said(t, got'[t])
    BY <2>1 DEF WaitingOf
  <2> QED BY <2>1, <2>2, <2>3 DEF WaitingOf, Said, Tokens
<1>2. ASSUME NEW t \in Turn, sending'[t] \in {"creating", "waiting"}
      PROVE  \A u \in Turn : u > t => sending'[u] = "idle"
  BY <1>2 DEF TurnsTold
<1>3. ASSUME NEW t \in Turn PROVE sending'[t] = "creating" => conversationId' = NoConversation
  BY DEF TurnsTold
<1>4. ASSUME NEW t \in Turn, sv'[t] \in {"posted", "answering"} PROVE sending'[t] = "waiting"
  BY <1>4 DEF TurnsTold
<1> QED BY <1>1, <1>2, <1>3, <1>4 DEF TurnsTold

\* The end of a send with which the page shows what is stored, or will be.
LEMMA ToldEnd ==
  ASSUME TypeInv, SendInv, CopiesTold, TurnsTold,
         NEW t \in Turn, StreamEnds(t) \/ Error(t) \/ Stop(t), ~ loose'
  PROVE  CopiesTold' /\ TurnsTold'
<1>1. /\ sending' = [sending EXCEPT ![t] = "done"]
      /\ got' = [got EXCEPT ![t] = 0]
      /\ UNCHANGED <<serverVars, conversationId, messages, convStore, fetches, deletion>>
      /\ sending[t] = "waiting"
      /\ Over(t) /\ got[t] = answer[t]
  BY DEF StreamEnds, Error, Stop, EndSend
<1>2. /\ sending'[t] = "done"
      /\ \A u \in Turn : u # t => sending'[u] = sending[u] /\ got'[u] = got[u]
      /\ UNCHANGED <<conversations, table, sv, convOf, question, answer, crossed>>
  BY <1>1 DEF TypeInv, ServerTypes, serverVars
<1>3. ASSUME NEW c \in conversations PROVE Parts(c)' = Parts(c)
  <2>1. ASSUME sending[t] = "waiting", convOf[t] = c
        PROVE  got[t] = answer[t] /\ (sv[t] \in UnderWay \/ t \in StoredTurns(c))
    <3>1. WaitingOf(t)
      BY <2>1 DEF TurnsTold
    <3>2. sv[t] \in {"answered", "read", "stored"}
      BY <1>1, <3>1 DEF WaitingOf, Over
    <3> QED BY <1>1, <2>1, <3>1, <3>2 DEF WaitingOf, UnderWay
  <2> QED BY <1>1, <2>1, PartsEnd
<1>4. \A c : InTurn(c)' => InTurn(c)
  BY <1>2 DEF InTurn
<1>5. CopiesTold'
  BY <1>1, <1>2, <1>3, <1>4, CopiesStay
<1>6. \A c : (Loading(c)' <=> Loading(c)) /\ StoredTurns(c)' = StoredTurns(c)
  BY <1>1, <1>2 DEF Loading, StoredTurns, Empty
<1>7. sv[t] \notin {"posted", "answering"}
  BY <1>1 DEF Over
<1>8. TurnsTold'
  BY <1>1, <1>2, <1>6, <1>7, TurnsStay
<1> QED BY <1>5, <1>8

\* A conversation that could not be created.
LEMMA ToldNotCreated ==
  ASSUME TypeInv, CopiesTold, TurnsTold, NEW t \in Turn, NotCreated(t)
  PROVE  CopiesTold' /\ TurnsTold'
<1>1. /\ sending' = [sending EXCEPT ![t] = "done"] /\ sending[t] = "creating"
      /\ UNCHANGED <<serverVars, got, conversationId, messages, convStore, fetches, deletion>>
  BY DEF NotCreated
<1>2. /\ sending'[t] = "done" /\ \A u \in Turn : u # t => sending'[u] = sending[u]
      /\ UNCHANGED <<conversations, table, sv, convOf, question, answer, crossed>>
  BY <1>1 DEF TypeInv, ServerTypes, serverVars
<1>3. ASSUME NEW c \in conversations PROVE Parts(c)' = Parts(c)
  <2>1. c \in Conversation
    BY DEF TypeInv, ServerTypes
  <2> QED BY <1>1, <1>2, <2>1, AskedTurns, PartsQuiet
<1>4. \A c : InTurn(c)' => InTurn(c)
  BY <1>2 DEF InTurn
<1>5. CopiesTold'
  BY <1>1, <1>2, <1>3, <1>4, CopiesStay
<1>6. \A c : (Loading(c)' <=> Loading(c)) /\ StoredTurns(c)' = StoredTurns(c)
  BY <1>1, <1>2 DEF Loading, StoredTurns, Empty
<1>7. TurnsTold'
  BY <1>1, <1>2, <1>6, TurnsStay
<1> QED BY <1>5, <1>7

\* The gateway's steps, unless a turn cannot be stored or a conversation comes
\* back with a message.
LEMMA ToldServer ==
  ASSUME TypeInv, SendInv, CopiesTold, TurnsTold, NEW t \in Turn, Server(t), ~ loose'
  PROVE  CopiesTold' /\ TurnsTold'
<1>1. /\ ServerStep(t) /\ sv'[t] # "unstored" /\ UNCHANGED conversations
      /\ UNCHANGED <<sending, got, conversationId, messages, convStore, fetches, deletion>>
  BY DEF Server
<1>2. /\ sv[t] \in UnderWay
      /\ \A u \in Turn : u # t => sv'[u] = sv[u]
      /\ UNCHANGED <<convOf, question, crossed>>
  BY <1>1, ServerMoves DEF TypeInv, ServerTypes
<1>3. \A c \in conversations :
        /\ Parts(c)' = Parts(c)
        /\ StoredTurns(c)' = IF sv'[t] = "stored" /\ convOf[t] = c THEN StoredTurns(c) \cup {t} ELSE StoredTurns(c)
  BY <1>1, PartsServer
<1>4. \A c : InTurn(c)' => InTurn(c)
  BY <1>1, <1>2 DEF InTurn
<1>5. CopiesTold'
  BY <1>1, <1>2, <1>3, <1>4, CopiesStay
<1>6. sv'[t] \in {"posted", "answering"} => sv[t] \in {"posted", "answering"}
  BY <1>1, <1>2 DEF ServerStep, Ensure, Chunk, AnswerEnds, Reject, NoEntries, ReadNext, Store, StoreFails, At, UnderWay,
              TypeInv, ServerTypes
<1>7. ASSUME NEW u \in Turn, sending[u] = "waiting" PROVE WaitingOf(u)'
  <2>1. WaitingOf(u)
    BY <1>7 DEF TurnsTold
  <2>2. Loading(conversationId)' <=> Loading(conversationId)
    BY <1>1 DEF Loading
  <2>3. ASSUME NEW c \in conversations, c = conversationId, sv'[u] = "stored" PROVE u \in StoredTurns(c)'
    <3>1. convOf[u] = c
      BY <2>1, <2>3 DEF WaitingOf
    <3>2. CASE u = t
      BY <1>3, <2>3, <3>1, <3>2
    <3>3. CASE u # t
      BY <1>2, <1>3, <2>1, <2>3, <3>3 DEF WaitingOf
    <3> QED BY <3>2, <3>3
  <2>4. sv'[u] # "unstored"
    BY <1>1, <1>2, <2>1 DEF WaitingOf
  <2>5. messages' # << >> /\ messages'[Len(messages')] = Said(u, got'[u])
    BY <1>1, <2>1 DEF WaitingOf
  <2> QED BY <1>1, <1>2, <2>1, <2>2, <2>3, <2>4, <2>5 DEF WaitingOf, Said, Tokens
<1>8. ASSUME NEW u \in Turn, sv'[u] \in {"posted", "answering"} PROVE sending[u] = "waiting"
  BY <1>2, <1>6, <1>8 DEF TurnsTold
<1>9. TurnsTold'
  BY <1>1, <1>7, <1>8 DEF TurnsTold
<1> QED BY <1>5, <1>9

\* The gateway deletes a conversation, or does not.
LEMMA ToldDeleteServed ==
  ASSUME TypeInv, CopiesTold, TurnsTold, DeleteServed
  PROVE  CopiesTold' /\ TurnsTold'
<1>1. /\ deletion # Nothing /\ deletion \in Deletion
      /\ deletion' = [deletion EXCEPT !.gone = TRUE]
      /\ UNCHANGED <<sending, got, conversationId, messages, convStore, fetches>>
  BY DEF DeleteServed, TypeInv, PageTypes
<1>2. /\ deletion.id \in Conversation
      /\ deletion'.id = deletion.id /\ deletion'.seen = deletion.seen
  BY <1>1 DEF Deletion
<1>3. /\ UNCHANGED <<sv, convOf, question, answer, crossed>>
      /\ conversations' \subseteq conversations
      /\ \A c \in conversations' : table'[c] = table[c]
  <2>1. conversations \subseteq Conversation
    BY DEF TypeInv, ServerTypes
  <2>2. CASE DeleteConversation(deletion.id)
    BY <1>2, <2>1, <2>2 DEF DeleteConversation, TypeInv, ServerTypes
  <2>3. CASE UNCHANGED serverVars
    BY <2>3 DEF serverVars
  <2> QED BY <2>2, <2>3 DEF DeleteServed
<1>4. \A c \in conversations' : StoredTurns(c)' = StoredTurns(c)
  BY <1>3 DEF StoredTurns, Empty
<1>5. ASSUME NEW c \in conversations' PROVE Parts(c)' = Parts(c)
  <2>1. Asked(c)' = Asked(c)
    BY <1>1, <1>3, <1>4 DEF Asked
  <2>2. \A t : Come(t)' = Come(t)
    BY <1>1, <1>3 DEF Come
  <2> QED BY <1>3, <2>1, <2>2, PartsSame
<1>6. \A c : InTurn(c)' => InTurn(c)
  BY <1>1, <1>3 DEF InTurn
<1>7. CopiesTold'
  BY <1>1, <1>2, <1>3, <1>5, <1>6, CopiesStay
<1>8. \A c : Loading(c)' => Loading(c)
  BY <1>1 DEF Loading
<1>9. TurnsTold'
  BY <1>1, <1>3, <1>4, <1>8, TurnsStay
<1> QED BY <1>7, <1>9

\* The page's request to delete fails, and its handler ends there.
LEMMA ToldDeleteRejected ==
  ASSUME TypeInv, CopiesTold, TurnsTold, DeleteRejected
  PROVE  CopiesTold' /\ TurnsTold'
<1>1. /\ UNCHANGED <<serverVars, sending, got, conversationId, messages, convStore, fetches>>
      /\ deletion' = Nothing
  BY DEF DeleteRejected
<1>2. UNCHANGED <<conversations, table, sv, convOf, question, answer, crossed>>
  BY <1>1 DEF serverVars
<1>3. \A d : /\ Parts(d)' = Parts(d) /\ (InTurn(d)' <=> InTurn(d))
             /\ StoredTurns(d)' = StoredTurns(d)
  BY <1>1, <1>2, NothingGoesOn
<1>4. \A d : Loading(d)' <=> Loading(d)
  BY <1>1 DEF Loading
<1>5. CopiesTold'
  BY <1>1, <1>2, <1>3, CopiesStay
<1>6. TurnsTold'
  BY <1>1, <1>2, <1>3, <1>4, TurnsStay
<1> QED BY <1>5, <1>6

\* A deletion begins, of a conversation with which nothing is under way.
LEMMA ToldDelete ==
  ASSUME TypeInv, CopiesTold, TurnsTold, NEW c \in Conversation, Delete(c), ~ loose'
  PROVE  CopiesTold' /\ TurnsTold'
<1>1. /\ UNCHANGED <<serverVars, sending, got, conversationId, messages, convStore, fetches>>
      /\ deletion = Nothing
      /\ deletion' = [id |-> c, gone |-> FALSE,
                      seen |-> IF c = conversationId THEN messages ELSE Nothing]
      /\ ~ Loading(c) /\ ~ InTurn(c)
  BY DEF Delete
<1>2. UNCHANGED <<conversations, table, sv, convOf, question, answer, crossed>>
  BY <1>1 DEF serverVars
<1>3. \A d : /\ Parts(d)' = Parts(d) /\ (InTurn(d)' <=> InTurn(d))
             /\ (Loading(d)' <=> Loading(d)) /\ StoredTurns(d)' = StoredTurns(d)
  BY <1>1, <1>2, NothingGoesOn DEF Loading
<1>4. Calm' = Calm
  BY <1>2, CalmSame
<1>5. ShownTold' /\ KeptTold' /\ LoadsTold'
  <2>1. ShownTold'
    BY <1>1, <1>3, <1>4 DEF CopiesTold, ShownTold
  <2>2. KeptTold'
    BY <1>1, <1>3, <1>4 DEF CopiesTold, KeptTold
  <2>3. LoadsTold'
    BY <1>1, <1>2, <1>3, <1>4 DEF CopiesTold, LoadsTold
  <2> QED BY <2>1, <2>2, <2>3
<1>6. /\ deletion'.id = c
      /\ deletion'.seen # Nothing => c = conversationId /\ deletion'.seen = messages
  BY <1>1
<1>7. ASSUME deletion'.seen # Nothing, c \in Calm' PROVE Reads(deletion'.seen, Parts(c)')
  BY <1>1, <1>3, <1>4, <1>6, <1>7 DEF CopiesTold, ShownTold
<1>8. DeletionTold'
  BY <1>1, <1>3, <1>6, <1>7 DEF DeletionTold
<1>9. TurnsTold'
  BY <1>1, <1>2, <1>3, TurnsStay
<1> QED BY <1>5, <1>8, <1>9 DEF CopiesTold

\* The gateway reads a history while nothing is under way with it.
LEMMA ToldFetchAnswered ==
  ASSUME TypeInv, SendInv, OrderInv, Whole, CopiesTold, TurnsTold,
         NEW f \in Fetch, FetchAnswered(f), ~ loose'
  PROVE  CopiesTold' /\ TurnsTold'
<1> DEFINE c == fetches[f].id
<1>1. /\ UNCHANGED <<serverVars, sending, got, conversationId, messages, convStore, deletion>>
      /\ fetches[f] \in Load /\ c \in Conversation
  BY DEF FetchAnswered, TypeInv, PageTypes, Load
<1>2. PICK h \in Histories(c) : fetches' = [fetches EXCEPT ![f].loaded = Shown(h)]
  BY DEF FetchAnswered
<1>3. ~ InTurn(c)
  BY DEF FetchAnswered
<1>4. /\ fetches'[f].id = c /\ fetches'[f].loaded = Shown(h)
      /\ \A g \in Fetch : g # f => fetches'[g] = fetches[g]
      /\ fetches[f] # Nothing /\ fetches'[f] # Nothing
  <2>1. fetches' \in [Fetch -> Load \cup {Nothing}] /\ Shown(h) \in Shownable
    BY LoadsTyped, HistoryTyped, <1>1 DEF TypeInv, PageTypes
  <2>2. fetches'[f] = [fetches[f] EXCEPT !.loaded = Shown(h)]
    BY <1>2 DEF TypeInv, PageTypes
  <2>3. fetches'[f] \in Load
    BY <1>1, <2>1, <2>2 DEF Load
  <2>4. fetches'[f].id = c /\ fetches'[f].loaded = Shown(h)
    BY <1>1, <2>2 DEF Load
  <2>5. fetches'[f] # Nothing
    BY <2>3, NothingApart DEF Load, Shownable
  <2> QED BY <1>2, <2>4, <2>5 DEF TypeInv, PageTypes, FetchAnswered
<1>5. UNCHANGED <<conversations, table, sv, convOf, question, answer, crossed>>
  BY <1>1 DEF serverVars
<1>6. \A d : /\ Parts(d)' = Parts(d) /\ (InTurn(d)' <=> InTurn(d))
             /\ StoredTurns(d)' = StoredTurns(d)
  BY <1>1, <1>5, NothingGoesOn
<1>7. \A d : Loading(d)' <=> Loading(d)
  BY <1>4 DEF Loading
<1>8. Calm' = Calm
  BY <1>5, CalmSame
<1>9. ShownTold' /\ KeptTold' /\ DeletionTold'
  <2>1. ShownTold'
    BY <1>1, <1>6, <1>7, <1>8 DEF CopiesTold, ShownTold
  <2>2. KeptTold'
    BY <1>1, <1>6, <1>7, <1>8 DEF CopiesTold, KeptTold
  <2>3. DeletionTold'
    BY <1>1, <1>5, <1>6, <1>7, <1>8 DEF CopiesTold, DeletionTold
  <2> QED BY <2>1, <2>2, <2>3
<1>10. LoadsTold'
  <2>1. ASSUME c \in Calm PROVE Reads(Shown(h), Parts(c))
    <3>1. c \in Conversation \ Repeated /\ c \notin crossed
      BY <1>1, <2>1 DEF Calm
    <3>2. InOrder(table[c])
      BY <3>1, HistoryIsInOrder DEF OrderInv
    <3> HIDE DEF c
    <3> QED BY <1>3, <3>1, <3>2, HistoryReads
  <2>2. ASSUME NEW g \in Fetch, fetches'[g] # Nothing, fetches'[g].loaded # Nothing,
               NEW d \in conversations', fetches'[g].id = d
        PROVE  /\ ~ InTurn(d)'
               /\ d \in Calm' => Reads(fetches'[g].loaded, Parts(d)')
    <3>1. CASE g = f
      BY <1>3, <1>4, <1>6, <1>8, <2>1, <2>2, <3>1
    <3>2. CASE g # f
      BY <1>4, <1>5, <1>6, <1>8, <2>2, <3>2 DEF CopiesTold, LoadsTold
    <3> QED BY <3>1, <3>2
  <2> QED BY <2>2 DEF LoadsTold
<1>11. TurnsTold'
  BY <1>1, <1>5, <1>6, <1>7, TurnsStay
<1> QED BY <1>9, <1>10, <1>11 DEF CopiesTold

\* What is known of the turns when none is being sent.
LEMMA NotSending ==
  ASSUME TurnsTold, ~ Sending, UNCHANGED <<sv, sending>> PROVE TurnsTold'
<1>1. \A t \in Turn : sending'[t] \notin {"creating", "waiting"}
  BY DEF Sending
<1>2. \A t \in Turn : sv'[t] \notin {"posted", "answering"}
  BY DEF TurnsTold, Sending
<1> QED BY <1>1, <1>2 DEF TurnsTold

\* Turning to another conversation, or to none, when nothing is being sent.
LEMMA ToldSwitch ==
  ASSUME TypeInv, CopiesTold, TurnsTold, (\E c \in Conversation : Open(c)) \/ NewChat, ~ loose'
  PROVE  CopiesTold' /\ TurnsTold'
<1>1. /\ UNCHANGED <<serverVars, sending, got, deletion>>
      /\ Keep(conversationId, messages)
      /\ ~ Sending
  BY DEF Open, NewChat, Switched, Mixed
<1>2. UNCHANGED <<conversations, table, sv, convOf, question, answer, crossed>>
  BY <1>1 DEF serverVars
<1>3. \A d : Parts(d)' = Parts(d) /\ (InTurn(d)' <=> InTurn(d))
  BY <1>1, <1>2, NothingGoesOn
<1>4. Calm' = Calm /\ Calm \subseteq Conversation
  BY <1>2, CalmSame
<1>5. /\ \A f \in Fetch : \/ fetches'[f] = fetches[f]
                          \/ fetches[f] = Nothing /\ fetches'[f] # Nothing /\ fetches'[f].loaded = Nothing
      /\ \/ conversationId' = NoConversation
         \/ \E c \in Conversation \ {conversationId} :
              /\ conversationId' = c
              /\ Loading(c)' \/ (messages' = convStore[c] /\ convStore[c] # Nothing)
  <2>1. CASE NewChat
    BY <2>1 DEF NewChat
  <2>2. ASSUME NEW c \in Conversation, Open(c), convStore[c] # Nothing
        PROVE  /\ UNCHANGED fetches
               /\ conversationId' = c /\ c # conversationId /\ messages' = convStore[c]
    BY <2>2 DEF Open
  <2>3. ASSUME NEW c \in Conversation, Open(c), convStore[c] = Nothing
        PROVE  /\ \A f \in Fetch : \/ fetches'[f] = fetches[f]
                                   \/ fetches[f] = Nothing /\ fetches'[f] # Nothing /\ fetches'[f].loaded = Nothing
               /\ conversationId' = c /\ c # conversationId
               /\ \E f \in Fetch : fetches'[f] # Nothing /\ fetches'[f].id = c
    <3>1. PICK f \in Fetch : /\ fetches[f] = Nothing
                             /\ fetches' = [fetches EXCEPT ![f] = [id |-> c, loaded |-> Nothing]]
      BY <2>3 DEF Open
    <3>2. [id |-> c, loaded |-> Nothing] # Nothing
      BY NothingApart
    <3>3. /\ fetches'[f] = [id |-> c, loaded |-> Nothing]
          /\ \A g \in Fetch : g # f => fetches'[g] = fetches[g]
      BY <3>1 DEF TypeInv, PageTypes
    <3>4. conversationId' = c /\ c # conversationId
      BY <2>3 DEF Open
    <3>5. fetches'[f] # Nothing /\ fetches'[f].id = c /\ fetches'[f].loaded = Nothing
      BY <3>2, <3>3
    <3> QED BY <3>1, <3>3, <3>4, <3>5
  <2> QED BY <2>1, <2>2, <2>3 DEF Loading
<1>6. \A d : Loading(d) => Loading(d)'
  BY <1>5 DEF Loading
<1>7. ASSUME NEW c \in Conversation
      PROVE  convStore'[c] = IF c = conversationId THEN messages ELSE convStore[c]
  BY <1>1, <1>7, NoConversationApart DEF Keep, TypeInv, PageTypes
<1>8. ShownTold'
  <2>1. ASSUME NEW c \in Calm, c = conversationId' PROVE Loading(c)' \/ Reads(messages', Parts(c)')
    <3>1. Loading(c)' \/ (messages' = convStore[c] /\ convStore[c] # Nothing /\ c # conversationId)
      BY <1>4, <1>5, <2>1, NoConversationApart
    <3> QED BY <1>3, <1>6, <2>1, <3>1 DEF CopiesTold, KeptTold
  <2> QED BY <1>4, <2>1 DEF ShownTold
<1>9. KeptTold'
  <2>1. ASSUME NEW c \in Calm, convStore'[c] # Nothing PROVE Loading(c)' \/ Reads(convStore'[c], Parts(c)')
    <3>1. CASE c = conversationId
      BY <1>3, <1>4, <1>6, <1>7, <2>1, <3>1 DEF CopiesTold, ShownTold
    <3>2. CASE c # conversationId
      BY <1>3, <1>4, <1>6, <1>7, <2>1, <3>2 DEF CopiesTold, KeptTold
    <3> QED BY <3>1, <3>2
  <2> QED BY <1>4, <2>1 DEF KeptTold
<1>10. LoadsTold'
  <2>1. ASSUME NEW f \in Fetch, fetches'[f] # Nothing, fetches'[f].loaded # Nothing,
               NEW d \in conversations, fetches'[f].id = d
        PROVE  /\ ~ InTurn(d)'
               /\ d \in Calm' => Reads(fetches'[f].loaded, Parts(d)')
    BY <1>2, <1>3, <1>4, <1>5, <2>1 DEF CopiesTold, LoadsTold
  <2> QED BY <1>2, <2>1 DEF LoadsTold
<1>11. DeletionTold'
  <2>1. ASSUME deletion.seen # Nothing, deletion # Nothing, NEW c \in Calm \ {deletion.id}, c = conversationId'
        PROVE  \/ convStore'[c] = Nothing
               \/ /\ \A t \in Turn : sending'[t] = "waiting" => convOf'[t] # c
                  /\ Loading(c)' \/ Reads(convStore'[c], Parts(c)')
    <3>1. \A t \in Turn : sending'[t] # "waiting"
      BY <1>1 DEF Sending
    <3>2. c # conversationId /\ convStore'[c] = convStore[c]
      BY <1>4, <1>5, <1>7, <2>1, NoConversationApart
    <3> QED BY <1>3, <1>6, <3>1, <3>2 DEF CopiesTold, KeptTold
  <2>2. PICK d : d = deletion.id
    OBVIOUS
  <2>3. deletion # Nothing => ~ InTurn(d)'
    BY <1>3, <2>2 DEF CopiesTold, DeletionTold
  <2>4. deletion # Nothing /\ deletion.seen # Nothing /\ d \in Calm => Reads(deletion.seen, Parts(d)')
    BY <1>3, <2>2 DEF CopiesTold, DeletionTold
  <2> QED BY <1>1, <1>4, <2>1, <2>2, <2>3, <2>4 DEF DeletionTold
<1> QED BY <1>1, <1>2, <1>8, <1>9, <1>10, <1>11, NotSending DEF CopiesTold

\* The handler of a deletion ends: it puts back what it saw, and empties the page.
LEMMA ToldDeleted ==
  ASSUME TypeInv, CopiesTold, TurnsTold, Deleted, ~ loose'
  PROVE  CopiesTold' /\ TurnsTold'
<1>1. /\ UNCHANGED <<serverVars, sending, got, fetches>>
      /\ deletion # Nothing /\ deletion' = Nothing
  BY DEF Deleted
<1>2. UNCHANGED <<conversations, table, sv, convOf, question, answer, crossed>>
  BY <1>1 DEF serverVars
<1>3. \A d : /\ Parts(d)' = Parts(d) /\ (InTurn(d)' <=> InTurn(d))
             /\ (Loading(d)' <=> Loading(d)) /\ StoredTurns(d)' = StoredTurns(d)
  BY <1>1, <1>2, NothingGoesOn DEF Loading
<1>4. CASE deletion.seen = Nothing
  <2>1. UNCHANGED <<conversationId, messages, convStore>>
    BY <1>4 DEF Deleted
  <2> QED BY <1>1, <1>2, <1>3, <2>1, CopiesStay, TurnsStay
<1>5. CASE deletion.seen # Nothing
  <2>1. /\ Keep(deletion.id, deletion.seen) /\ conversationId' = NoConversation /\ ~ Sending
        /\ deletion.id \in Conversation
    BY <1>1, <1>5 DEF Deleted, Switched, Mixed, TypeInv, PageTypes, Deletion
  <2>2. Calm' = Calm /\ Calm \subseteq Conversation
    BY <1>2, CalmSame
  <2>3. ASSUME NEW c \in Conversation
        PROVE  convStore'[c] = IF c = deletion.id THEN deletion.seen ELSE convStore[c]
    BY <2>1, <2>3, NoConversationApart DEF Keep, TypeInv, PageTypes
  <2>4. ASSUME NEW c \in Calm, convStore'[c] # Nothing PROVE Loading(c)' \/ Reads(convStore'[c], Parts(c)')
    <3>1. CASE c = deletion.id
      BY <1>1, <1>3, <1>5, <2>2, <2>3, <2>4, <3>1 DEF CopiesTold, DeletionTold
    <3>2. CASE c # deletion.id /\ c = conversationId
      BY <1>1, <1>3, <1>5, <2>2, <2>3, <2>4, <3>2 DEF CopiesTold, DeletionTold
    <3>3. CASE c # deletion.id /\ c # conversationId
      BY <1>3, <2>2, <2>3, <2>4, <3>3 DEF CopiesTold, KeptTold
    <3> QED BY <3>1, <3>2, <3>3
  <2>5. ShownTold'
    BY <2>1, <2>2, NoConversationApart DEF ShownTold
  <2>6. KeptTold'
    BY <2>2, <2>4 DEF KeptTold
  <2>7. LoadsTold'
    BY <1>1, <1>2, <1>3, <2>2 DEF CopiesTold, LoadsTold
  <2>8. DeletionTold'
    BY <1>1 DEF DeletionTold
  <2> QED BY <1>1, <1>2, <2>1, <2>5, <2>6, <2>7, <2>8, NotSending DEF CopiesTold
<1> QED BY <1>4, <1>5

\* The page loaded anew.
LEMMA ToldReload ==
  ASSUME TypeInv, Reload, ~ loose' PROVE CopiesTold' /\ TurnsTold'
<1>1. /\ conversationId' = NoConversation /\ deletion' = Nothing
      /\ \A c \in Conversation : convStore'[c] = Nothing
      /\ \A f \in Fetch : fetches'[f] = Nothing
      /\ \A t \in Turn : sending'[t] \in {"idle", "done"}
      /\ UNCHANGED sv
      /\ \A t \in Turn : sv[t] \notin UnderWay
  BY DEF Reload, serverVars
<1>2. Calm' \subseteq Conversation
  BY DEF Reload, serverVars, Calm, TypeInv, ServerTypes
<1>3. CopiesTold'
  BY <1>1, <1>2, NoConversationApart DEF CopiesTold, ShownTold, KeptTold, LoadsTold, DeletionTold
<1>4. TurnsTold'
  BY <1>1 DEF TurnsTold, UnderWay
<1> QED BY <1>3, <1>4

\* A history arrives, and is kept, and shown if its conversation is.
LEMMA ToldFetchArrives ==
  ASSUME TypeInv, PageOwn, CopiesTold, TurnsTold, NEW f \in Fetch, FetchArrives(f)
  PROVE  CopiesTold' /\ TurnsTold'
<1> DEFINE id == fetches[f].id
           loaded == fetches[f].loaded
<1>1. /\ UNCHANGED <<serverVars, sending, got, deletion, conversationId>>
      /\ fetches[f] # Nothing /\ loaded # Nothing
      /\ convStore' = [convStore EXCEPT ![id] = loaded]
      /\ messages' = IF conversationId = id THEN loaded ELSE messages
      /\ fetches' = [fetches EXCEPT ![f] = Nothing]
  BY DEF FetchArrives, ShowIfActive, PageOwn
<1>2. id \in Conversation
  BY <1>1 DEF TypeInv, PageTypes, Load
<1> HIDE DEF id, loaded
<1>3. UNCHANGED <<conversations, table, sv, convOf, question, answer, crossed>>
  BY <1>1 DEF serverVars
<1>4. \A d : /\ Parts(d)' = Parts(d) /\ (InTurn(d)' <=> InTurn(d))
             /\ StoredTurns(d)' = StoredTurns(d)
  BY <1>1, <1>3, NothingGoesOn
<1>5. Calm' = Calm /\ Calm \subseteq Conversation /\ Calm \subseteq conversations
  BY <1>3, CalmSame
<1>6. \A g \in Fetch : fetches'[g] = IF g = f THEN Nothing ELSE fetches[g]
  BY <1>1 DEF TypeInv, PageTypes
<1>7. /\ \A c : c # id /\ Loading(c) => Loading(c)'
      /\ \A c : Loading(c)' => Loading(c)
  BY <1>6 DEF Loading, id
<1>8. id \in conversations => ~ InTurn(id) /\ (id \in Calm => Reads(loaded, Parts(id)))
  BY <1>1 DEF CopiesTold, LoadsTold, id, loaded
<1>9. \A c \in Conversation : convStore'[c] = IF c = id THEN loaded ELSE convStore[c]
  BY <1>1 DEF TypeInv, PageTypes
<1>10. ShownTold'
  <2>1. ASSUME NEW c \in Calm, c = conversationId PROVE Loading(c)' \/ Reads(messages', Parts(c)')
    <3>1. CASE c = id
      BY <1>1, <1>4, <1>5, <1>8, <2>1, <3>1
    <3>2. CASE c # id
      BY <1>1, <1>4, <1>7, <2>1, <3>2 DEF CopiesTold, ShownTold
    <3> QED BY <3>1, <3>2
  <2> QED BY <1>1, <1>5, <2>1 DEF ShownTold
<1>11. ASSUME NEW c \in Calm, c = id PROVE convStore'[c] = loaded /\ Reads(loaded, Parts(c)')
  BY <1>4, <1>5, <1>8, <1>9, <1>11
<1>12. KeptTold'
  <2>1. ASSUME NEW c \in Calm, c # conversationId, convStore'[c] # Nothing
        PROVE  Loading(c)' \/ Reads(convStore'[c], Parts(c)')
    <3>1. CASE c = id
      BY <1>11, <3>1
    <3>2. CASE c # id
      BY <1>4, <1>5, <1>7, <1>9, <2>1, <3>2 DEF CopiesTold, KeptTold
    <3> QED BY <3>1, <3>2
  <2> QED BY <1>1, <1>5, <2>1 DEF KeptTold
<1>13. LoadsTold'
  BY <1>3, <1>4, <1>5, <1>6 DEF CopiesTold, LoadsTold
<1>14. DeletionTold'
  <2> SUFFICES ASSUME deletion # Nothing PROVE DeletionTold'
    BY <1>1 DEF DeletionTold
  <2>1. PICK d : d = deletion.id
    OBVIOUS
  <2>2. ~ InTurn(d)' /\ (deletion.seen # Nothing /\ d \in Calm => Reads(deletion.seen, Parts(d)'))
    BY <1>4, <2>1 DEF CopiesTold, DeletionTold
  <2>3. ASSUME deletion.seen # Nothing, NEW c \in Calm \ {d}, c = conversationId
        PROVE  \/ convStore'[c] = Nothing
               \/ /\ \A t \in Turn : sending'[t] = "waiting" => convOf'[t] # c
                  /\ Loading(c)' \/ Reads(convStore'[c], Parts(c)')
    <3>1. CASE c = id
      <4>1. ~ InTurn(c)
        BY <1>5, <1>8, <3>1
      <4> QED BY <1>1, <1>3, <1>11, <3>1, <4>1 DEF InTurn
    <3>2. CASE c # id
      BY <1>1, <1>3, <1>4, <1>5, <1>7, <1>9, <2>1, <2>3, <3>2 DEF CopiesTold, DeletionTold
    <3> QED BY <3>1, <3>2
  <2> QED BY <1>1, <1>5, <2>1, <2>2, <2>3 DEF DeletionTold
<1>15. TurnsTold'
  <2>1. ASSUME NEW t \in Turn, sending[t] = "waiting" PROVE WaitingOf(t) /\ messages' = messages
    <3>1. WaitingOf(t)
      BY <2>1 DEF TurnsTold
    <3>2. id # conversationId
      BY <1>1, <3>1 DEF WaitingOf, Loading, id
    <3> QED BY <1>1, <3>1, <3>2
  <2>2. ASSUME NEW t \in Turn, sending[t] = "waiting" PROVE WaitingOf(t)'
    BY <1>1, <1>3, <1>4, <1>7, <2>1, <2>2 DEF WaitingOf, Said, Tokens
  <2> QED BY <1>1, <1>3, <2>2 DEF TurnsTold
<1> QED BY <1>10, <1>12, <1>13, <1>14, <1>15 DEF CopiesTold

\* The messages known of a conversation are of turns that have been posted.
LEMMA AskedPosted ==
  ASSUME TypeInv, SendInv, NEW c \in Conversation, NEW u \in Asked(c)
  PROVE  u \in Turn /\ convOf[u] = c /\ sv[u] # "none" /\ sending[u] \notin {"idle", "creating"}
<1>1. u \in Turn
  BY AskedTurns
<1>2. convOf[u] = c /\ sv[u] # "none"
  BY <1>1 DEF Asked, StoredTurns, SendInv, TypeInv, ServerTypes, UnderWay
<1> QED BY <1>1, <1>2 DEF SendInv

\* They come before those of a turn that is sent later.
LEMMA PartsBefore ==
  ASSUME TypeInv, SendInv, NEW c \in Conversation, NEW t \in Turn,
         \A u \in Asked(c) : u < t
  PROVE  \A e \in Parts(c) : Before(e, Question(t))
<1> SUFFICES ASSUME NEW e \in Parts(c) PROVE Before(e, Question(t))
  OBVIOUS
<1>1. PICK u \in Asked(c) : \/ e = Question(u) /\ question[u] # << >>
                            \/ e = Said(u, Come(u)) /\ Come(u) > 0
  BY PartOf
<1>2. u \in Turn /\ u < t /\ Come(u) \in Nat
  BY AskedTurns, ComeTyped
<1>3. /\ Before(Question(u), Question(t))
      /\ Come(u) > 0 => Before(Said(u, Come(u)), Question(t))
  <2> DEFINE k == Come(u)
  <2>1. k \in Nat
    BY <1>2
  <2> HIDE DEF k
  <2>2. Before(Question(u), Question(t)) /\ (k > 0 => Before(Said(u, k), Question(t)))
    BY <1>2, <2>1, BeforeOf
  <2> QED BY <2>2 DEF k
<1> QED BY <1>1, <1>3

LEMMA OthersBefore ==
  ASSUME TypeInv, SendInv, NEW c \in Conversation, NEW t \in Turn, NEW n \in Nat, n > 0,
         \A u \in Asked(c) : u < t \/ u = t
  PROVE  \A e \in Others(c, t) : Before(e, Said(t, n))
<1>1. ASSUME NEW u \in Asked(c) PROVE Before(Question(u), Said(t, n))
  <2>1. u \in Turn
    BY AskedTurns
  <2> QED BY <2>1, BeforeOf
<1>2. ASSUME NEW u \in Asked(c) \ {t}, Come(u) > 0 PROVE Before(Said(u, Come(u)), Said(t, n))
  <2> DEFINE k == Come(u)
  <2>1. u \in Turn /\ u < t /\ k \in Nat /\ k > 0
    BY <1>2, AskedTurns, ComeTyped
  <2> HIDE DEF k
  <2>2. Before(Said(u, k), Said(t, n))
    BY <2>1, BeforeOf
  <2> QED BY <2>2 DEF k
<1> QED BY <1>1, <1>2 DEF Others

\* The next token of an answer.
LEMMA ToldToken ==
  ASSUME TypeInv, SendInv, CopiesTold, TurnsTold, NEW t \in Turn, Token(t), messages # << >>
  PROVE  CopiesTold' /\ TurnsTold'
<1>1. /\ sending[t] = "waiting"
      /\ messages' = [messages EXCEPT ![Len(messages)].of = Append(@, t)]
      /\ got' = [got EXCEPT ![t] = got[t] + 1]
      /\ UNCHANGED <<serverVars, sending, conversationId, convStore, fetches, deletion>>
  BY DEF Token
<1>2. UNCHANGED <<conversations, table, sv, convOf, question, answer, crossed>>
  BY <1>1 DEF serverVars
<1>3. got[t] \in Nat /\ got'[t] = got[t] + 1 /\ got[t] + 1 \in Nat /\ got[t] + 1 > 0
  BY <1>1 DEF TypeInv, ServerTypes
<1>4. /\ WaitingOf(t)
      /\ \A u \in Turn : u > t => sending[u] = "idle"
      /\ \A u \in Turn : u # t => sending[u] \notin {"creating", "waiting"}
  <2>1. WaitingOf(t) /\ \A u \in Turn : u > t => sending[u] = "idle"
    BY <1>1 DEF TurnsTold
  <2>2. ASSUME NEW u \in Turn, u < t PROVE sending[u] \notin {"creating", "waiting"}
    BY <1>1, <2>2 DEF TurnsTold
  <2>3. \A u \in Turn : u # t => u > t \/ u < t
    BY Bounds DEF Turn
  <2> QED BY <2>1, <2>2, <2>3
<1>5. PICK c \in Conversation : c = conversationId /\ convOf[t] = c
  BY <1>1, <1>4 DEF WaitingOf, TypeInv, ServerTypes
<1>6. InTurn(c)
  BY <1>1, <1>5 DEF InTurn
<1>7. Calm' = Calm /\ Calm \subseteq Conversation /\ Calm \subseteq conversations
  BY <1>2, CalmSame
<1>8. \A d \in Conversation : d # c => Parts(d)' = Parts(d)
  BY <1>1, <1>5, PartsToken
<1>9. \A d : /\ Loading(d)' <=> Loading(d)
             /\ InTurn(d)' <=> InTurn(d)
             /\ StoredTurns(d)' = StoredTurns(d)
  BY <1>1, <1>2 DEF Loading, InTurn, StoredTurns, Empty
<1>10. /\ c \in Calm => Reads(messages', Parts(c)')
       /\ messages'[Len(messages')] = Said(t, got'[t])
       /\ messages' # << >>
  <2> DEFINE k == got[t]
             base == Others(c, t)
             shown == IF k > 0 THEN {Said(t, k)} ELSE {}
  <2>1. messages \in Shownable /\ messages[Len(messages)] = Said(t, k)
    BY <1>4 DEF WaitingOf, TypeInv, PageTypes
  <2>2. Parts(c) = base \cup shown /\ Parts(c)' = base \cup {Said(t, k + 1)}
    BY <1>1, <1>5, PartsToken
  <2>3. \A e \in base : Before(e, Said(t, k + 1))
    <3>1. \A u \in Asked(c) : u < t \/ u = t
      <4>1. ASSUME NEW u \in Asked(c) PROVE u \in Turn /\ sending[u] # "idle"
        BY AskedPosted
      <4> QED BY <1>4, <4>1, Bounds DEF Turn
    <3> QED BY <1>3, <3>1, OthersBefore
  <2>4. messages' # << >> /\ Len(messages') = Len(messages)
    BY <1>1, <2>1, TokenTyped DEF Shownable
  <2>5. k \in Nat
    BY <1>3
  <2> HIDE DEF k, base
  <2>6. CASE c \in Calm
    <3>1. Reads(messages, base \cup shown)
      BY <1>4, <1>5, <2>2, <2>6 DEF CopiesTold, ShownTold, WaitingOf
    <3>2. /\ Reads(messages', base \cup {Said(t, k + 1)})
          /\ messages'[Len(messages)] = Said(t, k + 1)
      BY <1>1, <2>1, <2>3, <2>5, <3>1, TokenReads
    <3> QED BY <1>3, <2>2, <2>4, <3>2 DEF k
  <2>7. CASE c \notin Calm
    <3>1. messages'[Len(messages)] = [messages[Len(messages)] EXCEPT !.of = Append(@, t)]
      BY <1>1, <2>1 DEF Shownable
    <3>2. [Said(t, k) EXCEPT !.of = Append(@, t)] = Said(t, k + 1)
      BY <2>5, SaidNext
    <3>3. messages'[Len(messages)] = Said(t, k + 1)
      BY <2>1, <3>1, <3>2
    <3>4. got'[t] = k + 1
      BY <1>3 DEF k
    <3> QED BY <2>4, <2>7, <3>3, <3>4
  <2> QED BY <2>6, <2>7
<1>11. ShownTold'
  BY <1>1, <1>5, <1>7, <1>10 DEF ShownTold
<1>12. KeptTold'
  <2>1. ASSUME NEW d \in Calm, d # conversationId, convStore[d] # Nothing
        PROVE  Loading(d)' \/ Reads(convStore[d], Parts(d)')
    BY <1>5, <1>7, <1>8, <1>9, <2>1 DEF CopiesTold, KeptTold
  <2> QED BY <1>1, <1>7, <2>1 DEF KeptTold
<1>13. LoadsTold'
  <2>1. ASSUME NEW f \in Fetch, fetches[f] # Nothing, fetches[f].loaded # Nothing,
               NEW d \in conversations, fetches[f].id = d
        PROVE  /\ ~ InTurn(d)'
               /\ d \in Calm => Reads(fetches[f].loaded, Parts(d)')
    <3>1. ~ InTurn(d) /\ (d \in Calm => Reads(fetches[f].loaded, Parts(d)))
      BY <2>1 DEF CopiesTold, LoadsTold
    <3>2. d # c /\ d \in Conversation
      BY <1>6, <3>1 DEF TypeInv, ServerTypes
    <3> QED BY <1>8, <1>9, <3>1, <3>2
  <2> QED BY <1>1, <1>2, <1>7, <2>1 DEF LoadsTold
<1>14. DeletionTold'
  <2> SUFFICES ASSUME deletion # Nothing PROVE DeletionTold'
    BY <1>1 DEF DeletionTold
  <2>1. PICK d : d = deletion.id
    OBVIOUS
  <2>2. ~ InTurn(d) /\ d # c
    BY <1>6, <2>1 DEF CopiesTold, DeletionTold
  <2>3. deletion.seen # Nothing /\ d \in Calm => Reads(deletion.seen, Parts(d)')
    BY <1>7, <1>8, <2>1, <2>2 DEF CopiesTold, DeletionTold
  <2>4. deletion.seen # Nothing /\ conversationId \in Calm \ {d} => convStore[conversationId] = Nothing
    BY <1>1, <1>5, <2>1 DEF CopiesTold, DeletionTold
  <2> QED BY <1>1, <1>7, <1>9, <2>1, <2>2, <2>3, <2>4 DEF DeletionTold
<1>15. TurnsTold'
  <2>1. WaitingOf(t)'
    BY <1>1, <1>2, <1>4, <1>9, <1>10 DEF WaitingOf, Said, Tokens
  <2>2. \A u \in Turn : sv'[u] \in {"posted", "answering"} => sending'[u] = "waiting"
    BY <1>1, <1>2 DEF TurnsTold
  <2> QED BY <1>1, <1>4, <2>1, <2>2 DEF TurnsTold
<1> QED BY <1>11, <1>12, <1>13, <1>14, <1>15 DEF CopiesTold

\* A send is posted, to a conversation of which the page knows all.
LEMMA ToldStream ==
  ASSUME TypeInv, SendInv, CopiesTold,
         NEW t \in Turn, NEW c \in Conversation, NEW seen \in Shownable, Stream(t, c, seen),
         UNCHANGED <<table, got, convStore, fetches, deletion>>,
         sending[t] = "creating" \/ IsNew(t),
         conversations' \subseteq conversations \cup {c},
         c \in Calm' => Reads(seen, Parts(c)),
         ~ Loading(c),
         conversationId \in {c, NoConversation},
         deletion # Nothing => deletion.id # c /\ convStore[c] = Nothing,
         \A u \in Turn : u # t => sending[u] \notin {"creating", "waiting"} /\ sv[u] \notin {"posted", "answering"},
         \A u \in Turn : u > t => sending[u] = "idle",
         \A e \in Parts(c) : Before(e, Question(t))
  PROVE  CopiesTold' /\ TurnsTold'
<1>0. PICK text \in Typed(t) : /\ messages' = seen \o <<User(text), Blank>>
                               /\ Post(t, c, NewestText(Append(seen, User(text))))
  BY DEF Stream
<1>1. /\ conversationId' = c
      /\ sending'[t] = "waiting" /\ sv'[t] = "posted" /\ convOf'[t] = c
      /\ question'[t] = NewestText(Append(seen, User(text)))
      /\ \A u \in Turn : u # t =>
           sending'[u] = sending[u] /\ sv'[u] = sv[u] /\ convOf'[u] = convOf[u]
      /\ crossed \subseteq crossed'
      /\ sv[t] = "none" /\ got[t] = 0
  BY <1>0 DEF Stream, Post, At, IsNew, SendInv, TypeInv, ServerTypes
<1>2. /\ Parts(c)' = Parts(c) \cup (IF question'[t] # << >> THEN {Question(t)} ELSE {})
      /\ \A d \in Conversation : d # c => Parts(d)' = Parts(d)
  BY PartsStream
<1>3. /\ \A d \in Calm' : d # c => d \in Calm
      /\ Calm' \subseteq Conversation
      /\ c \notin Repeated' => question'[t] \in {<<t>>, << >>}
  <2>1. Repeated \subseteq Repeated'
    BY <1>0, <1>1, RepeatedGrows
  <2>2. Calm' \subseteq Conversation
    BY DEF Calm, TypeInv, ServerTypes
  <2>3. c \notin Repeated' => question'[t] \in {<<t>>, << >>}
    BY <1>1 DEF Repeated
  <2> QED BY <1>1, <2>1, <2>2, <2>3 DEF Calm
<1>4. \A d : /\ Loading(d)' <=> Loading(d)
             /\ d # c => (InTurn(d)' => InTurn(d))
  BY <1>1 DEF Loading, InTurn
<1>5. /\ c \in Calm' => Reads(messages', Parts(c)')
      /\ messages' # << >> /\ messages'[Len(messages')] = Said(t, 0)
  <2>1. messages' # << >> /\ messages'[Len(messages')] = Blank
    BY <1>0 DEF Shownable
  <2>2. text \in {<<t>>, << >>}
    BY TypedText
  <2>3. ASSUME c \in Calm' PROVE Reads(messages', Parts(c)')
    <3>1. question'[t] \in {<<t>>, << >>}
      BY <1>3, <2>3 DEF Calm
    <3>2. ASSUME NEW i \in Texts(seen) PROVE seen[i] # Question(t)
      <4>1. Before(seen[i], Question(t))
        BY <2>3 DEF Reads
      <4>2. ~ Before(Question(t), Question(t))
        BY BeforeOf
      <4> QED BY <4>1, <4>2
    <3>3. question'[t] = text
      BY <1>1, <2>2, <3>1, <3>2, NewestSent
    <3>4. Reads(seen \o <<User(text), Blank>>, Parts(c) \cup (IF text # << >> THEN {Question(t)} ELSE {}))
      BY <2>2, <2>3, StreamReads
    <3> QED BY <1>0, <1>2, <3>3, <3>4
  <2> QED BY <2>1, <2>3, SaidNothing
<1>6. ShownTold'
  BY <1>1, <1>5 DEF ShownTold
<1>7. KeptTold'
  <2>1. ASSUME NEW d \in Calm', d # c, convStore[d] # Nothing
        PROVE  Loading(d)' \/ Reads(convStore[d], Parts(d)')
    <3>1. d \in Calm /\ d # conversationId /\ d \in Conversation
      BY <1>3, <2>1, NoConversationApart
    <3> QED BY <1>2, <1>4, <2>1, <3>1 DEF CopiesTold, KeptTold
  <2> QED BY <1>1, <2>1 DEF KeptTold
<1>8. LoadsTold'
  <2>1. ASSUME NEW f \in Fetch, fetches[f] # Nothing, fetches[f].loaded # Nothing,
               NEW d \in conversations', fetches[f].id = d
        PROVE  /\ ~ InTurn(d)'
               /\ d \in Calm' => Reads(fetches[f].loaded, Parts(d)')
    <3>1. d # c
      BY <2>1 DEF Loading
    <3>2. d \in conversations /\ d \in Conversation
      BY <3>1 DEF TypeInv, ServerTypes
    <3>3. ~ InTurn(d) /\ (d \in Calm => Reads(fetches[f].loaded, Parts(d)))
      BY <2>1, <3>2 DEF CopiesTold, LoadsTold
    <3> QED BY <1>2, <1>3, <1>4, <3>1, <3>2, <3>3
  <2> QED BY <2>1 DEF LoadsTold
<1>9. DeletionTold'
  <2> SUFFICES ASSUME deletion # Nothing PROVE DeletionTold'
    BY DEF DeletionTold
  <2>1. PICK d : d = deletion.id
    OBVIOUS
  <2>2. d # c /\ ~ InTurn(d)'
    BY <1>4, <2>1 DEF CopiesTold, DeletionTold
  <2>3. deletion.seen # Nothing /\ d \in Calm' => Reads(deletion.seen, Parts(d)')
    BY <1>2, <1>3, <2>1, <2>2 DEF CopiesTold, DeletionTold
  <2> QED BY <1>1, <2>1, <2>2, <2>3 DEF DeletionTold
<1>10. TurnsTold'
  <2>1. WaitingOf(t)'
    BY <1>1, <1>4, <1>5 DEF WaitingOf, Said, Tokens
  <2>2. \A u \in Turn : u > t => sending'[u] = "idle"
    <3>1. \A u \in Turn : u > t => u # t
      BY Bounds DEF Turn
    <3> QED BY <1>1, <3>1
  <2>3. \A u \in Turn : u # t => sending'[u] \notin {"creating", "waiting"} /\ sv'[u] \notin {"posted", "answering"}
    BY <1>1
  <2> QED BY <1>1, <2>1, <2>2, <2>3 DEF TurnsTold
<1> QED BY <1>6, <1>7, <1>8, <1>9, <1>10 DEF CopiesTold

\* The user sends, in a new chat or in a conversation that has been loaded.
LEMMA ToldSend ==
  ASSUME TypeInv, SendInv, CopiesTold, TurnsTold, NEW t \in Turn, Send(t), ~ loose'
  PROVE  CopiesTold' /\ TurnsTold'
<1>1. IsNew(t) /\ UNCHANGED <<convStore, got, fetches, deletion>> /\ ~ Sending
  BY DEF Send, Mixed
<1>2. \A u \in Turn : sending[u] \notin {"creating", "waiting"} /\ sv[u] \notin {"posted", "answering"}
  BY <1>1 DEF TurnsTold, Sending
<1>3. \A u \in Turn : u > t => sending[u] = "idle"
  <2>1. \A u \in Turn : u > t => t < u
    BY Bounds DEF Turn
  <2> QED BY <1>1, <2>1 DEF IsNew, SendInv
<1>4. CASE conversationId = NoConversation
  <2>1. /\ sending' = [sending EXCEPT ![t] = "creating"]
        /\ UNCHANGED <<serverVars, conversationId, messages>>
    BY <1>4 DEF Send
  <2>2. sending[t] = "idle" /\ sending'[t] = "creating" /\ \A u \in Turn : u # t => sending'[u] = sending[u]
    BY <1>1, <2>1 DEF TypeInv, ServerTypes, IsNew
  <2>3. UNCHANGED <<conversations, table, sv, convOf, question, answer, crossed>>
    BY <2>1 DEF serverVars
  <2>4. ASSUME NEW c \in conversations PROVE Parts(c)' = Parts(c)
    <3>1. c \in Conversation
      BY DEF TypeInv, ServerTypes
    <3> QED BY <1>1, <2>1, <2>2, <3>1, AskedTurns, PartsQuiet
  <2>5. \A c : InTurn(c)' => InTurn(c)
    BY <2>2, <2>3 DEF InTurn
  <2>6. CopiesTold'
    BY <1>1, <2>1, <2>2, <2>3, <2>4, <2>5, CopiesStay
  <2>7. \A u \in Turn : u > t => sending'[u] = "idle"
    <3>1. \A u \in Turn : u > t => u # t
      BY Bounds DEF Turn
    <3> QED BY <1>3, <2>2, <3>1
  <2>8. TurnsTold'
    BY <1>2, <1>4, <2>1, <2>2, <2>3, <2>7 DEF TurnsTold
  <2> QED BY <2>6, <2>8
<1>5. CASE conversationId # NoConversation
  <2>1. /\ Stream(t, conversationId, messages)
        /\ ~ Loading(conversationId) /\ deletion = Nothing
        /\ UNCHANGED <<conversations, table>>
    BY <1>5 DEF Send, stored
  <2>2. PICK c \in Conversation : c = conversationId
    BY <1>5 DEF TypeInv, PageTypes
  <2>3. messages \in Shownable
    BY DEF TypeInv, PageTypes
  <2>4. c \in Calm' => Reads(messages, Parts(c))
    <3>1. PICK text : Post(t, c, text)
      BY <2>1, <2>2 DEF Stream
    <3>2. sv[t] = "none"
      BY <1>1 DEF IsNew, SendInv
    <3>3. Repeated \subseteq Repeated'
      BY <3>1, <3>2, RepeatedGrows
    <3>4. crossed \subseteq crossed'
      BY <3>1 DEF Post
    <3>5. c \in Calm' => c \in Calm
      BY <2>1, <3>3, <3>4 DEF Calm
    <3> QED BY <2>1, <2>2, <3>5 DEF CopiesTold, ShownTold
  <2>5. \A e \in Parts(c) : Before(e, Question(t))
    <3>1. ASSUME NEW u \in Asked(c) PROVE u < t
      <4>1. u \in Turn /\ sending[u] # "idle"
        BY AskedPosted
      <4> QED BY <1>1, <1>3, <4>1, Bounds DEF Turn, IsNew
    <3> QED BY <3>1, PartsBefore
  <2>6. Stream(t, c, messages) /\ ~ Loading(c)
    BY <2>1, <2>2
  <2>7. \A u \in Turn : u # t => sending[u] \notin {"creating", "waiting"} /\ sv[u] \notin {"posted", "answering"}
    BY <1>2
  <2> QED BY <1>1, <1>3, <2>1, <2>2, <2>3, <2>4, <2>5, <2>6, <2>7, ToldStream
<1> QED BY <1>4, <1>5

\* The conversation has been created, and the message is posted to it.
LEMMA ToldCreated ==
  ASSUME TypeInv, SendInv, Newness, CopiesTold, TurnsTold, NEW t \in Turn, Created(t)
  PROVE  CopiesTold' /\ TurnsTold'
<1> DEFINE c == created + 1
<1>1. /\ sending[t] = "creating"
      /\ Stream(t, c, << >>)
      /\ UNCHANGED <<table, got, convStore, fetches, deletion>>
      /\ conversations' = conversations \cup {c}
      /\ created < Conversations
  BY DEF Created, CreateConversation
<1>2. /\ created \in Nat /\ c \in Conversation /\ c > created /\ c \notin 1..created
      /\ << >> \in Shownable
  BY <1>1, Bounds DEF Conversation, Shownable, TypeInv, ServerTypes
<1>3. PICK d \in Conversation : d = c
  BY <1>2
<1> HIDE DEF c
<1>4. /\ conversationId = NoConversation
      /\ \A u \in Turn : u > t => sending[u] = "idle"
      /\ \A u \in Turn : u # t => sending[u] \notin {"creating", "waiting"}
  <2>1. conversationId = NoConversation /\ \A u \in Turn : u > t => sending[u] = "idle"
    BY <1>1 DEF TurnsTold
  <2>2. ASSUME NEW u \in Turn, u < t PROVE sending[u] \notin {"creating", "waiting"}
    BY <1>1, <2>2 DEF TurnsTold
  <2>3. \A u \in Turn : u # t => u > t \/ u < t
    BY Bounds DEF Turn
  <2> QED BY <2>1, <2>2, <2>3
<1>5. \A u \in Turn : u # t => sv[u] \notin {"posted", "answering"}
  BY <1>4 DEF TurnsTold
<1>6. Asked(d) = {}
  BY <1>2, <1>3, AskedPosted DEF SendInv
<1>7. Parts(d) = {}
  BY <1>6 DEF Parts
<1>8. ~ Loading(d) /\ convStore[d] = Nothing /\ (deletion # Nothing => deletion.id # d)
  BY <1>2, <1>3 DEF Newness, Loading, SendInv
<1>9. /\ Stream(t, d, << >>) /\ conversations' \subseteq conversations \cup {d}
      /\ Reads(<< >>, Parts(d))
      /\ \A e \in Parts(d) : Before(e, Question(t))
  BY <1>1, <1>3, <1>7, ReadsNothing
<1>10. \A u \in Turn : u # t => sending[u] \notin {"creating", "waiting"} /\ sv[u] \notin {"posted", "answering"}
  BY <1>4, <1>5
<1> QED BY <1>1, <1>2, <1>4, <1>8, <1>9, <1>10, ToldStream

LEMMA ToldStep ==
  ASSUME TypeInv, SendInv, OrderInv, OwnInv, ShownInv, [Next]_vars, ~ loose'
  PROVE  CopiesTold' /\ TurnsTold'
<1>1. ASSUME Reload PROVE CopiesTold' /\ TurnsTold'
  BY <1>1, ToldReload
<1> SUFFICES ASSUME ~ Reload PROVE CopiesTold' /\ TurnsTold'
  BY <1>1
<1>2. /\ ~ loose /\ Whole /\ Newness /\ CopiesTold /\ TurnsTold
      /\ PageOwn
  BY LooseStep DEF ShownInv, OwnInv
<1>3. CASE UNCHANGED vars
  <2>1. /\ UNCHANGED <<conversations, table, sv, convOf, question, answer, crossed>>
        /\ UNCHANGED <<sending, got, conversationId, messages, convStore, fetches, deletion>>
    BY <1>3 DEF vars, serverVars, page
  <2>2. \A c : /\ Parts(c)' = Parts(c) /\ (InTurn(c)' <=> InTurn(c))
               /\ (Loading(c)' <=> Loading(c)) /\ StoredTurns(c)' = StoredTurns(c)
    BY <2>1, NothingGoesOn DEF Loading
  <2> QED BY <1>2, <2>1, <2>2, CopiesStay, TurnsStay
<1>4. CASE Next
  <2>1. NewChat \/ (\E c \in Conversation : Open(c)) => CopiesTold' /\ TurnsTold'
    BY <1>2, ToldSwitch
  <2>2. DeleteServed \/ Deleted \/ DeleteRejected => CopiesTold' /\ TurnsTold'
    BY <1>2, ToldDeleteServed, ToldDeleted, ToldDeleteRejected
  <2>3. \A c \in Conversation : Delete(c) => CopiesTold' /\ TurnsTold'
    BY <1>2, ToldDelete
  <2>4. \A f \in Fetch : FetchAnswered(f) \/ FetchArrives(f) => CopiesTold' /\ TurnsTold'
    BY <1>2, ToldFetchAnswered, ToldFetchArrives
  <2>5. \A t \in Turn : Send(t) \/ Created(t) \/ NotCreated(t) => CopiesTold' /\ TurnsTold'
    BY <1>2, ToldSend, ToldCreated, ToldNotCreated
  <2>6. \A t \in Turn : Token(t) => CopiesTold' /\ TurnsTold'
    <3>1. \A t \in Turn : Token(t) => messages # << >>
      BY DEF Token
    <3> QED BY <1>2, <3>1, ToldToken
  <2>7. \A t \in Turn : StreamEnds(t) \/ Error(t) \/ Stop(t) => CopiesTold' /\ TurnsTold'
    BY <1>2, ToldEnd
  <2>8. \A t \in Turn : Server(t) => CopiesTold' /\ TurnsTold'
    BY <1>2, ToldServer
  <2> QED BY <1>4, <2>1, <2>2, <2>3, <2>4, <2>5, <2>6, <2>7, <2>8 DEF Next, Reply
<1> QED BY <1>3, <1>4

LEMMA ShownStep ==
  TypeInv /\ SendInv /\ OrderInv /\ OwnInv /\ ShownInv /\ [Next]_vars => ShownInv'
<1> SUFFICES ASSUME TypeInv, SendInv, OrderInv, OwnInv, ShownInv, [Next]_vars PROVE ShownInv'
  OBVIOUS
<1>1. Whole' /\ Newness'
  BY WholeStep, NewnessStep DEF ShownInv
<1>2. mixed' => loose'
  BY LooseStep DEF ShownInv
<1>3. ~ loose' => CopiesTold' /\ TurnsTold'
  BY ToldStep
<1> QED BY <1>1, <1>2, <1>3 DEF ShownInv

\* What the page shows when nothing is under way is what the gateway has stored:
\* however an answer came, token by token, and whatever stops, failures, late
\* histories and deletions came in between, the question and the whole answer of
\* every turn, once, in order, as a page loaded anew would show them -- unless
\* the page was told less, or more, than is stored, in one of the ways that
\* loose names (a stop before the whole answer had come is one), two turns
\* overlapped there, or an earlier text was stored again.
THEOREM ShownStored == Spec => []ShownIsStored
<1>1. Init => OrderInv /\ ShownInv
  BY OrderInit, ShownInit
<1>2. TypeInv /\ SendInv /\ OrderInv /\ OwnInv /\ ShownInv /\ [Next]_vars => OrderInv' /\ ShownInv'
  BY OrderStep, ShownStep
<1>3. TypeInv /\ SendInv /\ OrderInv /\ ShownInv => ShownIsStored
  BY ShownInvImplies
<1> QED BY <1>1, <1>2, <1>3, AlwaysSend, AlwaysOwn, PTL DEF Spec

================================================================================
