-------------------------------- MODULE ChatPage --------------------------------
(***************************************************************************)
(* The chat page of one user in one browser tab, over ChatHistory.         *)
(*                                                                         *)
(* The page shows one conversation, keeps the messages of those it has     *)
(* left (convStore) and loads the history of those it has not seen.  Its   *)
(* handlers are asynchronous functions: what they saw when they were      *)
(* called is what they use after an await, whatever the user has done      *)
(* meanwhile; only activeRef is read anew.  Tokens of an answer go to the  *)
(* last message shown, whichever conversation that is.  One action is one  *)
(* event with what its handler does before the next await.  A message that *)
(* the user sends may have no text: a picture only.                        *)
(***************************************************************************)
EXTENDS ChatHistory

CONSTANTS Fetch,      \* bound: loads of a history that may be under way at once
          Deletable,  \* bound: the conversations the user deletes, each once
          Pictures,   \* bound: the turns that may be sent without a text
          Nothing     \* no entry, no load, no deletion

VARIABLES
  conversationId,  \* the conversation shown, or NoConversation
  messages,        \* the messages shown: [role, of], of is the text
  convStore,       \* conversation -> messages kept, or Nothing
  activeRef,
  busy,
  sending,         \* turn -> where its send() stands
  got,             \* turn -> the tokens of its answer that have come
  fetches,         \* load -> [id, loaded], loaded is Nothing until answered
  deletion,        \* [id, seen, gone] of the delete handler under way
  deletable,       \* those the user may yet delete
  mixed,           \* history: another conversation was shown, or another send begun,
                   \* during a send
  loose            \* history: that, or the page was told less, or more, than is stored

page == <<conversationId, messages, convStore, activeRef, busy, sending, got,
          fetches, deletion, deletable, mixed, loose>>
vars == <<serverVars, page>>

User(text) == [role |-> "user", of |-> text]
Blank      == [role |-> "assistant", of |-> << >>]

\* lastUserRedacted: the newest text of the user among the messages, if any.
NewestText(posted) ==
  LET texts == {i \in DOMAIN posted : posted[i].role = "user" /\ posted[i].of # << >>}
  IN  IF texts = {} THEN << >> ELSE posted[Max(texts)].of

\* The page is loaded anew: all it knew is gone, and what the gateway has yet to
\* store it may miss.
Reload ==
  /\ conversationId' = NoConversation
  /\ messages' = << >>
  /\ convStore' = [c \in Conversation |-> Nothing]
  /\ activeRef' = NoConversation
  /\ busy' = FALSE
  /\ sending' = [t \in Turn |-> IF sending[t] = "idle" THEN "idle" ELSE "done"]
  /\ got' = [t \in Turn |-> 0]
  /\ fetches' = [f \in Fetch |-> Nothing]
  /\ deletion' = Nothing
  /\ deletable' = deletable
  /\ mixed' = FALSE
  /\ loose' = \E t \in Turn : sv[t] \in UnderWay
  /\ UNCHANGED serverVars

Init ==
  /\ ServerInit
  /\ conversationId = NoConversation
  /\ messages = << >>
  /\ convStore = [c \in Conversation |-> Nothing]
  /\ activeRef = NoConversation
  /\ busy = FALSE
  /\ sending = [t \in Turn |-> "idle"]
  /\ got = [t \in Turn |-> 0]
  /\ fetches = [f \in Fetch |-> Nothing]
  /\ deletion = Nothing
  /\ deletable = Deletable
  /\ mixed = FALSE
  /\ loose = FALSE

Sending    == \E t \in Turn : sending[t] \in {"creating", "waiting"}
InTurn(c)  == \E t \in Turn : convOf[t] = c /\ (sv[t] \in UnderWay \/ sending[t] = "waiting")
Loading(c) == \E f \in Fetch : fetches[f] # Nothing /\ fetches[f].id = c

Mixed == mixed \/ Sending

\* Another conversation is shown, or another send begun.
Switched == mixed' = Mixed /\ loose' = (loose \/ Mixed)
--------------------------------------------------------------------------------
(* Changing the conversation. *)

\* Fault: the messages of the conversation left are not kept.
KeepNothing(id, shown) == convStore' = convStore

\* The messages of the conversation that is left.
Keep(id, shown) ==
  convStore' = IF id = NoConversation THEN convStore ELSE [convStore EXCEPT ![id] = shown]

NewChat ==
  /\ Keep(conversationId, messages)
  /\ activeRef' = NoConversation
  /\ conversationId' = NoConversation
  /\ messages' = << >>
  /\ Switched
  /\ UNCHANGED <<serverVars, busy, sending, got, fetches, deletion, deletable>>

\* The sidebar lists the conversations there are; an older list, or one that
\* was not loaded anew, also those that are gone.
Listed == 1..created

Open(id) ==
  /\ id \in Listed \ {conversationId}
  /\ Keep(conversationId, messages)
  /\ activeRef' = id
  /\ conversationId' = id
  /\ IF convStore[id] # Nothing
       THEN messages' = convStore[id] /\ UNCHANGED fetches
       ELSE /\ messages' = << >>
            /\ \E f \in Fetch :
                 /\ fetches[f] = Nothing
                 /\ fetches' = [fetches EXCEPT ![f] = [id |-> id, loaded |-> Nothing]]
  /\ Switched
  /\ UNCHANGED <<serverVars, busy, sending, got, deletion, deletable>>

Shown(history) == [i \in DOMAIN history |-> [role |-> history[i].role, of |-> history[i].of]]

\* GET messages: the gateway reads the history, or fails (an empty one then).
FetchAnswered(f) ==
  /\ fetches[f] # Nothing
  /\ fetches[f].loaded = Nothing
  /\ \/ /\ \E h \in Histories(fetches[f].id) :
             fetches' = [fetches EXCEPT ![f].loaded = Shown(h)]
        /\ loose' = (loose \/ InTurn(fetches[f].id))
     \/ /\ fetches' = [fetches EXCEPT ![f].loaded = << >>]
        /\ loose' = TRUE
  /\ UNCHANGED <<serverVars, conversationId, messages, convStore, activeRef, busy,
                 sending, got, deletion, deletable, mixed>>

\* Fault: a late history is shown whatever is open by now.
ShowLoaded(id, loaded) == messages' = loaded

\* "ignore if user switched away"
ShowIfActive(id, loaded) == messages' = IF activeRef = id THEN loaded ELSE messages

FetchArrives(f) ==
  /\ fetches[f] # Nothing
  /\ fetches[f].loaded # Nothing
  /\ convStore' = [convStore EXCEPT ![fetches[f].id] = fetches[f].loaded]
  /\ ShowIfActive(fetches[f].id, fetches[f].loaded)
  /\ fetches' = [fetches EXCEPT ![f] = Nothing]
  /\ UNCHANGED <<serverVars, conversationId, activeRef, busy, sending, got,
                 deletion, deletable, mixed, loose>>
--------------------------------------------------------------------------------
(* send and stop *)

\* What is typed; a picture may be sent without.
Typed(t) == {<<t>>} \cup IF t \in Pictures THEN {<< >>} ELSE {}

\* The rest of send() once it has a conversation, with the messages it saw.
Stream(t, c, seen) ==
  /\ activeRef' = c
  /\ conversationId' = c
  /\ busy' = TRUE
  /\ sending' = [sending EXCEPT ![t] = "waiting"]
  /\ \E text \in Typed(t) :
       /\ messages' = seen \o <<User(text), Blank>>
       /\ Post(t, c, NewestText(Append(seen, User(text))))

\* The turns are numbered as they are sent.
IsNew(t) == sending[t] = "idle" /\ \A u \in Turn : u < t => sending[u] # "idle"

Send(t) ==
  /\ IsNew(t)
  /\ ~ busy
  /\ mixed' = Mixed
  /\ IF conversationId = NoConversation
       THEN /\ sending' = [sending EXCEPT ![t] = "creating"]
            /\ loose' = (loose \/ Mixed)
            /\ UNCHANGED <<serverVars, conversationId, messages, activeRef, busy>>
       ELSE /\ Stream(t, conversationId, messages)
            /\ loose' = (loose \/ Mixed \/ Loading(conversationId) \/ deletion # Nothing)
            /\ UNCHANGED stored
  /\ UNCHANGED <<convStore, got, fetches, deletion, deletable>>

\* createConversation has answered; send() goes on with the messages it saw
\* when it was called, which in a new chat are none.
Created(t) ==
  /\ sending[t] = "creating"
  /\ CreateConversation
  /\ Stream(t, created + 1, << >>)
  /\ UNCHANGED <<table, next, convStore, got, fetches, deletion, deletable, mixed, loose>>

NotCreated(t) ==
  /\ sending[t] = "creating"
  /\ sending' = [sending EXCEPT ![t] = "done"]
  /\ UNCHANGED <<serverVars, conversationId, messages, convStore, activeRef, busy, got,
                 fetches, deletion, deletable, mixed, loose>>

\* onToken: the next token goes to the last message shown; without one the
\* state update throws, and the page has to be loaded anew.
Token(t) ==
  /\ sending[t] = "waiting"
  /\ got[t] < answer[t]
  /\ IF messages = << >> THEN Reload
     ELSE /\ messages' = [messages EXCEPT ![Len(messages)].of = Append(@, t)]
          /\ got' = [got EXCEPT ![t] = @ + 1]
          /\ UNCHANGED <<serverVars, conversationId, convStore, activeRef, busy, sending,
                         fetches, deletion, deletable, mixed, loose>>

\* The gateway has ended its reply.
Over(t) == sv[t] \in {"answered", "read", "stored", "unstored"}

\* The finally clause; told is false if the page shows what may not be stored.
EndSend(t, told) ==
  /\ sending' = [sending EXCEPT ![t] = "done"]
  /\ got' = [got EXCEPT ![t] = 0]
  /\ busy' = FALSE
  /\ loose' = (loose \/ ~ told)
  /\ UNCHANGED <<serverVars, conversationId, messages, convStore, activeRef,
                 fetches, deletion, deletable, mixed>>

\* The stream is over, or the provider's error has come, which has no text.
StreamEnds(t) ==
  /\ sending[t] = "waiting"
  /\ Over(t)
  /\ got[t] = answer[t]
  /\ EndSend(t, TRUE)

\* Fault: an error is shown and nothing else.
ErrorOnly(t) ==
  /\ sending[t] = "waiting"
  /\ sv[t] = "failed"
  /\ sending' = [sending EXCEPT ![t] = "done"]
  /\ loose' = TRUE
  /\ UNCHANGED <<serverVars, conversationId, messages, convStore, activeRef, busy, got,
                 fetches, deletion, deletable, mixed>>

\* The gateway's error is shown; the message stays on the page.
Error(t) ==
  /\ sending[t] = "waiting"
  /\ sv[t] = "failed"
  /\ EndSend(t, FALSE)

\* stop(), or the connection breaks: the gateway goes on with the turn, and
\* stores the whole answer.
Stop(t) ==
  /\ sending[t] = "waiting"
  /\ EndSend(t, Over(t) /\ got[t] = answer[t])
--------------------------------------------------------------------------------
(* Deleting a conversation. *)

\* The handler sees the conversation and messages shown when it is called.
Delete(c) ==
  /\ c \in Listed \cap deletable
  /\ deletion = Nothing
  /\ deletable' = deletable \ {c}
  /\ deletion' = [id |-> c, gone |-> FALSE,
                   seen |-> IF c = conversationId THEN messages ELSE Nothing]
  /\ loose' = (loose \/ Loading(c) \/ InTurn(c))
  /\ UNCHANGED <<serverVars, conversationId, messages, convStore, activeRef, busy, sending, got,
                 fetches, mixed>>

\* The gateway deletes it, or answers with an error that nobody looks at.
DeleteServed ==
  /\ deletion # Nothing
  /\ ~ deletion.gone
  /\ \/ DeleteConversation(deletion.id)
     \/ UNCHANGED serverVars
  /\ deletion' = [deletion EXCEPT !.gone = TRUE]
  /\ UNCHANGED <<conversationId, messages, convStore, activeRef, busy, sending, got,
                 fetches, deletable, mixed, loose>>

\* if (c.id === conversationId) newChat(), both as the handler saw them.
Deleted ==
  /\ deletion # Nothing
  /\ deletion.gone
  /\ IF deletion.seen # Nothing
       THEN /\ Keep(deletion.id, deletion.seen)
            /\ activeRef' = NoConversation
            /\ conversationId' = NoConversation
            /\ messages' = << >>
            /\ Switched
       ELSE UNCHANGED <<convStore, activeRef, conversationId, messages, mixed, loose>>
  /\ deletion' = Nothing
  /\ UNCHANGED <<serverVars, busy, sending, got, fetches, deletable>>

\* deleteConversation rejects: the handler ends there, and whether the gateway
\* has deleted the conversation is not known.
DeleteRejected ==
  /\ deletion # Nothing
  /\ deletion' = Nothing
  /\ UNCHANGED <<serverVars, conversationId, messages, convStore, activeRef, busy, sending, got,
                 fetches, deletable, mixed, loose>>
--------------------------------------------------------------------------------
Server(t) ==
  /\ ServerStep(t)
  /\ loose' = (loose \/ sv'[t] = "unstored" \/ conversations' # conversations)
  /\ UNCHANGED <<conversationId, messages, convStore, activeRef, busy, sending, got,
                 fetches, deletion, deletable, mixed>>

Reply(t) == Created(t) \/ NotCreated(t) \/ Token(t) \/ StreamEnds(t) \/ Error(t)

Next ==
  \/ NewChat \/ Reload \/ DeleteServed \/ Deleted \/ DeleteRejected
  \/ \E c \in Conversation : Open(c) \/ Delete(c)
  \/ \E f \in Fetch : FetchAnswered(f) \/ FetchArrives(f)
  \/ \E t \in Turn : Send(t) \/ Reply(t) \/ Stop(t) \/ Server(t)

Spec == Init /\ [][Next]_vars
--------------------------------------------------------------------------------
(* Properties. *)

PageMessage == [role : {"user", "assistant"}, of : Text]

\* A load under way is not taken for none.
ASSUME NothingApart == Nothing \notin [id : Conversation, loaded : Seq(PageMessage) \cup {Nothing}]

\* The state of page and gateway is of its kind, and no message is stored for a
\* conversation that is gone.
TypeOK ==
  /\ ServerTypeOK
  /\ {conversationId, activeRef} \subseteq Conversation \cup {NoConversation}
  /\ messages \in Seq(PageMessage)
  /\ \A c \in Conversation : convStore[c] = Nothing \/ convStore[c] \in Seq(PageMessage)
  /\ deletable \subseteq Deletable
  /\ sending \in [Turn -> {"idle", "creating", "waiting", "done"}]
  /\ \A t \in Turn : sending[t] = "waiting" => sv[t] # "none"
  /\ \A t \in Turn : got[t] \in 0..answer[t]

\* The conversations to which a message without a text was sent after one with:
\* the gateway stores the earlier text once more.
Repeated == {convOf[t] : t \in {u \in Turn : question[u] \notin {<<u>>, << >>}}}

From(c, shown) ==
  \/ c \in Repeated
  \/ \A i \in DOMAIN shown : \A n \in DOMAIN shown[i].of : convOf[shown[i].of[n]] = c

\* The page never shows, keeps or sends along a message of one conversation
\* under another, whatever was opened while histories were on their way --
\* unless the user turned to another conversation during a send, or an earlier
\* text, which may be such a message, was stored again.
OwnMessages ==
  ~ mixed =>
    /\ From(conversationId, messages)
    /\ conversationId = activeRef
    /\ \A c \in Conversation : convStore[c] # Nothing => From(c, convStore[c])

Quiet ==
  /\ ~ Sending
  /\ \A t \in Turn : sv[t] \notin UnderWay
  /\ ~ Loading(conversationId)
  /\ deletion = Nothing

\* A page's message has the text of a row of table messages.
IsRow(message, m) == message = [role |-> m.role, of |-> m.of]

\* The messages shown that have a text are the rows, each once, in their order.
ShowsRows(shown, rows) ==
  LET texts == {i \in DOMAIN shown : shown[i].of # << >>}
  IN  /\ \A i \in texts : \E m \in rows : IsRow(shown[i], m)
      /\ \A m \in rows : \E i \in texts : IsRow(shown[i], m)
      /\ \A i, j \in texts : \A m, n \in rows :
           i < j /\ IsRow(shown[i], m) /\ IsRow(shown[j], n) => m.seq < n.seq

\* When nothing is under way, the conversation shown reads as a page loaded
\* anew would show it: question and answer of every turn, once, in order --
\* unless the page was told less or more than is stored, turns overlapped
\* there, or an earlier text was stored again for a message without one.
ShownIsStored ==
  Quiet /\ conversationId \in conversations \ (crossed \cup Repeated) /\ ~ loose =>
    ShowsRows(messages, table[conversationId])

\* The input is locked while an answer is awaited, and only then: however the
\* send ended, in whichever conversation, the user can write again.
BusyWhileSending ==
  LET awaited == \E t \in Turn : sending[t] = "waiting"
  IN  (busy => awaited) /\ (~ mixed => (awaited => busy))
================================================================================
