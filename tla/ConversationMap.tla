---------------------------- MODULE ConversationMap ----------------------------
(***************************************************************************)
(* What the token vault promises, without its transactions, locks, cache   *)
(* or requests: every conversation has a map from placeholders to values   *)
(* that only grows, one value per placeholder, until the conversation is   *)
(* erased together with its whole map.  TokenVault is shown to implement   *)
(* this specification.                                                     *)
(***************************************************************************)

CONSTANTS Conversation,   \* conversation identifiers
          Row             \* the rows of token_map: [ph |-> ..., val |-> ...]

VARIABLES conversations,  \* the conversations that exist
          tokenMap        \* conversation -> its rows

mapVars == <<conversations, tokenMap>>

\* A set of rows in which every placeholder stands for one value.
Functional(rows) == \A e, f \in rows : e.ph = f.ph => e = f

MapInit ==
  /\ conversations = {}
  /\ tokenMap = [c \in Conversation |-> {}]

\* A conversation comes into being with an empty map.
Create(c) ==
  /\ c \notin conversations
  /\ conversations' = conversations \cup {c}
  /\ UNCHANGED tokenMap

\* One request adds all its new entries at once; what was there stays.
Record(c, new) ==
  /\ c \in conversations
  /\ Functional(tokenMap[c] \cup new)
  /\ tokenMap' = [tokenMap EXCEPT ![c] = @ \cup new]
  /\ UNCHANGED conversations

\* Article 17: the conversation goes, and its whole map with it.
Erase(c) ==
  /\ c \in conversations
  /\ conversations' = conversations \ {c}
  /\ tokenMap' = [tokenMap EXCEPT ![c] = {}]

MapNext ==
  \E c \in Conversation :
    \/ Create(c)
    \/ \E new \in SUBSET Row : Record(c, new)
    \/ Erase(c)

MapSpec == MapInit /\ [][MapNext]_mapVars
================================================================================
