------------------------------- MODULE MCChatPage -------------------------------
(***************************************************************************)
(* Small instances of ChatPage for TLC.                                    *)
(***************************************************************************)
EXTENDS ChatPage, TLC

CONSTANT f1

\* Of the two answers the first has no text, the second up to two tokens.
NoneThenTwo == <<0, 2>>

\* Once the deletion has begun, an answer has one token at most: both
\* together are too many states.
TokensOrDeletion == deletable = Deletable \/ \A t \in Turn : answer[t] <= 1
================================================================================
