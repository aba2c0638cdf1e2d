---------------------------- MODULE MCSSEUnredactor -----------------------------
(***************************************************************************)
(* Small instances of SSEUnredactor for TLC.  Two types share their first  *)
(* character, as PERSON and PHONE do.                                      *)
(***************************************************************************)
EXTENDS SSEUnredactor, TLC

Types == {<<"P", "E">>, <<"P", "H">>}
PE1 == <<"[", "[", "P", "E", "_", "1", "]", "]">>

\* One known placeholder; its value begins like a placeholder.
KnownPE1 == PE1 :> <<"[", "[", "P">>

\* The parts a placeholder may be cut into, a bracket before a placeholder,
\* characters that complete nothing, a placeholder in one piece, and one that
\* is unknown.
Fragments ==
  {<<"[">>, <<"P", "E">>, <<"[", "[", "P", "E">>, <<"_", "1", "]">>, <<"]">>, PE1,
   <<"]", "[", "[", "P", "H", "_", "1", "]", "]">>}
================================================================================
