----------------------------- MODULE MCPolicyStore -----------------------------
(***************************************************************************)
(* Small instances of PolicyStore for TLC.                                 *)
(***************************************************************************)
EXTENDS PolicyStore, TLC

CONSTANTS turn, dpo, cto
================================================================================
