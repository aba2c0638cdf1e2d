------------------------------ MODULE MCTenantKeys ------------------------------
(***************************************************************************)
(* Small instances of TenantKeys for TLC.                                  *)
(***************************************************************************)
EXTENDS TenantKeys, TLC

CONSTANTS a, b, c, q, g, h

\* The writers are interchangeable, and so are the gateway processes.
Symmetric == Permutations(Persist) \cup Permutations(Gateway)
================================================================================
