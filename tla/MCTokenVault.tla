------------------------------ MODULE MCTokenVault ------------------------------
(***************************************************************************)
(* Small instances of TokenVault for TLC.                                  *)
(***************************************************************************)
EXTENDS TokenVault, TLC

CONSTANTS a, b, x, y, g, ann, bob, acme

\* Two people and, where types matter, a company.
PeopleType == [v \in {ann, bob} |-> "PERSON"]
MixedType == [v \in {ann, acme} |-> IF v = ann THEN "PERSON" ELSE "ORG"]

\* One mention each, or both in either order.
PeoplePrompts == {<<ann>>, <<bob>>}
PeopleBothPrompts == {<< >>, <<ann>>, <<bob, ann>>}
MixedPrompts == {<<ann, acme>>, <<acme, ann>>}
================================================================================
