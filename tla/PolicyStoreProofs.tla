---------------------------- MODULE PolicyStoreProofs ----------------------------
(***************************************************************************)
(* Proofs about PolicyStore, for any number of readers and editors, every  *)
(* set of rules and every bound on the version.                            *)
(***************************************************************************)
EXTENDS PolicyStore, TLAPS

LEMMA DefaultIsPolicy == Default \in Policy
  BY VersionsExist DEF Default, Policy

\* The policy in force is one, whether there is a row or not.
LEMMA InForceIsPolicy == ASSUME row \in Policy \cup {NoPolicy} PROVE InForce \in Policy
  BY DefaultIsPolicy DEF InForce

--------------------------------------------------------------------------------
(* Type correctness. *)

LEMMA TypeInit == Init => TypeOK
  BY DefaultIsPolicy DEF Init, TypeOK, Loading, Saving, Proc

\* What an edit makes of a policy is one.
LEMMA EditTyped ==
  ASSUME NEW d \in Policy, NEW r \in Rule, d.version < MaxVersion
  PROVE  [version |-> d.version + 1, rules |-> Toggled(d.rules, r)] \in Policy
  BY VersionsExist DEF Policy, Toggled

LEMMA CommitTypes == ASSUME TypeOK, NEW e \in Editor, Commit(e) PROVE
    /\ row' \in Policy
    /\ committed' \subseteq Policy
    /\ wanted' \subseteq Rule
    /\ draft[e] \in Policy
    /\ draft' \in [Editor -> Policy \cup {NoPolicy}]
<1>1. draft[e] \in Policy /\ doc[e] \in Policy
  BY DEF TypeOK, Commit, Saving, Proc
<1>2. draft[e].rules \subseteq Rule /\ doc[e].rules \subseteq Rule
  BY <1>1 DEF Policy
<1>3. wanted' \subseteq Rule
  BY <1>2 DEF Commit, Applied, TypeOK
<1> QED BY <1>1, <1>3 DEF Commit, TypeOK

LEMMA TypeStep == TypeOK /\ [Next]_vars => TypeOK'
<1> SUFFICES ASSUME TypeOK, [Next]_vars PROVE TypeOK'
  OBVIOUS
<1> USE ReadersApart, NoPolicyApart DEF TypeOK, Loading, Saving, Proc, Goto
<1>1. ASSUME NEW p \in Proc, Open(p) PROVE TypeOK'
  BY <1>1 DEF Open
<1>2. ASSUME NEW p \in Proc, Answer(p) PROVE TypeOK'
  <2>1. CASE GetHit(p)
    BY <2>1 DEF GetHit, Loaded, ghosts
  <2>2. CASE GetMiss(p)
    BY <2>2 DEF GetMiss, ghosts
  <2>3. CASE SelectRow(p)
    BY <2>3, InForceIsPolicy DEF SelectRow, ghosts
  <2>4. CASE SetCache(p)
    BY <2>4 DEF SetCache, Loaded, ghosts
  <2> QED BY <1>2, <2>1, <2>2, <2>3, <2>4 DEF Answer
<1>3. ASSUME NEW p \in Proc, Fail(p) PROVE TypeOK'
  <2>1. draft' \in [Editor -> Policy \cup {NoPolicy}]
    BY <1>3 DEF Fail
  <2>2. \A e \in Editor : e # p => draft'[e] = draft[e]
    BY <1>3 DEF Fail
  <2>3. pc[p] \in {"upsert", "evict", "commit"} => p \in Editor
    OBVIOUS
  <2> QED BY <1>3, <2>1, <2>2, <2>3 DEF Fail, ghosts
<1>4. ASSUME NEW e \in Editor, Edit(e) PROVE TypeOK'
  <2>1. PICK r \in Rule :
          draft' = [draft EXCEPT ![e] = [version |-> doc[e].version + 1,
                                         rules |-> Toggled(doc[e].rules, r)]]
    BY <1>4 DEF Edit
  <2>2. doc[e] \in Policy /\ doc[e].version < MaxVersion
    BY <1>4 DEF Edit
  <2>3. draft'[e] \in Policy /\ draft' \in [Editor -> Policy \cup {NoPolicy}]
    BY <2>1, <2>2, EditTyped
  <2>4. \A f \in Editor : f # e => draft'[f] = draft[f]
    BY <2>1
  <2> QED BY <1>4, <2>2, <2>3, <2>4 DEF Edit
<1>5. ASSUME NEW e \in Editor, Upsert(e) \/ Evict(e) PROVE TypeOK'
  BY <1>5 DEF Upsert, Evict, ghosts
<1>6. ASSUME NEW e \in Editor, Save(e) \/ SaveUnanswered(e) PROVE TypeOK'
  <2>1. Commit(e) /\ doc' \in {doc, [doc EXCEPT ![e] = draft[e]]}
    BY <1>6 DEF Save, SaveUnanswered
  <2>2. /\ row' \in Policy /\ committed' \subseteq Policy /\ wanted' \subseteq Rule
        /\ draft[e] \in Policy /\ draft' \in [Editor -> Policy \cup {NoPolicy}]
    BY <2>1, CommitTypes
  <2>3. /\ pc' = [pc EXCEPT ![e] = "page"]
        /\ UNCHANGED cache
        /\ \A f \in Editor : f # e => draft'[f] = draft[f]
        /\ pc[e] = "commit"
    BY <2>1 DEF Commit
  <2>4. doc[e] \in Policy
    BY <2>3
  <2> QED BY <2>1, <2>2, <2>3, <2>4
<1>7. ASSUME NEW e \in Editor, Close(e) PROVE TypeOK'
  BY <1>7 DEF Close, ghosts
<1>8. CASE Expire
  BY <1>8 DEF Expire, ghosts
<1>9. CASE UNCHANGED vars
  BY <1>9 DEF vars, ghosts
<1> QED
  BY <1>1, <1>2, <1>3, <1>4, <1>5, <1>6, <1>7, <1>8, <1>9 DEF Next, SaveStep

\* Row, copy and documents are policies in every reachable state, and a save
\* has one to save (loadPolicy, savePolicy and the page around them).
THEOREM TypeCorrect == Spec => []TypeOK
<1> QED BY TypeInit, TypeStep, PTL DEF Spec

--------------------------------------------------------------------------------
(* Only policies that were committed. *)

\* With the cached copies and documents, what is in force was committed too.
CommittedInv ==
  /\ OnlyCommitted
  /\ Default \in committed
  /\ row \in committed \cup {NoPolicy}

LEMMA CommittedInit == Init => CommittedInv
  BY DEF Init, CommittedInv, OnlyCommitted

LEMMA CommittedStep == TypeOK /\ CommittedInv /\ [Next]_vars => CommittedInv'
<1> SUFFICES ASSUME TypeOK, CommittedInv, [Next]_vars PROVE CommittedInv'
  OBVIOUS
<1> USE DEF CommittedInv, OnlyCommitted, Proc
<1>1. ASSUME NEW p \in Proc, Open(p) PROVE CommittedInv'
  BY <1>1 DEF Open, TypeOK
<1>2. ASSUME NEW p \in Proc, Answer(p) PROVE CommittedInv'
  <2>1. CASE GetHit(p)
    BY <2>1 DEF GetHit, ghosts, TypeOK
  <2>2. CASE GetMiss(p)
    BY <2>2 DEF GetMiss, ghosts
  <2>3. CASE SelectRow(p)
    BY <2>3 DEF SelectRow, InForce, ghosts, TypeOK
  <2>4. CASE SetCache(p)
    BY <2>4 DEF SetCache, ghosts
  <2> QED BY <1>2, <2>1, <2>2, <2>3, <2>4 DEF Answer
<1>3. ASSUME NEW p \in Proc, Fail(p) PROVE CommittedInv'
  BY <1>3 DEF Fail, ghosts, TypeOK
<1>4. ASSUME NEW e \in Editor, Edit(e) \/ Upsert(e) \/ Evict(e) PROVE CommittedInv'
  BY <1>4 DEF Edit, Upsert, Evict, ghosts
<1>5. ASSUME NEW e \in Editor, Save(e) \/ SaveUnanswered(e) PROVE CommittedInv'
  <2>1. /\ row' = draft[e]
        /\ committed' = committed \cup {draft[e]}
        /\ cache' = cache
        /\ doc' \in {doc, [doc EXCEPT ![e] = draft[e]]}
    BY <1>5 DEF Save, SaveUnanswered, Commit
  <2> QED BY <2>1 DEF TypeOK
<1>6. ASSUME NEW e \in Editor, Close(e) PROVE CommittedInv'
  BY <1>6 DEF Close, ghosts, TypeOK
<1>7. CASE Expire
  BY <1>7 DEF Expire, ghosts
<1>8. CASE UNCHANGED vars
  BY <1>8 DEF vars, ghosts
<1> QED
  BY <1>1, <1>2, <1>3, <1>4, <1>5, <1>6, <1>7, <1>8 DEF Next, SaveStep

\* Nobody caches, shows or applies a policy that was never in force: a save
\* that is rolled back leaves no trace (savePolicy evicts, loadPolicy fills).
THEOREM Committed == Spec => []OnlyCommitted
<1>1. Spec => []CommittedInv
  BY CommittedInit, CommittedStep, TypeCorrect, PTL DEF Spec
<1>2. CommittedInv => OnlyCommitted
  BY DEF CommittedInv
<1> QED BY <1>1, <1>2, PTL

--------------------------------------------------------------------------------
(* The cache is fresh between saves. *)

\* As long as no load met a save, a load about to fill the cache has what is in
\* force, the cache has it or nothing, and nothing while a save is about to
\* commit.
FreshInv ==
  ~ overlapped =>
    /\ ~ (Is(Loading) /\ Is(Saving))
    /\ cache \in {NoPolicy, InForce}
    /\ \A p \in Proc : pc[p] = "set" => doc[p] = InForce
    /\ \A e \in Editor : pc[e] = "commit" => cache = NoPolicy

LEMMA FreshInit == Init => FreshInv
  BY DEF Init, FreshInv, Is, Loading, Saving

\* Loads and saves keep apart because each one's beginning looks for the other.
LEMMA ApartStep ==
  ASSUME TypeOK, FreshInv, [Next]_vars, ~ overlapped'
  PROVE  ~ (Is(Loading) /\ Is(Saving))' /\ ~ overlapped
<1> USE ReadersApart DEF Is, Loading, Saving, Proc, Goto, TypeOK
<1>1. ASSUME NEW p \in Proc, Open(p) PROVE ~ (Is(Loading) /\ Is(Saving))' /\ ~ overlapped
  BY <1>1 DEF Open, FreshInv
<1>2. ASSUME NEW p \in Proc, Answer(p) PROVE ~ (Is(Loading) /\ Is(Saving))' /\ ~ overlapped
  BY <1>2 DEF Answer, GetHit, GetMiss, SelectRow, SetCache, Loaded, ghosts, FreshInv
<1>3. ASSUME NEW p \in Proc, Fail(p) PROVE ~ (Is(Loading) /\ Is(Saving))' /\ ~ overlapped
  BY <1>3 DEF Fail, ghosts, FreshInv
<1>4. ASSUME NEW e \in Editor, Edit(e) PROVE ~ (Is(Loading) /\ Is(Saving))' /\ ~ overlapped
  BY <1>4 DEF Edit, FreshInv
<1>5. ASSUME NEW e \in Editor, SaveStep(e) PROVE ~ (Is(Loading) /\ Is(Saving))' /\ ~ overlapped
  BY <1>5 DEF SaveStep, Upsert, Evict, Save, SaveUnanswered, Commit, ghosts, FreshInv
<1>6. ASSUME NEW e \in Editor, Close(e) PROVE ~ (Is(Loading) /\ Is(Saving))' /\ ~ overlapped
  BY <1>6 DEF Close, ghosts, FreshInv
<1>7. CASE Expire \/ UNCHANGED vars
  BY <1>7 DEF Expire, vars, ghosts, FreshInv
<1> QED BY <1>1, <1>2, <1>3, <1>4, <1>5, <1>6, <1>7 DEF Next

LEMMA FreshStep == TypeOK /\ FreshInv /\ [Next]_vars => FreshInv'
<1> SUFFICES ASSUME TypeOK, FreshInv, [Next]_vars, ~ overlapped' PROVE FreshInv'
  BY DEF FreshInv
<1>1. ~ (Is(Loading) /\ Is(Saving))' /\ ~ overlapped
  BY ApartStep
<1> DEFINE Rest == /\ cache \in {NoPolicy, InForce}
                   /\ \A p \in Proc : pc[p] = "set" => doc[p] = InForce
                   /\ \A e \in Editor : pc[e] = "commit" => cache = NoPolicy
<1>2. Rest /\ ~ (Is(Loading) /\ Is(Saving))
  BY <1>1 DEF FreshInv
<1>3. SUFFICES Rest'
  BY <1>1 DEF FreshInv
<1> USE <1>2 DEF Proc, Goto, TypeOK
<1>4. ASSUME NEW p \in Proc, Open(p) PROVE Rest'
  BY <1>4 DEF Open, InForce
<1>5. ASSUME NEW p \in Proc, Answer(p) PROVE Rest'
  <2>1. CASE GetHit(p) \/ GetMiss(p)
    BY <2>1 DEF GetHit, GetMiss, Loaded, InForce
  <2>2. CASE SelectRow(p)
    BY <2>2 DEF SelectRow, InForce
  <2>3. CASE SetCache(p)
    <3>1. \A e \in Editor : pc[e] # "commit"
      BY <2>3 DEF SetCache, Is, Loading, Saving
    <3> QED BY <2>3, <3>1 DEF SetCache, Loaded, InForce
  <2> QED BY <1>5, <2>1, <2>2, <2>3 DEF Answer
<1>6. ASSUME NEW p \in Proc, Fail(p) PROVE Rest'
  BY <1>6 DEF Fail, InForce
<1>7. ASSUME NEW e \in Editor, Edit(e) \/ Upsert(e) \/ Close(e) PROVE Rest'
  BY <1>7 DEF Edit, Upsert, Close, InForce
<1>8. ASSUME NEW e \in Editor, Evict(e) PROVE Rest'
  BY <1>8, ~ overlapped' DEF Evict, InForce
<1>9. ASSUME NEW e \in Editor, Save(e) \/ SaveUnanswered(e) PROVE Rest'
  <2>1. Commit(e) /\ doc' \in {doc, [doc EXCEPT ![e] = draft[e]]}
    BY <1>9 DEF Save, SaveUnanswered
  <2>2. cache' = NoPolicy
    BY <2>1 DEF Commit
  <2>3. \A p \in Proc : pc'[p] # "set"
    BY <2>1 DEF Commit, Is, Loading, Saving
  <2> QED BY <2>2, <2>3
<1>10. CASE Expire \/ UNCHANGED vars
  BY <1>10 DEF Expire, vars, InForce
<1> QED
  BY <1>4, <1>5, <1>6, <1>7, <1>8, <1>9, <1>10 DEF Next, SaveStep

LEMMA FreshAlways == Spec => []FreshInv
<1> QED BY FreshInit, FreshStep, TypeCorrect, PTL DEF Spec

\* Between saves the cache has what is in force or nothing, as long as no load
\* and save overlapped and no eviction was lost (loadPolicy, savePolicy).
THEOREM Fresh == Spec => []FreshUnlessOverlapped
<1>1. FreshInv => FreshUnlessOverlapped
  BY DEF FreshInv, FreshUnlessOverlapped
<1> QED BY FreshAlways, <1>1, PTL

--------------------------------------------------------------------------------
(* No save undoes another's. *)

\* As long as pages kept out of one another's way at most one is open, and its
\* document has the rules in force, which are those that were wanted.
AloneInv ==
  ~ overlapped /\ ~ conflict =>
    /\ InForce.rules = wanted
    /\ \A e, f \in Editor : e # f => pc[e] = "idle" \/ pc[f] = "idle"
    /\ \A e \in Editor :
         pc[e] \in {"set", "page"} \cup Saving => doc[e].rules = InForce.rules

LEMMA AloneInit == Init => AloneInv
  BY NoPolicyApart, DefaultIsPolicy DEF Init, AloneInv, InForce, Default, Proc, Saving

\* An edit's rules, applied to those its document had, are the rules it saves.
LEMMA AppliedIsDraft ==
  ASSUME NEW e \in Editor, ~ overlapped, ~ conflict,
         doc[e] \in Policy, draft[e] \in Policy, doc[e].rules = wanted
  PROVE  Applied(e) = draft[e].rules
<1>1. doc[e].rules \subseteq Rule /\ draft[e].rules \subseteq Rule
  BY DEF Policy
<1> QED BY <1>1 DEF Applied

LEMMA AloneStep == TypeOK /\ FreshInv /\ AloneInv /\ [Next]_vars => AloneInv'
<1> SUFFICES ASSUME TypeOK, FreshInv, AloneInv, [Next]_vars, ~ overlapped', ~ conflict'
             PROVE  AloneInv'
  BY DEF AloneInv
<1>1. ~ overlapped
  BY ApartStep
<1>2. ~ conflict
  BY DEF Next, Open, Answer, GetHit, GetMiss, SelectRow, SetCache, Fail, Edit, SaveStep, Upsert,
         Evict, Save, SaveUnanswered, Close, Expire, ghosts, vars
<1> DEFINE Alone == \A e, f \in Editor : e # f => pc[e] = "idle" \/ pc[f] = "idle"
           Upheld == \A e \in Editor :
                       pc[e] \in {"set", "page"} \cup Saving => doc[e].rules = InForce.rules
<1>3. InForce.rules = wanted /\ Alone /\ Upheld
  BY <1>1, <1>2 DEF AloneInv
<1> SUFFICES (InForce.rules = wanted)' /\ Alone' /\ Upheld'
  BY DEF AloneInv
<1> USE <1>1, <1>2, <1>3 DEF Proc, Goto, TypeOK, Loading, Saving
<1>4. ASSUME NEW p \in Proc, Open(p) PROVE (InForce.rules = wanted)' /\ Alone' /\ Upheld'
  BY <1>4 DEF Open, InForce
<1>5. ASSUME NEW p \in Proc, Answer(p) PROVE (InForce.rules = wanted)' /\ Alone' /\ Upheld'
  <2>1. CASE GetHit(p)
    <3>1. cache = InForce
      BY <2>1 DEF GetHit, FreshInv
    <3> QED BY <2>1, <3>1 DEF GetHit, Loaded, InForce, ghosts
  <2>2. CASE GetMiss(p)
    BY <2>2 DEF GetMiss, InForce, ghosts
  <2>3. CASE SelectRow(p)
    BY <2>3 DEF SelectRow, InForce, ghosts
  <2>4. CASE SetCache(p)
    BY <2>4 DEF SetCache, Loaded, InForce, ghosts
  <2> QED BY <1>5, <2>1, <2>2, <2>3, <2>4 DEF Answer
<1>6. ASSUME NEW p \in Proc, Fail(p) PROVE (InForce.rules = wanted)' /\ Alone' /\ Upheld'
  BY <1>6, ReadersApart DEF Fail, InForce, ghosts
<1>7. ASSUME NEW e \in Editor, Edit(e) \/ Upsert(e) \/ Evict(e)
      PROVE  (InForce.rules = wanted)' /\ Alone' /\ Upheld'
  BY <1>7 DEF Edit, Upsert, Evict, InForce, ghosts
<1>8. ASSUME NEW e \in Editor, Save(e) PROVE (InForce.rules = wanted)' /\ Alone' /\ Upheld'
  <2>1. Commit(e) /\ doc' = [doc EXCEPT ![e] = draft[e]]
    BY <1>8 DEF Save
  <2>2. /\ pc[e] = "commit" /\ doc[e] \in Policy /\ draft[e] \in Policy
        /\ doc[e].rules = wanted
    BY <2>1 DEF Commit
  <2>3. row' = draft[e] /\ wanted' = draft[e].rules
    BY <2>1, <2>2, AppliedIsDraft DEF Commit
  <2>4. InForce' = draft[e]
    BY <2>2, <2>3, NoPolicyApart DEF InForce
  <2>5. \A f \in Editor : f # e => pc[f] = "idle"
    BY <2>2
  <2> QED BY <2>1, <2>2, <2>3, <2>4, <2>5 DEF Commit
<1>9. ASSUME NEW e \in Editor, Close(e) PROVE (InForce.rules = wanted)' /\ Alone' /\ Upheld'
  BY <1>9 DEF Close, InForce, ghosts
<1>10. CASE Expire \/ UNCHANGED vars
  BY <1>10 DEF Expire, vars, InForce, ghosts
<1> QED
  BY <1>4, <1>5, <1>6, <1>7, <1>8, <1>9, <1>10, ~ conflict' DEF Next, SaveStep, SaveUnanswered

\* The rules in force are the saved edits, one after the other, as long as no
\* two pages were open at once, no answer to a save was lost, and no load met a
\* save (CustomEntities add and remove, which send the whole document).
THEOREM EditsStand == Spec => []NoEditUndone
<1>1. Spec => []AloneInv
  BY AloneInit, AloneStep, FreshAlways, TypeCorrect, PTL DEF Spec
<1>2. AloneInv => NoEditUndone
  BY DEF AloneInv, NoEditUndone
<1> QED BY <1>1, <1>2, PTL
================================================================================
