---------------------------- MODULE TenantKeysProofs ----------------------------
(***************************************************************************)
(* Proofs about TenantKeys for any number of transactions and processes.   *)
(***************************************************************************)
EXTENDS TenantKeys, TLAPS

\* The newest key is one of the keys.
LEMMA NewestIsOne == ASSUME NEW ks, NEW k \in Newest(ks) PROVE k \in ks
  BY DEF Newest

--------------------------------------------------------------------------------
(* Type correctness. *)

LEMMA TypeInit == Init => TypeOK
  BY DEF Init, TypeOK, Open, Key

LEMMA TypeStep == TypeOK /\ [Next]_vars => TypeOK'
<1> SUFFICES ASSUME TypeOK, [Next]_vars PROVE TypeOK'
  OBVIOUS
<1> USE KeysApart DEF TypeOK, Open, Key, Proc, local
<1>1. ASSUME NEW p \in Proc, Begin(p) PROVE TypeOK'
  BY <1>1 DEF Begin
<1>2. ASSUME NEW p \in Proc, LookupCache(p) PROVE TypeOK'
  BY <1>2 DEF LookupCache
<1>3. ASSUME NEW p \in Proc, SelectKey(p) PROVE TypeOK'
  <2>1. CASE keys = {} /\ pc' = [pc EXCEPT ![p] = "create"] /\ UNCHANGED dek
    BY <1>3, <2>1 DEF SelectKey
  <2>2. ASSUME NEW k \in Newest(keys),
               dek' = [dek EXCEPT ![p] = k],
               pc' = [pc EXCEPT ![p] = "found"]
        PROVE  TypeOK'
    <3>1. k \in Key /\ k # NoKey
      BY NewestIsOne
    <3> QED BY <1>3, <2>2, <3>1 DEF SelectKey
  <2> QED BY <1>3, <2>1, <2>2 DEF SelectKey
<1>4. ASSUME NEW p \in Proc, KeepKey(p) PROVE TypeOK'
  BY <1>4 DEF KeepKey
<1>5. ASSUME NEW p \in Proc, CreateKey(p) PROVE TypeOK'
  BY <1>5 DEF CreateKey
<1>6. ASSUME NEW p \in Proc, InsertEntries(p) \/ EntriesRejected(p) \/ DecryptFails(p) \/ Fail(p)
      PROVE  TypeOK'
  BY <1>6 DEF InsertEntries, EntriesRejected, DecryptFails, Fail
<1>7. ASSUME NEW p \in Proc, LoadEntries(p) PROVE TypeOK'
  BY <1>7 DEF LoadEntries
<1>8. ASSUME NEW p \in Proc, CommitPersist(p) PROVE TypeOK'
  BY <1>8 DEF CommitPersist, CommitKey
<1>9. ASSUME NEW p \in Proc, CommitResolve(p) PROVE TypeOK'
  BY <1>9 DEF CommitResolve, CommitKey
<1>10. ASSUME NEW g \in Gateway, Restart(g) PROVE TypeOK'
  BY <1>10 DEF Restart, Active
<1>11. CASE UNCHANGED vars
  BY <1>11 DEF vars
<1> QED
  BY <1>1, <1>2, <1>3, <1>4, <1>5, <1>6, <1>7, <1>8, <1>9, <1>10, <1>11 DEF Next, KeyStep

\* Every reachable state is well typed, and a request that getTenantDek has
\* served has a key.
THEOREM TypeCorrect == Spec => []TypeOK
<1> QED BY TypeInit, TypeStep, PTL DEF Spec

--------------------------------------------------------------------------------
(* No entry is stored under a key that is not. *)

\* What a transaction has inserted satisfies the foreign key: the key is
\* committed, or is the transaction's own and commits with it.
PendingKnown == \A p \in Proc : pc[p] = "inserted" => dek[p] \in keys \cup {p}

LEMMA OrphanInit == Init => NoOrphanEntry /\ PendingKnown
  BY DEF Init, NoOrphanEntry, PendingKnown

LEMMA OrphanStep ==
  TypeOK /\ NoOrphanEntry /\ PendingKnown /\ [Next]_vars => (NoOrphanEntry /\ PendingKnown)'
<1> SUFFICES ASSUME TypeOK, NoOrphanEntry, PendingKnown, [Next]_vars
             PROVE  (NoOrphanEntry /\ PendingKnown)'
  OBVIOUS
<1> USE DEF NoOrphanEntry, PendingKnown, TypeOK, local
<1>1. ASSUME NEW p \in Proc, Begin(p) PROVE (NoOrphanEntry /\ PendingKnown)'
  BY <1>1 DEF Begin
<1>2. ASSUME NEW p \in Proc, LookupCache(p) PROVE (NoOrphanEntry /\ PendingKnown)'
  BY <1>2 DEF LookupCache
<1>3. ASSUME NEW p \in Proc, SelectKey(p) PROVE (NoOrphanEntry /\ PendingKnown)'
  BY <1>3 DEF SelectKey
<1>4. ASSUME NEW p \in Proc, KeepKey(p) \/ CreateKey(p) PROVE (NoOrphanEntry /\ PendingKnown)'
  BY <1>4 DEF KeepKey, CreateKey
<1>5. ASSUME NEW p \in Proc, InsertEntries(p) PROVE (NoOrphanEntry /\ PendingKnown)'
  BY <1>5 DEF InsertEntries, KnownKey
<1>6. ASSUME NEW p \in Proc, EntriesRejected(p) \/ DecryptFails(p) \/ Fail(p) \/ LoadEntries(p)
      PROVE  (NoOrphanEntry /\ PendingKnown)'
  BY <1>6 DEF EntriesRejected, DecryptFails, Fail, LoadEntries
<1>7. ASSUME NEW p \in Proc, CommitPersist(p) PROVE (NoOrphanEntry /\ PendingKnown)'
  <2>1. keys \subseteq keys' /\ dek[p] \in keys'
    BY <1>7 DEF CommitPersist, CommitKey
  <2>2. entries' = entries \cup {<<p, dek[p]>>}
    BY <1>7 DEF CommitPersist
  <2>3. NoOrphanEntry'
    BY <2>1, <2>2
  <2>4. PendingKnown'
    BY <1>7, <2>1 DEF CommitPersist
  <2> QED BY <2>3, <2>4
<1>8. ASSUME NEW p \in Proc, CommitResolve(p) PROVE (NoOrphanEntry /\ PendingKnown)'
  BY <1>8 DEF CommitResolve, CommitKey
<1>9. ASSUME NEW g \in Gateway, Restart(g) PROVE (NoOrphanEntry /\ PendingKnown)'
  BY <1>9 DEF Restart
<1>10. CASE UNCHANGED vars
  BY <1>10 DEF vars
<1> QED
  BY <1>1, <1>2, <1>3, <1>4, <1>5, <1>6, <1>7, <1>8, <1>9, <1>10 DEF Next, KeyStep

\* No value is ever stored under a key that is not stored, although processes
\* keep keys whose transactions were rolled back (persistNewEntries under the
\* foreign key on dek_id).
THEOREM NoOrphans == Spec => []NoOrphanEntry
<1>1. Spec => [](NoOrphanEntry /\ PendingKnown)
  BY OrphanInit, OrphanStep, TypeCorrect, PTL DEF Spec
<1> QED BY <1>1, PTL

--------------------------------------------------------------------------------
(* A tenant's first key stays its only one. *)

\* With FirstKey committed no request is about to create a key, and whatever
\* key a request or a process has is FirstKey.
Settled ==
  FirstKey \in keys =>
    /\ keys = {FirstKey}
    /\ \A g \in Gateway : dekCache[g] \in {NoKey, FirstKey}
    /\ \A e \in entries : e[2] = FirstKey
    /\ \A p \in Proc : pc[p] # "create"
    /\ \A p \in Proc : pc[p] \in {"found", "keyed", "inserted"} => dek[p] = FirstKey

LEMMA SettledInit == Init => Settled
  BY DEF Init, Settled

LEMMA SettledStep == TypeOK /\ Settled /\ [Next]_vars => Settled'
<1> SUFFICES ASSUME TypeOK, Settled, [Next]_vars PROVE Settled'
  OBVIOUS
<1> USE KeysApart DEF Settled, TypeOK, local
<1>1. ASSUME NEW p \in Proc, Begin(p) PROVE Settled'
  BY <1>1 DEF Begin
<1>2. ASSUME NEW p \in Proc, LookupCache(p) PROVE Settled'
  BY <1>2 DEF LookupCache
<1>3. ASSUME NEW p \in Proc, SelectKey(p) PROVE Settled'
  <2>1. CASE FirstKey \notin keys
    BY <1>3, <2>1 DEF SelectKey
  <2>2. CASE FirstKey \in keys
    <3>1. PICK k \in Newest(keys) :
            dek' = [dek EXCEPT ![p] = k] /\ pc' = [pc EXCEPT ![p] = "found"]
      BY <1>3, <2>2 DEF SelectKey
    <3>2. k = FirstKey
      BY <2>2, NewestIsOne
    <3> QED BY <1>3, <2>2, <3>1, <3>2 DEF SelectKey
  <2> QED BY <2>1, <2>2
<1>4. ASSUME NEW p \in Proc, KeepKey(p) PROVE Settled'
  BY <1>4 DEF KeepKey
<1>5. ASSUME NEW p \in Proc, CreateKey(p) PROVE Settled'
  BY <1>5 DEF CreateKey
<1>6. ASSUME NEW p \in Proc,
             InsertEntries(p) \/ EntriesRejected(p) \/ DecryptFails(p) \/ Fail(p) \/ LoadEntries(p)
      PROVE  Settled'
  BY <1>6 DEF InsertEntries, EntriesRejected, DecryptFails, Fail, LoadEntries
<1>7. ASSUME NEW p \in Proc, CommitPersist(p) PROVE Settled'
  <2>1. FirstKey \in keys' => FirstKey \in keys /\ dek[p] = FirstKey
    BY <1>7 DEF CommitPersist, CommitKey
  <2>2. CASE FirstKey \in keys'
    <3>1. keys' = keys /\ dek[p] = FirstKey
      BY <1>7, <2>1, <2>2 DEF CommitPersist, CommitKey
    <3> QED BY <1>7, <2>1, <2>2, <3>1 DEF CommitPersist
  <2> QED BY <2>2
<1>8. ASSUME NEW p \in Proc, CommitResolve(p) PROVE Settled'
  BY <1>8 DEF CommitResolve, CommitKey
<1>9. ASSUME NEW g \in Gateway, Restart(g) PROVE Settled'
  BY <1>9 DEF Restart
<1>10. CASE UNCHANGED vars
  BY <1>10 DEF vars
<1> QED
  BY <1>1, <1>2, <1>3, <1>4, <1>5, <1>6, <1>7, <1>8, <1>9, <1>10 DEF Next, KeyStep

\* A tenant that has its key keeps it: no process creates, holds or uses
\* another one (getTenantDek under failures and restarts).
THEOREM StableKey == Spec => []KeyIsStable
<1>1. Spec => []Settled
  BY SettledInit, SettledStep, TypeCorrect, PTL DEF Spec
<1>2. Settled => KeyIsStable
  BY DEF Settled, KeyIsStable
<1> QED BY <1>1, <1>2, PTL
================================================================================
