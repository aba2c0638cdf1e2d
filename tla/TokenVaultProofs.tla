---------------------------- MODULE TokenVaultProofs ----------------------------
(***************************************************************************)
(* Proofs about TokenVault, for every set of requests, conversations,      *)
(* values and prompts and every bound on the placeholder index.            *)
(***************************************************************************)
EXTENDS TokenVault, TLAPS

(* Which program counters a request of each kind can have, and what an     *)
(* insertion finds in its hands.                                           *)
ControlOK ==
  /\ \A r \in Chat : pc[r] \in {"idle"} \cup Ended \cup ChatAt
  /\ \A g \in Reload : pc[g] \in {"idle", "resolve", "refill"} \cup Ended
  /\ \A d \in Delete : pc[d] \in {"idle"} \cup Ended \cup DeleteAt
  /\ \A r \in Chat : pc[r] = "insert" => fresh[r] # << >>

TypeInv == TypeOK /\ ControlOK

LEMMA TypeInvInit == Init => TypeInv
  BY KindsDisjoint DEF Init, TypeInv, TypeOK, ControlOK, Proc

\* Ending a request keeps every type, whatever the way it ends.
LEMMA FinishTypes ==
  ASSUME TypeInv, NEW p \in Proc, NEW at \in Ended, Finish(p, at)
  PROVE  /\ pc' \in [Proc -> {"idle"} \cup Ended \cup ChatAt \cup DeleteAt]
         /\ rows' \in [Proc -> SUBSET Row]
         /\ todo' \in [Chat -> Seq(Value)]
         /\ fresh' \in [Chat -> Seq(Row)]
         /\ inserted' \in [Chat -> SUBSET Row]
         /\ sent' \in [Chat -> SUBSET Row]
         /\ ControlOK'
  BY DEF Finish, TypeInv, TypeOK, ControlOK, Proc, Ended

\* The steps of loadRows, which chats and reloads share.
LEMMA LoadTypes ==
  ASSUME TypeInv, NEW p \in Chat \cup Reload, LoadStep(p)
  PROVE  TypeInv'
<1> USE DEF TypeInv, TypeOK, ControlOK, Proc, Ended, ChatAt, DeleteAt
<1>1. CASE LoadFromCache(p)
  BY <1>1, KindsDisjoint DEF LoadFromCache, AfterLoad, store, local, ghosts
<1>2. CASE LoadFromDb(p)
  BY <1>2, KindsDisjoint DEF LoadFromDb, store, local, ghosts
<1>3. CASE CacheRows(p)
  <2>1. cache' \in [Conversation -> {NoEntry} \cup SUBSET Row]
    BY <1>3 DEF CacheRows, CacheWrite
  <2>2. pc' = [pc EXCEPT ![p] = AfterLoad(p)] /\ AfterLoad(p) \in {"done", "redact", "forward"}
    BY <1>3 DEF CacheRows, AfterLoad
  <2>3. /\ pc' \in [Proc -> {"idle"} \cup Ended \cup ChatAt \cup DeleteAt]
        /\ p \in Reload => AfterLoad(p) = "done"
    BY <2>2 DEF AfterLoad
  <2>4. UNCHANGED <<conversations, tokenMap, audit, conv, todo, rows, fresh, inserted, sent, erased, disturbed>>
    BY <1>3 DEF CacheRows, store, local, ghosts
  <2>5. ControlOK'
    BY <2>2, <2>3, <2>4, KindsDisjoint
  <2> QED BY <2>1, <2>3, <2>4, <2>5
<1>4. QED BY <1>1, <1>2, <1>3 DEF LoadStep

LEMMA FailTypes ==
  ASSUME TypeInv, NEW p \in Proc, Fail(p)
  PROVE  TypeInv'
<1>1. Finish(p, "failed") /\ "failed" \in Ended
  BY DEF Fail, Ended
<1>2. QED BY <1>1, FinishTypes DEF Fail, TypeInv, TypeOK, store, ghosts

LEMMA ChatTypes ==
  ASSUME TypeInv, NEW r \in Chat, ChatStep(r)
  PROVE  TypeInv'
<1> USE DEF TypeInv, TypeOK, ControlOK, Proc
<1>1. CASE LoadStep(r)
  BY <1>1, LoadTypes
<1>2. CASE Tokenise(r)
  <2>1. /\ todo[r] \in Seq(Value)
        /\ todo[r] # << >>
        /\ Head(todo[r]) \in Value
        /\ Tail(todo[r]) \in Seq(Value)
    BY <1>2 DEF Tokenise
  <2>2. \A i \in 1..MaxIndex :
          [ph |-> [type |-> TypeOf[Head(todo[r])], index |-> i], val |-> Head(todo[r])] \in Row
    BY <2>1, ValuesTyped DEF Row, Placeholder
  <2>3. /\ rows' \in [Proc -> SUBSET Row]
        /\ fresh' \in [Chat -> Seq(Row)]
        /\ sent' \in [Chat -> SUBSET Row]
    <3>1. CASE UNCHANGED <<rows, fresh>> /\ \E e \in rows[r] : sent' = [sent EXCEPT ![r] = @ \cup {e}]
      BY <3>1
    <3>2. CASE \E new \in Row :
                 /\ rows' = [rows EXCEPT ![r] = @ \cup {new}]
                 /\ fresh' = [fresh EXCEPT ![r] = Append(@, new)]
                 /\ sent' = [sent EXCEPT ![r] = @ \cup {new}]
      BY <3>2
    <3>3. QED BY <1>2, <2>2, <3>1, <3>2 DEF Tokenise
  <2>4. ControlOK'
    BY <1>2, KindsDisjoint DEF Tokenise
  <2>5. QED BY <1>2, <2>1, <2>3, <2>4 DEF Tokenise, store, ghosts
<1>3. CASE Redacted(r)
  BY <1>3, KindsDisjoint DEF Redacted, store, local, ghosts, ChatAt
<1>4. CASE Blocked(r)
  BY <1>4, KindsDisjoint DEF Blocked, store, local, ghosts, ChatAt
<1>5. CASE RedactorFails(r) \/ InsertFails(r) \/ AbortDeadlocked(r)
  BY <1>5, FailTypes DEF RedactorFails, InsertFails, AbortDeadlocked
<1>6. CASE InsertRow(r) \/ SkipRow(r)
  <2>1. /\ pc[r] = "insert"
        /\ Inserted(r)
        /\ UNCHANGED <<store, cache, conv, rows, todo, sent, ghosts>>
        /\ inserted' \in {inserted, [inserted EXCEPT ![r] = @ \cup {Head(fresh[r])}]}
    BY <1>6 DEF InsertRow, SkipRow
  <2>2. /\ fresh[r] \in Seq(Row)
        /\ fresh[r] # << >>
        /\ Head(fresh[r]) \in Row
        /\ Tail(fresh[r]) \in Seq(Row)
    BY <2>1
  <2>3. inserted' \in [Chat -> SUBSET Row]
    <3>1. inserted[r] \cup {Head(fresh[r])} \in SUBSET Row
      BY <2>2
    <3>2. QED BY <2>1, <3>1
  <2>4. fresh' \in [Chat -> Seq(Row)]
    BY <2>1, <2>2 DEF Inserted
  <2>5. /\ pc' = [pc EXCEPT ![r] = IF Tail(fresh[r]) = << >> THEN "evict" ELSE "insert"]
        /\ fresh' = [fresh EXCEPT ![r] = Tail(@)]
    BY <2>1 DEF Inserted
  <2>6. pc' \in [Proc -> {"idle"} \cup Ended \cup ChatAt \cup DeleteAt]
    <3>1. (IF Tail(fresh[r]) = << >> THEN "evict" ELSE "insert") \in ChatAt
      BY DEF ChatAt
    <3>2. QED BY <2>5, <3>1
  <2>7. ControlOK'
    BY <2>5, KindsDisjoint DEF ChatAt
  <2>8. QED BY <2>1, <2>3, <2>4, <2>6, <2>7 DEF store, ghosts
<1>7. CASE EvictCache(r)
  BY <1>7, KindsDisjoint DEF EvictCache, CacheEvict, store, local, ghosts, ChatAt
<1>8. CASE CommitPrepare(r)
  BY <1>8, KindsDisjoint DEF CommitPrepare, ghosts, ChatAt
<1>9. CASE AuditBlocked(r)
  <2>1. Finish(r, "rejected") /\ "rejected" \in Ended
    BY <1>9 DEF AuditBlocked, Ended
  <2>2. audit' \subseteq Proc \X AuditType
    BY <1>9 DEF AuditBlocked, AuditType
  <2>3. QED BY <1>9, <2>1, <2>2, FinishTypes DEF AuditBlocked, ghosts
<1>10. CASE AuditRedacted(r)
  BY <1>10, KindsDisjoint DEF AuditRedacted, local, ghosts, ChatAt, AuditType
<1>11. CASE Forward(r)
  BY <1>11, KindsDisjoint DEF Forward, store, local, ghosts, ChatAt
<1>12. CASE Respond(r)
  <2>1. Finish(r, "done") /\ "done" \in Ended
    BY <1>12 DEF Respond, Ended
  <2>2. audit' \subseteq Proc \X AuditType
    BY <1>12 DEF Respond, AuditType
  <2>3. QED BY <1>12, <2>1, <2>2, FinishTypes DEF Respond, ghosts
<1>13. QED
  BY <1>1, <1>2, <1>3, <1>4, <1>5, <1>6, <1>7, <1>8, <1>9, <1>10, <1>11, <1>12 DEF ChatStep

LEMMA DeleteTypes ==
  ASSUME TypeInv, NEW d \in Delete, DeleteStep(d)
  PROVE  TypeInv'
<1> USE DEF TypeInv, TypeOK, ControlOK, Proc
<1>1. CASE DeleteConversationRow(d)
  BY <1>1, KindsDisjoint DEF DeleteConversationRow, store, local, ghosts, DeleteAt
<1>2. CASE DeleteMissing(d)
  <2>1. Finish(d, "done") /\ "done" \in Ended
    BY <1>2 DEF DeleteMissing, Ended
  <2>2. audit' \subseteq Proc \X AuditType
    BY <1>2 DEF DeleteMissing, AuditType
  <2>3. QED BY <1>2, <2>1, <2>2, FinishTypes DEF DeleteMissing, CacheEvict, ghosts
<1>3. CASE EvictDeleted(d)
  BY <1>3, KindsDisjoint DEF EvictDeleted, CacheEvict, store, local, ghosts, DeleteAt
<1>4. CASE CommitDelete(d)
  <2>1. Finish(d, "done") /\ "done" \in Ended
    BY <1>4 DEF CommitDelete, Ended
  <2>2. audit' \subseteq Proc \X AuditType
    BY <1>4 DEF CommitDelete, AuditType
  <2>3. QED BY <1>4, <2>1, <2>2, FinishTypes DEF CommitDelete
<1>5. CASE AbortDeadlocked(d)
  BY <1>5, FailTypes DEF AbortDeadlocked
<1>6. QED BY <1>1, <1>2, <1>3, <1>4, <1>5 DEF DeleteStep

LEMMA ArriveTypes ==
  ASSUME TypeInv, Arrive
  PROVE  TypeInv'
<1> USE DEF TypeInv, TypeOK, ControlOK, Proc
<1>1. ASSUME NEW r \in Chat, NEW prompt \in Prompt, EnsureConversation(r, prompt)
      PROVE  TypeInv'
  BY <1>1, KindsDisjoint, PromptsTyped DEF EnsureConversation, Begin, ChatAt
<1>2. ASSUME NEW g \in Reload, StartReload(g)
      PROVE  TypeInv'
  BY <1>2, KindsDisjoint DEF StartReload, Begin, store, local, ChatAt
<1>3. ASSUME NEW d \in Delete, DeleteRows(d)
      PROVE  TypeInv'
  BY <1>3, KindsDisjoint DEF DeleteRows, Begin, store, local, DeleteAt
<1>4. QED BY <1>1, <1>2, <1>3 DEF Arrive

LEMMA TypeInvNext == TypeInv /\ [Next]_vars => TypeInv'
<1> SUFFICES ASSUME TypeInv, [Next]_vars
             PROVE  TypeInv'
  OBVIOUS
<1>1. CASE Arrive
  BY <1>1, ArriveTypes
<1>2. ASSUME NEW r \in Chat, ChatStep(r)
      PROVE  TypeInv'
  BY <1>2, ChatTypes
<1>3. ASSUME NEW g \in Reload, LoadStep(g)
      PROVE  TypeInv'
  BY <1>3, LoadTypes
<1>4. ASSUME NEW d \in Delete, DeleteStep(d)
      PROVE  TypeInv'
  BY <1>4, DeleteTypes
<1>5. ASSUME NEW p \in Proc, Fail(p)
      PROVE  TypeInv'
  BY <1>5, FailTypes
<1>6. ASSUME NEW c \in Conversation, Expire(c)
      PROVE  TypeInv'
  BY <1>6 DEF Expire, TypeInv, TypeOK, ControlOK, store, local, ghosts
<1>7. CASE Crash
  <2> USE DEF TypeInv, TypeOK, ControlOK, Proc
  <2>1. pc' \in [Proc -> {"idle"} \cup Ended \cup ChatAt \cup DeleteAt]
    BY <1>7 DEF Crash, Ended
  <2>2. /\ rows' \in [Proc -> SUBSET Row]
        /\ todo' \in [Chat -> Seq(Value)]
        /\ fresh' \in [Chat -> Seq(Row)]
        /\ inserted' \in [Chat -> SUBSET Row]
        /\ sent' \in [Chat -> SUBSET Row]
    BY <1>7 DEF Crash
  <2>3. \A p \in Proc : pc'[p] \in {pc[p], "failed"} /\ pc'[p] # "insert"
    BY <1>7 DEF Crash, Active, Ended
  <2>4. ControlOK'
    BY <2>3 DEF Ended
  <2>5. QED BY <1>7, <2>1, <2>2, <2>4 DEF Crash, store, ghosts
<1>8. CASE UNCHANGED vars
  BY <1>8 DEF TypeInv, TypeOK, ControlOK, vars, store, local, ghosts
<1>9. QED BY <1>1, <1>2, <1>3, <1>4, <1>5, <1>6, <1>7, <1>8 DEF Next

\* Every reachable state has the types of TypeOK, and each request is at a
\* point of its own handler.
THEOREM TypeCorrect == Spec => [](TypeOK /\ ControlOK)
<1>1. TypeInv => TypeOK /\ ControlOK
  BY DEF TypeInv
<1>2. QED BY <1>1, TypeInvInit, TypeInvNext, PTL DEF Spec
--------------------------------------------------------------------------------
(* The map: locks keep a deletion and open insertions of one conversation  *)
(* apart, and the unique constraint holds across open transactions.        *)

Deleting(d) == pc[d] \in {"convDeleted", "evicted"}

\* Rows belong to a conversation that exists.
RowsOwned ==
  /\ \A c \in Conversation : tokenMap[c] # {} => c \in conversations
  /\ \A r \in Chat : inserted[r] # {} =>
       pc[r] \in {"insert", "evict", "commit"} /\ conv[r] \in conversations

\* A transaction that has deleted a conversation row is alone with it.
DeleterAlone ==
  \A d \in Delete : Deleting(d) =>
    /\ conv[d] \in conversations
    /\ \A r \in Chat : conv[r] = conv[d] => inserted[r] = {}
    /\ \A q \in Delete : q # d /\ conv[q] = conv[d] => ~ Deleting(q)

MapUnique ==
  /\ \A c \in Conversation : Map!Functional(tokenMap[c])
  /\ UniquePlaceholder

MapInv == RowsOwned /\ DeleterAlone /\ MapUnique

LEMMA MapInvInit == Init => MapInv
  BY KindsDisjoint DEF Init, MapInv, RowsOwned, DeleterAlone, MapUnique, UniquePlaceholder,
     Map!Functional, Placeholders, Deleting, Proc

\* A step that leaves tables and open insertions alone, or only closes some,
\* and puts no deletion further, keeps the invariant.
LEMMA MapInvQuiet ==
  ASSUME TypeInv, MapInv,
         UNCHANGED <<conversations, tokenMap, conv>>,
         \A r \in Chat : inserted'[r] = inserted[r] \/ inserted'[r] = {},
         \A r \in Chat : inserted'[r] # {} => pc'[r] = pc[r] \/ pc'[r] \in {"insert", "evict", "commit"},
         \A d \in Delete : pc'[d] \in {"convDeleted", "evicted"} => Deleting(d)
  PROVE  MapInv'
<1>1. RowsOwned'
  BY DEF MapInv, RowsOwned
<1>2. DeleterAlone'
  BY DEF MapInv, DeleterAlone, Deleting
<1>3. MapUnique'
  BY DEF MapInv, MapUnique, UniquePlaceholder, Map!Functional, Placeholders
<1>4. QED BY <1>1, <1>2, <1>3 DEF MapInv

LEMMA MapInvFinish ==
  ASSUME TypeInv, MapInv, NEW p \in Proc, NEW at \in Ended, Finish(p, at),
         UNCHANGED <<conversations, tokenMap, conv>>
  PROVE  MapInv'
<1>1. \A r \in Chat : inserted'[r] = IF r = p THEN {} ELSE inserted[r]
  BY DEF Finish
<1>2. \A q \in Proc : pc'[q] = IF q = p THEN at ELSE pc[q]
  BY DEF Finish, TypeInv, TypeOK
<1>3. \A d \in Delete : pc'[d] \in {"convDeleted", "evicted"} => Deleting(d)
  BY <1>2 DEF Deleting, Proc, Ended
<1>4. QED BY <1>1, <1>2, <1>3, MapInvQuiet DEF Proc

LEMMA MapInvFail ==
  ASSUME TypeInv, MapInv, NEW p \in Proc, Fail(p)
  PROVE  MapInv'
  BY MapInvFinish DEF Fail, store, Ended

LEMMA MapInvLoad ==
  ASSUME TypeInv, MapInv, NEW p \in Chat \cup Reload, LoadStep(p)
  PROVE  MapInv'
<1>1. /\ UNCHANGED <<conversations, tokenMap, conv, inserted>>
      /\ pc[p] \in {"load", "resolve", "fill", "refill"}
      /\ \E at \in ChatAt \cup Ended : pc' = [pc EXCEPT ![p] = at]
  BY DEF LoadStep, LoadFromCache, LoadFromDb, CacheRows, AfterLoad, store, local, ChatAt, Ended
<1>2. \A q \in Proc : q # p => pc'[q] = pc[q]
  BY <1>1 DEF TypeInv, TypeOK
<1>3. p \in Chat => inserted[p] = {}
  BY <1>1 DEF MapInv, RowsOwned
<1>4. \A d \in Delete : pc'[d] \in {"convDeleted", "evicted"} => Deleting(d)
  BY <1>2, KindsDisjoint DEF Deleting, Proc
<1>5. QED BY <1>1, <1>2, <1>3, <1>4, MapInvQuiet DEF Proc

LEMMA MapInvInsertRow ==
  ASSUME TypeInv, MapInv, NEW r \in Chat, InsertRow(r)
  PROVE  MapInv'
<1> DEFINE e == Head(fresh[r])
<1>1. /\ UNCHANGED <<conversations, tokenMap, conv>>
      /\ conv[r] \in conversations
      /\ inserted' = [inserted EXCEPT ![r] = @ \cup {e}]
      /\ pc[r] = "insert"
      /\ e.ph \notin Placeholders(tokenMap[conv[r]] \cup inserted[r])
      /\ e \in Row
  BY DEF InsertRow, Conflict, store, TypeInv, TypeOK, ControlOK
<1>2. \A q \in Chat : q # r /\ conv[q] = conv[r] => e.ph \notin Placeholders(inserted[q])
  BY DEF InsertRow, Waiting, Waits, Proc
<1>3. \A d \in Delete : Deleting(d) => conv[d] # conv[r]
  BY KindsDisjoint DEF InsertRow, Waiting, Waits, HoldsConversation, Deleting, Proc
<1>4. /\ pc'[r] \in {"insert", "evict"}
      /\ \A q \in Proc : q # r => pc'[q] = pc[q]
  BY DEF InsertRow, Inserted, TypeInv, TypeOK, Proc
<1>5. /\ inserted'[r] = inserted[r] \cup {e}
      /\ \A q \in Chat : q # r => inserted'[q] = inserted[q]
  BY <1>1 DEF TypeInv, TypeOK
<1> HIDE DEF e
<1>6. RowsOwned'
  BY <1>1, <1>4, <1>5 DEF MapInv, RowsOwned, Proc
<1>7. DeleterAlone'
  BY <1>1, <1>3, <1>4, <1>5, KindsDisjoint DEF MapInv, DeleterAlone, Deleting, Proc
<1>8. MapUnique'
  <2>1. \A k \in Conversation : Map!Functional(tokenMap'[k])
    BY <1>1 DEF MapInv, MapUnique
  <2>2. Map!Functional(tokenMap[conv[r]] \cup inserted[r] \cup {e})
    BY <1>1 DEF MapInv, MapUnique, UniquePlaceholder, Map!Functional, Placeholders
  <2>3. \A q \in Chat : Map!Functional(tokenMap'[conv[q]] \cup inserted'[q])
    <3>1. tokenMap[conv[r]] \cup inserted'[r] = tokenMap[conv[r]] \cup inserted[r] \cup {e}
      BY <1>5
    <3>2. QED BY <2>2, <3>1, <1>1, <1>5 DEF MapInv, MapUnique, UniquePlaceholder
  <2>4. \A p, q \in Chat : p # q /\ conv[p] = conv[q]
            => Placeholders(inserted'[p]) \cap Placeholders(inserted'[q]) = {}
    <3>1. Placeholders(inserted'[r]) = Placeholders(inserted[r]) \cup {e.ph}
      BY <1>5 DEF Placeholders
    <3>2. QED BY <3>1, <1>2, <1>5 DEF MapInv, MapUnique, UniquePlaceholder
  <2>5. QED
    BY <2>1, <2>3, <2>4, <1>1 DEF MapUnique, UniquePlaceholder, Map!Functional, Placeholders
<1>9. QED BY <1>6, <1>7, <1>8 DEF MapInv

LEMMA MapInvCommit ==
  ASSUME TypeInv, MapInv, NEW r \in Chat, CommitPrepare(r)
  PROVE  MapInv'
<1> DEFINE c == conv[r]
<1>1. /\ UNCHANGED <<conversations, conv>>
      /\ pc'[r] = "audit"
      /\ \A q \in Proc : q # r => pc'[q] = pc[q]
      /\ inserted'[r] = {}
      /\ \A q \in Chat : q # r => inserted'[q] = inserted[q]
      /\ c \in Conversation
      /\ tokenMap'[c] = tokenMap[c] \cup inserted[r]
      /\ \A k \in Conversation : k # c => tokenMap'[k] = tokenMap[k]
  BY DEF CommitPrepare, TypeInv, TypeOK, Proc
<1>2. \A q \in Chat : conv[q] \in Conversation
  BY DEF TypeInv, TypeOK, Proc
<1>3. RowsOwned'
  <2>1. ASSUME NEW k \in Conversation, tokenMap'[k] # {}
        PROVE  k \in conversations'
    <3>1. CASE k = c /\ inserted[r] # {}
      BY <1>1, <3>1 DEF MapInv, RowsOwned
    <3>2. CASE ~ (k = c /\ inserted[r] # {})
      BY <1>1, <2>1, <3>2 DEF MapInv, RowsOwned
    <3>3. QED BY <3>1, <3>2
  <2>2. ASSUME NEW q \in Chat, inserted'[q] # {}
        PROVE  pc'[q] \in {"insert", "evict", "commit"} /\ conv'[q] \in conversations'
    BY <1>1, <2>2 DEF MapInv, RowsOwned, Proc
  <2>3. QED BY <2>1, <2>2 DEF RowsOwned
<1>4. DeleterAlone'
  BY <1>1, KindsDisjoint DEF MapInv, DeleterAlone, Deleting, Proc
<1>5. Map!Functional(tokenMap[c] \cup inserted[r])
  BY DEF MapInv, MapUnique, UniquePlaceholder
<1>6. ASSUME NEW q \in Chat, q # r, conv[q] = c
      PROVE  Map!Functional(tokenMap[c] \cup inserted[r] \cup inserted[q])
  <2>1. /\ Map!Functional(tokenMap[c] \cup inserted[q])
        /\ Placeholders(inserted[r]) \cap Placeholders(inserted[q]) = {}
    BY <1>6 DEF MapInv, MapUnique, UniquePlaceholder
  <2>2. QED BY <2>1, <1>5 DEF Map!Functional, Placeholders
<1>7. MapUnique'
  <2>1. \A k \in Conversation : Map!Functional(tokenMap'[k])
    BY <1>1, <1>5 DEF MapInv, MapUnique
  <2>2. \A q \in Chat : Map!Functional(tokenMap'[conv[q]] \cup inserted'[q])
    BY <1>1, <1>2, <1>5, <1>6 DEF MapInv, MapUnique, UniquePlaceholder
  <2>3. \A q, p \in Chat : q # p /\ conv[q] = conv[p]
            => Placeholders(inserted'[q]) \cap Placeholders(inserted'[p]) = {}
    BY <1>1 DEF MapInv, MapUnique, UniquePlaceholder, Placeholders
  <2>4. QED
    BY <2>1, <2>2, <2>3, <1>1 DEF MapUnique, UniquePlaceholder, Map!Functional, Placeholders
<1>8. QED BY <1>3, <1>4, <1>7 DEF MapInv

LEMMA MapInvChat ==
  ASSUME TypeInv, MapInv, NEW r \in Chat, ChatStep(r)
  PROVE  MapInv'
<1>1. CASE LoadStep(r)
  BY <1>1, MapInvLoad
<1>2. CASE Tokenise(r) \/ Redacted(r) \/ Blocked(r) \/ SkipRow(r) \/ EvictCache(r)
           \/ AuditRedacted(r) \/ Forward(r)
  <2>1. /\ UNCHANGED <<conversations, tokenMap, conv, inserted>>
        /\ \E at \in ChatAt : pc' = [pc EXCEPT ![r] = at]
        /\ inserted[r] # {} => pc'[r] \in {"insert", "evict", "commit"}
    <3>1. CASE Tokenise(r)
      <4>1. /\ UNCHANGED <<conversations, tokenMap, conv, inserted, pc>>
            /\ pc[r] = "redact"
        BY <3>1 DEF Tokenise, store
      <4>2. pc = [pc EXCEPT ![r] = "redact"]
        BY <4>1 DEF TypeInv, TypeOK, Proc
      <4>3. QED BY <4>1, <4>2 DEF MapInv, RowsOwned, ChatAt
    <3>2. CASE Redacted(r)
      BY <3>2 DEF Redacted, store, local, TypeInv, TypeOK, Proc, MapInv, RowsOwned, ChatAt
    <3>3. CASE Blocked(r)
      BY <3>3 DEF Blocked, store, local, TypeInv, TypeOK, Proc, MapInv, RowsOwned, ChatAt
    <3>4. CASE SkipRow(r)
      BY <3>4 DEF SkipRow, Inserted, store, TypeInv, TypeOK, Proc, MapInv, RowsOwned, ChatAt
    <3>5. CASE EvictCache(r)
      BY <3>5 DEF EvictCache, store, local, TypeInv, TypeOK, Proc, MapInv, RowsOwned, ChatAt
    <3>6. CASE AuditRedacted(r)
      BY <3>6 DEF AuditRedacted, local, TypeInv, TypeOK, Proc, MapInv, RowsOwned, ChatAt
    <3>7. CASE Forward(r)
      BY <3>7 DEF Forward, store, local, TypeInv, TypeOK, Proc, MapInv, RowsOwned, ChatAt
    <3>8. QED BY <1>2, <3>1, <3>2, <3>3, <3>4, <3>5, <3>6, <3>7
  <2>2. \A q \in Proc : q # r => pc'[q] = pc[q]
    BY <2>1 DEF TypeInv, TypeOK
  <2>3. \A d \in Delete : pc'[d] \in {"convDeleted", "evicted"} => Deleting(d)
    BY <2>2, KindsDisjoint DEF Deleting, Proc
  <2>4. QED BY <2>1, <2>2, <2>3, MapInvQuiet DEF Proc
<1>3. CASE RedactorFails(r) \/ InsertFails(r) \/ AbortDeadlocked(r)
  BY <1>3, MapInvFail DEF RedactorFails, InsertFails, AbortDeadlocked, Proc
<1>4. CASE InsertRow(r)
  BY <1>4, MapInvInsertRow
<1>5. CASE CommitPrepare(r)
  BY <1>5, MapInvCommit
<1>6. CASE AuditBlocked(r) \/ Respond(r)
  BY <1>6, MapInvFinish DEF AuditBlocked, Respond, Proc, Ended
<1>7. QED BY <1>1, <1>2, <1>3, <1>4, <1>5, <1>6 DEF ChatStep

LEMMA MapInvDelete ==
  ASSUME TypeInv, MapInv, NEW d \in Delete, DeleteStep(d)
  PROVE  MapInv'
<1>1. CASE DeleteConversationRow(d)
  <2>1. /\ UNCHANGED <<conversations, tokenMap, conv, inserted>>
        /\ conv[d] \in conversations
        /\ \A q \in Proc : q # d => pc'[q] = pc[q]
    BY <1>1 DEF DeleteConversationRow, store, local, TypeInv, TypeOK, Proc
  <2>2. \A q \in Proc : q # d /\ conv[q] = conv[d] =>
          /\ q \in Chat => inserted[q] = {}
          /\ q \in Delete => ~ Deleting(q)
    BY <1>1 DEF DeleteConversationRow, Waiting, Waits, HoldsConversation, Deleting
  <2>3. RowsOwned'
    BY <2>1, KindsDisjoint DEF MapInv, RowsOwned, Proc
  <2>4. DeleterAlone'
    BY <2>1, <2>2, KindsDisjoint DEF MapInv, DeleterAlone, Deleting, Proc
  <2>5. MapUnique'
    BY <2>1 DEF MapInv, MapUnique, UniquePlaceholder, Map!Functional, Placeholders
  <2>6. QED BY <2>3, <2>4, <2>5 DEF MapInv
<1>2. CASE DeleteMissing(d)
  BY <1>2, MapInvFinish DEF DeleteMissing, Proc, Ended
<1>3. CASE EvictDeleted(d)
  <2>1. /\ UNCHANGED <<conversations, tokenMap, conv, inserted>>
        /\ Deleting(d)
        /\ \A q \in Proc : q # d => pc'[q] = pc[q]
    BY <1>3 DEF EvictDeleted, Deleting, store, local, TypeInv, TypeOK, Proc
  <2>2. QED BY <2>1, KindsDisjoint, MapInvQuiet DEF Deleting, Proc
<1>4. CASE CommitDelete(d)
  <2> DEFINE c == conv[d]
  <2>1. /\ UNCHANGED conv
        /\ Deleting(d)
        /\ c \in Conversation
        /\ conversations' = conversations \ {c}
        /\ tokenMap'[c] = {}
        /\ \A k \in Conversation : k # c => tokenMap'[k] = tokenMap[k]
        /\ pc'[d] = "done"
        /\ \A q \in Proc : q # d => pc'[q] = pc[q]
        /\ \A q \in Chat : inserted'[q] = inserted[q]
    BY <1>4, KindsDisjoint DEF CommitDelete, Finish, Deleting, TypeInv, TypeOK, Proc
  <2>2. \A q \in Chat : conv[q] = c => inserted[q] = {}
    BY <2>1 DEF MapInv, DeleterAlone
  <2>3. \A q \in Proc : conv[q] \in Conversation
    BY DEF TypeInv, TypeOK
  <2>4. RowsOwned'
    BY <2>1, <2>2, KindsDisjoint DEF MapInv, RowsOwned, Proc
  <2>5. DeleterAlone'
    <3>1. ASSUME NEW q \in Delete, Deleting(q)'
          PROVE  q # d /\ Deleting(q) /\ conv[q] # c
      BY <2>1, <3>1 DEF MapInv, DeleterAlone, Deleting, Proc
    <3>2. QED BY <2>1, <3>1 DEF MapInv, DeleterAlone, Deleting, Proc
  <2>6. MapUnique'
    <3>1. \A k \in Conversation : Map!Functional(tokenMap'[k])
      BY <2>1 DEF MapInv, MapUnique, Map!Functional
    <3>2. \A q \in Chat : Map!Functional(tokenMap'[conv[q]] \cup inserted'[q])
      BY <2>1, <2>2, <2>3 DEF MapInv, MapUnique, UniquePlaceholder, Map!Functional, Proc
    <3>3. QED
      BY <2>1, <3>1, <3>2 DEF MapInv, MapUnique, UniquePlaceholder, Map!Functional, Placeholders
  <2>7. QED BY <2>4, <2>5, <2>6 DEF MapInv
<1>5. CASE AbortDeadlocked(d)
  BY <1>5, MapInvFail DEF AbortDeadlocked, Proc
<1>6. QED BY <1>1, <1>2, <1>3, <1>4, <1>5 DEF DeleteStep

LEMMA MapInvArrive ==
  ASSUME TypeInv, MapInv, Arrive
  PROVE  MapInv'
<1>1. ASSUME NEW r \in Chat, NEW prompt \in Prompt, EnsureConversation(r, prompt)
      PROVE  MapInv'
  <2>1. /\ UNCHANGED <<tokenMap, conv, inserted>>
        /\ conversations \subseteq conversations'
        /\ pc[r] = "idle"
        /\ \A q \in Proc : q # r => pc'[q] = pc[q]
    BY <1>1 DEF EnsureConversation, Begin, TypeInv, TypeOK, Proc
  <2>2. RowsOwned'
    BY <2>1 DEF MapInv, RowsOwned, Proc
  <2>3. DeleterAlone'
    BY <2>1, KindsDisjoint DEF MapInv, DeleterAlone, Deleting, Proc
  <2>4. MapUnique'
    BY <2>1 DEF MapInv, MapUnique, UniquePlaceholder, Map!Functional, Placeholders
  <2>5. QED BY <2>2, <2>3, <2>4 DEF MapInv
<1>2. ASSUME NEW g \in Reload, StartReload(g)
      PROVE  MapInv'
  BY <1>2, KindsDisjoint, MapInvQuiet
     DEF StartReload, Begin, store, local, TypeInv, TypeOK, Proc, Deleting
<1>3. ASSUME NEW d \in Delete, DeleteRows(d)
      PROVE  MapInv'
  BY <1>3, KindsDisjoint, MapInvQuiet
     DEF DeleteRows, Begin, store, local, TypeInv, TypeOK, Proc, Deleting
<1>4. QED BY <1>1, <1>2, <1>3 DEF Arrive

LEMMA MapInvNext == TypeInv /\ MapInv /\ [Next]_vars => MapInv'
<1> SUFFICES ASSUME TypeInv, MapInv, [Next]_vars
             PROVE  MapInv'
  OBVIOUS
<1>1. ASSUME NEW c \in Conversation, Expire(c)
      PROVE  MapInv'
  BY <1>1, MapInvQuiet DEF Expire, store, local, Deleting
<1>2. CASE Crash
  <2>1. /\ \A p \in Proc : pc'[p] \in {pc[p], "failed"}
        /\ \A r \in Chat : inserted'[r] = {}
        /\ UNCHANGED <<conversations, tokenMap, conv>>
    BY <1>2 DEF Crash, store
  <2>2. QED BY <2>1, MapInvQuiet DEF Deleting, Proc
<1>3. CASE UNCHANGED vars
  BY <1>3, MapInvQuiet DEF vars, store, local, Deleting
<1>4. QED
  BY <1>1, <1>2, <1>3, MapInvArrive, MapInvChat, MapInvLoad, MapInvDelete, MapInvFail DEF Next

\* One value per placeholder, in the committed map and across open transactions.
THEOREM Uniqueness == Spec => []UniquePlaceholder
<1>1. MapInv => UniquePlaceholder
  BY DEF MapInv, MapUnique
<1>2. QED BY <1>1, TypeInvInit, TypeInvNext, MapInvInit, MapInvNext, PTL DEF Spec
--------------------------------------------------------------------------------
(* The vault implements ConversationMap. *)

\* Only three actions touch the committed tables.
LEMMA TableSteps ==
  ASSUME [Next]_vars
  PROVE  \/ UNCHANGED <<conversations, tokenMap>>
         \/ \E r \in Chat : conversations' = conversations \cup {conv[r]} /\ UNCHANGED tokenMap
         \/ \E r \in Chat : CommitPrepare(r)
         \/ \E d \in Delete : CommitDelete(d)
<1>1. CASE UNCHANGED vars
  BY <1>1 DEF vars, store
<1>2. CASE Arrive
  BY <1>2 DEF Arrive, EnsureConversation, StartReload, DeleteRows, store
<1>3. ASSUME NEW p \in Proc, Fail(p)
      PROVE  UNCHANGED <<conversations, tokenMap>>
  BY <1>3 DEF Fail, store
<1>4. ASSUME NEW p, LoadStep(p)
      PROVE  UNCHANGED <<conversations, tokenMap>>
  BY <1>4 DEF LoadStep, LoadFromCache, LoadFromDb, CacheRows, store
<1>5. ASSUME NEW r \in Chat, ChatStep(r), ~ CommitPrepare(r)
      PROVE  UNCHANGED <<conversations, tokenMap>>
  BY <1>4, <1>5 DEF ChatStep, Tokenise, Redacted, Blocked, RedactorFails, InsertRow, SkipRow,
     InsertFails, EvictCache, AuditBlocked, AuditRedacted, Forward, Respond, AbortDeadlocked,
     Fail, store
<1>6. ASSUME NEW d \in Delete, DeleteStep(d), ~ CommitDelete(d)
      PROVE  UNCHANGED <<conversations, tokenMap>>
  BY <1>6 DEF DeleteStep, DeleteConversationRow, DeleteMissing, EvictDeleted, AbortDeadlocked,
     Fail, store
<1>7. CASE (\E c \in Conversation : Expire(c)) \/ Crash
  BY <1>7 DEF Expire, Crash, store
<1>8. QED BY <1>1, <1>2, <1>3, <1>4, <1>5, <1>6, <1>7 DEF Next

LEMMA MapStep ==
  ASSUME TypeInv, MapInv, MapInv', [Next]_vars
  PROVE  [Map!MapNext]_Map!mapVars
<1> USE DEF Map!mapVars
<1>1. CASE UNCHANGED <<conversations, tokenMap>>
  BY <1>1
<1>2. ASSUME NEW r \in Chat, conversations' = conversations \cup {conv[r]}, UNCHANGED tokenMap
      PROVE  [Map!MapNext]_Map!mapVars
  <2>1. conv[r] \in Conversation
    BY DEF TypeInv, TypeOK, Proc
  <2>2. CASE conv[r] \in conversations
    BY <1>2, <2>2
  <2>3. CASE conv[r] \notin conversations
    BY <1>2, <2>1, <2>3 DEF Map!MapNext, Map!Create
  <2>4. QED BY <2>2, <2>3
<1>3. ASSUME NEW r \in Chat, CommitPrepare(r)
      PROVE  [Map!MapNext]_Map!mapVars
  <2>1. /\ conv[r] \in Conversation
        /\ inserted[r] \in SUBSET Row
        /\ tokenMap' = [tokenMap EXCEPT ![conv[r]] = @ \cup inserted[r]]
        /\ UNCHANGED conversations
    BY <1>3 DEF CommitPrepare, TypeInv, TypeOK, Proc
  <2>2. CASE inserted[r] = {}
    <3>1. tokenMap[conv[r]] \cup inserted[r] = tokenMap[conv[r]]
      BY <2>2
    <3>2. UNCHANGED tokenMap
      BY <2>1, <3>1 DEF TypeInv, TypeOK
    <3>3. QED BY <2>1, <3>2
  <2>3. CASE inserted[r] # {}
    <3>1. conv[r] \in conversations
      BY <2>3 DEF MapInv, RowsOwned
    <3>2. Map!Functional(tokenMap[conv[r]] \cup inserted[r])
      BY DEF MapInv, MapUnique, UniquePlaceholder
    <3>3. Map!Record(conv[r], inserted[r])
      BY <2>1, <3>1, <3>2 DEF Map!Record
    <3>4. QED BY <2>1, <3>3 DEF Map!MapNext
  <2>4. QED BY <2>2, <2>3
<1>4. ASSUME NEW d \in Delete, CommitDelete(d)
      PROVE  [Map!MapNext]_Map!mapVars
  <2>1. conv[d] \in Conversation /\ conv[d] \in conversations
    BY <1>4 DEF CommitDelete, MapInv, DeleterAlone, Deleting, TypeInv, TypeOK, Proc
  <2>2. Map!Erase(conv[d])
    BY <1>4, <2>1 DEF CommitDelete, Map!Erase
  <2>3. QED BY <2>1, <2>2 DEF Map!MapNext
<1>5. QED BY <1>1, <1>2, <1>3, <1>4, TableSteps

\* Under every interleaving of turns, reloads, deletions, failures and restarts
\* the committed tables behave as ConversationMap says.
THEOREM Refinement == Spec => ImplementsMap
<1>1. Init => Map!MapInit
  BY DEF Init, Map!MapInit
<1>2. TypeInv /\ MapInv /\ MapInv' /\ [Next]_vars => [Map!MapNext]_Map!mapVars
  BY MapStep
<1>3. QED
  BY <1>1, <1>2, TypeInvInit, TypeInvNext, MapInvInit, MapInvNext, PTL
     DEF Spec, ImplementsMap, Map!MapSpec
--------------------------------------------------------------------------------
(* What one step means to one request. *)

\* A step of somebody else.
Untouched(q) ==
  /\ pc'[q] = pc[q]
  /\ rows'[q] = rows[q]
  /\ q \in Chat => /\ todo'[q] = todo[q] /\ fresh'[q] = fresh[q]
                   /\ inserted'[q] = inserted[q] /\ sent'[q] = sent[q]

\* q ends, or had ended or not begun, with nothing in its hands.
Dropped(q) ==
  /\ pc'[q] \in {"idle"} \cup Ended
  /\ pc'[q] # "failed" => pc[q] = pc'[q]
  /\ rows'[q] = {}
  /\ q \in Chat => fresh'[q] = << >> /\ inserted'[q] = {} /\ sent'[q] = {}

LEMMA FinishOthers ==
  ASSUME TypeInv, NEW p \in Proc, NEW at, Finish(p, at), NEW q \in Proc, q # p
  PROVE  Untouched(q)
  BY DEF Finish, Untouched, TypeInv, TypeOK

LEMMA FailDrops ==
  ASSUME TypeInv, NEW p \in Proc, Fail(p)
  PROVE  Dropped(p)
  BY DEF Fail, Finish, Dropped, TypeInv, TypeOK, Ended

LEMMA LoadOthers ==
  ASSUME TypeInv, NEW p \in Proc, LoadStep(p), NEW q \in Proc, q # p
  PROVE  Untouched(q)
  BY DEF LoadStep, LoadFromCache, LoadFromDb, CacheRows, local, Untouched, TypeInv, TypeOK

LEMMA ChatOthers ==
  ASSUME TypeInv, NEW p \in Chat, ChatStep(p), NEW q \in Proc, q # p
  PROVE  Untouched(q)
<1> USE DEF Proc
<1>1. CASE LoadStep(p)
  BY <1>1, LoadOthers
<1>2. CASE Tokenise(p)
  BY <1>2 DEF Tokenise, Untouched, TypeInv, TypeOK
<1>3. CASE Redacted(p) \/ Blocked(p) \/ EvictCache(p) \/ AuditRedacted(p) \/ Forward(p)
  BY <1>3 DEF Redacted, Blocked, EvictCache, AuditRedacted, Forward, local, Untouched, TypeInv, TypeOK
<1>4. CASE RedactorFails(p) \/ InsertFails(p) \/ AbortDeadlocked(p)
  BY <1>4, FinishOthers DEF RedactorFails, InsertFails, AbortDeadlocked, Fail
<1>5. CASE InsertRow(p) \/ SkipRow(p)
  BY <1>5 DEF InsertRow, SkipRow, Inserted, Untouched, TypeInv, TypeOK
<1>6. CASE CommitPrepare(p)
  BY <1>6 DEF CommitPrepare, Untouched, TypeInv, TypeOK
<1>7. CASE AuditBlocked(p) \/ Respond(p)
  BY <1>7, FinishOthers DEF AuditBlocked, Respond
<1>8. QED BY <1>1, <1>2, <1>3, <1>4, <1>5, <1>6, <1>7 DEF ChatStep

LEMMA DeleteOthers ==
  ASSUME TypeInv, NEW p \in Delete, DeleteStep(p), NEW q \in Proc, q # p
  PROVE  Untouched(q)
<1> USE DEF Proc
<1>1. CASE DeleteConversationRow(p) \/ EvictDeleted(p)
  BY <1>1 DEF DeleteConversationRow, EvictDeleted, local, Untouched, TypeInv, TypeOK
<1>2. CASE DeleteMissing(p) \/ CommitDelete(p)
  BY <1>2, FinishOthers DEF DeleteMissing, CommitDelete
<1>3. CASE AbortDeadlocked(p)
  BY <1>3, FinishOthers DEF AbortDeadlocked, Fail
<1>4. QED BY <1>1, <1>2, <1>3 DEF DeleteStep

\* Every step is somebody else's, the request's own, or ends it.
LEMMA StepsOfChat ==
  ASSUME TypeInv, [Next]_vars, NEW q \in Chat
  PROVE  \/ Untouched(q)
         \/ Dropped(q)
         \/ \E prompt \in Prompt : EnsureConversation(q, prompt)
         \/ ChatStep(q)
<1> USE DEF Proc
<1>1. CASE UNCHANGED vars
  BY <1>1 DEF vars, local, Untouched
<1>2. CASE Arrive
  <2>1. ASSUME NEW r \in Chat, NEW prompt \in Prompt, EnsureConversation(r, prompt), r # q
        PROVE  Untouched(q)
    BY <2>1 DEF EnsureConversation, Begin, Untouched, TypeInv, TypeOK
  <2>2. ASSUME NEW g \in Reload, StartReload(g)
        PROVE  Untouched(q)
    BY <2>2, KindsDisjoint DEF StartReload, Begin, local, Untouched, TypeInv, TypeOK
  <2>3. ASSUME NEW d \in Delete, DeleteRows(d)
        PROVE  Untouched(q)
    BY <2>3, KindsDisjoint DEF DeleteRows, Begin, local, Untouched, TypeInv, TypeOK
  <2>4. QED BY <1>2, <2>1, <2>2, <2>3 DEF Arrive
<1>3. ASSUME NEW p \in Chat, ChatStep(p), p # q
      PROVE  Untouched(q)
  BY <1>3, ChatOthers
<1>4. ASSUME NEW p \in Reload, LoadStep(p)
      PROVE  Untouched(q)
  BY <1>4, KindsDisjoint, LoadOthers
<1>5. ASSUME NEW p \in Delete, DeleteStep(p)
      PROVE  Untouched(q)
  BY <1>5, KindsDisjoint, DeleteOthers
<1>6. ASSUME NEW p \in Proc, Fail(p)
      PROVE  Untouched(q) \/ Dropped(q)
  BY <1>6, FailDrops, FinishOthers DEF Fail
<1>7. ASSUME NEW c \in Conversation, Expire(c)
      PROVE  Untouched(q)
  BY <1>7 DEF Expire, local, Untouched
<1>8. CASE Crash
  BY <1>8 DEF Crash, Active, Dropped, TypeInv, TypeOK, Ended
<1>9. QED BY <1>1, <1>2, <1>3, <1>4, <1>5, <1>6, <1>7, <1>8 DEF Next

LEMMA StepsOfReload ==
  ASSUME TypeInv, [Next]_vars, NEW q \in Reload
  PROVE  Untouched(q) \/ Dropped(q) \/ StartReload(q) \/ LoadStep(q)
<1> USE DEF Proc
<1>1. CASE UNCHANGED vars
  BY <1>1, KindsDisjoint DEF vars, local, Untouched
<1>2. CASE Arrive
  <2>1. ASSUME NEW r \in Chat, NEW prompt \in Prompt, EnsureConversation(r, prompt)
        PROVE  Untouched(q)
    BY <2>1, KindsDisjoint DEF EnsureConversation, Begin, Untouched, TypeInv, TypeOK
  <2>2. ASSUME NEW g \in Reload, StartReload(g), g # q
        PROVE  Untouched(q)
    BY <2>2, KindsDisjoint DEF StartReload, Begin, local, Untouched, TypeInv, TypeOK
  <2>3. ASSUME NEW d \in Delete, DeleteRows(d)
        PROVE  Untouched(q)
    BY <2>3, KindsDisjoint DEF DeleteRows, Begin, local, Untouched, TypeInv, TypeOK
  <2>4. QED BY <1>2, <2>1, <2>2, <2>3 DEF Arrive
<1>3. ASSUME NEW p \in Chat, ChatStep(p)
      PROVE  Untouched(q)
  BY <1>3, KindsDisjoint, ChatOthers
<1>4. ASSUME NEW p \in Reload, LoadStep(p), p # q
      PROVE  Untouched(q)
  BY <1>4, LoadOthers
<1>5. ASSUME NEW p \in Delete, DeleteStep(p)
      PROVE  Untouched(q)
  BY <1>5, KindsDisjoint, DeleteOthers
<1>6. ASSUME NEW p \in Proc, Fail(p)
      PROVE  Untouched(q) \/ Dropped(q)
  BY <1>6, FailDrops, FinishOthers DEF Fail
<1>7. ASSUME NEW c \in Conversation, Expire(c)
      PROVE  Untouched(q)
  BY <1>7, KindsDisjoint DEF Expire, local, Untouched
<1>8. CASE Crash
  BY <1>8, KindsDisjoint DEF Crash, Active, Dropped, TypeInv, TypeOK, Ended
<1>9. QED BY <1>1, <1>2, <1>3, <1>4, <1>5, <1>6, <1>7, <1>8 DEF Next
--------------------------------------------------------------------------------
(* The cache: as long as a conversation is not deleted, what is cached or on *)
(* its way into the cache is in the committed map.                           *)

LEMMA MapGrows ==
  ASSUME TypeInv, [Next]_vars
  PROVE  /\ erased \subseteq erased'
         /\ \A c \in Conversation \ erased' : tokenMap[c] \subseteq tokenMap'[c]
         /\ conv' = conv
<1>1. CASE UNCHANGED <<tokenMap, erased, conv>>
  BY <1>1
<1>2. ASSUME NEW p, LoadStep(p)
      PROVE  UNCHANGED <<tokenMap, erased, conv>>
  BY <1>2 DEF LoadStep, LoadFromCache, LoadFromDb, CacheRows, store, ghosts
<1>3. ASSUME NEW r \in Chat, ChatStep(r), ~ CommitPrepare(r)
      PROVE  UNCHANGED <<tokenMap, erased, conv>>
  BY <1>2, <1>3 DEF ChatStep, Tokenise, Redacted, Blocked, RedactorFails, InsertRow, SkipRow,
     InsertFails, EvictCache, AuditBlocked, AuditRedacted, Forward, Respond, AbortDeadlocked,
     Fail, store, ghosts
<1>4. ASSUME NEW d \in Delete, DeleteStep(d), ~ CommitDelete(d)
      PROVE  UNCHANGED <<tokenMap, erased, conv>>
  BY <1>4 DEF DeleteStep, DeleteConversationRow, DeleteMissing, EvictDeleted, AbortDeadlocked,
     Fail, store, ghosts
<1>5. CASE Arrive
  BY <1>5 DEF Arrive, EnsureConversation, StartReload, DeleteRows, store
<1>6. ASSUME NEW r \in Chat, CommitPrepare(r)
      PROVE  /\ UNCHANGED <<erased, conv>>
             /\ \A c \in Conversation : tokenMap[c] \subseteq tokenMap'[c]
  BY <1>6 DEF CommitPrepare, ghosts, TypeInv, TypeOK
<1>7. ASSUME NEW d \in Delete, CommitDelete(d)
      PROVE  /\ erased' = erased \cup {conv[d]}
             /\ UNCHANGED conv
             /\ \A c \in Conversation : c # conv[d] => tokenMap'[c] = tokenMap[c]
  BY <1>7 DEF CommitDelete, TypeInv, TypeOK
<1>8. CASE (\E p \in Proc : Fail(p)) \/ (\E c \in Conversation : Expire(c)) \/ Crash \/ UNCHANGED vars
  BY <1>8 DEF Fail, Expire, Crash, vars, store, ghosts
<1>9. QED BY <1>1, <1>2, <1>3, <1>4, <1>5, <1>6, <1>7, <1>8 DEF Next

Serving == {"fill", "refill", "forward", "respond"}

\* The rows a request serves or caches come from the map or from the cache.
LEMMA RowsSource ==
  ASSUME TypeInv, [Next]_vars, NEW p \in Chat \cup Reload, pc'[p] \in Serving
  PROVE  \/ pc[p] \in Serving /\ rows'[p] = rows[p]
         \/ rows'[p] = tokenMap[conv[p]]
         \/ cache[conv[p]] # NoEntry /\ rows'[p] = cache[conv[p]]
<1> USE DEF Proc, Serving
<1>1. CASE Untouched(p)
  BY <1>1 DEF Untouched
<1>2. CASE Dropped(p)
  BY <1>2 DEF Dropped, Ended
<1>3. CASE LoadStep(p)
  BY <1>3 DEF LoadStep, LoadFromCache, LoadFromDb, CacheRows, TypeInv, TypeOK
<1>4. ASSUME NEW prompt \in Prompt, p \in Chat, EnsureConversation(p, prompt)
      PROVE  FALSE
  BY <1>4 DEF EnsureConversation, Begin, TypeInv, TypeOK
<1>5. CASE p \in Reload /\ StartReload(p)
  BY <1>5 DEF StartReload, Begin, TypeInv, TypeOK
<1>6. CASE p \in Chat /\ ChatStep(p) /\ ~ LoadStep(p)
  <2>1. Forward(p)
    <3>1. CASE Tokenise(p)
      BY <3>1 DEF Tokenise
    <3>2. CASE Redacted(p) \/ Blocked(p) \/ EvictCache(p) \/ AuditRedacted(p) \/ CommitPrepare(p)
      BY <3>2 DEF Redacted, Blocked, EvictCache, AuditRedacted, CommitPrepare, TypeInv, TypeOK
    <3>3. CASE RedactorFails(p) \/ InsertFails(p) \/ AbortDeadlocked(p) \/ AuditBlocked(p) \/ Respond(p)
      BY <3>3 DEF RedactorFails, InsertFails, AbortDeadlocked, AuditBlocked, Respond, Fail, Finish,
         TypeInv, TypeOK
    <3>4. CASE InsertRow(p) \/ SkipRow(p)
      BY <3>4 DEF InsertRow, SkipRow, Inserted, TypeInv, TypeOK
    <3>5. QED BY <1>6, <3>1, <3>2, <3>3, <3>4 DEF ChatStep
  <2>2. QED BY <2>1 DEF Forward
<1>7. QED BY <1>1, <1>2, <1>3, <1>4, <1>5, <1>6, StepsOfChat, StepsOfReload

\* The cache only loses entries or receives rows from a request about to fill it.
LEMMA CacheSource ==
  ASSUME TypeInv, [Next]_vars, NEW c \in Conversation
  PROVE  \/ cache'[c] \in {cache[c], NoEntry}
         \/ \E p \in Chat \cup Reload :
              pc[p] \in {"fill", "refill"} /\ conv[p] = c /\ cache'[c] = rows[p]
<1> USE DEF Proc
<1>1. CASE UNCHANGED cache
  BY <1>1
<1>2. ASSUME NEW k, CacheEvict(k)
      PROVE  cache'[c] \in {cache[c], NoEntry}
  BY <1>2 DEF CacheEvict, TypeInv, TypeOK
<1>3. ASSUME NEW p \in Chat \cup Reload, LoadStep(p)
      PROVE  \/ cache'[c] = cache[c]
             \/ pc[p] \in {"fill", "refill"} /\ conv[p] = c /\ cache'[c] = rows[p]
  BY <1>3 DEF LoadStep, LoadFromCache, LoadFromDb, CacheRows, CacheWrite, TypeInv, TypeOK
<1>4. ASSUME NEW r \in Chat, ChatStep(r), ~ LoadStep(r)
      PROVE  UNCHANGED cache \/ CacheEvict(conv[r])
  BY <1>4 DEF ChatStep, Tokenise, Redacted, Blocked, RedactorFails, InsertRow, SkipRow,
     InsertFails, EvictCache, CommitPrepare, AuditBlocked, AuditRedacted, Forward, Respond,
     AbortDeadlocked, Fail
<1>5. ASSUME NEW d \in Delete, DeleteStep(d)
      PROVE  UNCHANGED cache \/ CacheEvict(conv[d])
  BY <1>5 DEF DeleteStep, DeleteConversationRow, DeleteMissing, EvictDeleted, CommitDelete,
     AbortDeadlocked, Fail
<1>6. CASE Arrive
  BY <1>6 DEF Arrive, EnsureConversation, StartReload, DeleteRows
<1>7. ASSUME NEW k \in Conversation, Expire(k)
      PROVE  cache'[c] \in {cache[c], NoEntry}
  BY <1>7 DEF Expire, TypeInv, TypeOK
<1>8. CASE (\E p \in Proc : Fail(p)) \/ Crash \/ UNCHANGED vars
  BY <1>8 DEF Fail, Crash, vars
<1>9. QED BY <1>1, <1>2, <1>3, <1>4, <1>5, <1>6, <1>7, <1>8 DEF Next

LEMMA CacheSoundNext == TypeInv /\ CacheSound /\ [Next]_vars => CacheSound'
<1> SUFFICES ASSUME TypeInv, CacheSound, [Next]_vars, NEW c \in Conversation \ erased'
             PROVE  /\ cache'[c] # NoEntry => cache'[c] \subseteq tokenMap'[c]
                    /\ \A p \in Chat \cup Reload :
                         conv'[p] = c /\ pc'[p] \in Serving => rows'[p] \subseteq tokenMap'[c]
  BY DEF CacheSound, Serving
<1>1. c \notin erased /\ tokenMap[c] \subseteq tokenMap'[c] /\ conv' = conv
  BY MapGrows
<1>2. /\ cache[c] # NoEntry => cache[c] \subseteq tokenMap[c]
      /\ \A p \in Chat \cup Reload :
           conv[p] = c /\ pc[p] \in Serving => rows[p] \subseteq tokenMap[c]
  BY <1>1 DEF CacheSound, Serving
<1>3. cache'[c] # NoEntry => cache'[c] \subseteq tokenMap'[c]
  BY <1>1, <1>2, CacheSource DEF Serving
<1>4. ASSUME NEW p \in Chat \cup Reload, conv'[p] = c, pc'[p] \in Serving
      PROVE  rows'[p] \subseteq tokenMap'[c]
  BY <1>1, <1>2, <1>4, RowsSource
<1>5. QED BY <1>3, <1>4

\* Whatever races with whatever, a conversation that was never deleted has no
\* wrong row in the cache, and no request resolves placeholders with one.
THEOREM CacheNeverWrong == Spec => []CacheSound
<1>1. Init => CacheSound
  BY DEF Init, CacheSound, Proc
<1>2. QED BY <1>1, CacheSoundNext, TypeInvInit, TypeInvNext, PTL DEF Spec
--------------------------------------------------------------------------------
(* Every placeholder of a forwarded prompt has a committed row.            *)

\* The placeholders of a sequence of rows.
Queued(s) == {s[i].ph : i \in 1..Len(s)}

LEMMA QueuedAppend ==
  ASSUME NEW s \in Seq(Row), NEW e \in Row
  PROVE  Queued(Append(s, e)) = Queued(s) \cup {e.ph}
<1>1. /\ Len(Append(s, e)) = Len(s) + 1
      /\ Len(s) \in Nat
      /\ \A i \in 1..Len(s) : Append(s, e)[i] = s[i]
      /\ Append(s, e)[Len(s) + 1] = e
  OBVIOUS
<1>2. 1..Len(Append(s, e)) = 1..Len(s) \cup {Len(s) + 1}
  BY <1>1
<1>3. QED BY <1>1, <1>2 DEF Queued

LEMMA QueuedTail ==
  ASSUME NEW s \in Seq(Row), s # << >>
  PROVE  Queued(s) = {Head(s).ph} \cup Queued(Tail(s))
<1>1. /\ Len(s) \in Nat /\ Len(s) >= 1
      /\ Len(Tail(s)) = Len(s) - 1
      /\ Head(s) = s[1]
      /\ \A i \in 1..Len(Tail(s)) : Tail(s)[i] = s[i + 1]
  OBVIOUS
<1>2. ASSUME NEW i \in 1..Len(s)
      PROVE  s[i].ph \in {Head(s).ph} \cup Queued(Tail(s))
  <2>1. CASE i = 1
    BY <1>1, <2>1
  <2>2. CASE i # 1
    <3>1. i - 1 \in 1..Len(Tail(s)) /\ Tail(s)[i - 1] = s[i]
      BY <1>1, <2>2
    <3>2. QED BY <3>1 DEF Queued
  <2>3. QED BY <2>1, <2>2
<1>3. ASSUME NEW i \in 1..Len(Tail(s))
      PROVE  Tail(s)[i].ph \in Queued(s)
  <2>1. i + 1 \in 1..Len(s) /\ Tail(s)[i] = s[i + 1]
    BY <1>1
  <2>2. QED BY <2>1 DEF Queued
<1>4. 1 \in 1..Len(s)
  BY <1>1
<1>5. Head(s).ph \in Queued(s)
  BY <1>1, <1>4 DEF Queued
<1>6. QED BY <1>2, <1>3, <1>5 DEF Queued

\* What r can rely on finding in its conversation when its transaction commits.
Kept(r) == Placeholders(tokenMap[conv[r]] \cup inserted[r]) \cup Queued(fresh[r])

Preparing == {"redact", "insert", "evict", "commit"}
Prepared == {"audit", "resolve", "refill", "forward", "respond"}

SentOf(r) ==
  /\ pc[r] \in {"idle", "load", "fill"} => sent[r] = {} /\ fresh[r] = << >>
  /\ pc[r] \in {"evict", "commit"} => fresh[r] = << >>
  /\ conv[r] \notin erased =>
       /\ pc[r] = "redact" => Placeholders(rows[r]) \subseteq Kept(r)
       /\ pc[r] \in Preparing => Placeholders(sent[r]) \subseteq Kept(r)
       /\ pc[r] \in Prepared => Placeholders(sent[r]) \subseteq Placeholders(tokenMap[conv[r]])

SentInv == \A r \in Chat : SentOf(r)

LEMMA SentInvInit == Init => SentInv
  BY DEF Init, SentInv, SentOf, Preparing, Prepared, Proc

LEMMA SentOfLoad ==
  ASSUME TypeInv, CacheSound, [Next]_vars, NEW r \in Chat, SentOf(r), LoadStep(r)
  PROVE  SentOf(r)'
<1> USE DEF Proc
<1>1. /\ conv' = conv
      /\ tokenMap' = tokenMap /\ erased' = erased
      /\ UNCHANGED <<fresh, inserted, sent>>
      /\ conv[r] \in Conversation
  BY DEF LoadStep, LoadFromCache, LoadFromDb, CacheRows, store, local, ghosts, TypeInv, TypeOK
<1>2. conv[r] \notin erased /\ pc'[r] = "redact" => rows'[r] \subseteq tokenMap[conv[r]]
  <2>1. CASE LoadFromCache(r)
    BY <1>1, <2>1, CacheSoundNext DEF LoadFromCache, CacheSound, TypeInv, TypeOK
  <2>2. CASE LoadFromDb(r)
    BY <2>2 DEF LoadFromDb, TypeInv, TypeOK
  <2>3. CASE CacheRows(r)
    BY <1>1, <2>3 DEF CacheRows, CacheSound, TypeInv, TypeOK
  <2>4. QED BY <2>1, <2>2, <2>3 DEF LoadStep
<1>3. /\ pc[r] \in {"load", "fill"} => pc'[r] \in {"fill", "redact"}
      /\ pc[r] \in {"resolve", "refill"} => pc'[r] \in {"refill", "forward"}
      /\ pc[r] \in {"load", "fill", "resolve", "refill"}
  BY KindsDisjoint DEF LoadStep, LoadFromCache, LoadFromDb, CacheRows, AfterLoad, TypeInv, TypeOK
<1>4. QED BY <1>1, <1>2, <1>3 DEF SentOf, Kept, Placeholders, Preparing, Prepared

LEMMA SentOfTokenise ==
  ASSUME TypeInv, NEW r \in Chat, SentOf(r), Tokenise(r)
  PROVE  SentOf(r)'
<1> USE DEF Proc
<1>1. /\ UNCHANGED <<tokenMap, erased, conv, inserted, pc>>
      /\ pc[r] = "redact"
      /\ todo[r] \in Seq(Value) /\ todo[r] # << >>
      /\ Head(todo[r]) \in Value
      /\ fresh[r] \in Seq(Row)
  BY DEF Tokenise, store, ghosts, TypeInv, TypeOK
<1>2. CASE \E e \in rows[r] : sent' = [sent EXCEPT ![r] = @ \cup {e}] /\ UNCHANGED <<rows, fresh>>
  <2>1. PICK e \in rows[r] : sent'[r] = sent[r] \cup {e} /\ UNCHANGED <<rows, fresh>>
    BY <1>2 DEF TypeInv, TypeOK
  <2>2. QED BY <1>1, <2>1 DEF SentOf, Kept, Placeholders, Preparing, Prepared
<1>3. CASE \E new \in Row :
             /\ rows' = [rows EXCEPT ![r] = @ \cup {new}]
             /\ fresh' = [fresh EXCEPT ![r] = Append(@, new)]
             /\ sent' = [sent EXCEPT ![r] = @ \cup {new}]
  <2>1. PICK new \in Row :
             /\ rows'[r] = rows[r] \cup {new}
             /\ fresh'[r] = Append(fresh[r], new)
             /\ sent'[r] = sent[r] \cup {new}
    BY <1>3 DEF TypeInv, TypeOK
  <2>2. Queued(fresh'[r]) = Queued(fresh[r]) \cup {new.ph}
    BY <1>1, <2>1, QueuedAppend
  <2>3. QED BY <1>1, <2>1, <2>2 DEF SentOf, Kept, Placeholders, Preparing, Prepared
<1>4. QED
  BY <1>1, <1>2, <1>3, ValuesTyped DEF Tokenise, Row, Placeholder

LEMMA SentOfInsert ==
  ASSUME TypeInv, NEW r \in Chat, SentOf(r), InsertRow(r) \/ SkipRow(r)
  PROVE  SentOf(r)'
<1> USE DEF Proc
<1>1. /\ UNCHANGED <<tokenMap, erased, conv, sent>>
      /\ pc[r] = "insert"
      /\ fresh[r] \in Seq(Row) /\ fresh[r] # << >>
      /\ fresh'[r] = Tail(fresh[r])
      /\ pc'[r] = IF Tail(fresh[r]) = << >> THEN "evict" ELSE "insert"
  BY DEF InsertRow, SkipRow, Inserted, store, ghosts, TypeInv, TypeOK, ControlOK
<1>2. /\ inserted[r] \subseteq inserted'[r]
      /\ Head(fresh[r]).ph \in Placeholders(tokenMap[conv[r]] \cup inserted'[r])
  BY DEF InsertRow, SkipRow, Conflict, Placeholders, TypeInv, TypeOK
<1>3. Queued(fresh[r]) = {Head(fresh[r]).ph} \cup Queued(fresh'[r])
  BY <1>1, QueuedTail
<1>4. Kept(r) \subseteq Kept(r)'
  BY <1>1, <1>2, <1>3 DEF Kept, Placeholders
<1>5. QED BY <1>1, <1>4 DEF SentOf, Preparing, Prepared

LEMMA SentOfCommit ==
  ASSUME TypeInv, NEW r \in Chat, SentOf(r), CommitPrepare(r)
  PROVE  SentOf(r)'
<1>1. /\ UNCHANGED <<erased, conv, sent, fresh>>
      /\ pc[r] = "commit" /\ pc'[r] = "audit"
      /\ tokenMap'[conv[r]] = tokenMap[conv[r]] \cup inserted[r]
      /\ fresh[r] = << >>
  BY DEF CommitPrepare, ghosts, TypeInv, TypeOK, Proc, SentOf
<1>2. Queued(<< >>) = {}
  BY DEF Queued
<1>3. QED BY <1>1, <1>2 DEF SentOf, Kept, Preparing, Prepared

LEMMA SentOfChat ==
  ASSUME TypeInv, CacheSound, [Next]_vars, NEW r \in Chat, SentOf(r), ChatStep(r)
  PROVE  SentOf(r)' \/ Dropped(r)
<1> USE DEF Proc
<1>1. CASE LoadStep(r)
  BY <1>1, SentOfLoad
<1>2. CASE Tokenise(r)
  BY <1>2, SentOfTokenise
<1>3. CASE InsertRow(r) \/ SkipRow(r)
  BY <1>3, SentOfInsert
<1>4. CASE CommitPrepare(r)
  BY <1>4, SentOfCommit
<1>5. CASE RedactorFails(r) \/ InsertFails(r) \/ AbortDeadlocked(r)
  BY <1>5, FailDrops DEF RedactorFails, InsertFails, AbortDeadlocked
<1>6. CASE AuditBlocked(r) \/ Respond(r)
  BY <1>6 DEF AuditBlocked, Respond, Finish, SentOf, Preparing, Prepared, TypeInv, TypeOK
<1>7. CASE Redacted(r) \/ Blocked(r) \/ EvictCache(r) \/ AuditRedacted(r) \/ Forward(r)
  <2>1. /\ UNCHANGED <<tokenMap, erased, conv, fresh, inserted, sent>>
        /\ \/ pc[r] = "redact" /\ pc'[r] = "insert"
           \/ pc[r] = "redact" /\ pc'[r] = "commit" /\ fresh[r] = << >>
           \/ pc[r] = "redact" /\ pc'[r] = "blocked"
           \/ pc[r] = "evict" /\ pc'[r] = "commit"
           \/ pc[r] = "audit" /\ pc'[r] = "resolve"
           \/ pc[r] = "forward" /\ pc'[r] = "respond"
    BY <1>7 DEF Redacted, Blocked, EvictCache, AuditRedacted, Forward, store, local, ghosts,
       TypeInv, TypeOK
  <2>2. QED BY <2>1 DEF SentOf, Kept, Placeholders, Preparing, Prepared
<1>8. QED BY <1>1, <1>2, <1>3, <1>4, <1>5, <1>6, <1>7 DEF ChatStep

LEMMA SentInvNext == TypeInv /\ CacheSound /\ SentInv /\ [Next]_vars => SentInv'
<1> SUFFICES ASSUME TypeInv, CacheSound, SentInv, [Next]_vars, NEW r \in Chat
             PROVE  SentOf(r)'
  BY DEF SentInv
<1> USE DEF Proc
<1>1. /\ SentOf(r)
      /\ conv[r] \in Conversation
      /\ erased \subseteq erased'
      /\ conv[r] \notin erased' => tokenMap[conv[r]] \subseteq tokenMap'[conv[r]]
      /\ conv' = conv
  BY MapGrows DEF SentInv, TypeInv, TypeOK
<1>2. CASE Untouched(r)
  <2>1. conv[r] \notin erased' =>
          /\ Placeholders(tokenMap[conv[r]]) \subseteq Placeholders(tokenMap[conv[r]])'
          /\ Kept(r) \subseteq Kept(r)'
    BY <1>1, <1>2 DEF Untouched, Kept, Placeholders
  <2>2. /\ pc'[r] = pc[r] /\ sent'[r] = sent[r] /\ fresh'[r] = fresh[r]
        /\ Placeholders(sent[r])' = Placeholders(sent[r])
        /\ Placeholders(rows[r])' = Placeholders(rows[r])
    BY <1>2 DEF Untouched, Placeholders
  <2> QED BY <1>1, <2>1, <2>2 DEF SentOf
<1>3. CASE Dropped(r)
  BY <1>3 DEF Dropped, SentOf, Ended, Preparing, Prepared
<1>4. ASSUME NEW prompt \in Prompt, EnsureConversation(r, prompt)
      PROVE  SentOf(r)'
  BY <1>1, <1>4 DEF EnsureConversation, Begin, SentOf, Preparing, Prepared, TypeInv, TypeOK
<1>5. CASE ChatStep(r)
  BY <1>1, <1>3, <1>5, SentOfChat
<1>6. QED BY <1>2, <1>3, <1>4, <1>5, StepsOfChat

\* Before a redacted prompt leaves, each of its placeholders has a committed row.
THEOREM Persisted == Spec => []SentIsPersisted
<1>1. SentInv => SentIsPersisted
  BY DEF SentInv, SentOf, SentIsPersisted, Prepared
<1>2. Init => CacheSound
  BY DEF Init, CacheSound, Proc
<1>3. QED
  BY <1>1, <1>2, CacheSoundNext, SentInvInit, SentInvNext, TypeInvInit, TypeInvNext, PTL DEF Spec
--------------------------------------------------------------------------------
(* Nothing is forwarded before its redaction is in the audit log.          *)

Logged(r) == <<r, "request.redacted">> \in audit

AuditedOf(r) ==
  /\ pc[r] \in {"resolve", "refill", "forward", "respond", "done"} => Logged(r)
  /\ pc[r] \in {"idle", "load", "fill", "redact", "insert", "evict", "commit", "audit",
                "blocked", "rejected"} => ~ Logged(r)

AuditInv == \A r \in Chat : AuditedOf(r)

\* Only AuditRedacted(r) writes r's request.redacted.
LEMMA LogSource ==
  ASSUME TypeInv, [Next]_vars, NEW r \in Chat
  PROVE  /\ Logged(r) => Logged(r)'
         /\ Logged(r)' /\ ~ Logged(r) => AuditRedacted(r)
<1> USE DEF Logged
<1>1. CASE UNCHANGED audit
  BY <1>1
<1>2. ASSUME NEW p, LoadStep(p)
      PROVE  UNCHANGED audit
  BY <1>2 DEF LoadStep, LoadFromCache, LoadFromDb, CacheRows, store
<1>3. ASSUME NEW q \in Chat, ChatStep(q)
      PROVE  \/ UNCHANGED audit
             \/ audit' = audit \cup {<<q, "request.redacted">>} /\ AuditRedacted(q)
             \/ \E event \in AuditType \ {"request.redacted"} : audit' = audit \cup {<<q, event>>}
  BY <1>2, <1>3 DEF ChatStep, Tokenise, Redacted, Blocked, RedactorFails, InsertRow, SkipRow,
     InsertFails, EvictCache, CommitPrepare, AuditBlocked, AuditRedacted, Forward, Respond,
     AbortDeadlocked, Fail, store, AuditType
<1>4. ASSUME NEW d \in Delete, DeleteStep(d)
      PROVE  UNCHANGED audit \/ audit' = audit \cup {<<d, "map.deleted">>}
  BY <1>4 DEF DeleteStep, DeleteConversationRow, DeleteMissing, EvictDeleted, CommitDelete,
     AbortDeadlocked, Fail, store
<1>5. CASE Arrive
  BY <1>5 DEF Arrive, EnsureConversation, StartReload, DeleteRows, store
<1>6. CASE (\E p \in Proc : Fail(p)) \/ (\E c \in Conversation : Expire(c)) \/ Crash \/ UNCHANGED vars
  BY <1>6 DEF Fail, Expire, Crash, vars, store
<1>7. QED BY <1>1, <1>2, <1>3, <1>4, <1>5, <1>6 DEF Next

\* How a chat's program counter moves past the audit.
LEMMA AuditedOfChat ==
  ASSUME TypeInv, [Next]_vars, NEW r \in Chat, AuditedOf(r), ChatStep(r), ~ Dropped(r)
  PROVE  AuditedOf(r)'
<1> USE DEF Proc
<1>1. Logged(r) => Logged(r)'
  BY LogSource
<1>2. ~ AuditRedacted(r) /\ Logged(r)' => Logged(r)
  BY LogSource
<1>3. CASE LoadStep(r)
  <2>1. /\ \/ pc[r] \in {"load", "fill"} /\ pc'[r] \in {"fill", "redact"}
           \/ pc[r] \in {"resolve", "refill"} /\ pc'[r] \in {"refill", "forward"}
        /\ UNCHANGED audit
    BY <1>3, KindsDisjoint DEF LoadStep, LoadFromCache, LoadFromDb, CacheRows, AfterLoad, store,
       TypeInv, TypeOK
  <2>2. QED BY <2>1 DEF AuditedOf, Logged
<1>4. CASE AuditRedacted(r)
  <2>1. pc'[r] = "resolve" /\ Logged(r)'
    BY <1>4 DEF AuditRedacted, Logged, TypeInv, TypeOK
  <2>2. QED BY <2>1 DEF AuditedOf
<1>5. CASE RedactorFails(r) \/ InsertFails(r) \/ AbortDeadlocked(r)
  BY <1>5, FailDrops DEF RedactorFails, InsertFails, AbortDeadlocked
<1>6. CASE ~ LoadStep(r) /\ ~ AuditRedacted(r)
           /\ ~ (RedactorFails(r) \/ InsertFails(r) \/ AbortDeadlocked(r))
  <2>1. \/ /\ pc[r] \in {"redact", "insert", "evict", "commit", "blocked"}
           /\ pc'[r] \in {"redact", "insert", "evict", "commit", "audit", "blocked", "rejected"}
        \/ pc[r] = "forward" /\ pc'[r] = "respond"
        \/ pc[r] = "respond" /\ pc'[r] = "done"
    <3>1. CASE Tokenise(r) \/ Redacted(r) \/ Blocked(r) \/ EvictCache(r) \/ CommitPrepare(r)
               \/ Forward(r)
      BY <3>1 DEF Tokenise, Redacted, Blocked, EvictCache, CommitPrepare, Forward, TypeInv, TypeOK
    <3>2. CASE InsertRow(r) \/ SkipRow(r)
      BY <3>2 DEF InsertRow, SkipRow, Inserted, TypeInv, TypeOK
    <3>3. CASE AuditBlocked(r) \/ Respond(r)
      BY <3>3 DEF AuditBlocked, Respond, Finish, TypeInv, TypeOK
    <3>4. QED BY <1>6, <3>1, <3>2, <3>3 DEF ChatStep
  <2>2. QED BY <1>1, <1>2, <1>6, <2>1 DEF AuditedOf
<1>7. QED BY <1>3, <1>4, <1>5, <1>6

LEMMA AuditInvNext == TypeInv /\ AuditInv /\ [Next]_vars => AuditInv'
<1> SUFFICES ASSUME TypeInv, AuditInv, [Next]_vars, NEW r \in Chat
             PROVE  AuditedOf(r)'
  BY DEF AuditInv
<1>1. /\ AuditedOf(r)
      /\ Logged(r) => Logged(r)'
      /\ Logged(r)' /\ ~ Logged(r) => AuditRedacted(r)
  BY LogSource DEF AuditInv
<1>2. CASE AuditRedacted(r)
  <2>1. pc'[r] = "resolve" /\ Logged(r)'
    BY <1>2 DEF AuditRedacted, Logged, TypeInv, TypeOK, Proc
  <2>2. QED BY <2>1 DEF AuditedOf
<1>3. CASE ~ AuditRedacted(r) /\ Untouched(r)
  BY <1>1, <1>3 DEF Untouched, AuditedOf
<1>4. CASE ~ AuditRedacted(r) /\ Dropped(r)
  BY <1>1, <1>4 DEF Dropped, AuditedOf, Ended
<1>5. ASSUME ~ AuditRedacted(r), NEW prompt \in Prompt, EnsureConversation(r, prompt)
      PROVE  AuditedOf(r)'
  BY <1>1, <1>5 DEF EnsureConversation, Begin, AuditedOf, TypeInv, TypeOK, Proc
<1>6. CASE ChatStep(r) /\ ~ Dropped(r)
  BY <1>1, <1>6, AuditedOfChat
<1>7. QED BY <1>2, <1>3, <1>4, <1>5, <1>6, StepsOfChat

\* A forwarded prompt is audited as redacted, a blocked one never is.
THEOREM Audited == Spec => []ForwardAudited
<1>1. Init => AuditInv
  BY DEF Init, AuditInv, AuditedOf, Logged, Proc
<1>2. AuditInv => ForwardAudited
  BY DEF AuditInv, AuditedOf, Logged, ForwardAudited
<1>3. QED BY <1>1, <1>2, AuditInvNext, TypeInvInit, TypeInvNext, PTL DEF Spec
--------------------------------------------------------------------------------
(* A conversation that was never disturbed is served as if it were alone.  *)

Alone ==
  \A p, q \in Proc :
    Active(p) /\ Active(q) /\ conv[p] = conv[q] /\ conv[p] \notin disturbed => p = q

\* p has evicted the cache entry and is about to change the map.
Evicted(p) ==
  \/ p \in Chat /\ pc[p] = "commit" /\ inserted[p] # {}
  \/ pc[p] = "evicted"

\* The cache has the whole map or nothing, and so have the rows on their way to it.
CacheExact ==
  \A c \in Conversation \ disturbed :
    /\ cache[c] \in {NoEntry, tokenMap[c]}
    /\ \A p \in Proc : conv[p] = c /\ Evicted(p) => cache[c] = NoEntry
    /\ \A p \in Proc : conv[p] = c /\ pc[p] \in {"fill", "refill"} => rows[p] = tokenMap[c]

\* The entries of a sequence of rows, no two under one placeholder.
Items(s) == {s[i] : i \in 1..Len(s)}
Distinct(s) == \A i, j \in 1..Len(s) : s[i].ph = s[j].ph => i = j

\* What r has loaded, assigned and inserted, and where it is to be found.
SerialOf(r) ==
  LET c == conv[r]
      known == tokenMap[c] \cup inserted[r]
  IN  conv[r] \notin disturbed =>
        /\ pc[r] = "redact" => rows[r] = tokenMap[c] \cup Items(fresh[r])
        /\ pc[r] \in Preparing =>
             /\ sent[r] \subseteq known \cup Items(fresh[r])
             /\ Distinct(fresh[r])
             /\ Queued(fresh[r]) \cap Placeholders(known) = {}
        /\ pc[r] \in Prepared => sent[r] \subseteq tokenMap[c]
        /\ pc[r] \in {"forward", "respond"} => rows[r] = tokenMap[c]

SerialInv == Alone /\ CacheExact /\ \A r \in Chat : SerialOf(r)

LEMMA SerialInvInit == Init => SerialInv
  BY DEF Init, SerialInv, Alone, CacheExact, Evicted, SerialOf, Preparing, Prepared, Active,
     Ended, Proc

LEMMA ItemsAppend ==
  ASSUME NEW s \in Seq(Row), NEW e \in Row
  PROVE  Items(Append(s, e)) = Items(s) \cup {e}
<1>1. /\ Len(s) \in Nat
      /\ \A i \in 1..Len(s) : Append(s, e)[i] = s[i]
      /\ Append(s, e)[Len(s) + 1] = e
  OBVIOUS
<1>2. 1..Len(Append(s, e)) = 1..Len(s) \cup {Len(s) + 1}
  BY <1>1
<1> QED BY <1>1, <1>2 DEF Items

LEMMA ItemsTail ==
  ASSUME NEW s \in Seq(Row), s # << >>
  PROVE  Items(s) = {Head(s)} \cup Items(Tail(s))
<1>1. /\ Len(s) \in Nat /\ Len(s) >= 1
      /\ Len(Tail(s)) = Len(s) - 1
      /\ Head(s) = s[1]
      /\ \A i \in 1..Len(Tail(s)) : Tail(s)[i] = s[i + 1]
  OBVIOUS
<1>2. ASSUME NEW i \in 1..Len(s), i # 1 PROVE s[i] \in Items(Tail(s))
  <2>1. i - 1 \in 1..Len(Tail(s)) /\ Tail(s)[i - 1] = s[i]
    BY <1>1, <1>2
  <2> QED BY <2>1 DEF Items
<1>3. ASSUME NEW i \in 1..Len(Tail(s)) PROVE Tail(s)[i] \in Items(s)
  <2>1. i + 1 \in 1..Len(s) /\ Tail(s)[i] = s[i + 1]
    BY <1>1
  <2> QED BY <2>1 DEF Items
<1>4. 1 \in 1..Len(s)
  BY <1>1
<1> QED BY <1>1, <1>2, <1>3, <1>4 DEF Items

LEMMA DistinctAppend ==
  ASSUME NEW s \in Seq(Row), NEW e \in Row, Distinct(s), e.ph \notin Queued(s)
  PROVE  Distinct(Append(s, e))
<1> DEFINE t == Append(s, e)
<1>1. /\ Len(s) \in Nat
      /\ \A i \in 1..Len(s) : t[i] = s[i] /\ s[i].ph # e.ph
      /\ t[Len(s) + 1] = e
  BY DEF Queued
<1>2. 1..Len(t) = 1..Len(s) \cup {Len(s) + 1}
  BY <1>1
<1> HIDE DEF t
<1>3. ASSUME NEW i \in 1..Len(t), NEW j \in 1..Len(t), t[i].ph = t[j].ph PROVE i = j
  BY <1>1, <1>2, <1>3 DEF Distinct
<1> QED BY <1>3 DEF Distinct, t

LEMMA DistinctTail ==
  ASSUME NEW s \in Seq(Row), s # << >>, Distinct(s)
  PROVE  Distinct(Tail(s)) /\ Head(s).ph \notin Queued(Tail(s))
<1>1. /\ Len(s) \in Nat /\ Len(s) >= 1
      /\ Len(Tail(s)) = Len(s) - 1
      /\ Head(s) = s[1]
      /\ \A i \in 1..Len(Tail(s)) : i + 1 \in 1..Len(s) /\ Tail(s)[i] = s[i + 1]
  OBVIOUS
<1>2. ASSUME NEW i \in 1..Len(Tail(s)), NEW j \in 1..Len(Tail(s)), Tail(s)[i].ph = Tail(s)[j].ph
      PROVE  i = j
  <2>1. i + 1 = j + 1
    BY <1>1, <1>2 DEF Distinct
  <2> QED BY <2>1
<1>3. ASSUME NEW i \in 1..Len(Tail(s)) PROVE Tail(s)[i].ph # Head(s).ph
  <2>1. 1 \in 1..Len(s) /\ i + 1 # 1
    BY <1>1
  <2> QED BY <1>1, <2>1 DEF Distinct
<1> QED BY <1>2, <1>3 DEF Distinct, Queued

LEMMA NothingQueued == Items(<< >>) = {} /\ Queued(<< >>) = {} /\ Distinct(<< >>)
  BY DEF Items, Queued, Distinct

\* What the invariant says of p and of the conversation it names.
SerialFor(p) ==
  conv[p] \notin disturbed =>
    /\ cache[conv[p]] \in {NoEntry, tokenMap[conv[p]]}
    /\ Evicted(p) => cache[conv[p]] = NoEntry
    /\ pc[p] \in {"fill", "refill"} => rows[p] = tokenMap[conv[p]]
    /\ p \in Chat => SerialOf(p)

LEMMA SerialForAll == TypeInv /\ SerialInv => \A p \in Proc : SerialFor(p)
  BY DEF SerialInv, CacheExact, SerialFor, TypeInv, TypeOK, Proc

LEMMA SerialLoad ==
  ASSUME TypeInv, SentInv, NEW p \in Chat \cup Reload, SerialFor(p), LoadStep(p)
  PROVE  SerialFor(p)'
<1> USE DEF Proc
<1>1. /\ UNCHANGED <<tokenMap, conv, fresh, inserted, sent, disturbed>>
      /\ conv[p] \in Conversation
  BY DEF LoadStep, LoadFromCache, LoadFromDb, CacheRows, store, local, ghosts, TypeInv, TypeOK
<1>2. /\ pc[p] \in {"load", "fill"} => pc'[p] \in {"fill", "redact", "done"}
      /\ pc[p] \in {"resolve", "refill"} => pc'[p] \in {"refill", "forward", "done"}
      /\ pc[p] \in {"load", "fill", "resolve", "refill"}
  BY DEF LoadStep, LoadFromCache, LoadFromDb, CacheRows, AfterLoad, TypeInv, TypeOK
<1>3. ASSUME conv[p] \notin disturbed
      PROVE  cache'[conv[p]] \in {NoEntry, tokenMap[conv[p]]} /\ rows'[p] = tokenMap[conv[p]]
  <2>1. CASE LoadFromCache(p)
    BY <1>1, <1>3, <2>1 DEF LoadFromCache, SerialFor, TypeInv, TypeOK
  <2>2. CASE LoadFromDb(p)
    BY <1>1, <1>3, <2>2 DEF LoadFromDb, SerialFor, TypeInv, TypeOK
  <2>3. CASE CacheRows(p)
    BY <1>1, <1>3, <2>3 DEF CacheRows, CacheWrite, SerialFor, TypeInv, TypeOK
  <2> QED BY <2>1, <2>2, <2>3 DEF LoadStep
<1>4. p \in Chat /\ pc[p] \in {"load", "fill"} =>
        sent[p] = {} /\ Items(fresh[p]) = {} /\ Queued(fresh[p]) = {} /\ Distinct(fresh[p])
  BY NothingQueued DEF SentInv, SentOf
<1>5. ~ Evicted(p)'
  BY <1>2, KindsDisjoint DEF Evicted
<1>6. ASSUME p \in Chat, conv[p] \notin disturbed PROVE SerialOf(p)'
  <2>1. SerialOf(p)
    BY <1>6 DEF SerialFor
  <2> QED BY <1>1, <1>2, <1>3, <1>4, <1>6, <2>1 DEF SerialOf, Preparing, Prepared
<1> QED BY <1>1, <1>3, <1>5, <1>6 DEF SerialFor

LEMMA SerialTokenise ==
  ASSUME TypeInv, MapInv, NEW r \in Chat, SerialFor(r), Tokenise(r), conv[r] \notin disturbed
  PROVE  SerialOf(r)'
<1> USE DEF Proc
<1>0. /\ UNCHANGED <<tokenMap, conv, inserted, pc, disturbed>>
      /\ pc[r] = "redact"
      /\ todo[r] # << >>
  BY DEF Tokenise, store, ghosts
<1>1. /\ UNCHANGED <<tokenMap, conv, inserted, pc, disturbed>>
      /\ pc[r] = "redact"
      /\ inserted[r] = {}
      /\ fresh[r] \in Seq(Row)
      /\ Head(todo[r]) \in Value
      /\ rows[r] \subseteq Row
  <2>1. inserted[r] = {}
    BY <1>0 DEF MapInv, RowsOwned
  <2>2. fresh[r] \in Seq(Row) /\ todo[r] \in Seq(Value) /\ rows[r] \subseteq Row
    BY DEF TypeInv, TypeOK
  <2>3. Head(todo[r]) \in Value
    BY <1>0, <2>2
  <2> QED BY <1>0, <2>1, <2>2, <2>3
<1>2. /\ rows[r] = tokenMap[conv[r]] \cup Items(fresh[r])
      /\ sent[r] \subseteq rows[r]
      /\ Distinct(fresh[r])
      /\ Queued(fresh[r]) \cap Placeholders(tokenMap[conv[r]]) = {}
  BY <1>1 DEF SerialFor, SerialOf, Preparing
<1>3. CASE \E e \in rows[r] : sent' = [sent EXCEPT ![r] = @ \cup {e}] /\ UNCHANGED <<rows, fresh>>
  <2>1. sent'[r] \subseteq rows[r] /\ UNCHANGED <<rows, fresh>>
    BY <1>2, <1>3 DEF TypeInv, TypeOK
  <2> QED BY <1>1, <1>2, <2>1 DEF SerialOf, Preparing, Prepared
<1>4. CASE \E new \in Row :
             /\ \A e \in rows[r] : e.ph # new.ph
             /\ rows' = [rows EXCEPT ![r] = @ \cup {new}]
             /\ fresh' = [fresh EXCEPT ![r] = Append(@, new)]
             /\ sent' = [sent EXCEPT ![r] = @ \cup {new}]
  <2>1. PICK new \in Row :
             /\ \A e \in rows[r] : e.ph # new.ph
             /\ rows'[r] = rows[r] \cup {new}
             /\ fresh'[r] = Append(fresh[r], new)
             /\ sent'[r] = sent[r] \cup {new}
    BY <1>4 DEF TypeInv, TypeOK
  <2>2. new.ph \notin Queued(fresh[r]) /\ new.ph \notin Placeholders(tokenMap[conv[r]])
    BY <1>2, <2>1 DEF Queued, Items, Placeholders
  <2>3. /\ Items(fresh'[r]) = Items(fresh[r]) \cup {new}
        /\ Queued(fresh'[r]) = Queued(fresh[r]) \cup {new.ph}
        /\ Distinct(fresh'[r])
    BY <1>1, <1>2, <2>1, <2>2, ItemsAppend, QueuedAppend, DistinctAppend
  <2> QED BY <1>1, <1>2, <2>1, <2>2, <2>3 DEF SerialOf, Preparing, Prepared
<1>5. ASSUME NEW i \in 1..MaxIndex, IsNextIndex(rows[r], TypeOf[Head(todo[r])], i),
             NEW e \in rows[r]
      PROVE  e.ph # [type |-> TypeOf[Head(todo[r])], index |-> i]
  <2>1. e.ph \in Placeholder
    BY <1>1 DEF Row
  <2> QED BY <1>5, <2>1, MaxIndexNat DEF IsNextIndex, Placeholder
<1>6. TypeOf[Head(todo[r])] \in EntityType
  BY <1>1, ValuesTyped
<1> QED BY <1>1, <1>3, <1>4, <1>5, <1>6 DEF Tokenise, Row, Placeholder

LEMMA SerialInsert ==
  ASSUME TypeInv, NEW r \in Chat, SerialFor(r), InsertRow(r), conv[r] \notin disturbed
  PROVE  SerialOf(r)'
<1> USE DEF Proc
<1> DEFINE e == Head(fresh[r])
           known == tokenMap[conv[r]] \cup inserted[r]
<1>1. /\ UNCHANGED <<tokenMap, conv, sent, disturbed>>
      /\ pc[r] = "insert" /\ pc'[r] \in {"insert", "evict"}
      /\ fresh[r] \in Seq(Row) /\ fresh[r] # << >>
      /\ fresh'[r] = Tail(fresh[r])
      /\ inserted'[r] = inserted[r] \cup {e}
  BY DEF InsertRow, Inserted, store, ghosts, TypeInv, TypeOK, ControlOK
<1>2. /\ sent[r] \subseteq known \cup Items(fresh[r])
      /\ Distinct(fresh[r])
      /\ Queued(fresh[r]) \cap Placeholders(known) = {}
  BY <1>1 DEF SerialFor, SerialOf, Preparing
<1>3. /\ Items(fresh[r]) = {e} \cup Items(fresh'[r])
      /\ Queued(fresh[r]) = {e.ph} \cup Queued(fresh'[r])
      /\ Distinct(fresh'[r])
      /\ e.ph \notin Queued(fresh'[r])
  BY <1>1, <1>2, ItemsTail, QueuedTail, DistinctTail
<1>4. tokenMap'[conv'[r]] \cup inserted'[r] = known \cup {e}
  BY <1>1
<1>5. Placeholders(known \cup {e}) = Placeholders(known) \cup {e.ph}
  BY DEF Placeholders
<1>6. pc'[r] \notin {"redact", "forward", "respond"} /\ pc'[r] \notin Prepared
  BY <1>1 DEF Prepared
<1> HIDE DEF e, known
<1>7. /\ sent'[r] \subseteq (known \cup {e}) \cup Items(fresh'[r])
      /\ Distinct(fresh'[r])
      /\ Queued(fresh'[r]) \cap Placeholders(known \cup {e}) = {}
  BY <1>1, <1>2, <1>3, <1>5
<1> QED BY <1>4, <1>6, <1>7 DEF SerialOf

LEMMA SerialCommit ==
  ASSUME TypeInv, SentInv, NEW r \in Chat, SerialFor(r), CommitPrepare(r)
  PROVE  SerialFor(r)'
<1>1. /\ UNCHANGED <<cache, conv, sent, disturbed>>
      /\ pc[r] = "commit" /\ pc'[r] = "audit"
      /\ tokenMap'[conv[r]] = tokenMap[conv[r]] \cup inserted[r]
      /\ inserted'[r] = {}
  BY DEF CommitPrepare, ghosts, TypeInv, TypeOK, Proc
<1>2. Items(fresh[r]) = {}
  BY <1>1, NothingQueued DEF SentInv, SentOf
<1>3. ASSUME conv[r] \notin disturbed
      PROVE  /\ cache[conv[r]] \in {NoEntry, tokenMap'[conv[r]]}
             /\ sent[r] \subseteq tokenMap'[conv[r]]
  <2>1. inserted[r] # {} => cache[conv[r]] = NoEntry
    BY <1>1, <1>3 DEF SerialFor, Evicted
  <2>2. inserted[r] = {} => tokenMap'[conv[r]] = tokenMap[conv[r]]
    BY <1>1
  <2>3. sent[r] \subseteq tokenMap[conv[r]] \cup inserted[r] \cup Items(fresh[r])
    BY <1>1, <1>3 DEF SerialFor, SerialOf, Preparing
  <2> QED BY <1>1, <1>2, <1>3, <2>1, <2>2, <2>3 DEF SerialFor
<1>4. ~ Evicted(r)'
  BY <1>1 DEF Evicted
<1>5. conv[r] \notin disturbed => SerialOf(r)'
  BY <1>1, <1>3 DEF SerialOf, Preparing, Prepared
<1> QED BY <1>1, <1>3, <1>4, <1>5 DEF SerialFor

\* A request that ends claims nothing any more but an exact cache.
LEMMA SerialEnded ==
  ASSUME NEW p \in Proc, UNCHANGED conv, pc'[p] \in {"idle"} \cup Ended,
         conv[p] \notin disturbed' => cache'[conv[p]] \in {NoEntry, tokenMap'[conv[p]]}
  PROVE  SerialFor(p)'
  BY DEF SerialFor, SerialOf, Evicted, Ended, Preparing, Prepared

LEMMA SerialFail ==
  ASSUME TypeInv, NEW p \in Proc, SerialFor(p), Fail(p)
  PROVE  SerialFor(p)'
<1>1. /\ UNCHANGED <<tokenMap, cache, conv, disturbed>>
      /\ pc'[p] = "failed"
  BY DEF Fail, Finish, store, ghosts, TypeInv, TypeOK
<1> QED BY <1>1, SerialEnded DEF SerialFor, Ended

LEMMA SerialChat ==
  ASSUME TypeInv, MapInv, SentInv, NEW r \in Chat, SerialFor(r), ChatStep(r)
  PROVE  SerialFor(r)'
<1> USE DEF Proc
<1>0. conv[r] \notin disturbed => SerialOf(r)
  BY DEF SerialFor
<1>1. CASE LoadStep(r)
  BY <1>1, SerialLoad
<1>2. CASE Tokenise(r) \/ InsertRow(r)
  <2>1. /\ UNCHANGED <<tokenMap, cache, conv, disturbed>>
        /\ pc'[r] \in {"redact", "insert", "evict"}
    BY <1>2 DEF Tokenise, InsertRow, Inserted, store, ghosts, TypeInv, TypeOK
  <2>2. conv[r] \notin disturbed => SerialOf(r)'
    BY <1>2, SerialTokenise, SerialInsert
  <2>3. ~ Evicted(r)'
    BY <2>1 DEF Evicted
  <2> QED BY <2>1, <2>2, <2>3 DEF SerialFor
<1>3. CASE SkipRow(r)
  <2>1. conv[r] \in disturbed /\ UNCHANGED <<conv, disturbed>>
    <3>1. /\ UNCHANGED <<conv, disturbed>>
          /\ pc[r] = "insert"
          /\ fresh[r] \in Seq(Row) /\ fresh[r] # << >>
          /\ Head(fresh[r]).ph \in Placeholders(tokenMap[conv[r]] \cup inserted[r])
      BY <1>3 DEF SkipRow, Conflict, ghosts, TypeInv, TypeOK, ControlOK
    <3>2. Head(fresh[r]).ph \in Queued(fresh[r])
      BY <3>1, QueuedTail
    <3> QED BY <1>0, <3>1, <3>2 DEF SerialOf, Preparing
  <2> QED BY <2>1 DEF SerialFor
<1>4. CASE CommitPrepare(r)
  BY <1>4, SerialCommit
<1>5. CASE RedactorFails(r) \/ InsertFails(r) \/ AbortDeadlocked(r)
  BY <1>5, SerialFail DEF RedactorFails, InsertFails, AbortDeadlocked
<1>6. CASE AuditBlocked(r) \/ Respond(r)
  <2>1. /\ UNCHANGED <<tokenMap, cache, conv, disturbed>>
        /\ pc'[r] \in Ended
    BY <1>6 DEF AuditBlocked, Respond, Finish, ghosts, TypeInv, TypeOK, Ended
  <2> QED BY <2>1, SerialEnded DEF SerialFor
<1>7. CASE EvictCache(r)
  <2>1. /\ UNCHANGED <<tokenMap, conv, rows, fresh, inserted, sent>>
        /\ pc[r] = "evict" /\ pc'[r] = "commit"
        /\ disturbed \subseteq disturbed'
        /\ conv[r] \notin disturbed' => cache'[conv[r]] = NoEntry
    BY <1>7 DEF EvictCache, CacheEvict, store, local, TypeInv, TypeOK
  <2>2. conv[r] \notin disturbed' => SerialOf(r)'
    BY <1>0, <2>1 DEF SerialOf, Preparing, Prepared
  <2> QED BY <2>1, <2>2 DEF SerialFor
<1>8. CASE Redacted(r) \/ Blocked(r) \/ AuditRedacted(r) \/ Forward(r)
  <2>1. /\ UNCHANGED <<tokenMap, cache, conv, rows, fresh, inserted, sent, disturbed>>
        /\ \/ pc[r] = "redact" /\ pc'[r] \in {"insert", "commit", "blocked"}
           \/ pc[r] = "audit" /\ pc'[r] = "resolve"
           \/ pc[r] = "forward" /\ pc'[r] = "respond"
    BY <1>8 DEF Redacted, Blocked, AuditRedacted, Forward, store, local, ghosts, TypeInv, TypeOK
  <2>2. ~ Evicted(r)'
    BY <2>1 DEF Evicted, MapInv, RowsOwned
  <2>3. conv[r] \notin disturbed => SerialOf(r)'
    BY <1>0, <2>1 DEF SerialOf, Preparing, Prepared
  <2> QED BY <2>1, <2>2, <2>3 DEF SerialFor
<1> QED BY <1>1, <1>2, <1>3, <1>4, <1>5, <1>6, <1>7, <1>8 DEF ChatStep

LEMMA SerialDelete ==
  ASSUME TypeInv, NEW d \in Delete, SerialFor(d), DeleteStep(d)
  PROVE  SerialFor(d)'
<1> USE KindsDisjoint DEF Proc
<1>1. CASE DeleteConversationRow(d)
  <2>1. UNCHANGED <<tokenMap, cache, conv, disturbed>> /\ pc'[d] = "convDeleted"
    BY <1>1 DEF DeleteConversationRow, store, ghosts, TypeInv, TypeOK
  <2> QED BY <2>1 DEF SerialFor, Evicted
<1>2. CASE DeleteMissing(d)
  <2>1. /\ UNCHANGED <<tokenMap, conv>>
        /\ pc'[d] \in Ended
        /\ conv[d] \notin disturbed' => cache'[conv[d]] = NoEntry
    BY <1>2 DEF DeleteMissing, CacheEvict, Finish, TypeInv, TypeOK, Ended
  <2> QED BY <2>1, SerialEnded
<1>3. CASE EvictDeleted(d)
  <2>1. /\ UNCHANGED <<tokenMap, conv>>
        /\ pc'[d] = "evicted"
        /\ conv[d] \notin disturbed' => cache'[conv[d]] = NoEntry
    BY <1>3 DEF EvictDeleted, CacheEvict, store, TypeInv, TypeOK
  <2> QED BY <2>1 DEF SerialFor, Evicted
<1>4. CASE CommitDelete(d)
  <2>1. /\ UNCHANGED <<cache, conv, disturbed>>
        /\ pc[d] = "evicted" /\ pc'[d] \in Ended
    BY <1>4 DEF CommitDelete, Finish, TypeInv, TypeOK, Ended
  <2> QED BY <2>1, SerialEnded DEF SerialFor, Evicted
<1>5. CASE AbortDeadlocked(d)
  BY <1>5, SerialFail DEF AbortDeadlocked
<1> QED BY <1>1, <1>2, <1>3, <1>4, <1>5 DEF DeleteStep

\* p has nothing to show before it has loaded anything.
LEMMA SerialBegin ==
  ASSUME TypeInv, NEW p \in Proc, SerialFor(p), UNCHANGED <<tokenMap, cache, conv>>,
         NEW at \in {"load", "resolve", "rowsDeleted"}, Begin(p, at),
         at = "resolve" => p \in Reload
  PROVE  SerialFor(p)'
<1>1. pc'[p] = at /\ disturbed \subseteq disturbed'
  BY DEF Begin, TypeInv, TypeOK
<1>2. ~ Evicted(p)'
  BY <1>1 DEF Evicted
<1>3. p \in Chat => SerialOf(p)'
  BY <1>1, KindsDisjoint DEF SerialOf, Preparing, Prepared
<1> QED BY <1>1, <1>2, <1>3 DEF SerialFor
--------------------------------------------------------------------------------
(* Everybody else looks on. *)

\* p alone takes a step; it is under way, or begins and meets whoever is.
Acts(p) ==
  /\ \A q \in Proc \ {p} : Untouched(q)
  /\ UNCHANGED conv /\ disturbed \subseteq disturbed'
  /\ \A c \in Conversation \ {conv[p]} : tokenMap'[c] = tokenMap[c] /\ cache'[c] = cache[c]
  /\ ~ Active(p) =>
       \A q \in Proc : Active(q) /\ conv[q] = conv[p] => conv[p] \in disturbed'

\* What p's step leaves alone: the other conversations.
Keeps(p) ==
  /\ UNCHANGED conv /\ disturbed \subseteq disturbed'
  /\ \A c \in Conversation \ {conv[p]} : tokenMap'[c] = tokenMap[c] /\ cache'[c] = cache[c]

LEMMA FailKeeps == ASSUME NEW p \in Proc, Fail(p) PROVE Active(p) /\ Keeps(p)
  BY DEF Fail, Keeps, store, ghosts

LEMMA LoadKeeps == ASSUME TypeInv, NEW p \in Proc, LoadStep(p) PROVE Active(p) /\ Keeps(p)
<1>1. CASE LoadFromCache(p) \/ LoadFromDb(p)
  BY <1>1 DEF LoadFromCache, LoadFromDb, Active, Ended, Keeps, store, ghosts
<1>2. CASE CacheRows(p)
  BY <1>2 DEF CacheRows, CacheWrite, Active, Ended, Keeps, store, ghosts, TypeInv, TypeOK
<1> QED BY <1>1, <1>2 DEF LoadStep

LEMMA ChatKeeps == ASSUME TypeInv, NEW r \in Chat, ChatStep(r) PROVE Active(r) /\ Keeps(r)
<1> USE DEF Proc, Active, Ended
<1>1. CASE LoadStep(r)
  BY <1>1, LoadKeeps
<1>2. CASE Tokenise(r) \/ Redacted(r) \/ Blocked(r) \/ InsertRow(r) \/ SkipRow(r)
  BY <1>2 DEF Tokenise, Redacted, Blocked, InsertRow, SkipRow, Keeps, store, ghosts
<1>3. CASE RedactorFails(r) \/ InsertFails(r) \/ AbortDeadlocked(r)
  BY <1>3, FailKeeps DEF RedactorFails, InsertFails, AbortDeadlocked
<1>4. CASE EvictCache(r)
  BY <1>4 DEF EvictCache, CacheEvict, Keeps, store, TypeInv, TypeOK
<1>5. CASE CommitPrepare(r)
  BY <1>5 DEF CommitPrepare, Keeps, ghosts, TypeInv, TypeOK
<1>6. CASE AuditBlocked(r) \/ AuditRedacted(r) \/ Forward(r) \/ Respond(r)
  BY <1>6 DEF AuditBlocked, AuditRedacted, Forward, Respond, Keeps, store, ghosts
<1> QED BY <1>1, <1>2, <1>3, <1>4, <1>5, <1>6 DEF ChatStep

LEMMA DeleteKeeps == ASSUME TypeInv, NEW d \in Delete, DeleteStep(d) PROVE Active(d) /\ Keeps(d)
<1> USE DEF Proc, Active, Ended
<1>1. CASE DeleteConversationRow(d)
  BY <1>1 DEF DeleteConversationRow, Keeps, store, ghosts
<1>2. CASE DeleteMissing(d) \/ EvictDeleted(d)
  BY <1>2 DEF DeleteMissing, EvictDeleted, CacheEvict, Keeps, store, TypeInv, TypeOK
<1>3. CASE CommitDelete(d)
  BY <1>3 DEF CommitDelete, Keeps, TypeInv, TypeOK
<1>4. CASE AbortDeadlocked(d)
  BY <1>4, FailKeeps DEF AbortDeadlocked
<1> QED BY <1>1, <1>2, <1>3, <1>4 DEF DeleteStep

\* A request that begins: the map and the cache stay, and the conversation
\* counts as disturbed unless nobody else is under way on it.
LEMMA BeginActs ==
  ASSUME TypeInv, SerialInv, NEW p \in Proc, \A q \in Proc \ {p} : Untouched(q),
         UNCHANGED <<tokenMap, cache, conv>>,
         NEW at \in {"load", "resolve", "rowsDeleted"}, Begin(p, at),
         at = "resolve" => p \in Reload
  PROVE  Acts(p) /\ SerialFor(p)'
<1>1. SerialFor(p)'
  BY SerialBegin, SerialForAll
<1>2. Acts(p)
  BY DEF Acts, Begin, Active, TypeInv, TypeOK
<1> QED BY <1>1, <1>2

LEMMA StepActs ==
  ASSUME TypeInv, MapInv, SentInv, SerialInv, [Next]_vars
  PROVE  \/ \E p \in Proc : Acts(p) /\ SerialFor(p)'
         \/ \E c \in Conversation : Expire(c)
         \/ Crash
         \/ UNCHANGED vars
<1> USE DEF Proc
<1>1. ASSUME NEW r \in Chat, NEW prompt \in Prompt, EnsureConversation(r, prompt)
      PROVE  Acts(r) /\ SerialFor(r)'
  <2>1. \A q \in Proc \ {r} : Untouched(q)
    BY <1>1 DEF EnsureConversation, Begin, Untouched, TypeInv, TypeOK
  <2> QED BY <1>1, <2>1, BeginActs DEF EnsureConversation
<1>2. ASSUME NEW g \in Reload, StartReload(g) PROVE Acts(g) /\ SerialFor(g)'
  <2>1. \A q \in Proc \ {g} : Untouched(q)
    BY <1>2 DEF StartReload, Begin, local, Untouched, TypeInv, TypeOK
  <2> QED BY <1>2, <2>1, BeginActs DEF StartReload, store
<1>3. ASSUME NEW d \in Delete, DeleteRows(d) PROVE Acts(d) /\ SerialFor(d)'
  <2>1. \A q \in Proc \ {d} : Untouched(q)
    BY <1>3 DEF DeleteRows, Begin, local, Untouched, TypeInv, TypeOK
  <2> QED BY <1>3, <2>1, BeginActs DEF DeleteRows, store
<1>4. ASSUME NEW r \in Chat, ChatStep(r) PROVE Acts(r) /\ SerialFor(r)'
  BY <1>4, ChatOthers, ChatKeeps, SerialChat, SerialForAll DEF Acts, Keeps
<1>5. ASSUME NEW g \in Reload, LoadStep(g) PROVE Acts(g) /\ SerialFor(g)'
  BY <1>5, LoadOthers, LoadKeeps, SerialLoad, SerialForAll DEF Acts, Keeps
<1>6. ASSUME NEW d \in Delete, DeleteStep(d) PROVE Acts(d) /\ SerialFor(d)'
  BY <1>6, DeleteOthers, DeleteKeeps, SerialDelete, SerialForAll DEF Acts, Keeps
<1>7. ASSUME NEW p \in Proc, Fail(p) PROVE Acts(p) /\ SerialFor(p)'
  <2>1. \A q \in Proc \ {p} : Untouched(q)
    BY <1>7, FinishOthers DEF Fail
  <2> QED BY <1>7, <2>1, FailKeeps, SerialFail, SerialForAll DEF Acts, Keeps
<1> QED BY <1>1, <1>2, <1>3, <1>4, <1>5, <1>6, <1>7 DEF Next, Arrive

\* A request that stays where it is, in a conversation nobody touches, or that
\* is not under way, still has what the invariant says.
LEMMA SerialUntouched ==
  ASSUME NEW q \in Proc, SerialFor(q), Untouched(q), UNCHANGED conv, disturbed \subseteq disturbed',
         tokenMap'[conv[q]] = tokenMap[conv[q]], cache'[conv[q]] = cache[conv[q]]
  PROVE  SerialFor(q)'
<1>1. Evicted(q)' => Evicted(q)
  BY DEF Evicted, Untouched
<1>2. q \in Chat /\ SerialOf(q) => SerialOf(q)'
  BY DEF SerialOf, Untouched
<1> QED BY <1>1, <1>2 DEF SerialFor, Untouched

LEMMA SerialInvStep ==
  ASSUME TypeInv, TypeInv', SerialInv, NEW p \in Proc, Acts(p), SerialFor(p)'
  PROVE  SerialInv'
<1>1. \A q \in Proc : SerialFor(q)
  BY SerialForAll
<1>2. ASSUME NEW q \in Proc, q # p, conv[q] = conv[p], conv[p] \notin disturbed'
      PROVE  ~ Active(q) /\ ~ Active(q)'
  <2>1. ~ Active(q)
    BY <1>2 DEF SerialInv, Alone, Acts
  <2> QED BY <1>2, <2>1 DEF Acts, Untouched, Active
<1>3. Alone'
  <2> SUFFICES ASSUME NEW a \in Proc, NEW b \in Proc, Active(a)', Active(b)', conv'[a] = conv'[b],
                      conv'[a] \notin disturbed'
               PROVE  a = b
    BY DEF Alone
  <2>1. CASE a # p /\ b # p
    BY <2>1 DEF SerialInv, Alone, Acts, Untouched, Active
  <2>2. CASE a = p \/ b = p
    BY <1>2, <2>2 DEF Acts
  <2> QED BY <2>1, <2>2
<1>4. ASSUME NEW q \in Proc PROVE SerialFor(q)'
  <2>1. CASE q = p
    BY <2>1
  <2>2. CASE conv[q] # conv[p]
    <3>1. conv[q] \in Conversation
      BY DEF TypeInv, TypeOK
    <3> QED BY <1>1, <2>2, <3>1, SerialUntouched DEF Acts
  <2>3. CASE q # p /\ conv[q] = conv[p] /\ conv[p] \in disturbed'
    BY <2>3 DEF SerialFor, Acts
  <2>4. CASE q # p /\ conv[q] = conv[p] /\ conv[p] \notin disturbed'
    <3>1. pc'[q] \in {"idle"} \cup Ended
      BY <1>2, <2>4 DEF Active
    <3>2. UNCHANGED conv /\ cache'[conv[q]] \in {NoEntry, tokenMap'[conv[q]]}
      BY <2>4 DEF SerialFor, Acts
    <3> QED BY <3>1, <3>2, SerialEnded
  <2> QED BY <2>1, <2>2, <2>3, <2>4
<1>5. CacheExact'
  <2> SUFFICES ASSUME NEW c \in Conversation, c \notin disturbed'
               PROVE  /\ cache'[c] \in {NoEntry, tokenMap'[c]}
                      /\ \A q \in Proc : conv'[q] = c /\ Evicted(q)' => cache'[c] = NoEntry
                      /\ \A q \in Proc : conv'[q] = c /\ pc'[q] \in {"fill", "refill"} =>
                           rows'[q] = tokenMap'[c]
    BY DEF CacheExact
  <2>1. cache'[c] \in {NoEntry, tokenMap'[c]}
    <3>1. CASE c = conv[p]
      BY <1>4, <3>1 DEF SerialFor, Acts
    <3>2. CASE c # conv[p]
      BY <3>2 DEF SerialInv, CacheExact, Acts
    <3> QED BY <3>1, <3>2
  <2> QED BY <1>4, <2>1 DEF SerialFor
<1>6. \A r \in Chat : SerialOf(r)'
  <2> SUFFICES ASSUME NEW r \in Chat, conv'[r] \notin disturbed' PROVE SerialOf(r)'
    BY DEF SerialOf
  <2> QED BY <1>4 DEF SerialFor, Proc
<1> QED BY <1>3, <1>5, <1>6 DEF SerialInv

LEMMA SerialInvNext == TypeInv /\ MapInv /\ SentInv /\ SerialInv /\ [Next]_vars => SerialInv'
<1> SUFFICES ASSUME TypeInv, MapInv, SentInv, SerialInv, [Next]_vars PROVE SerialInv'
  OBVIOUS
<1> USE DEF Proc
<1>0. TypeInv'
  BY TypeInvNext
<1>1. ASSUME NEW p \in Proc, Acts(p), SerialFor(p)' PROVE SerialInv'
  BY <1>0, <1>1, SerialInvStep
<1>2. ASSUME NEW c \in Conversation, Expire(c) PROVE SerialInv'
  <2>1. /\ UNCHANGED <<tokenMap, pc, conv, rows, fresh, inserted, sent, disturbed>>
        /\ \A k \in Conversation : cache'[k] \in {cache[k], NoEntry}
    BY <1>2 DEF Expire, store, local, ghosts, TypeInv, TypeOK
  <2>2. Alone' /\ \A r \in Chat : SerialOf(r)'
    BY <2>1 DEF SerialInv, Alone, Active, SerialOf
  <2>3. CacheExact'
    BY <2>1 DEF SerialInv, CacheExact, Evicted
  <2> QED BY <2>2, <2>3 DEF SerialInv
<1>3. CASE Crash
  <2>1. /\ UNCHANGED <<tokenMap, cache, conv, disturbed>>
        /\ \A q \in Proc : pc'[q] \in {"idle"} \cup Ended
    BY <1>3 DEF Crash, store, ghosts, Active, Ended
  <2>2. Alone'
    BY <2>1 DEF Alone, Active
  <2>3. CacheExact'
    BY <2>1 DEF SerialInv, CacheExact, Evicted, Ended
  <2>4. \A r \in Chat : SerialOf(r)'
    BY <2>1 DEF SerialOf, Ended, Preparing, Prepared
  <2> QED BY <2>2, <2>3, <2>4 DEF SerialInv
<1>4. CASE UNCHANGED vars
  BY <1>4 DEF vars, store, local, ghosts, SerialInv, Alone, Active, CacheExact, Evicted, SerialOf
<1> QED BY <1>1, <1>2, <1>3, <1>4, StepActs

\* A conversation that never had two requests at a time, and whose evictions
\* all arrived, resolves every placeholder of a prompt to what it replaced.
THEOREM Serial == Spec => []SerialRoundTrip
<1>1. SerialInv => SerialRoundTrip
  BY DEF SerialInv, SerialOf, SerialRoundTrip, Prepared
<1>2. Init => CacheSound
  BY DEF Init, CacheSound, Proc
<1> QED
  BY <1>1, <1>2, CacheSoundNext, SentInvInit, SentInvNext, TypeInvInit, TypeInvNext, MapInvInit,
     MapInvNext, SerialInvInit, SerialInvNext, PTL DEF Spec
================================================================================
