------------------------------- MODULE TokenVault -------------------------------
(***************************************************************************)
(* The gateway's token vault and the requests that use it.                 *)
(*                                                                         *)
(* A chat turn (Chat) makes sure its conversation exists, opens a          *)
(* transaction, loads the conversation's map through the Redis cache,      *)
(* turns every personal value of the prompt into a placeholder, inserts    *)
(* the new entries, drops the cache entry and commits; it audits the       *)
(* redaction, loads the map again to resolve placeholders, forwards the    *)
(* redacted prompt and resolves the answer.  A reload (Reload) loads the   *)
(* map to show the stored history; a deletion (Delete) removes the         *)
(* conversation and its map in one transaction.  Every step below is one   *)
(* awaited call: any other request may run between two of them.            *)
(*                                                                         *)
(* Postgres runs at READ COMMITTED: a statement sees committed rows and    *)
(* its own; INSERT ... ON CONFLICT DO NOTHING waits for an uncommitted     *)
(* insertion or deletion of the same key, the foreign key takes a shared   *)
(* lock on the conversation row, and the deadlock detector aborts one of   *)
(* the transactions of a cycle.                                            *)
(***************************************************************************)
EXTENDS Naturals, Sequences, FiniteSets

CONSTANTS Chat, Reload, Delete,  \* the requests, by kind
          Conversation,          \* conversation identifiers
          EntityType, Value,     \* kinds of personal data; values up to normalisation
          TypeOf,                \* the kind of each value
          Prompt,                \* the values a prompt mentions, in text order
          MaxIndex,              \* largest index of a placeholder (9999 in the grammar)
          RedisMayFail,          \* may a Redis call fail?
          NoEntry                \* the cache holds nothing for a conversation

Proc == Chat \cup Reload \cup Delete
Placeholder == [type : EntityType, index : 1..MaxIndex]
Row == [ph : Placeholder, val : Value]
AuditType == {"request.redacted", "request.blocked", "response.unredacted", "map.deleted"}

ASSUME KindsDisjoint == /\ Chat \cap Reload = {}
                        /\ Chat \cap Delete = {}
                        /\ Reload \cap Delete = {}
ASSUME ValuesTyped == TypeOf \in [Value -> EntityType]
ASSUME PromptsTyped == Prompt \subseteq Seq(Value)
ASSUME MaxIndexNat == MaxIndex \in Nat
ASSUME RedisBoolean == RedisMayFail \in BOOLEAN
ASSUME NoEntryApart == \A entry \in SUBSET Row : entry # NoEntry

VARIABLES
  conversations,  \* committed rows of table conversations
  tokenMap,       \* conversation -> committed rows of table token_map
  audit,          \* committed audit events: <<request, event type>>
  cache,          \* Redis: conversation -> cached rows or NoEntry
  pc,             \* where each request stands
  conv,           \* the conversation each request names
  todo,           \* chat -> values of the prompt not yet replaced
  rows,           \* request -> the rows it last loaded (and, for a chat, assigned)
  fresh,          \* chat -> new entries not yet inserted (collectedNew)
  inserted,       \* chat -> rows its open transaction has inserted
  sent,           \* chat -> the rows its redacted prompt was built from
  erased,         \* history: conversations deleted at least once
  disturbed       \* history: conversations on which two requests ever overlapped
                  \* or an eviction was lost

store  == <<conversations, tokenMap, audit>>
local  == <<todo, fresh, inserted, sent>>
ghosts == <<erased, disturbed>>
vars   == <<store, cache, pc, conv, rows, local, ghosts>>

Ended == {"done", "rejected", "failed"}
ChatAt == {"load", "fill", "redact", "insert", "evict", "commit", "blocked",
           "audit", "resolve", "refill", "forward", "respond"}
DeleteAt == {"rowsDeleted", "convDeleted", "evicted"}

Active(p) == pc[p] \notin {"idle"} \cup Ended

Placeholders(rs) == {e.ph : e \in rs}

Init ==
  /\ conversations = {}
  /\ tokenMap = [c \in Conversation |-> {}]
  /\ audit = {}
  /\ cache = [c \in Conversation |-> NoEntry]
  /\ pc = [p \in Proc |-> "idle"]
  /\ conv \in [Proc -> Conversation]
  /\ todo = [r \in Chat |-> << >>]
  /\ rows = [p \in Proc |-> {}]
  /\ fresh = [r \in Chat |-> << >>]
  /\ inserted = [r \in Chat |-> {}]
  /\ sent = [r \in Chat |-> {}]
  /\ erased = {}
  /\ disturbed = {}
--------------------------------------------------------------------------------
(* Locks. *)

\* d's open transaction has deleted the conversation row of c.
HoldsConversation(d, c) == d \in Delete /\ conv[d] = c /\ pc[d] \in {"convDeleted", "evicted"}

\* d's open transaction has deleted the row of placeholder ph in c.
HoldsRow(d, c, ph) ==
  d \in Delete /\ conv[d] = c /\ pc[d] \in DeleteAt /\ ph \in Placeholders(rows[d])

\* p's next statement has to wait until q's transaction ends.
Waits(p, q) ==
  /\ p # q
  /\ conv[p] = conv[q]
  /\ \/ /\ p \in Chat
        /\ pc[p] = "insert"
        /\ \/ q \in Chat /\ Head(fresh[p]).ph \in Placeholders(inserted[q])
           \/ HoldsRow(q, conv[p], Head(fresh[p]).ph)
           \/ HoldsConversation(q, conv[p])
     \/ /\ p \in Delete
        /\ pc[p] = "rowsDeleted"
        /\ \/ q \in Chat /\ inserted[q] # {}
           \/ HoldsConversation(q, conv[p])

Waiting(p) == \E q \in Proc : Waits(p, q)

\* A set of requests each of which waits for another of the set, and no
\* smaller such set inside it: a cycle of the wait-for graph.
Knot(S) == S # {} /\ \A p \in S : \E q \in S : Waits(p, q)
Deadlocked(p) ==
  \E S \in SUBSET {q \in Proc : Waiting(q)} :
    p \in S /\ Knot(S) /\ \A T \in SUBSET S : Knot(T) => T = S
--------------------------------------------------------------------------------
(* Requests: arrival, the cache-through load, abandonment. *)

\* p is now under way; disturbed remembers that it is not alone on conv[p].
Begin(p, at) ==
  /\ pc[p] = "idle"
  /\ pc' = [pc EXCEPT ![p] = at]
  /\ disturbed' = IF \E q \in Proc : Active(q) /\ conv[q] = conv[p]
                     THEN disturbed \cup {conv[p]} ELSE disturbed

\* ownsConversation and ensureConversation commit the conversation row; the
\* insertion waits for a deletion of that row to end.
EnsureConversation(r, prompt) ==
  /\ ~ \E d \in Delete : HoldsConversation(d, conv[r])
  /\ Begin(r, "load")
  /\ conversations' = conversations \cup {conv[r]}
  /\ todo' = [todo EXCEPT ![r] = prompt]
  /\ UNCHANGED <<tokenMap, audit, cache, conv, rows, fresh, inserted, sent, erased>>

\* GET messages reads the stored history, then needs the map to show it.
StartReload(g) ==
  /\ Begin(g, "resolve")
  /\ UNCHANGED <<store, cache, conv, rows, local, erased>>

\* Where a request goes on once loadRows has returned.
AfterLoad(p) ==
  IF p \in Reload THEN "done" ELSE IF pc[p] \in {"load", "fill"} THEN "redact" ELSE "forward"

\* loadRows: the cache has the conversation.
LoadFromCache(p) ==
  /\ pc[p] \in {"load", "resolve"}
  /\ cache[conv[p]] # NoEntry
  /\ rows' = [rows EXCEPT ![p] = cache[conv[p]]]
  /\ pc' = [pc EXCEPT ![p] = AfterLoad(p)]
  /\ UNCHANGED <<store, cache, conv, local, ghosts>>

\* loadRows: a miss, or an error swallowed; the rows come from Postgres.
LoadFromDb(p) ==
  /\ pc[p] \in {"load", "resolve"}
  /\ cache[conv[p]] = NoEntry \/ RedisMayFail
  /\ rows' = [rows EXCEPT ![p] = tokenMap[conv[p]]]
  /\ pc' = [pc EXCEPT ![p] = IF @ = "load" THEN "fill" ELSE "refill"]
  /\ UNCHANGED <<store, cache, conv, local, ghosts>>

\* A Redis write of entry for c that may be lost.
CacheWrite(c, entry) ==
  \/ cache' = [cache EXCEPT ![c] = entry]
  \/ RedisMayFail /\ UNCHANGED cache

\* A Redis DEL for c that may be lost.
CacheEvict(c) ==
  \/ cache' = [cache EXCEPT ![c] = NoEntry] /\ UNCHANGED disturbed
  \/ RedisMayFail /\ UNCHANGED cache /\ disturbed' = disturbed \cup {c}

\* loadRows: the rows read a moment ago go into the cache.
CacheRows(p) ==
  /\ pc[p] \in {"fill", "refill"}
  /\ CacheWrite(conv[p], rows[p])
  /\ pc' = [pc EXCEPT ![p] = AfterLoad(p)]
  /\ UNCHANGED <<store, conv, rows, local, ghosts>>

\* The entry's TTL runs out.
Expire(c) ==
  /\ cache[c] # NoEntry
  /\ cache' = [cache EXCEPT ![c] = NoEntry]
  /\ UNCHANGED <<store, pc, conv, rows, local, ghosts>>

\* p ends at `at` and its open transaction, if any, leaves nothing behind.
Finish(p, at) ==
  /\ pc' = [pc EXCEPT ![p] = at]
  /\ rows' = [rows EXCEPT ![p] = {}]
  /\ todo' = [r \in Chat |-> IF r = p THEN << >> ELSE todo[r]]
  /\ fresh' = [r \in Chat |-> IF r = p THEN << >> ELSE fresh[r]]
  /\ inserted' = [r \in Chat |-> IF r = p THEN {} ELSE inserted[r]]
  /\ sent' = [r \in Chat |-> IF r = p THEN {} ELSE sent[r]]

\* Any awaited call may throw: the transaction rolls back and the request
\* ends with an error, without an audit event of its own.
Fail(p) ==
  /\ Active(p)
  /\ Finish(p, "failed")
  /\ UNCHANGED <<store, cache, conv, ghosts>>
--------------------------------------------------------------------------------
(* The chat turn: prepareOutbound inside its transaction. *)

\* The index apply_policy gives to the next new value of type t.
IsNextIndex(rs, t, i) ==
  /\ \A e \in rs : e.ph.type = t => e.ph.index < i
  /\ i = 1 \/ \E e \in rs : e.ph.type = t /\ e.ph.index = i - 1

\* apply_policy meets the next value: a known one keeps its placeholder, a
\* new one gets the next index of its type and is kept for insertion.
Tokenise(r) ==
  /\ pc[r] = "redact"
  /\ todo[r] # << >>
  /\ LET v == Head(todo[r]) IN
       \/ \E e \in rows[r] :
            /\ e.val = v
            /\ sent' = [sent EXCEPT ![r] = @ \cup {e}]
            /\ UNCHANGED <<rows, fresh>>
       \/ /\ \A e \in rows[r] : e.val # v
          /\ \E i \in 1..MaxIndex :
               LET new == [ph |-> [type |-> TypeOf[v], index |-> i], val |-> v] IN
               /\ IsNextIndex(rows[r], TypeOf[v], i)
               /\ rows' = [rows EXCEPT ![r] = @ \cup {new}]
               /\ fresh' = [fresh EXCEPT ![r] = Append(@, new)]
               /\ sent' = [sent EXCEPT ![r] = @ \cup {new}]
  /\ todo' = [todo EXCEPT ![r] = Tail(@)]
  /\ UNCHANGED <<store, cache, pc, conv, inserted, ghosts>>

\* All messages are redacted; without new entries nothing is written and the
\* cache entry stays.
Redacted(r) ==
  /\ pc[r] = "redact"
  /\ todo[r] = << >>
  /\ pc' = [pc EXCEPT ![r] = IF fresh[r] = << >> THEN "commit" ELSE "insert"]
  /\ UNCHANGED <<store, cache, conv, rows, local, ghosts>>

\* The policy blocks a detected entity: nothing is written.
Blocked(r) ==
  /\ pc[r] = "redact"
  /\ pc' = [pc EXCEPT ![r] = "blocked"]
  /\ UNCHANGED <<store, cache, conv, rows, local, ghosts>>

\* The redactor is down, times out, or is out of indexes: fail closed.
RedactorFails(r) ==
  /\ pc[r] = "redact"
  /\ Fail(r)

\* Fault: the statement does not see what other transactions have committed.
ConflictOwnOnly(r, c, ph) == ph \in Placeholders(inserted[r])

\* ph has a row in c that the statement of r sees.
Conflict(r, c, ph) == ph \in Placeholders(tokenMap[c] \cup inserted[r])

\* Fault: only the first new entry is persisted.
InsertedFirstOnly(r) ==
  /\ fresh' = [fresh EXCEPT ![r] = << >>]
  /\ pc' = [pc EXCEPT ![r] = "evict"]

Inserted(r) ==
  /\ fresh' = [fresh EXCEPT ![r] = Tail(@)]
  /\ pc' = [pc EXCEPT ![r] = IF Tail(fresh[r]) = << >> THEN "evict" ELSE "insert"]

\* persistNewEntries inserts its next row.
InsertRow(r) ==
  /\ pc[r] = "insert"
  /\ ~ Waiting(r)
  /\ ~ Conflict(r, conv[r], Head(fresh[r]).ph)
  /\ conv[r] \in conversations
  /\ inserted' = [inserted EXCEPT ![r] = @ \cup {Head(fresh[r])}]
  /\ Inserted(r)
  /\ UNCHANGED <<store, cache, conv, rows, todo, sent, ghosts>>

\* ON CONFLICT DO NOTHING: the placeholder is taken and the entry is dropped.
SkipRow(r) ==
  /\ pc[r] = "insert"
  /\ ~ Waiting(r)
  /\ Conflict(r, conv[r], Head(fresh[r]).ph)
  /\ Inserted(r)
  /\ UNCHANGED <<store, cache, conv, rows, todo, inserted, sent, ghosts>>

\* Fault: the foreign-key error is taken for a transient one and retried.
InsertRetries(r) ==
  /\ pc[r] = "insert"
  /\ ~ Waiting(r)
  /\ conv[r] \notin conversations
  /\ UNCHANGED vars

\* The conversation has been deleted meanwhile: the foreign key fails.
InsertFails(r) ==
  /\ pc[r] = "insert"
  /\ ~ Waiting(r)
  /\ conv[r] \notin conversations
  /\ Fail(r)

\* Fault: the cache is refreshed with the transaction's rows.
EvictByRefresh(r) ==
  /\ pc[r] = "evict"
  /\ CacheWrite(conv[r], rows[r])
  /\ pc' = [pc EXCEPT ![r] = "commit"]
  /\ UNCHANGED <<store, conv, rows, local, ghosts>>

\* Fault: the cache is left alone.
EvictNothing(r) ==
  /\ pc[r] = "evict"
  /\ pc' = [pc EXCEPT ![r] = "commit"]
  /\ UNCHANGED <<store, cache, conv, rows, local, ghosts>>

\* persistNewEntries drops the cache entry, before the commit.
EvictCache(r) ==
  /\ pc[r] = "evict"
  /\ CacheEvict(conv[r])
  /\ pc' = [pc EXCEPT ![r] = "commit"]
  /\ UNCHANGED <<store, conv, rows, local, erased>>

\* Fault: a turn without new entries is not audited.
CommitUnaudited(r) ==
  /\ pc[r] = "commit"
  /\ tokenMap' = [tokenMap EXCEPT ![conv[r]] = @ \cup inserted[r]]
  /\ inserted' = [inserted EXCEPT ![r] = {}]
  /\ rows' = [rows EXCEPT ![r] = {}]
  /\ pc' = [pc EXCEPT ![r] = IF inserted[r] = {} THEN "resolve" ELSE "audit"]
  /\ UNCHANGED <<conversations, audit, cache, conv, todo, fresh, sent, ghosts>>

CommitPrepare(r) ==
  /\ pc[r] = "commit"
  /\ tokenMap' = [tokenMap EXCEPT ![conv[r]] = @ \cup inserted[r]]
  /\ inserted' = [inserted EXCEPT ![r] = {}]
  /\ rows' = [rows EXCEPT ![r] = {}]
  /\ pc' = [pc EXCEPT ![r] = "audit"]
  /\ UNCHANGED <<conversations, audit, cache, conv, todo, fresh, sent, ghosts>>
--------------------------------------------------------------------------------
(* The chat turn: the back half, handleChat. *)

\* Fault: an event type the audit log does not know.
AuditMisnamed(r) ==
  /\ pc[r] = "blocked"
  /\ audit' = audit \cup {<<r, "request.rejected">>}
  /\ Finish(r, "rejected")
  /\ UNCHANGED <<conversations, tokenMap, cache, conv, ghosts>>

AuditBlocked(r) ==
  /\ pc[r] = "blocked"
  /\ audit' = audit \cup {<<r, "request.blocked">>}
  /\ Finish(r, "rejected")
  /\ UNCHANGED <<conversations, tokenMap, cache, conv, ghosts>>

AuditRedacted(r) ==
  /\ pc[r] = "audit"
  /\ audit' = audit \cup {<<r, "request.redacted">>}
  /\ pc' = [pc EXCEPT ![r] = "resolve"]
  /\ UNCHANGED <<conversations, tokenMap, cache, conv, rows, local, ghosts>>

\* The redacted prompt leaves for the provider; the resolver is already fixed.
Forward(r) ==
  /\ pc[r] = "forward"
  /\ pc' = [pc EXCEPT ![r] = "respond"]
  /\ UNCHANGED <<store, cache, conv, rows, local, ghosts>>

\* The provider's answer has been resolved with rows[r] and sent.
Respond(r) ==
  /\ pc[r] = "respond"
  /\ audit' = audit \cup {<<r, "response.unredacted">>}
  /\ Finish(r, "done")
  /\ UNCHANGED <<conversations, tokenMap, cache, conv, ghosts>>
--------------------------------------------------------------------------------
(* DELETE /api/conversations/:id, one transaction. *)

\* DELETE FROM token_map: waits for another deletion that holds the rows.
DeleteRows(d) ==
  /\ \A q \in Delete, ph \in Placeholders(tokenMap[conv[d]]) : ~ HoldsRow(q, conv[d], ph)
  /\ Begin(d, "rowsDeleted")
  /\ rows' = [rows EXCEPT ![d] = tokenMap[conv[d]]]
  /\ UNCHANGED <<store, cache, conv, local, erased>>

\* Fault: the deletion does not wait for open insertions.
DeleteUnlocked(d) ==
  /\ pc[d] = "rowsDeleted"
  /\ conv[d] \in conversations
  /\ rows' = [rows EXCEPT ![d] = tokenMap[conv[d]]]
  /\ pc' = [pc EXCEPT ![d] = "convDeleted"]
  /\ UNCHANGED <<store, cache, conv, local, ghosts>>

\* DELETE FROM conversations: waits for open insertions, then cascades to
\* the rows committed meanwhile.
DeleteConversationRow(d) ==
  /\ pc[d] = "rowsDeleted"
  /\ ~ Waiting(d)
  /\ conv[d] \in conversations
  /\ rows' = [rows EXCEPT ![d] = tokenMap[conv[d]]]
  /\ pc' = [pc EXCEPT ![d] = "convDeleted"]
  /\ UNCHANGED <<store, cache, conv, local, ghosts>>

\* There is no such conversation: nothing but the eviction and the event.
DeleteMissing(d) ==
  /\ pc[d] = "rowsDeleted"
  /\ ~ Waiting(d)
  /\ conv[d] \notin conversations
  /\ CacheEvict(conv[d])
  /\ audit' = audit \cup {<<d, "map.deleted">>}
  /\ Finish(d, "done")
  /\ UNCHANGED <<conversations, tokenMap, conv, erased>>

\* deleteConversation drops the cache entry, before the commit.
EvictDeleted(d) ==
  /\ pc[d] = "convDeleted"
  /\ CacheEvict(conv[d])
  /\ pc' = [pc EXCEPT ![d] = "evicted"]
  /\ UNCHANGED <<store, conv, rows, local, erased>>

CommitDelete(d) ==
  /\ pc[d] = "evicted"
  /\ tokenMap' = [tokenMap EXCEPT ![conv[d]] = {}]
  /\ conversations' = conversations \ {conv[d]}
  /\ audit' = audit \cup {<<d, "map.deleted">>}
  /\ erased' = erased \cup {conv[d]}
  /\ Finish(d, "done")
  /\ UNCHANGED <<cache, conv, disturbed>>
--------------------------------------------------------------------------------
\* Postgres aborts a transaction of a wait-for cycle.
AbortDeadlocked(p) == Deadlocked(p) /\ Fail(p)

\* The gateway process dies: every request under way ends, every open
\* transaction rolls back; Postgres and Redis keep what they hold.
Crash ==
  /\ \E p \in Proc : Active(p)
  /\ pc' = [p \in Proc |-> IF Active(p) THEN "failed" ELSE pc[p]]
  /\ rows' = [p \in Proc |-> {}]
  /\ todo' = [r \in Chat |-> << >>]
  /\ fresh' = [r \in Chat |-> << >>]
  /\ inserted' = [r \in Chat |-> {}]
  /\ sent' = [r \in Chat |-> {}]
  /\ UNCHANGED <<store, cache, conv, ghosts>>

Arrive ==
  \/ \E r \in Chat, prompt \in Prompt : EnsureConversation(r, prompt)
  \/ \E g \in Reload : StartReload(g)
  \/ \E d \in Delete : DeleteRows(d)

LoadStep(p) == LoadFromCache(p) \/ LoadFromDb(p) \/ CacheRows(p)

ChatStep(r) ==
  \/ LoadStep(r)
  \/ Tokenise(r) \/ Redacted(r) \/ Blocked(r) \/ RedactorFails(r)
  \/ InsertRow(r) \/ SkipRow(r) \/ InsertFails(r) \/ EvictCache(r) \/ CommitPrepare(r)
  \/ AuditBlocked(r) \/ AuditRedacted(r) \/ Forward(r) \/ Respond(r)
  \/ AbortDeadlocked(r)

DeleteStep(d) ==
  \/ DeleteConversationRow(d) \/ DeleteMissing(d) \/ EvictDeleted(d) \/ CommitDelete(d)
  \/ AbortDeadlocked(d)

Next ==
  \/ Arrive
  \/ \E r \in Chat : ChatStep(r)
  \/ \E g \in Reload : LoadStep(g)
  \/ \E d \in Delete : DeleteStep(d)
  \/ \E p \in Proc : Fail(p)
  \/ \E c \in Conversation : Expire(c)
  \/ Crash

Spec == Init /\ [][Next]_vars

\* Every call the gateway awaits is answered or throws: each request that has
\* begun keeps taking steps.
FairSpec ==
  /\ Spec
  /\ \A r \in Chat : WF_vars(ChatStep(r))
  /\ \A g \in Reload : WF_vars(LoadStep(g))
  /\ \A d \in Delete : WF_vars(DeleteStep(d))
--------------------------------------------------------------------------------
(* Properties. *)

\* Every variable has its type (the types of the gateway's and the stores' state).
TypeOK ==
  /\ conversations \subseteq Conversation
  /\ tokenMap \in [Conversation -> SUBSET Row]
  /\ audit \subseteq Proc \X AuditType
  /\ cache \in [Conversation -> {NoEntry} \cup SUBSET Row]
  /\ pc \in [Proc -> {"idle"} \cup Ended \cup ChatAt \cup DeleteAt]
  /\ conv \in [Proc -> Conversation]
  /\ todo \in [Chat -> Seq(Value)]
  /\ rows \in [Proc -> SUBSET Row]
  /\ fresh \in [Chat -> Seq(Row)]
  /\ inserted \in [Chat -> SUBSET Row]
  /\ sent \in [Chat -> SUBSET Row]
  /\ erased \subseteq Conversation
  /\ disturbed \subseteq Conversation

Map == INSTANCE ConversationMap WITH
         Conversation <- Conversation, Row <- Row,
         conversations <- conversations, tokenMap <- tokenMap

\* Seen from its committed rows alone, the vault is the map it promises: rows
\* are only added, all of a request at once, to an existing conversation and
\* under placeholders not yet taken, until the conversation is erased whole.
ImplementsMap == Map!MapSpec

\* In one conversation a placeholder stands for one value, and two open
\* transactions never both hold a row for it (UNIQUE(conversation_id,
\* placeholder) with ON CONFLICT DO NOTHING, under any interleaving).
UniquePlaceholder ==
  /\ \A r \in Chat : Map!Functional(tokenMap[conv[r]] \cup inserted[r])
  /\ \A r, q \in Chat :
       r # q /\ conv[r] = conv[q]
         => Placeholders(inserted[r]) \cap Placeholders(inserted[q]) = {}

\* As long as a conversation has not been deleted, no race makes the cache, or
\* rows read on their way into it, hold a row that Postgres does not have: a
\* stale cache may miss rows but resolves no placeholder wrongly.
CacheSound ==
  \A c \in Conversation \ erased :
    /\ cache[c] # NoEntry => cache[c] \subseteq tokenMap[c]
    /\ \A p \in Chat \cup Reload :
         conv[p] = c /\ pc[p] \in {"fill", "refill", "forward", "respond"}
           => rows[p] \subseteq tokenMap[c]

\* Before a redacted prompt leaves, every placeholder in it has a committed row
\* ("Persists new map entries before returning so the response un-redactor can
\* resolve them"), whatever other requests of the conversation did meanwhile.
SentIsPersisted ==
  \A r \in Chat :
    pc[r] \in {"audit", "resolve", "refill", "forward", "respond"} /\ conv[r] \notin erased
      => Placeholders(sent[r]) \subseteq Placeholders(tokenMap[conv[r]])

\* Nothing is forwarded before the redaction's audit event is committed, and a
\* request that was blocked has never been forwarded or audited as redacted.
ForwardAudited ==
  \A r \in Chat :
    /\ pc[r] \in {"forward", "respond", "done"} => <<r, "request.redacted">> \in audit
    /\ pc[r] \in {"blocked", "rejected"} => <<r, "request.redacted">> \notin audit

\* No placeholder of the redacted prompt resolves to a value other than the one
\* it replaced ("the same entity keeps the same placeholder", "Placeholder
\* consistency per conversation").
NoForeignValue ==
  \A r \in Chat :
    pc[r] = "respond" => \A e \in sent[r], f \in rows[r] : e.ph = f.ph => e = f

\* In a conversation whose requests never overlapped and whose evictions all
\* reached Redis, every answer resolves to what the prompt said, across turns,
\* reloads, expiries, failures and restarts of the gateway, deletion and
\* re-creation.
SerialRoundTrip ==
  \A r \in Chat :
    pc[r] = "respond" /\ conv[r] \notin disturbed => sent[r] \subseteq rows[r]

\* Once a conversation is deleted and nothing is under way on it, no entry of
\* its map is left in the cache ("delete a conversation and (via cascade) its
\* map entries").
ErasedFromCache ==
  \A c \in erased \ conversations :
    (\A p \in Proc : conv[p] = c => ~ Active(p)) => cache[c] \in {NoEntry, {}}

\* Every request that has begun ends: no chain of row locks, conflicts and
\* evictions keeps it waiting for ever.
EveryRequestEnds == \A p \in Proc : Active(p) ~> pc[p] \in Ended
================================================================================
