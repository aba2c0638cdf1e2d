------------------------------- MODULE TenantKeys -------------------------------
(***************************************************************************)
(* The data encryption key of one tenant.  Each gateway process keeps the  *)
(* unwrapped key in memory; the first transaction that needs a key and     *)
(* finds none creates it.  Persist transactions encrypt new map entries    *)
(* under the key, Resolve transactions decrypt the map with it.  The key   *)
(* is put into the process's memory before the transaction that created it *)
(* commits, and stays there if that transaction rolls back.                *)
(*                                                                         *)
(* A request creates at most one key, so the request names the key.        *)
(***************************************************************************)
EXTENDS Naturals, Sequences, FiniteSets

CONSTANTS Persist, Resolve,  \* the transactions, by kind
          Gateway,           \* gateway processes
          FirstKey,          \* the key of a tenant that already has one
          NoKey              \* no key

Proc == Persist \cup Resolve
Key == Proc \cup {FirstKey}

ASSUME KindsApart == Persist \cap Resolve = {}
ASSUME KeysApart == NoKey \notin Key /\ FirstKey \notin Proc

VARIABLES
  keys,      \* committed rows of data_keys (none is ever retired)
  entries,   \* committed rows of token_map: <<their writer, dek_id>>
  dekCache,  \* process -> the key in its memory
  gateway,   \* the process that serves each request
  pc,        \* where each request stands
  dek,       \* the key each request uses
  seen,      \* resolve -> the rows it has loaded, once it has
  loaded,    \* resolve -> has it loaded them?
  began      \* the requests in the order of their BEGIN, which is created_at

local == <<dek, seen, loaded>>
vars == <<keys, entries, dekCache, gateway, pc, local, began>>

Open == {"begun", "select", "found", "create", "keyed", "inserted"}
Active(p) == pc[p] \in Open

Init ==
  /\ keys \in {{}, {FirstKey}}
  /\ entries = {}
  /\ dekCache = [g \in Gateway |-> NoKey]
  /\ gateway \in [Proc -> Gateway]
  /\ pc = [p \in Proc |-> "idle"]
  /\ dek = [p \in Proc |-> NoKey]
  /\ seen = [p \in Resolve |-> {}]
  /\ loaded = [p \in Resolve |-> FALSE]
  /\ began = << >>
--------------------------------------------------------------------------------
(* getTenantDek. *)

Begin(p) ==
  /\ pc[p] = "idle"
  /\ pc' = [pc EXCEPT ![p] = "begun"]
  /\ began' = Append(began, p)
  /\ UNCHANGED <<keys, entries, dekCache, gateway, local>>

\* Fault: a miss is taken for a hit.
LookupUnchecked(p) ==
  /\ pc[p] = "begun"
  /\ dek' = [dek EXCEPT ![p] = dekCache[gateway[p]]]
  /\ pc' = [pc EXCEPT ![p] = "keyed"]
  /\ UNCHANGED <<keys, entries, dekCache, gateway, seen, loaded, began>>

\* The key is in the process's memory, or will be looked up.
LookupCache(p) ==
  /\ pc[p] = "begun"
  /\ LET cached == dekCache[gateway[p]] IN
       /\ dek' = [dek EXCEPT ![p] = cached]
       /\ pc' = [pc EXCEPT ![p] = IF cached = NoKey THEN "select" ELSE "keyed"]
  /\ UNCHANGED <<keys, entries, dekCache, gateway, seen, loaded, began>>

\* The keys with the latest created_at: FirstKey is older than any other.
Newest(ks) ==
  {k \in ks : \/ ks = {FirstKey}
              \/ \E i \in DOMAIN began :
                   /\ began[i] = k
                   /\ \A j \in DOMAIN began : began[j] \in ks => j <= i}

\* Fault: the statement selects the retired keys.
SelectRetired(p) ==
  /\ pc[p] = "select"
  /\ pc' = [pc EXCEPT ![p] = "create"]
  /\ UNCHANGED <<keys, entries, dekCache, gateway, local, began>>

\* SELECT ... ORDER BY created_at DESC LIMIT 1.
SelectKey(p) ==
  /\ pc[p] = "select"
  /\ \/ /\ keys = {}
        /\ pc' = [pc EXCEPT ![p] = "create"]
        /\ UNCHANGED dek
     \/ \E k \in Newest(keys) :
          /\ dek' = [dek EXCEPT ![p] = k]
          /\ pc' = [pc EXCEPT ![p] = "found"]
  /\ UNCHANGED <<keys, entries, dekCache, gateway, seen, loaded, began>>

\* The key that was found goes into memory.
KeepKey(p) ==
  /\ pc[p] = "found"
  /\ dekCache' = [dekCache EXCEPT ![gateway[p]] = dek[p]]
  /\ pc' = [pc EXCEPT ![p] = "keyed"]
  /\ UNCHANGED <<keys, entries, gateway, local, began>>

\* There is none: a new key is inserted and goes into memory, uncommitted.
CreateKey(p) ==
  /\ pc[p] = "create"
  /\ dek' = [dek EXCEPT ![p] = p]
  /\ dekCache' = [dekCache EXCEPT ![gateway[p]] = p]
  /\ pc' = [pc EXCEPT ![p] = "keyed"]
  /\ UNCHANGED <<keys, entries, gateway, seen, loaded, began>>
--------------------------------------------------------------------------------
(* The transactions. *)

\* Committed keys and the transaction's own satisfy the foreign key on dek_id.
KnownKey(p) == dek[p] \in keys \cup {p}

\* persistNewEntries inserts the encrypted entries.
InsertEntries(p) ==
  /\ p \in Persist
  /\ pc[p] = "keyed"
  /\ KnownKey(p)
  /\ pc' = [pc EXCEPT ![p] = "inserted"]
  /\ UNCHANGED <<keys, entries, dekCache, gateway, local, began>>

\* Fault: a rejected insertion is skipped and the transaction goes on.
RejectIgnored(p) ==
  /\ p \in Persist
  /\ pc[p] = "keyed"
  /\ ~ KnownKey(p)
  /\ pc' = [pc EXCEPT ![p] = "inserted"]
  /\ UNCHANGED <<keys, entries, dekCache, gateway, local, began>>

\* The foreign key rejects the key in memory: the transaction rolls back, the
\* memory keeps the key.
EntriesRejected(p) ==
  /\ p \in Persist
  /\ pc[p] = "keyed"
  /\ ~ KnownKey(p)
  /\ pc' = [pc EXCEPT ![p] = "failed"]
  /\ UNCHANGED <<keys, entries, dekCache, gateway, local, began>>

\* resolverMap loads the rows while it obtains the key.
LoadEntries(p) ==
  /\ p \in Resolve
  /\ pc[p] \in Open \ {"begun"}
  /\ ~ loaded[p]
  /\ seen' = [seen EXCEPT ![p] = entries]
  /\ loaded' = [loaded EXCEPT ![p] = TRUE]
  /\ UNCHANGED <<keys, entries, dekCache, gateway, pc, dek, began>>

\* Every row loaded was encrypted under the key that p uses.
Decrypts(p) == \A e \in seen[p] : e[2] = dek[p]

\* What p has created becomes visible.
CommitKey(p) == keys' = IF dek[p] = p THEN keys \cup {p} ELSE keys

CommitPersist(p) ==
  /\ p \in Persist
  /\ pc[p] = "inserted"
  /\ CommitKey(p)
  /\ entries' = entries \cup {<<p, dek[p]>>}
  /\ pc' = [pc EXCEPT ![p] = "done"]
  /\ UNCHANGED <<dekCache, gateway, local, began>>

CommitResolve(p) ==
  /\ p \in Resolve
  /\ pc[p] = "keyed"
  /\ loaded[p]
  /\ Decrypts(p)
  /\ CommitKey(p)
  /\ pc' = [pc EXCEPT ![p] = "done"]
  /\ UNCHANGED <<entries, dekCache, gateway, local, began>>

\* AES-GCM rejects a row: the request fails and rolls back.
DecryptFails(p) ==
  /\ p \in Resolve
  /\ pc[p] = "keyed"
  /\ loaded[p]
  /\ ~ Decrypts(p)
  /\ pc' = [pc EXCEPT ![p] = "failed"]
  /\ UNCHANGED <<keys, entries, dekCache, gateway, local, began>>

\* Any awaited call may throw: the transaction rolls back, the memory stays.
Fail(p) ==
  /\ Active(p)
  /\ pc' = [pc EXCEPT ![p] = "failed"]
  /\ UNCHANGED <<keys, entries, dekCache, gateway, local, began>>

\* A gateway process restarts.
Restart(g) ==
  /\ dekCache[g] # NoKey \/ \E p \in Proc : gateway[p] = g /\ Active(p)
  /\ dekCache' = [dekCache EXCEPT ![g] = NoKey]
  /\ pc' = [p \in Proc |-> IF gateway[p] = g /\ Active(p) THEN "failed" ELSE pc[p]]
  /\ UNCHANGED <<keys, entries, gateway, local, began>>

KeyStep(p) == LookupCache(p) \/ SelectKey(p) \/ KeepKey(p) \/ CreateKey(p)

Next ==
  \/ \E p \in Proc :
       \/ Begin(p) \/ KeyStep(p)
       \/ InsertEntries(p) \/ EntriesRejected(p) \/ CommitPersist(p)
       \/ LoadEntries(p) \/ CommitResolve(p) \/ DecryptFails(p)
       \/ Fail(p)
  \/ \E g \in Gateway : Restart(g)

Spec == Init /\ [][Next]_vars
--------------------------------------------------------------------------------
(* Properties. *)

\* Every variable has its type (data_keys, token_map.dek_id, dekCache), and a
\* request that getTenantDek has served has a key.
TypeOK ==
  /\ keys \subseteq Key
  /\ entries \subseteq Persist \X Key
  /\ dekCache \in [Gateway -> Key \cup {NoKey}]
  /\ gateway \in [Proc -> Gateway]
  /\ pc \in [Proc -> {"idle", "done", "failed"} \cup Open]
  /\ dek \in [Proc -> Key \cup {NoKey}]
  /\ seen \in [Resolve -> SUBSET (Persist \X Key)]
  /\ loaded \in [Resolve -> BOOLEAN]
  /\ began \in Seq(Proc)
  /\ \A p \in Proc : pc[p] \in {"found", "keyed", "inserted"} => dek[p] # NoKey

\* No value is ever stored under a key that is not stored with it, although a
\* process may hold, and use, a key whose transaction was rolled back.
NoOrphanEntry == \A e \in entries : e[2] \in keys

\* A tenant that has its key when the gateways start keeps it: whatever fails or
\* restarts, no process creates, holds or uses another one, so every entry can
\* be decrypted by every process.
KeyIsStable ==
  FirstKey \in keys =>
    /\ keys = {FirstKey}
    /\ \A g \in Gateway : dekCache[g] \in {NoKey, FirstKey}
    /\ \A e \in entries : e[2] = FirstKey
    /\ \A p \in Proc : pc[p] = "keyed" => dek[p] = FirstKey

\* A resolve can decrypt what it has loaded ("Persists new map entries ... so
\* the response un-redactor can resolve them"; "Values are encrypted with
\* AES-256-GCM under the tenant DEK").
Resolvable == \A p \in Resolve : pc[p] = "keyed" /\ loaded[p] => Decrypts(p)
================================================================================
