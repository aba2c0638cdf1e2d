------------------------------- MODULE PolicyStore -------------------------------
(***************************************************************************)
(* A tenant's policy: the row in Postgres, its copy in Redis, those who    *)
(* load it and the administrators who edit it.                             *)
(*                                                                         *)
(* Whoever needs the policy (a chat turn, the analysis preview, GET        *)
(* policy) loads it through the cache.  An administrator's page loads it   *)
(* too, adds or removes one rule and sends the whole document back with    *)
(* the next version number; the gateway replaces the row, drops the cached *)
(* copy and writes the audit event in one transaction.  Nothing compares   *)
(* the versions.  One action is one awaited call.                          *)
(***************************************************************************)
EXTENDS Naturals, FiniteSets

CONSTANTS Reader, Editor,  \* those who load, and those who load and edit
          Rule,            \* custom_entities
          MaxVersion,      \* bound: no edit of a document of this version
          RedisMayFail,    \* may a Redis call fail?
          NoPolicy         \* no row, no cached copy, no document at hand

Proc   == Reader \cup Editor
Policy == [version : 1..MaxVersion, rules : SUBSET Rule]

ASSUME ReadersApart == Reader \cap Editor = {}
ASSUME VersionsExist == MaxVersion \in Nat \ {0}
ASSUME NoPolicyApart == NoPolicy \notin Policy
ASSUME RedisBoolean == RedisMayFail \in BOOLEAN

VARIABLES
  row,         \* the committed document, or NoPolicy
  cache,       \* Redis: the cached document, or NoPolicy
  pc,          \* where each process stands
  doc,         \* the document each process has at hand
  draft,       \* editor -> the document it saves
  committed,   \* history: every document that was ever in force
  wanted,      \* history: the rules as the saved edits, one by one, make them
  overlapped,  \* history: a load and a save overlapped, or an eviction was lost
  conflict     \* history: an edit started from a page opened during another's

ghosts == <<committed, wanted, overlapped, conflict>>
vars   == <<row, cache, pc, doc, draft, ghosts>>

\* The policy of a tenant without a row (DEFAULT_POLICY).
Default == [version |-> 1, rules |-> {}]
InForce == IF row = NoPolicy THEN Default ELSE row

Loading == {"get", "select", "set"}
Saving  == {"upsert", "evict", "commit"}
Is(ats) == \E p \in Proc : pc[p] \in ats

Init ==
  /\ row \in {NoPolicy, Default}
  /\ cache = NoPolicy
  /\ pc = [p \in Proc |-> "idle"]
  /\ doc = [p \in Proc |-> NoPolicy]
  /\ draft = [e \in Editor |-> NoPolicy]
  /\ committed = {Default}
  /\ wanted = {}
  /\ overlapped = FALSE
  /\ conflict = FALSE

Goto(p, at) == pc' = [pc EXCEPT ![p] = at]
--------------------------------------------------------------------------------
(* loadPolicy *)

\* A turn, or a page (again), asks for the policy.
Open(p) ==
  /\ pc[p] = "idle" \/ (p \in Editor /\ pc[p] = "page")
  /\ Goto(p, "get")
  /\ doc' = [doc EXCEPT ![p] = NoPolicy]
  /\ overlapped' = (overlapped \/ Is(Saving))
  /\ conflict' = (conflict \/ (p \in Editor /\ \E e \in Editor \ {p} : pc[e] # "idle"))
  /\ UNCHANGED <<row, cache, draft, committed, wanted>>

Loaded(p) == IF p \in Editor THEN "page" ELSE "idle"

GetHit(p) ==
  /\ pc[p] = "get"
  /\ cache # NoPolicy
  /\ doc' = [doc EXCEPT ![p] = cache]
  /\ Goto(p, Loaded(p))
  /\ UNCHANGED <<row, cache, draft, ghosts>>

\* A miss, or an error that is swallowed.
GetMiss(p) ==
  /\ pc[p] = "get"
  /\ cache = NoPolicy \/ RedisMayFail
  /\ Goto(p, "select")
  /\ UNCHANGED <<row, cache, doc, draft, ghosts>>

SelectRow(p) ==
  /\ pc[p] = "select"
  /\ doc' = [doc EXCEPT ![p] = InForce]
  /\ Goto(p, "set")
  /\ UNCHANGED <<row, cache, draft, ghosts>>

SetCache(p) ==
  /\ pc[p] = "set"
  /\ \/ cache' = doc[p]
     \/ (RedisMayFail /\ UNCHANGED cache)
  /\ Goto(p, Loaded(p))
  /\ UNCHANGED <<row, doc, draft, ghosts>>

\* Fault: the copy is set without a lifetime.
NeverExpire == FALSE /\ UNCHANGED vars

\* The copy's 300 seconds are over.
Expire ==
  /\ cache # NoPolicy
  /\ cache' = NoPolicy
  /\ UNCHANGED <<row, pc, doc, draft, ghosts>>
--------------------------------------------------------------------------------
(* The administrator's page, PUT policy and savePolicy. *)

Close(e) ==
  /\ pc[e] = "page"
  /\ Goto(e, "idle")
  /\ doc' = [doc EXCEPT ![e] = NoPolicy]
  /\ UNCHANGED <<row, cache, draft, ghosts>>

\* add or remove: one rule more or less, the next version.
Toggled(rules, r) == IF r \in rules THEN rules \ {r} ELSE rules \cup {r}

Edit(e) ==
  /\ pc[e] = "page"
  /\ doc[e].version < MaxVersion
  /\ \E r \in Rule :
       draft' = [draft EXCEPT ![e] = [version |-> doc[e].version + 1,
                                      rules |-> Toggled(doc[e].rules, r)]]
  /\ Goto(e, "upsert")
  /\ overlapped' = (overlapped \/ Is(Loading))
  /\ UNCHANGED <<row, cache, doc, committed, wanted, conflict>>

\* INSERT ... ON CONFLICT DO UPDATE waits for another save to end.
Upsert(e) ==
  /\ pc[e] = "upsert"
  /\ \A q \in Editor : pc[q] \notin {"evict", "commit"}
  /\ Goto(e, "evict")
  /\ UNCHANGED <<row, cache, doc, draft, ghosts>>

\* Fault: the cache takes the new document at once.
EvictByWriting(e) ==
  /\ pc[e] = "evict"
  /\ cache' = draft[e]
  /\ Goto(e, "commit")
  /\ UNCHANGED <<row, doc, draft, ghosts>>

\* Fault: the cached copy is left to run out.
EvictNothing(e) ==
  /\ pc[e] = "evict"
  /\ Goto(e, "commit")
  /\ UNCHANGED <<row, cache, doc, draft, ghosts>>

\* savePolicy drops the cached copy, before the commit; an error is swallowed.
Evict(e) ==
  /\ pc[e] = "evict"
  /\ \/ cache' = NoPolicy /\ UNCHANGED overlapped
     \/ RedisMayFail /\ UNCHANGED cache /\ overlapped' = TRUE
  /\ Goto(e, "commit")
  /\ UNCHANGED <<row, doc, draft, committed, wanted, conflict>>

\* The rules that the edit in draft[e] asks for, applied to what was wanted;
\* nobody asks any more once pages have been in one another's way.
Applied(e) ==
  IF overlapped \/ conflict THEN {}
  ELSE (wanted \cup (draft[e].rules \ doc[e].rules)) \ (doc[e].rules \ draft[e].rules)

Commit(e) ==
  /\ pc[e] = "commit"
  /\ row' = draft[e]
  /\ committed' = committed \cup {draft[e]}
  /\ wanted' = Applied(e)
  /\ draft' = [draft EXCEPT ![e] = NoPolicy]
  /\ Goto(e, "page")
  /\ UNCHANGED <<cache, overlapped>>

\* Fault: the page goes on with the document it had.
SavedUnseen(e) == Commit(e) /\ UNCHANGED <<doc, conflict>>

\* With the audit event written the save commits, and the page goes on from
\* the document it sent.
Save(e) ==
  /\ Commit(e)
  /\ doc' = [doc EXCEPT ![e] = draft[e]]
  /\ UNCHANGED conflict

\* The answer is lost: the page reports an error and keeps its old document.
SaveUnanswered(e) ==
  /\ Commit(e)
  /\ conflict' = TRUE
  /\ UNCHANGED doc

\* Fault: the page is shown although the load has failed.
FailOnPage(p) ==
  /\ pc[p] \in Loading \cup Saving
  /\ Goto(p, IF p \in Editor THEN "page" ELSE "idle")
  /\ draft' = [e \in Editor |-> IF e = p THEN NoPolicy ELSE draft[e]]
  /\ UNCHANGED <<row, cache, doc, ghosts>>

\* A call throws: a load ends without a document, a save rolls back and the
\* page keeps the one it had.
Fail(p) ==
  /\ pc[p] \in Loading \cup Saving
  /\ Goto(p, IF pc[p] \in Saving THEN "page" ELSE "idle")
  /\ doc' = [doc EXCEPT ![p] = IF pc[p] \in Saving THEN @ ELSE NoPolicy]
  /\ draft' = [e \in Editor |-> IF e = p THEN NoPolicy ELSE draft[e]]
  /\ UNCHANGED <<row, cache, ghosts>>

Answer(p) == GetHit(p) \/ GetMiss(p) \/ SelectRow(p) \/ SetCache(p)
SaveStep(e) == Upsert(e) \/ Evict(e) \/ Save(e) \/ SaveUnanswered(e)

Next ==
  \/ \E p \in Proc : Open(p) \/ Answer(p) \/ Fail(p)
  \/ \E e \in Editor : Edit(e) \/ SaveStep(e) \/ Close(e)
  \/ Expire

Spec == Init /\ [][Next]_vars

\* Calls are answered or throw, and Redis honours the lifetime of a copy.
FairSpec ==
  /\ Spec
  /\ \A p \in Proc : WF_vars(Answer(p) \/ (pc[p] \in Loading /\ Fail(p)))
  /\ WF_vars(Expire)
--------------------------------------------------------------------------------
(* Properties. *)

\* Rows, copies and documents are policies; a save has a document to save.
TypeOK ==
  /\ row \in Policy \cup {NoPolicy}
  /\ cache \in Policy \cup {NoPolicy}
  /\ pc \in [Proc -> {"idle", "page"} \cup Loading \cup Saving]
  /\ \A r \in Reader : pc[r] \in {"idle"} \cup Loading
  /\ doc \in [Proc -> Policy \cup {NoPolicy}]
  /\ draft \in [Editor -> Policy \cup {NoPolicy}]
  /\ \A e \in Editor : pc[e] \in Saving => draft[e] \in Policy
  /\ \A p \in Proc : pc[p] \in {"set", "page"} \cup Saving => doc[p] \in Policy
  /\ committed \subseteq Policy
  /\ wanted \subseteq Rule

\* Whoever applies or shows a policy has one that was in force at some time:
\* a save that is rolled back reaches neither the cache nor a chat turn
\* (loadPolicy, savePolicy inside withTenant).
OnlyCommitted ==
  /\ cache \in committed \cup {NoPolicy}
  /\ \A p \in Proc : doc[p] \in committed \cup {NoPolicy}

\* Between saves the cache has the policy in force or none, unless a load and a
\* save have overlapped or an eviction was lost (savePolicy drops the copy
\* before it commits, loadPolicy writes what it read earlier).
FreshUnlessOverlapped ==
  overlapped \/ Is(Saving) \/ cache \in {NoPolicy, InForce}

\* The rules in force are the saved edits one after the other: no save undoes
\* another's, unless two pages were open at once, a page missed the answer to
\* its save, or it was opened on a stale copy (CustomEntities add and remove
\* send the whole document, whose version nothing compares).
NoEditUndone == overlapped \/ conflict \/ InForce.rules = wanted

\* However stale the cache becomes, once nobody saves any more it is the policy
\* in force, or empty, for ever (the copy's lifetime of 300 seconds).
SettlesOnCommitted ==
  <>[](~ Is(Saving)) => <>[](cache \in {NoPolicy, InForce})
================================================================================
