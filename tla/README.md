# Verification of the gateway

A chat or API request enters the gateway with personal data in it and leaves
for a language-model provider with placeholders (`[[PERSON_1]]`) instead; the
provider's answer comes back with placeholders and reaches the client with the
values. Around that round trip stand a stored history, a page that shows it,
the accounts that may use it and the policy that steers it. This directory
holds TLA+ models of these parts, the TLC runs that check them, and the TLAPS
proofs of what matters most. Paths below are relative to the repository
(`apps/gateway/src` is written `gateway/`).

## 1. Inventory

| Component | Code | State | Operations |
|---|---|---|---|
| Token vault | `gateway/vault.ts`, `conversations.ts`, `0001_init.sql` | tables `conversations`, `token_map`; the Redis entry `map:<tenant>:<conversation>` | load through the cache, persist new entries, delete a conversation, create one |
| Chat request | `gateway/chatCore.ts`, `pipeline.ts`, `routes/productA.ts`, `routes/openaiChat.ts`, `audit.ts`, `db.ts` | one transaction per stage; the redactor's answer in memory; `audit_events` | prepare, audit, resolve, forward, answer, store the turn |
| Data keys | `gateway/vault.ts` `getTenantDek`, `crypto/` | table `data_keys`; `dekCache` of every process | look up, create, encrypt, decrypt |
| Stream un-redactor | `packages/stream-unredactor` | the held-back tail, the SSE line buffer, counters | push, flush, one line, end of stream |
| Placeholder grammar | `packages/shared/src/placeholder.ts`, `services/redactor/app/placeholder.py` | none | complete, could be a prefix |
| Redactor policy engine | `services/redactor/app/redactor.py`, `main.py`, `image_redactor.py` | none between calls | resolve overlaps, apply the policy, number and place placeholders, box out images |
| Entity recognition | `analyzer.py`, `recognizers.py` | none | text to spans |
| Stored history | `conversations.ts`, `chatCore.ts` `persistChatTurn` | table `messages` | append a turn (after its stream), load, delete with the conversation |
| Accounts, sessions, licences | `gateway/accounts.ts`, `sessions.ts`, `principal.ts`, `routes/auth.ts`, `admin.ts`, `platform.ts` | tables of tenants, users, licences; sessions in Redis | log in, log out, change a password, create, disable, enable and delete users, provision tenants, issue and change licences |
| Policy store | `gateway/policy.ts`, `routes/admin.ts`, `apps/web/components/CustomEntities.tsx` | table of policies, the Redis copy, the document on each page | load, edit, save |
| Chat web UI | `apps/web/app/page.tsx`, `lib/chat.ts` | the open conversation, its messages, the messages of those it has left, histories on their way | open, load, send, append a token, stop, delete, reload |
| Other pages, proxies | `apps/web/app` | forms | forward one call each |
| Migrations | `infra/migrations/migrate.mjs` | the set of applied files | apply |

How they interact. A chat turn calls, in this order and each with `await`:
ownership check and conversation row (one transaction); policy, map, redactor,
new entries (a second one); audit (a third); map again with the tenant's key (a
fourth); provider; un-redactor; audit; history. All requests of all gateway
processes share Postgres and Redis; only `dekCache` belongs to a process.
Every request is authorised by its session in Redis, a copy of the user taken
at log-in; the tables of users and licences are not asked again. The page calls
the gateway through a forwarding route and keeps copies of its own.

What is hard about it:

- *Interleaving.* Between two `await`s anything may happen to the same
  conversation: another turn, a reload, a deletion, the re-creation of what was
  deleted. Postgres runs at READ COMMITTED and nothing locks a conversation.
- *Two stores.* Redis is written outside the transaction, and evicted before
  its commit.
- *Failure.* Redis errors are swallowed, every other one ends the request and
  rolls back the open transaction but not what earlier ones committed; the
  process may die between any two steps.
- *Stale closures.* A handler of the page uses after an `await` what it saw when
  it was called, while the user has moved on.
- *Cutting.* The provider's stream splits placeholders, lines and characters
  anywhere, and may break off.

What makes each part correct: the map gives a placeholder one value and never
changes it until the whole conversation is erased; the cache never invents a
row; nothing is forwarded unless its placeholders can be resolved and its
redaction is on record; an entry can be decrypted by every process; the client
gets exactly the un-redaction of the answer, whichever way it was cut; what the
policy hides is hidden whole and in its place, and what it blocks stops the
request; who is locked out stays out, a tenant keeps an administrator and its
seats; a policy that is applied has been in force; the page shows of each
conversation what is stored of it, in order.

`PROJECT.json` lists the hazards behind these sentences line by line.

## 2. Modules

| Module | Stands for |
|---|---|
| `ConversationMap` | abstract: what the vault promises (create, record, erase) |
| `TokenVault` | the vault, the requests that use it, Postgres' locks, Redis |
| `MCTokenVault` | instances: people and companies as values, prompts |
| `TokenVaultProofs` | theorems about `TokenVault` |
| `TenantKeys` | one tenant's data key over several gateway processes |
| `MCTenantKeys`, `TenantKeysProofs` | instance and theorems |
| `Redactor` | `apply_policy` and `redact_image` as operators |
| `Outbound` | `prepareOutbound` over the messages of a conversation's requests, and the author's shield |
| `Accounts` | users, sessions, licences and the requests that change them |
| `PolicyStore` | the policy's row, cached copy, loads and editing pages |
| `ChatHistory` | the gateway's side of a turn's history |
| `ChatPage` | the chat page over `ChatHistory`, which it extends |
| `MCOutbound`, `MCAccounts`, `MCPolicyStore`, `MCChatPage` | instances |
| `PlaceholderGrammar` | complete placeholders and the accepted prefixes |
| `StreamUnredactor` | `class StreamUnredactor` and `unredactBody` as operators |
| `SSEUnredactor` | `createSSEUnredactor` between provider and client |
| `MCSSEUnredactor` | instances: types with a common beginning, fragments |
| `AccountsProofs`, `PolicyStoreProofs`, `ChatPageProofs`, `SSEUnredactorProofs`, `OutboundProofs` | theorems about the module each is named for; those of `ChatPage` include `ChatHistory`'s, those of `SSEUnredactor` and `Outbound` rest on the modules under them |
| `InductionLemmas` | induction over numbers and finite sets; joined texts, sorting, step-by-step definitions |

Definitions marked "Fault:" in a comment are never part of a specification:
each is a plausible bug, put in place of the definition that follows it to see
that a property notices.

### TokenVault

A request is a process with a program counter `pc`; one action is one awaited
call with everything the code does before the next one.

| pc | The request is about to | Action |
|---|---|---|
| `idle` | arrive | `EnsureConversation`, `StartReload`, `DeleteRows` |
| `load`, `resolve` | ask Redis, then Postgres (`loadRows`) | `LoadFromCache`, `LoadFromDb` |
| `fill`, `refill` | write the rows it read to Redis | `CacheRows` |
| `redact` | have the next value replaced | `Tokenise`, `Redacted`, `Blocked`, `RedactorFails` |
| `insert` | insert the next new entry | `InsertRow`, `SkipRow` (ON CONFLICT DO NOTHING), `InsertFails` (foreign key) |
| `evict`, `commit` | evict, then commit | `EvictCache`, `CommitPrepare` |
| `audit`, `blocked` | write its audit event | `AuditRedacted`, `AuditBlocked` |
| `forward`, `respond` | call the provider; answer | `Forward`, `Respond` |
| `rowsDeleted` ... `evicted` | go on deleting | `DeleteConversationRow`, `DeleteMissing`, `EvictDeleted`, `CommitDelete` |

`Fail` ends a request at any step and rolls back, `Crash` does so for all of
them, `Expire` is the cache's TTL. The rows a transaction has inserted or
deleted but not committed are in `inserted` and in `rows` of the deletion; who
waits for whom follows from them (`Waits`), and `AbortDeadlocked` is Postgres'
deadlock detector. These lock rules are the only part that is not translated
from the repository; it is marked external in the map.

A value stands for all spellings that both versions of `normalize`,
`crypto/matchhash.ts` and `redactor.py`, identify. A placeholder is
a type and an index. Encryption is left to `TenantKeys`, text to
`StreamUnredactor`. `erased` and `disturbed` are history variables that no
action reads: the erased conversations, and those on which two requests have
ever been under way at once or whose eviction Redis lost.

### TenantKeys

`getTenantDek` step by step (`LookupCache`, `SelectKey`, `KeepKey`,
`CreateKey`) within transactions that encrypt (`Persist`) or decrypt
(`Resolve`), on several processes with a memory each. `CreateKey` fills the
memory before the commit; a rollback (`Fail`, `EntriesRejected`,
`DecryptFails`) does not empty it, only `Restart` does. `Promise.all` in
`resolverMap` lets the rows be read at any point of the key's way
(`LoadEntries`). A transaction creates at most one key, so the key has the
name of its transaction; `created_at` is the time of BEGIN, hence `began`.

### PlaceholderGrammar, StreamUnredactor, SSEUnredactor

A text is a sequence of characters, because where it is cut is what the
properties are about. `Push`, `Flush` and `UnredactBody` are the class's
methods over a record. `SSEUnredactor` lets a line arrive (`Begin`), complete
with its newline (`Newline`), exceed the buffer's limit and be forced out in
pieces (`Overflow`), or be cut by the end of the stream (`Close`); a chunk is
any number of these steps. `sse.input` records the lines as `processLine` got
them, `stored` is the text that `extractAssistantFromSSE` finds in the raw
stream.

Three remarks on the code. `core.ts:24` speaks of the "shortest trailing suffix"
that could be a placeholder; the code holds back the longest, which is right
(`ShortestTail` as a fault breaks `EmittedIsFinal`). The window of
`MAX_PLACEHOLDER_LENGTH` characters that `safeBoundary` searches does not
appear in the model: every accepted prefix is shorter than the window, so the
search over the whole text finds the same tail.

And `couldBePlaceholderPrefix` also accepts `[[PERSON_]`, of which no
placeholder can come; the text is delayed by it, never lost.

`Close` stands for the end of the provider's stream and for an error of it. After
an error `handleChat` never reaches `persistChatTurn` (`chatCore.ts:158-181`), so
`StreamedAsReloaded` then compares with what would have been stored.

### Redactor, Outbound

`Redactor` has `apply_policy` as operators: `DropOverlaps` over the confident
spans, `Blocks`, `Number` (reuse by `ValueHash`, or the next index of the type),
and `Replace` from the right. A text is a sequence of words, an offset counts
words, and a placeholder takes the place of one word however many it hides, so
replacements shift what follows as in the code. `Wide` says which words take
two units of a JavaScript string.

The hash by which an entry is found again is computed twice. `ValueHash` is the
redactor's (`redactor.py:46`, `casefold`), with `Canon` as what a word is folded
to; `MatchHash` is the gateway's (`crypto/matchhash.ts:13`, `toLowerCase`, and
ß to ss), with `GatewayCanon`. The redactor is `Told` of entries by the
gateway's hash and looks for its own. They differ where `casefold` folds more
than `toLowerCase`: final sigma, ligatures, the micro sign, the long s. White
space on which `trim` and `strip`, or the two `\s`, differ (U+FEFF, U+001C to
U+001F) is left out.
`Outbound` is `prepareOutbound`: for each message its images (`BlockedByImage`,
`ImagesRedacted`, `NoText`), then its text (`TextRedacted`, `TextRejected`),
each call telling the redactor of all entries so far, and one `Persist` at the
end. `Learn`, `Collect` and `Remember` are the loop's three accumulators. A
conversation has one request at a time here; races are `TokenVault`'s part.
`ResolveRedactions` is what the browser makes of the spans it is sent.

### Accounts

A request picks a job from `Job` and walks through the handler's awaited calls:

| pc | The request is about to | Action |
|---|---|---|
| `idle` | arrive | `Login`, `LoginRefused`, `Logout`, `Authorise`, `Refused` |
| `licence`, `session` | check the licence, set the session | `CheckLicence`, `CreateSession` |
| `password`, `update` | verify and replace the password | `VerifyOld`, `UpdatePassword` |
| `disable`, `delete`, `enable` | change one row | `LockOut`, `Enable`, `NoTarget` |
| `revoke`, `scan` | delete the user's sessions (`destroyUserSessions`) | `BeginScan`, `Visit`, `EndScan` |
| `create`, `count`, `find`, `insert` | create a user | `ReadSeats`, `CountUsers`, `FindEmail`, `CreateUser` |
| `provision`, `tenant`, `policy`, `admin`, `issue` | provision a tenant | `FindEmail`, `InsertTenant`, `InsertPolicy`, `InsertAdmin`, `IssueLicence` |
| `patch`, `rotate` | change a licence | `PatchLicence`, `IssueLicence` |

Each statement commits by itself, so `Fail` undoes nothing. Redis' SCAN comes
by every token that exists from its beginning to its end, and perhaps by one
set meanwhile; it is modelled by the tokens it has yet to come by. `Lapse` is
a licence running out, `ExpireSession` a session's TTL. A session carries the
password that proved it, as history only; `straddling`, `lapsed`, `keeper`,
`crowded` and `crossed` are history too.

### PolicyStore

`loadPolicy` is `GetHit`, `GetMiss`, `SelectRow`, `SetCache`; `savePolicy`
within its transaction is `Upsert` (which waits for another one's row lock),
`Evict`, and the commit with the audit event (`Save`, or `SaveUnanswered` if
the page is not told). An editor's page loads (`Open`), adds or removes a rule
(`Edit`), saves the whole document and goes on from it.

### ChatHistory, ChatPage

`ChatHistory` is the gateway: `Ensure` (ownership and row), the answer `Chunk`
by `Chunk` to `AnswerEnds`, or `Reject`, and after the stream `persistChatTurn`:
nothing to store (`NoEntries`), or `persistMessages` in its two steps `ReadNext`
and `Store`, which nothing the client does prevents. `ChatPage` extends it with
the page: `NewChat`, `Open`, `Send`, `Stop`, `Delete` and `Reload` are the
user's, `FetchAnswered` and `FetchArrives` a history on its way, `Created`,
`Token`, `StreamEnds`, `Error` what `send` goes on with, `DeleteServed`,
`Deleted` and `DeleteRejected` the delete handler. What a handler saw before its
`await` is kept with it (`deletion.seen`); the sidebar may list a conversation
that is gone (`Listed`).

A text is a sequence of turns: `<<t>>` is what the user wrote in turn `t`,
`<<t, ..., t>>` that many tokens of its answer, so text in a wrong place, or
only half there, is seen. The gateway is `answer[t]` tokens into its stream, the
page has `got[t]` of them, and `Token` brings one more to the last message shown.
An answer may have none, and a message may be a picture without a text (`Typed`);
what is stored as the turn's question is then the `NewestText` posted, an earlier
one or none, and a turn with neither text stores nothing.

## 3. Runs

| Run | Question | Instance | States |
|---|---|---|---|
| `vault_races` | Does the vault keep its promises under any race, and does an undisturbed turn resolve all it sent? | two turns, a reload and a deletion on one conversation; prompts with no, one or two values; Redis may fail | 770 k |
| `vault_progress` | Does every request end? | two turns with opposite lock orders and a deletion | 26 k |
| `sse_stream` | Does the client get the un-redaction, once, and before the terminator? | up to five lines, each of seven fragments or other kinds, cut anywhere | 790 k |
| `keys_shared` | Is a stored entry's key stored, and does a key stay? | two writers, a reader, two processes | 61 k |
| `outbound` | Is what the policy hides hidden, and can it be brought back? | a short first turn, then any three of eight spans on one text, or any three of eight messages; three policies | 100 k |
| `accounts` | Are revocation, seats and provisioning sound under any race? | any three of 48 jobs on one company with a free seat | 614 k |
| `policy_store` | Is the policy that is applied, shown and edited the right one? | a reader and two pages, two rules, three versions; Redis may fail | 881 k |
| `chat_page` | Does the page show what is stored, where it belongs? | two turns in two conversations, one of which may be deleted; one answer without a token, one of up to two; the second message may be a picture only; one load at a time | 1.5 M |

What the properties of these runs say:

- `ImplementsMap`: seen through its committed rows the vault is
  `ConversationMap`. A deletion that loses a lock, or an insertion into a
  conversation that is being deleted, would break it.
- `UniquePlaceholder`: a placeholder has one row, across committed rows and
  open transactions.
- `CacheSound`: until a conversation is deleted, neither the cache nor rows on
  their way to it contain a row that Postgres has not. A cache that misses rows
  is possible: eviction before the commit and a cache write after an older read
  leave it so until its TTL ends. A wrong one is not.
- `SentIsPersisted`: each placeholder of a prompt that may leave has a
  committed row.
- `ForwardAudited`: nothing leaves before its audit event, and a blocked
  request is never on record as redacted.
- `SerialRoundTrip`: in a conversation whose requests never overlapped and whose
  evictions arrived, a turn can resolve each placeholder it sent to the value it
  replaced, through expiries, failures, crashes, deletion and re-creation.
- `EveryRequestEnds`: liveness, see section 4.
- `EmittedIsFinal`, `CompleteAtDone`, `StreamedAsReloaded`, `CountedOnce`: what
  the client has, at each moment and at the terminator, is the un-redaction of
  what the provider sent; so is what a reload shows; each placeholder is
  counted once. `TypeOK` of the un-redactor also bounds what may be held back.
- `NoOrphanEntry`, `KeyIsStable`: no entry under a key that is not stored, and a
  tenant that has its key never gets another.
- `BestAreHidden`: the hidden spans are exactly those the policy is sure of, does
  not allow, and no better kept span overlaps; `Kept` defines them without the
  loop. What a dropped span has beyond the better one stays in clear text, and a
  blocking span that loses does not block, since overlaps are dropped first
  (`redactor.py:82`).
- `PlacedRight`: the result is the text with each position replaced on its own.
- `RoundTrip`: over all messages and turns, the committed map gives back what was
  written, up to spelling. Texts that themselves contain placeholders are not
  among the inputs.
- `SamePlaceholder`: a placeholder has one value, and a value of a type keeps its
  placeholder in all later messages and turns, however it is written there.
  Excused (`HashesMatch`): a value whose first spelling the gateway and the
  redactor normalise differently. Its entry is not found again, and the value
  gets another placeholder, even when it is written the same.
- `BlockIsWhole`: nothing leaves if any kept span or image region is blocked.
- `ShieldMatches`: the author is shown the values their placeholders stand for.
  Excused: a newest message without a text (see `outbound_picture`), and values
  after a character outside the BMP, where offsets in code points and in UTF-16
  units differ and the shield shows shifted text.
- `RevokedStaysOut`, `OldPasswordEndsSessions`: after a revocation has ended no
  session of a disabled or deleted user, or of an old password, is left, except
  the one that changed the password. Excused: a failed scan, and a log-in that
  had read the user before; that one survives in the code for up to its TTL of
  seven days, since sessions are never compared with the table again.
- `SeatsKept`: the seat cap, unless creations overlap, a user is enabled again
  (no look at the cap) or the licence shrinks.
- `AdminRemains`: a tenant that has had users keeps an enabled administrator,
  unless revocations in it overlap or a session outlived a lock-out.
- `UsersHavePolicy`: provisioning may break off anywhere and leave a tenant
  without policy or licence, but no user without a policy; the built-in one
  differs from the one provisioning writes.
- `OnlyCommitted`, `FreshUnlessOverlapped`, `SettlesOnCommitted`: a policy that is
  cached, shown or applied was in force at some time; it is so now, unless a load
  and a save overlapped or an eviction was lost; and it is so for good once
  saving stops and the copy's lifetime is over.
- `NoEditUndone`: the rules in force are all saved edits, one after the other,
  unless two pages were open at once, an answer was lost, or the page was
  opened on a stale copy: no version is compared.
- `HistoryInOrder`: numbers without a gap, answers after their questions, turns
  in the order they were sent, if turns of the conversation never overlapped on
  the server. Stopping an answer and writing on at once does overlap: the
  gateway stores a turn only when its stream has ended.
- `OwnMessages`: no message is shown, kept or sent along in another
  conversation, and a late history goes where it belongs. Excused (`mixed`): the
  user turns to another conversation during a send; the tokens then go there.
  Excused too (`Repeated`): conversations in which a message without a text
  followed one with a text (see `outbound_picture`): the text stored once more
  may be one that had got there so before.
- `ShownIsStored`: with nothing under way, the page reads as one loaded anew:
  question and whole answer of every turn, whichever way the tokens came. A
  message without a text, which a reload does not bring back, is passed over.
  `loose` names the excuses: a switch during a send; a failed load, which is
  cached as an empty history; a load, deletion or page reload that meets a turn
  under way; a stop, or a break, before the whole answer has come, after which
  the page keeps a part of what the gateway stores in full; an error, after which
  the message stays on the page and is sent along with every later turn; a turn
  that could not be stored; a deleted conversation that a kept page writes to
  again, which re-creates it without its history. A stop after the last token is
  no excuse. Also excused are conversations with overlapping turns (`crossed`) and
  those where an earlier text was stored again (`Repeated`).
- `BusyWhileSending`: however a send ends, the input is released, and not before.

The excuses are what the code permits, each found as a counterexample of the
property without it. Every one is a situation a user or two can produce. Three
of them stand beside a sentence of the repository that promises more, besides the
findings below: `redactor.py:84` says that any detected entity blocks, but
overlaps are dropped first (`BlockIsWhole`); `accounts.ts:70` promises the seat
cap, which overlapping creations and re-enabling pass (`SeatsKept`); and
`matchhash.ts:5` that the two normalisations "MUST byte-match", which they do not
(`SamePlaceholder`; without `HashesMatch` the run `outbound` violates it, by the
word with a ligature; `crypto.test.ts:13` compares the two on values on which they
agree).

Why the bounds are enough. Two turns are needed for every race on a
placeholder, a third party (deletion or reload) for every race with the cache;
a third turn adds another pair of the same kind, and the theorems cover any
number. `MaxIndex = 3` exceeds what the vault's prompts can use, so running out is
left to `RedactorFails`; in `Outbound` two indexes do run out, and its `TypeOK` and
`SamePlaceholder` would see one out of range or given twice. Three spans make
every chain of overlaps (one dropped by a second that a third drops), on a text
with two spellings of a name; three messages, after a first turn, let an entry
be known from before, from an earlier message, or not at all. Five lines let a
placeholder be cut into its four parts and be followed by a terminator; a value
that itself begins like a placeholder tells a second scan from none. The limit
on line length is one line, by number, that may be over it at any moment. Two
writers make every pair of first transactions, on one process or on two. Three
requests on accounts give a log-in, a revocation and a third that uses what they
leave; one free seat makes the second creation one too many. Two pages and a
reader meet in every order over the cache, and `MaxVersion = 3` leaves two edits
in a row. Two turns and two conversations let every handler of the page be
overtaken by another, and two tokens let a stop, a load or a switch fall before,
between and after them. Once the deletion has begun the instance has answers of
one token only (its constraint, `TokensOrDeletion`), since both together are too
many states; a second load under way at once is not in the run. Two
deletions that wait for one another are in the model of the vault (`DeleteRows`)
but in no run.

CHECK_DEADLOCK is FALSE except in `chat_page`: those instances have finitely
many requests, lines or versions, and stop when they have ended.

### What the code does not keep

Four runs check a sentence of the repository that the code does not keep; the
quotations are under "findings" in `PROJECT.json`.

- `vault_lost_entry`: two overlapping turns number their new values from the
  same map; both send `PERSON_1`, the second one's entry is dropped, and its
  answer shows the first one's value (`vault.ts:153`).
- `vault_erased_cache`: a load between the deletion's eviction and its commit
  leaves the erased map in Redis (`vault.ts:185`).
- `keys_two_first`: two first transactions of a tenant create a key each;
  entries written under one cannot be read with the other, since `dek_id` is
  stored but never read (`vault.ts:124`).
- `outbound_picture`: if the newest message of the user is only a picture, the
  shield and the stored history take an earlier message for it
  (`pipeline.ts:107`).

All but the last need overlapping requests, which a user with two windows, or a
client of the API, produces.

Also met while modelling, without a run: rotating a licence key makes a
suspended licence active and, if the body leaves them out, resets seats to five
and the expiry to none (`platform.ts:62`); deleting a user cascades to the
conversations but leaves their cached maps in Redis until the TTL; the
forwarding route exports no PUT, so the page's save of a policy reaches the
gateway only through another proxy (`apps/web/app/api/gw/[...path]/route.ts`).

## 4. Fairness

`vault_progress` uses weak fairness of each begun request's steps. The code
justifies it: each step is an awaited call that is answered or throws (the
redactor has a timeout, `redactorClient.ts`; Postgres' deadlock detector ends a
cycle), and node resumes the handler. Arrival, failures, expiry and crashes have
no fairness. A step that waits for a lock is not enabled, so the property says
that lock queues and cycles dissolve by themselves. It is assumed, not shown,
that the provider ends its stream.

`policy_store` uses weak fairness of a load's steps, for the same reason, and of
`Expire`: Redis honours the lifetime the copy is set with. Saves, and pages being
opened, have none.

## 5. Proofs

The theorems hold for every value of the constants that satisfies the named
assumptions: any number of requests, users, conversations, turns, messages, spans,
readers, pages, processes or lines, any prompts, jobs, policies and first tables,
any alphabet, types and resolver. The assumptions, which TLC evaluates on every run:

- `TokenVault`, `TenantKeys`, `PolicyStore`: kinds of processes are disjoint,
  prompts are finite sequences of values, `NoEntry`, `NoKey` and `NoPolicy` are
  what their names say, a bound on versions is positive.
- `Accounts`: the first tables satisfy the constraints of the migrations
  (`FirstTables`), each first tenant has an enabled administrator and no more
  enabled users than seats (`FirstTenants`; `platform.ts` provisions them so),
  identifiers are fresh (`FreshIds`).
- `ChatHistory`, `ChatPage`: bounds are numbers, the lengths of answers
  (`Longest`) too, `NoConversation` is no conversation and `Nothing` no load.
- `PlaceholderGrammar`: a type's name is not empty and has no digit, bracket or
  underscore, as all of `ENTITY_TYPES`; digits are no brackets; an index may have
  a digit (`MaxDigitsPositive`).
- `StreamUnredactor`, `SSEUnredactor`: what the resolver knows are placeholders,
  its values and the deltas are texts. Values need not be free of brackets, or of
  placeholders.
- `Redactor`, `Outbound`: normalising twice is normalising once, the gateway's
  normalisation identifies no words that the redactor's keeps apart
  (`GatewayFoldsLess`), no word is a placeholder (`WordsApart`), detected spans
  are not empty and lie within their
  text (`MessagesTyped`). Spans may overlap in any way. `WordsApart` is the one
  assumption that the code does not enforce: a text in which the user has typed
  `[[PERSON_1]]` is left as it is and comes back as the value, so `RoundTrip` is
  said of texts without placeholders only.

`TokenVaultProofs`
- `TypeCorrect`: `TypeOK`, strengthened by `ControlOK` (which `pc` each kind of
  request may have; a request at `insert` has something to insert), needed
  because `Head(fresh)` has a type only then.
- `Uniqueness`: `UniquePlaceholder` alone is not inductive: a commit puts rows
  into a table that a deletion may just have emptied. `MapInv` adds that rows
  belong to an existing conversation (`RowsOwned`) and that a transaction which
  has deleted a conversation row is alone with it (`DeleterAlone`); both follow
  from the lock rules in `Waits`.
- `Refinement`: with `MapInv`, each step of the vault is `Create`, `Record`,
  `Erase` or a stutter of `ConversationMap`.
- `CacheNeverWrong`: `CacheSound` is inductive given types and three lemmas:
  committed rows only grow while the conversation is not erased (`MapGrows`),
  loaded rows come from cache or table (`RowsSource`), cached rows from a
  loader (`CacheSource`).
- `Persisted`: `SentInv` follows a placeholder from the prompt to the table: it
  is in what was loaded, or queued for insertion, or inserted, or taken by a
  committed row.
- `Audited`: `AuditInv` says which events can exist at each `pc`.
- `Serial`: on an undisturbed conversation one request is active (`Alone`), the
  cache has the whole map or nothing, and nothing from an eviction to its commit
  (`CacheExact`), and what a turn has sent is among what it loaded, queued and
  inserted, no two under one placeholder and none under a taken one
  (`SerialOf`). Without `CacheExact` a turn could number from a map that is
  smaller than the committed one.

`TenantKeysProofs`
- `TypeCorrect`.
- `NoOrphans`, with `PendingKnown`: what a transaction has inserted is under a
  committed key or its own.
- `StableKey`, with `Settled`: with the first key committed no request is about
  to create one, and each key in use is that key.

`PolicyStoreProofs`
- `TypeCorrect`; `Committed`, which needs that the row was committed too.
- `Fresh`: `FreshInv` adds, while nothing has overlapped, that loads and saves
  keep apart, that a load about to fill the cache has what is in force, and that
  the cache is empty from a save's eviction to its commit.
- `EditsStand`: `AloneInv`: while no pages were in one another's way at most one is
  open, and the document it shows has the rules in force.

`AccountsProofs`. Many actions change the same tables, so the steps are first
sorted by what they do (`StepKind`): sign in, open or close a session, start a
scan, insert a user, lock one out, and so on; each invariant is then kept kind by
kind.
- `TypeCorrect`, with the rows a request in each phase relies on (`InStep`).
- `Provisioned`: `PolicyInv` extends `UsersHavePolicy` to sessions and to requests
  under way, whose actors' tenants the next user is inserted into.
- `LockedOut`, `OldPasswordOut`: by `RevokedInv` and `PasswordInv` each session that
  should be gone is excused, or some request is about to scan or has yet to come
  by it (`Chases`); a log-in under way that has read an outdated row is marked.
  Both need that identifiers are fresh and copies of tenant and role are right.
- `WithinSeats`: `SeatsInv` makes a creation alone in its tenant and gives it a seat
  from its count to its insertion; `TenantInv` keeps users out of tenants that are
  still being provisioned.
- `AdministratorStays`: `AdminInv`: while revocations keep apart, the one that is
  about to lock a user out acts for another enabled administrator of the tenant.
  That its actor is still one is what the excuses `straddling` and `lapsed` are
  about.

`ChatPageProofs`
- `TypeCorrect`, where what is stored belongs to conversations that exist.
- `StoredInOrder`: `OrderInv`: on a conversation that was never crossed one turn
  is under way, all that is stored is older, and the number it has read is the
  number of stored messages; `SendInv` relates the order of turns to where page
  and gateway stand with them.
- `OwnConversation`: `OwnInv` says of every copy of a history, shown, kept, on its
  way or seen by a deletion, from which conversation it is. A text posted once
  more is one the page showed, so the conversation it goes to is one of the
  `Repeated` or the text is new.
- `InputLock`: `BusyWhileSending` is inductive by itself with the types.
- `ShownStored`: while not `loose`, `ShownInv` says of every copy of a history
  (`CopiesTold`: shown, kept, on its way, seen by a deletion) that it reads as what
  page and gateway have of the conversation between them (`Parts`: each turn stored
  or in hand has its question, if that has a text, and as many tokens of its
  answer as have `Come`), whatever of that is stored by now. A token that arrives
  changes the last message and `Parts` alike (`TokenReads`); a step of the gateway
  changes `table` and not `Parts`; and with nothing under way the two say the same
  (`RowParts`). It needs that a turn is stored as a whole (`Whole`), that nothing is
  kept of a conversation yet to be created (`Newness`), where the answer awaited
  will be shown (`TurnsTold`), that the text posted is the one just written
  (`NewestSent`), and the order of the stored history (`StoredInOrder`).

`SSEUnredactorProofs` proves all five invariants of the un-redactor from one
inductive invariant, `Inv`. `EmittedIsFinal` speaks of the text so far and says
nothing of a placeholder that the next delta completes, so it is not inductive.
`Owed`, its strengthening, quantifies over every text still to come: the
un-redaction of all of it is what the client has, followed by that of what is
held back and what is to come, and so are the counts. At the terminator or the
end `Paid` takes its place. `Raw` relates the stored raw stream to the lines the
transform was given. That a delta keeps `Owed` rests on lemmas about the
grammar: each proper beginning of a placeholder is an accepted prefix
(`CompletePrefix`), an accepted prefix begins with opening brackets
(`PartialStart`) and a placeholder has none but its first two
(`CompleteBrackets`); so none lies across the place where `Push` cuts
(`SafeApart`). And two texts across whose joint no placeholder lies are
un-redacted, and counted, one by one (`ResolvedSplit`, `OccurrencesSplit`).

`OutboundProofs` proves all seven invariants of `Outbound` from one inductive
invariant, `Inv`. None is inductive by itself: that a text reads back depends on
entries named in messages, and turns, before it.
- First, what `apply_policy` computes for any spans (`ApplyIs`). Ranks are a
  total order (`BeforeOrders`), so the loop of `_drop_overlaps` can only keep one
  set (`KeptOnce`), the one `Kept` names without a loop, and does (`GreedyKeeps`, by
  induction along the ranks). What it keeps is apart, and in the order of the
  text. Numbered one by one, each entity gets an entry that stands for its value,
  and the entries stay one to one (`OneToOne`: up to values whose first spelling the
  two normalisations fold differently; `NumberIs`, `NumberedAll`); a new index is
  above all that its type has. Replaced from the right, the text left of what is
  still to do is untouched and the rest is as `Rendered` says (`ReplaceAllIs`);
  and a text so rendered reads back through any one-to-one entries that know its
  values (`ResolveIs`).
- `Inv` then says of each result of the request under way what `ApplyIs` says of
  it, under all the entries so far (`ResultIs`); of the entries that they are one
  to one, committed and new ones together, and what the redactor is told is
  exactly these under the gateway's hash (`Entries`), so that an entry is found
  again where `HashesMatch`; of the images that none is blocked
  (`ImagesPass`); and which message the remembered spans are of (`Latest`). More
  entries take nothing away from an earlier result (`AppliedMore`): that is why one message
  after another keeps `Inv`.
- `ShieldShowsHidden` needs `ShownIs` besides: where no wide character comes
  before its end, a slice in UTF-16 units is the slice in code points.

What a scan over a text yields is proved by induction on the place it has come
to. The prover cannot instantiate the library's induction theorems, which take an
operator; `InductionLemmas` and `DownInduction` state the property as a set
instead (if a set of numbers contains each number below which it contains all,
it is all of them), which is enough for recursive functions.

Only model-checked: `EveryRequestEnds` and `SettlesOnCommitted` (liveness under
fairness is beyond the prover). Every safety property of a passing run is a
theorem. The findings are counterexamples of TLC.

## 6. Not modelled, and why

Entity recognition: pure functions of text, whose result is an input of
`Redactor`. Cryptographic primitives: library calls; which key opens what is in
`TenantKeys`. Decoding of UTF-8 across chunks: done by `TextDecoder`. The JSON
around a text delta: only its text matters here. Deltas after the terminator are
excluded by `Late`, since providers send none. API keys and the first platform
administrator: one statement each, without a step between which anything could
happen. Placeholders that a user types. The pages other than the chat and the
policy's: forms that call one endpoint each, and a route that forwards. Migrations: a loop, run by hand before
the gateway starts, in which each file commits together with its row under a
primary key. Provider mock, load tests and deployment files are tools. Several
users naming one conversation: identifiers are random, and each is known to its
owner only.

## 7. Plan

The safety properties are proved. What could follow: an abstract specification
of a turn's history, of which `ChatHistory` and `ChatPage` would be refinements,
as the vault is of `ConversationMap`; and `Outbound` composed with `TokenVault`,
so that the entries of two overlapping requests meet the texts they came from.
