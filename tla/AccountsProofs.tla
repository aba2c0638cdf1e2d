----------------------------- MODULE AccountsProofs -----------------------------
(***************************************************************************)
(* Proofs about Accounts, for any number of requests, whatever they ask    *)
(* for, any first rows and any sessions that may expire.                   *)
(***************************************************************************)
EXTENDS Accounts, FiniteSetTheorems, TLAPS

--------------------------------------------------------------------------------
(* The inductive invariants. *)

Operations == {"login", "logout", "password", "create", "disable", "enable", "delete",
               "provision", "patch", "rotate"}

\* What a request that stands at a step was asked for.
AskedAt(at) ==
  CASE at \in LoggingIn -> {"login"}
    [] at \in {"password", "update"} -> {"password"}
    [] at \in Creating -> {"create"}
    [] at \in {"revoke", "scan"} -> {"password", "disable", "delete"}
    [] at \in {"provision", "tenant", "policy", "admin", "issue"} -> {"provision"}
    [] at \in {"disable", "enable", "delete", "patch", "rotate"} -> {at}
    [] OTHER -> {}

InStep(r) ==
  /\ Active(r) => job[r].op \in AskedAt(pc[r])
  /\ pc[r] \in {"policy", "admin", "issue"} => r \in tenants
TypeInv == TypeOK /\ \A r \in Request : InStep(r)

\* A user exists, and is known to any session or request, only once the
\* request that makes it has inserted its row.
Born == {"issue", "ended"}
FreshInv ==
  \A r \in Request :
    r \in DOMAIN users
    \/ (\E k \in DOMAIN sessions : sessions[k].user = r)
    \/ (\E q \in Request : Active(q) /\ me[q].user = r) => pc[r] \in Born

\* A tenant and a role never change, so every copy of them is right.
Copies(who) ==
  who.user \in DOMAIN users =>
    who.tenant = users[who.user].tenant /\ who.role = users[who.user].role
CopiesInv ==
  /\ \A k \in DOMAIN sessions : Copies(sessions[k])
  /\ \A r \in Request : Active(r) => Copies(me[r])

Gone(u) == u \notin DOMAIN users \/ users[u].disabled
GoneNext(u) == u \notin DOMAIN users' \/ users'[u].disabled

\* r revokes the sessions of k's user and is sure to come by k.
Chases(r, k) ==
  /\ \/ pc[r] = "revoke" /\ k \notin Keep(r)
     \/ pc[r] = "scan" /\ k \in visit[r]
  /\ Subject(r) = sessions[k].user
Expels(r, k) ==
  Chases(r, k) /\ job[r].op \in {"disable", "delete"} /\ me[r].tenant = sessions[k].tenant

RevokedInv ==
  /\ \A k \in DOMAIN sessions : Gone(sessions[k].user) =>
       \/ sessions[k].user \in lapsed \/ k \in straddling
       \/ \E r \in Request : Expels(r, k)
  /\ \A r \in Request : pc[r] \in LoggingIn /\ Gone(me[r].user) => r \in straddling

Outdated(who) == who.user \in DOMAIN users /\ who.proof # users[who.user].pw

PasswordInv ==
  /\ \A k \in DOMAIN sessions : Outdated(sessions[k]) =>
       \/ sessions[k].user \in lapsed \/ k \in straddling
       \/ \E r \in Request : Chases(r, k)
       \/ sessions[k].user \in DOMAIN keeper /\ keeper[sessions[k].user] = k
  /\ \A r \in Request : pc[r] \in LoggingIn /\ Outdated(me[r]) => r \in straddling

PolicyInv ==
  /\ UsersHavePolicy
  /\ \A k \in DOMAIN sessions : sessions[k].tenant \in policies \cup {NoTenant}
  /\ \A r \in Request : Active(r) => me[r].tenant \in policies \cup {NoTenant}
  /\ \A r \in Request : pc[r] \in {"admin", "issue"} => r \in policies

\* Platform administrators belong to no tenant, and whoever else has got past
\* the licence belongs to one that has a licence.
LicensedInv ==
  /\ DOMAIN FirstLicences \subseteq DOMAIN licences
  /\ \A u \in DOMAIN users : users[u].role = "platform_admin" => users[u].tenant = NoTenant
  /\ \A k \in DOMAIN sessions : sessions[k].tenant \in DOMAIN licences \cup {NoTenant}
  /\ \A r \in Request : Active(r) /\ pc[r] # "licence" =>
       me[r].tenant \in DOMAIN licences \cup {NoTenant}

\* Nobody belongs to a tenant whose first administrator is yet to come, and
\* nobody else to one that has no licence.
NewTenantInv ==
  /\ \A u \in DOMAIN users : users[u].tenant \in Request =>
       /\ pc[users[u].tenant] \in Born
       /\ users[u].tenant \notin DOMAIN licences => u = users[u].tenant
  /\ \A k \in DOMAIN sessions : sessions[k].tenant \in Request => pc[sessions[k].tenant] \in Born
  /\ \A r \in Request : Active(r) /\ me[r].tenant \in Request => pc[me[r].tenant] \in Born
  /\ \A t \in DOMAIN licences : t \in Request => licences[t].seats >= 1

\* As long as nothing has made t's count unreliable, one request at a time
\* creates users in it, and it holds a seat from its count to its insertion.
SeatsInv ==
  /\ IsFiniteSet(DOMAIN users)
  /\ SeatsKept
  /\ \A q, r \in Request :
       pc[q] \in Creating /\ pc[r] \in Creating
       /\ me[q].tenant = me[r].tenant /\ me[r].tenant \notin crowded => q = r
  /\ \A r \in Request :
       pc[r] \in Creating /\ me[r].tenant \in DOMAIN licences \ crowded =>
         /\ pc[r] \in {"count", "find", "insert"} =>
              cap[r] # NoLicence /\ cap[r] <= licences[me[r].tenant].seats
         /\ pc[r] \in {"find", "insert"} =>
              Cardinality(EnabledUsers(me[r].tenant)) < licences[me[r].tenant].seats

\* r is about to lock a user out, or has and is revoking the sessions.
LocksOut(r) == pc[r] \in Removing /\ job[r].op \in {"disable", "delete"}

Peopled(t) ==
  \/ t \in DOMAIN FirstLicences
  \/ \E u \in DOMAIN users : users[u].tenant = t
  \/ \E k \in DOMAIN sessions : sessions[k].tenant = t
  \/ \E r \in Request : Active(r) /\ me[r].tenant = t

\* As long as no revocation overlapped another in t and none went wrong, one
\* request at a time locks out a user of t, and it acts for another enabled
\* administrator of t.
AdminInv ==
  straddling = {} /\ lapsed = {} =>
    \A t \in Tenant \ crossed :
      /\ \A q, r \in Request :
           LocksOut(q) /\ LocksOut(r) /\ me[q].tenant = t /\ me[r].tenant = t => q = r
      /\ \A r \in Request :
           pc[r] \in {"disable", "delete"} /\ me[r].tenant = t =>
             /\ me[r].user \in EnabledUsers(t)
             /\ users[me[r].user].role = "tenant_admin"
             /\ me[r].user # job[r].user
      /\ Peopled(t) => Administered(t)

--------------------------------------------------------------------------------
(* Jobs, and what a step does to what requests remember. *)

\* Which fields a job has, and of which kinds they are.
JobFields(j) ==
  /\ j.op \in Operations
  /\ j.op = "login" => j.email \in Email /\ j.pw \in Password
  /\ j.op = "password" => j.by \in Token /\ j.new \in Password
  /\ j.op = "create" => /\ j.email \in Email /\ j.pw \in Password
                        /\ j.role \in {"tenant_admin", "employee"}
  /\ j.op \in {"disable", "enable", "delete"} => j.user \in User
  /\ j.op = "provision" => j.email \in Email /\ j.pw \in Password
  /\ j.op \in {"patch", "rotate"} => j.tenant \in Tenant
  /\ j.op \in {"provision", "patch", "rotate"} => j.seats \in Nat /\ j.seats >= 1
  /\ j.op = "patch" => j.valid \in BOOLEAN

LEMMA JobTyped == ASSUME NEW j \in Job PROVE JobFields(j)
<1>1. j \in Asked
  BY JobsAsked
<1>2. CASE j \in [op : {"login"}, email : Email, pw : Password]
  BY <1>2 DEF JobFields, Operations
<1>3. CASE j \in [op : {"logout"}, by : Token]
  BY <1>3 DEF JobFields, Operations
<1>4. CASE j \in [op : {"password"}, by : Token, old : Password, new : Password]
  BY <1>4 DEF JobFields, Operations
<1>5. CASE j \in [op : {"create"}, by : Token, email : Email, pw : Password,
                  role : {"tenant_admin", "employee"}]
  BY <1>5 DEF JobFields, Operations
<1>6. CASE j \in [op : {"disable", "enable", "delete"}, by : Token, user : User]
  BY <1>6 DEF JobFields, Operations
<1>7. CASE j \in [op : {"provision"}, by : Token, email : Email, pw : Password,
                  seats : Nat \ {0}]
  BY <1>7 DEF JobFields, Operations
<1>8. CASE j \in [op : {"patch"}, by : Token, tenant : Tenant, seats : Nat \ {0},
                  valid : BOOLEAN]
  BY <1>8 DEF JobFields, Operations
<1>9. CASE j \in [op : {"rotate"}, by : Token, tenant : Tenant, seats : Nat \ {0}]
  BY <1>9 DEF JobFields, Operations
<1> QED BY <1>1, <1>2, <1>3, <1>4, <1>5, <1>6, <1>7, <1>8, <1>9 DEF Asked

\* What the other requests remember stays.
Moves(r) ==
  \A q \in Request \ {r} :
    /\ pc'[q] = pc[q] /\ job'[q] = job[q] /\ me'[q] = me[q]
    /\ cap'[q] = cap[q] /\ visit'[q] = visit[q]
Ended(r) ==
  /\ pc'[r] = "ended" /\ job'[r] = NoJob /\ me'[r] = NoOne
  /\ cap'[r] = NoLicence /\ visit'[r] = {}
WentTo(r, at) ==
  /\ pc'[r] = at /\ job'[r] = job[r] /\ me'[r] = me[r]
  /\ cap'[r] = cap[r] /\ visit'[r] = visit[r]
Began(r, j, who, at) ==
  /\ pc'[r] = at /\ job'[r] = j /\ me'[r] = who
  /\ cap'[r] = cap[r] /\ visit'[r] = visit[r]

LocalOK ==
  /\ pc \in [Request -> PC]
  /\ job \in [Request -> Job \cup {NoJob}]
  /\ me \in [Request -> SessionData \cup {NoOne}]
  /\ \A r \in Request : IF Active(r) THEN job[r] # NoJob /\ me[r] # NoOne
                        ELSE job[r] = NoJob /\ me[r] = NoOne
  /\ cap \in [Request -> Nat \cup {NoLicence}]
  /\ visit \in [Request -> SUBSET Token]
  /\ \A r \in Request : Active(r) => job[r].op \in AskedAt(pc[r])

LEMMA LocalTyped == TypeInv => LocalOK
  BY DEF TypeInv, TypeOK, LocalOK, InStep

LEMMA EndMoves ==
  ASSUME LocalOK, NEW r \in Request, End(r)
  PROVE  Moves(r) /\ Ended(r) /\ LocalOK'
<1>1. Moves(r) /\ Ended(r)
  BY DEF LocalOK, End, Moves, Ended
<1>2. /\ pc' \in [Request -> PC] /\ job' \in [Request -> Job \cup {NoJob}]
      /\ me' \in [Request -> SessionData \cup {NoOne}]
      /\ cap' \in [Request -> Nat \cup {NoLicence}] /\ visit' \in [Request -> SUBSET Token]
  BY DEF LocalOK, End, PC
<1> QED BY <1>1, <1>2 DEF LocalOK, Moves, Ended, Active

LEMMA GotoMoves ==
  ASSUME LocalOK, NEW r \in Request, NEW at \in PC, Goto(r, at), Active(r),
         at \notin {"idle", "ended"}, job[r].op \in AskedAt(at)
  PROVE  Moves(r) /\ WentTo(r, at) /\ LocalOK'
<1>1. Moves(r) /\ WentTo(r, at)
  BY DEF LocalOK, Goto, Moves, WentTo
<1>2. pc' \in [Request -> PC] /\ UNCHANGED <<job, me, cap, visit>>
  BY DEF LocalOK, Goto
<1> QED BY <1>1, <1>2 DEF LocalOK, Moves, WentTo, Active

LEMMA BeginMoves ==
  ASSUME LocalOK, NEW r \in Request, NEW j \in Job, NEW who \in SessionData, NEW at \in PC,
         Begin(r, j, who, at), at \notin {"idle", "ended"}, j.op \in AskedAt(at)
  PROVE  Moves(r) /\ Began(r, j, who, at) /\ LocalOK'
<1>1. Moves(r) /\ Began(r, j, who, at)
  BY DEF LocalOK, Begin, Moves, Began
<1>2. /\ pc' \in [Request -> PC] /\ job' \in [Request -> Job \cup {NoJob}]
      /\ me' \in [Request -> SessionData \cup {NoOne}] /\ UNCHANGED <<cap, visit>>
  BY DEF LocalOK, Begin
<1>3. j # NoJob /\ who # NoOne
  BY JobsAsked, Apart
<1> QED BY <1>1, <1>2, <1>3 DEF LocalOK, Moves, Began, Active

\* An active request has a job with its fields and an identity.
LEMMA ActiveKnows ==
  ASSUME LocalOK, NEW r \in Request, Active(r)
  PROVE  job[r] \in Job /\ JobFields(job[r]) /\ me[r] \in SessionData
                /\ job[r].op \in AskedAt(pc[r])
  BY JobTyped DEF LocalOK

--------------------------------------------------------------------------------
(* The kinds of step, by what they do to the request that takes them. *)

\* It ends, and nothing else happens but that a revocation may have failed.
Answers(r) ==
  /\ pc[r] # "ended" /\ Ended(r)
  /\ \/ lapsed' = lapsed /\ pc[r] # "revoke" /\ (pc[r] = "scan" => visit[r] = {})
     \/ lapsed' = lapsed \cup {Subject(r)} /\ pc[r] \in {"revoke", "scan"}
  /\ UNCHANGED <<data, sessions, straddling, keeper, crowded, crossed>>

\* It has looked and goes on.
Advances(r) ==
  /\ \/ pc[r] = "licence" /\ WentTo(r, "session") /\ Licensed(me[r].tenant)
     \/ pc[r] = "password" /\ WentTo(r, "update")
     \/ pc[r] = "count" /\ WentTo(r, "find") /\ SeatFree(r)
     \/ pc[r] = "find" /\ WentTo(r, "insert")
     \/ pc[r] = "provision" /\ WentTo(r, "tenant")
  /\ UNCHANGED <<data, sessions, ghosts>>

SignsIn(r) ==
  /\ pc[r] = "idle"
  /\ \E j \in Job, u \in DOMAIN users :
       /\ ~ users[u].disabled
       /\ Began(r, j, Identity(u),
                IF users[u].role = "platform_admin" THEN "session" ELSE "licence")
  /\ UNCHANGED <<data, sessions, ghosts>>

OpensSession(r) ==
  /\ pc[r] = "session" /\ Ended(r)
  /\ sessions' = With(sessions, r, me[r])
  /\ UNCHANGED <<data, ghosts>>

\* A logout, or the scan of a revocation.
ClosesSession(r) ==
  /\ \E k \in Token :
       /\ sessions' = Without(sessions, k)
       /\ \/ pc[r] = "idle" /\ Ended(r)
          \/ /\ pc[r] = "scan" /\ pc'[r] = "scan" /\ job'[r] = job[r] /\ me'[r] = me[r]
             /\ cap'[r] = cap[r] /\ visit'[r] = visit[r] \ {k}
  /\ UNCHANGED <<data, ghosts>>

IsAdmitted(r) ==
  /\ pc[r] = "idle"
  /\ \E j \in Job :
       /\ j.op \in Operations \ {"login", "logout"}
       /\ Authorised(j)
       /\ Began(r, j, sessions[j.by], j.op)
       /\ LET t == sessions[j.by].tenant
              Others(ats) == \E q \in Request : pc[q] \in ats /\ me[q].tenant = t IN
          /\ crowded' = IF j.op = "create" /\ Others(Creating) THEN crowded \cup {t} ELSE crowded
          /\ crossed' = IF j.op \in Removing /\ Others(Removing) THEN crossed \cup {t} ELSE crossed
  /\ UNCHANGED <<data, sessions, straddling, lapsed, keeper>>

StartsScan(r) ==
  /\ pc[r] = "revoke" /\ pc'[r] = "scan" /\ job'[r] = job[r] /\ me'[r] = me[r]
  /\ cap'[r] = cap[r] /\ visit'[r] = TokensOf(Subject(r)) \ Keep(r)
  /\ UNCHANGED <<data, sessions, ghosts>>

ChangesPassword(r) ==
  /\ pc[r] = "update" /\ WentTo(r, "revoke")
  /\ users' = IF me[r].user \in DOMAIN users
                THEN [users EXCEPT ![me[r].user].pw = job[r].new] ELSE users
  /\ keeper' = With(keeper, me[r].user, job[r].by)
  /\ Straddle(me[r].user)
  /\ UNCHANGED <<tenants, policies, licences, sessions, lapsed, crowded, crossed>>

ReadsSeats(r) ==
  /\ pc[r] = "create" /\ pc'[r] = "count" /\ job'[r] = job[r] /\ me'[r] = me[r]
  /\ visit'[r] = visit[r]
  /\ cap'[r] = IF me[r].tenant \in DOMAIN licences
                 THEN licences[me[r].tenant].seats ELSE NoLicence
  /\ UNCHANGED <<data, sessions, ghosts>>

\* The row that creating or provisioning inserts.
NewRow(r, t, role) == [tenant |-> t, email |-> job[r].email, pw |-> job[r].pw,
                       role |-> role, disabled |-> FALSE]
Inserts(r) ==
  /\ \/ /\ pc[r] = "insert" /\ Ended(r)
        /\ users' = With(users, r, NewRow(r, me[r].tenant, job[r].role))
     \/ /\ pc[r] = "admin" /\ WentTo(r, "issue")
        /\ users' = With(users, r, NewRow(r, r, "tenant_admin"))
  /\ UNCHANGED <<tenants, policies, licences, sessions, ghosts>>

LocksUserOut(r) ==
  /\ pc[r] \in {"disable", "delete"} /\ HasTarget(r) /\ WentTo(r, "revoke")
  /\ users' = IF pc[r] = "delete" THEN Without(users, job[r].user)
              ELSE [users EXCEPT ![job[r].user].disabled = TRUE]
  /\ Straddle(job[r].user)
  /\ UNCHANGED <<tenants, policies, licences, sessions, lapsed, keeper, crowded, crossed>>

EnablesUser(r) ==
  /\ pc[r] = "enable" /\ HasTarget(r) /\ Ended(r)
  /\ users' = [users EXCEPT ![job[r].user].disabled = FALSE]
  /\ crowded' = crowded \cup {me[r].tenant}
  /\ UNCHANGED <<tenants, policies, licences, sessions, straddling, lapsed, keeper, crossed>>

Founds(r) ==
  /\ \/ /\ pc[r] = "tenant" /\ WentTo(r, "policy")
        /\ tenants' = tenants \cup {r} /\ policies' = policies
     \/ /\ pc[r] = "policy" /\ WentTo(r, "admin")
        /\ policies' = policies \cup {r} /\ tenants' = tenants
  /\ UNCHANGED <<users, licences, sessions, ghosts>>

SetsLicence(r) ==
  /\ pc[r] \in {"issue", "rotate", "patch"} /\ Ended(r)
  /\ \E t \in tenants, row \in LicenceRow : row.seats >= 1 /\ SetLicence(t, row)
  /\ UNCHANGED <<users, tenants, policies, sessions, straddling, lapsed, keeper, crossed>>

StepKind(r) ==
  \/ Answers(r) \/ Advances(r) \/ SignsIn(r) \/ OpensSession(r) \/ ClosesSession(r)
  \/ IsAdmitted(r) \/ StartsScan(r) \/ ChangesPassword(r) \/ ReadsSeats(r) \/ Inserts(r)
  \/ LocksUserOut(r) \/ EnablesUser(r) \/ Founds(r) \/ SetsLicence(r)

LEMMA OpSets ==
  /\ AskedAt("licence") = {"login"} /\ AskedAt("session") = {"login"}
  /\ AskedAt("password") = {"password"} /\ AskedAt("update") = {"password"}
  /\ \A at \in Creating : AskedAt(at) = {"create"}
  /\ \A at \in {"revoke", "scan"} : AskedAt(at) = {"password", "disable", "delete"}
  /\ \A at \in {"provision", "tenant", "policy", "admin", "issue"} : AskedAt(at) = {"provision"}
  /\ \A at \in {"disable", "enable", "delete", "patch", "rotate"} : AskedAt(at) = {at}
  BY DEF AskedAt, LoggingIn, Creating

\* To go on, a request only has to go where its job belongs.
LEMMA GoesOn ==
  ASSUME TypeInv, NEW r \in Request, Active(r), NEW at \in PC \ {"idle", "ended"},
         Goto(r, at), AskedAt(pc[r]) \subseteq AskedAt(at)
  PROVE  Moves(r) /\ WentTo(r, at) /\ LocalOK'
  BY LocalTyped, ActiveKnows, GotoMoves

LEMMA ReadSteps ==
  ASSUME TypeInv, NEW r \in Request,
         \/ LoginRefused(r) \/ Refused(r) \/ EndScan(r) \/ NoTarget(r) \/ Fail(r)
         \/ CheckLicence(r) \/ VerifyOld(r) \/ CountUsers(r) \/ FindEmail(r)
  PROVE  Moves(r) /\ LocalOK' /\ (Answers(r) \/ Advances(r))
<1> USE LocalTyped, EndMoves, OpSets DEF Active, ghosts, Creating
<1>1. CASE LoginRefused(r) \/ Refused(r) \/ EndScan(r) \/ NoTarget(r) \/ Fail(r)
  BY <1>1 DEF LoginRefused, Refused, EndScan, NoTarget, Fail, Answers
<1>2. CASE CheckLicence(r)
  <2>1. CASE Licensed(me[r].tenant)
    BY <1>2, <2>1, GoesOn DEF CheckLicence, Advances, PC, LoggingIn
  <2>2. CASE ~ Licensed(me[r].tenant)
    BY <1>2, <2>2 DEF CheckLicence, Answers
  <2> QED BY <2>1, <2>2
<1>3. CASE VerifyOld(r)
  <2>1. CASE Goto(r, "update")
    BY <1>3, <2>1, GoesOn DEF VerifyOld, Advances, PC
  <2>2. CASE End(r)
    BY <1>3, <2>2 DEF VerifyOld, Answers
  <2> QED BY <1>3, <2>1, <2>2 DEF VerifyOld
<1>4. CASE CountUsers(r)
  <2>1. CASE SeatFree(r)
    BY <1>4, <2>1, GoesOn DEF CountUsers, Advances, PC
  <2>2. CASE ~ SeatFree(r)
    BY <1>4, <2>2 DEF CountUsers, Answers
  <2> QED BY <2>1, <2>2
<1>5. CASE FindEmail(r)
  <2>1. CASE EmailTaken(job[r].email)
    BY <1>5, <2>1 DEF FindEmail, Answers
  <2>2. CASE ~ EmailTaken(job[r].email) /\ pc[r] = "find"
    BY <1>5, <2>2, GoesOn DEF FindEmail, Advances, PC
  <2>3. CASE ~ EmailTaken(job[r].email) /\ pc[r] = "provision"
    BY <1>5, <2>3, GoesOn DEF FindEmail, Advances, PC
  <2> QED BY <1>5, <2>1, <2>2, <2>3 DEF FindEmail
<1> QED BY <1>1, <1>2, <1>3, <1>4, <1>5

LEMMA UserTyped ==
  ASSUME TypeInv, NEW u \in DOMAIN users
  PROVE  u \in User /\ users[u] \in UserRow /\ Identity(u) \in SessionData
<1>1. u \in User /\ users[u] \in UserRow
  BY DEF TypeInv, TypeOK
<1> QED BY <1>1 DEF Identity, UserRow, SessionData

LEMMA SessionTyped ==
  ASSUME TypeInv, NEW k \in DOMAIN sessions PROVE k \in Token /\ sessions[k] \in SessionData
  BY DEF TypeInv, TypeOK

LEMMA SessionSteps ==
  ASSUME TypeInv, NEW r \in Request,
         Login(r) \/ CreateSession(r) \/ Logout(r) \/ Authorise(r) \/ BeginScan(r) \/ Visit(r)
  PROVE  /\ Moves(r) /\ LocalOK'
         /\ SignsIn(r) \/ OpensSession(r) \/ ClosesSession(r) \/ IsAdmitted(r) \/ StartsScan(r)
<1> USE LocalTyped, OpSets DEF Active, ghosts
<1>1. CASE Login(r)
  <2>1. PICK j \in Job, u \in DOMAIN users :
          /\ j.op = "login" /\ ~ users[u].disabled
          /\ Begin(r, j, Identity(u),
                   IF users[u].role = "platform_admin" THEN "session" ELSE "licence")
    BY <1>1 DEF Login
  <2>2. (IF users[u].role = "platform_admin" THEN "session" ELSE "licence") \in LoggingIn
    BY DEF LoggingIn
  <2>3. \A at \in LoggingIn : at \in PC \ {"idle", "ended"} /\ j.op \in AskedAt(at)
    BY <2>1 DEF LoggingIn, PC
  <2>4. /\ Moves(r) /\ LocalOK'
        /\ Began(r, j, Identity(u),
                 IF users[u].role = "platform_admin" THEN "session" ELSE "licence")
    BY <2>1, <2>2, <2>3, UserTyped, BeginMoves
  <2> QED BY <1>1, <2>1, <2>4 DEF Login, SignsIn
<1>2. CASE CreateSession(r)
  BY <1>2, EndMoves DEF CreateSession, OpensSession
<1>3. CASE Logout(r)
  <2>1. PICK j \in Job : j.op = "logout" /\ sessions' = Without(sessions, j.by)
    BY <1>3 DEF Logout
  <2>2. j.by \in Token
    BY <2>1, JobsAsked DEF Asked
  <2> QED BY <1>3, <2>1, <2>2, EndMoves DEF Logout, ClosesSession
<1>4. CASE Authorise(r)
  <2> DEFINE Others(ats, t) == \E q \in Request : pc[q] \in ats /\ me[q].tenant = t
  <2>1. PICK j \in Job :
          /\ j.op \notin {"login", "logout"} /\ Authorised(j)
          /\ Begin(r, j, sessions[j.by], j.op)
          /\ crowded' = IF j.op = "create" /\ Others(Creating, sessions[j.by].tenant)
                         THEN crowded \cup {sessions[j.by].tenant} ELSE crowded
          /\ crossed' = IF j.op \in Removing /\ Others(Removing, sessions[j.by].tenant)
                         THEN crossed \cup {sessions[j.by].tenant} ELSE crossed
    BY <1>4 DEF Authorise
  <2>2. j.op \in Operations \ {"login", "logout"} /\ sessions[j.by] \in SessionData
    BY <2>1, JobTyped, SessionTyped DEF JobFields, Authorised
  <2>3. j.op \in PC \ {"idle", "ended"} /\ j.op \in AskedAt(j.op)
    BY <2>2 DEF Operations, PC, Creating, Removing, AskedAt, LoggingIn
  <2>4. Moves(r) /\ LocalOK' /\ Began(r, j, sessions[j.by], j.op)
    BY <2>1, <2>2, <2>3, BeginMoves
  <2> QED BY <1>4, <2>1, <2>2, <2>4 DEF Authorise, IsAdmitted
<1>5. CASE BeginScan(r)
  <2>1. visit'[r] = TokensOf(Subject(r)) \ Keep(r) /\ visit'[r] \in SUBSET Token
    BY <1>5, SessionTyped DEF BeginScan, LocalOK, TokensOf
  <2>2. Moves(r) /\ LocalOK' /\ pc'[r] = "scan"
    BY <1>5, <2>1 DEF BeginScan, LocalOK, Moves, PC, Removing
  <2> QED BY <1>5, <2>1, <2>2 DEF BeginScan, StartsScan
<1>6. CASE Visit(r)
  <2>1. PICK k \in visit[r] \cup (TokensOf(Subject(r)) \ Keep(r)) :
          sessions' = Without(sessions, k) /\ visit' = [visit EXCEPT ![r] = @ \ {k}]
    BY <1>6 DEF Visit
  <2>2. k \in Token
    BY <2>1, SessionTyped DEF LocalOK, TokensOf
  <2>3. visit' \in [Request -> SUBSET Token] /\ visit'[r] = visit[r] \ {k}
    BY <2>1 DEF LocalOK
  <2>4. Moves(r) /\ LocalOK'
    BY <1>6, <2>1, <2>3 DEF Visit, LocalOK, Moves
  <2> QED BY <1>6, <2>1, <2>2, <2>3, <2>4 DEF Visit, ClosesSession
<1> QED BY <1>1, <1>2, <1>3, <1>4, <1>5, <1>6

LEMMA UserSteps ==
  ASSUME TypeInv, NEW r \in Request,
         \/ UpdatePassword(r) \/ ReadSeats(r) \/ CreateUser(r) \/ InsertAdmin(r)
         \/ LockOut(r) \/ Enable(r)
  PROVE  /\ Moves(r) /\ LocalOK'
         /\ \/ ChangesPassword(r) \/ ReadsSeats(r) \/ Inserts(r) \/ Answers(r)
            \/ LocksUserOut(r) \/ EnablesUser(r)
<1> USE LocalTyped, EndMoves, OpSets DEF Active, data, ghosts
<1>1. CASE UpdatePassword(r)
  BY <1>1, GoesOn DEF UpdatePassword, ChangesPassword, PC, Removing
<1>2. CASE ReadSeats(r)
  <2>1. cap'[r] = (IF me[r].tenant \in DOMAIN licences
                    THEN licences[me[r].tenant].seats ELSE NoLicence)
    BY <1>2 DEF ReadSeats, LocalOK
  <2>2. cap'[r] \in Nat \cup {NoLicence}
    BY <2>1 DEF TypeInv, TypeOK, LicenceRow
  <2>3. Moves(r) /\ LocalOK' /\ pc'[r] = "count"
    BY <1>2, <2>2 DEF ReadSeats, LocalOK, Moves, PC, Creating
  <2> QED BY <1>2, <2>1, <2>3 DEF ReadSeats, ReadsSeats
<1>3. CASE CreateUser(r)
  BY <1>3 DEF CreateUser, InsertUser, NewRow, Inserts, Answers
<1>4. CASE InsertAdmin(r)
  <2>1. CASE EmailTaken(job[r].email)
    BY <1>4, <2>1 DEF InsertAdmin, InsertUser, Answers
  <2>2. CASE ~ EmailTaken(job[r].email)
    BY <1>4, <2>2, GoesOn DEF InsertAdmin, InsertUser, NewRow, Inserts, PC
  <2> QED BY <2>1, <2>2
<1>5. CASE LockOut(r)
  BY <1>5, GoesOn DEF LockOut, LocksUserOut, PC, Removing
<1>6. CASE Enable(r)
  BY <1>6 DEF Enable, EnablesUser
<1> QED BY <1>1, <1>2, <1>3, <1>4, <1>5, <1>6

LEMMA TenantSteps ==
  ASSUME TypeInv, NEW r \in Request,
         InsertTenant(r) \/ InsertPolicy(r) \/ IssueLicence(r) \/ PatchLicence(r)
  PROVE  Moves(r) /\ LocalOK' /\ (Founds(r) \/ SetsLicence(r) \/ Answers(r))
<1> USE LocalTyped, EndMoves, OpSets DEF Active, data, ghosts
<1>1. CASE InsertTenant(r) \/ InsertPolicy(r)
  BY <1>1, GoesOn DEF InsertTenant, InsertPolicy, Founds, PC
<1>2. CASE IssueLicence(r)
  <2> DEFINE t == IF pc[r] = "issue" THEN r ELSE job[r].tenant
             row == [seats |-> job[r].seats, valid |-> TRUE]
  <2>1. JobFields(job[r]) /\ job[r].op \in {"provision", "rotate"}
    BY <1>2, ActiveKnows DEF IssueLicence
  <2>2. row \in LicenceRow /\ row.seats >= 1
    BY <2>1 DEF JobFields, LicenceRow
  <2>3. CASE t \in tenants
    BY <1>2, <2>2, <2>3 DEF IssueLicence, SetsLicence
  <2>4. CASE t \notin tenants
    BY <1>2, <2>4 DEF IssueLicence, Answers
  <2> QED BY <2>3, <2>4
<1>3. CASE PatchLicence(r)
  <2> DEFINE row == [seats |-> job[r].seats, valid |-> job[r].valid]
  <2>1. JobFields(job[r]) /\ job[r].op = "patch"
    BY <1>3, ActiveKnows DEF PatchLicence
  <2>2. row \in LicenceRow /\ row.seats >= 1
    BY <2>1 DEF JobFields, LicenceRow
  <2>3. CASE job[r].tenant \in DOMAIN licences
    BY <1>3, <2>2, <2>3 DEF PatchLicence, SetsLicence, TypeInv, TypeOK
  <2>4. CASE job[r].tenant \notin DOMAIN licences
    BY <1>3, <2>4 DEF PatchLicence, Answers
  <2> QED BY <2>3, <2>4
<1> QED BY <1>1, <1>2, <1>3

LEMMA StepKinds ==
  ASSUME TypeInv, NEW r \in Request, Step(r) PROVE Moves(r) /\ LocalOK' /\ StepKind(r)
  BY ReadSteps, SessionSteps, UserSteps, TenantSteps DEF Step, StepKind

--------------------------------------------------------------------------------
(* Type correctness. *)

TablesOK ==
  /\ DOMAIN users \subseteq User /\ \A u \in DOMAIN users : users[u] \in UserRow
  /\ tenants \subseteq Tenant /\ policies \subseteq tenants
  /\ DOMAIN licences \subseteq tenants /\ \A t \in DOMAIN licences : licences[t] \in LicenceRow
  /\ DOMAIN sessions \subseteq Token /\ \A k \in DOMAIN sessions : sessions[k] \in SessionData
TenantsMade == \A r \in Request : pc[r] \in {"policy", "admin", "issue"} => r \in tenants

LEMMA TypeParts == TypeInv <=> TablesOK /\ LocalOK /\ TenantsMade
  BY DEF TypeInv, TypeOK, TablesOK, LocalOK, TenantsMade, InStep

LEMMA TypePartsNext == TypeInv' <=> TablesOK' /\ LocalOK' /\ TenantsMade'
  BY DEF TypeInv, TypeOK, TablesOK, LocalOK, TenantsMade, InStep, Active

LEMMA TypeInit == Init => TypeInv
<1> SUFFICES ASSUME Init PROVE TypeInv
  OBVIOUS
<1>1. TablesOK
  BY FirstTables DEF Init, TablesOK, User, Tenant, Token
<1>2. LocalOK /\ TenantsMade
  BY DEF Init, LocalOK, TenantsMade, PC, Active
<1> QED BY <1>1, <1>2, TypeParts

\* A new user's row is one.
LEMMA NewRowTyped ==
  ASSUME TypeInv, NEW r \in Request
  PROVE  /\ pc[r] = "insert" => NewRow(r, me[r].tenant, job[r].role) \in UserRow
         /\ pc[r] = "admin" => NewRow(r, r, "tenant_admin") \in UserRow
<1>1. LocalOK /\ r \in Tenant
  BY LocalTyped DEF Tenant
<1>2. ASSUME pc[r] = "insert" PROVE NewRow(r, me[r].tenant, job[r].role) \in UserRow
  <2>1. JobFields(job[r]) /\ me[r] \in SessionData /\ job[r].op = "create"
    BY <1>1, <1>2, ActiveKnows, OpSets DEF Active, Creating
  <2> QED BY <2>1 DEF JobFields, SessionData, NewRow, UserRow, Role
<1>3. ASSUME pc[r] = "admin" PROVE NewRow(r, r, "tenant_admin") \in UserRow
  <2>1. JobFields(job[r]) /\ job[r].op = "provision"
    BY <1>1, <1>3, ActiveKnows, OpSets DEF Active
  <2> QED BY <1>1, <2>1 DEF JobFields, NewRow, UserRow, Role
<1> QED BY <1>2, <1>3

LEMMA TablesStep ==
  ASSUME TypeInv, NEW r \in Request, StepKind(r), Moves(r), LocalOK'
  PROVE  TablesOK' /\ TenantsMade'
<1>0. TablesOK /\ LocalOK /\ TenantsMade
  BY TypeParts
<1> USE <1>0 DEF TablesOK, TenantsMade, Moves, data, ghosts, Ended, WentTo, Began
<1>1. CASE Answers(r) \/ Advances(r) \/ SignsIn(r) \/ StartsScan(r) \/ ReadsSeats(r)
  BY <1>1 DEF Answers, Advances, SignsIn, StartsScan, ReadsSeats
<1>2. CASE IsAdmitted(r)
  BY <1>2 DEF IsAdmitted, Operations
<1>3. CASE OpensSession(r)
  <2>1. me[r] \in SessionData
    BY <1>3, ActiveKnows DEF OpensSession, Active
  <2> QED BY <1>3, <2>1 DEF OpensSession, With, Token
<1>4. CASE ClosesSession(r)
  BY <1>4 DEF ClosesSession, Without, Restrict
<1>5. CASE ChangesPassword(r)
  <2>1. job[r].new \in Password
    BY <1>5, ActiveKnows, OpSets DEF ChangesPassword, Active, JobFields
  <2> QED BY <1>5, <2>1 DEF ChangesPassword, UserRow
<1>6. CASE Inserts(r)
  BY <1>6, NewRowTyped DEF Inserts, With, User
<1>7. CASE LocksUserOut(r)
  <2>1. /\ UNCHANGED <<tenants, policies, licences, sessions>>
        /\ pc'[r] = "revoke" /\ \A q \in Request \ {r} : pc'[q] = pc[q]
        /\ \/ users' = Without(users, job[r].user)
           \/ users' = [users EXCEPT ![job[r].user].disabled = TRUE]
    BY <1>7 DEF LocksUserOut
  <2>2. DOMAIN users' \subseteq DOMAIN users
    BY <2>1 DEF Without, Restrict
  <2>3. ASSUME NEW u \in DOMAIN users' PROVE users'[u] \in UserRow
    <3>1. u \in DOMAIN users /\ users[u] \in UserRow
      BY <2>2
    <3>2. users'[u] \in {users[u], [users[u] EXCEPT !.disabled = TRUE]}
      BY <2>1, <2>3, <3>1 DEF Without, Restrict
    <3> QED BY <3>1, <3>2 DEF UserRow
  <2>4. TablesOK'
    BY <2>1, <2>2, <2>3
  <2> QED BY <2>1, <2>4
<1>8. CASE EnablesUser(r)
  <2>1. /\ UNCHANGED <<tenants, policies, licences, sessions>>
        /\ pc'[r] = "ended" /\ \A q \in Request \ {r} : pc'[q] = pc[q]
        /\ users' = [users EXCEPT ![job[r].user].disabled = FALSE]
    BY <1>8 DEF EnablesUser
  <2>2. ASSUME NEW u \in DOMAIN users' PROVE users'[u] \in UserRow
    <3>1. u \in DOMAIN users /\ users[u] \in UserRow
      BY <2>1, <2>2
    <3>2. users'[u] \in {users[u], [users[u] EXCEPT !.disabled = FALSE]}
      BY <2>1, <2>2, <3>1
    <3> QED BY <3>1, <3>2 DEF UserRow
  <2>3. TablesOK'
    BY <2>1, <2>2
  <2> QED BY <2>1, <2>3
<1>9. CASE Founds(r)
  BY <1>9 DEF Founds, Tenant
<1>10. CASE SetsLicence(r)
  BY <1>10 DEF SetsLicence, SetLicence, With
<1> QED BY <1>1, <1>2, <1>3, <1>4, <1>5, <1>6, <1>7, <1>8, <1>9, <1>10 DEF StepKind

LEMMA TypeStep == TypeInv /\ [Next]_vars => TypeInv'
<1> SUFFICES ASSUME TypeInv, [Next]_vars PROVE TypeInv'
  OBVIOUS
<1>0. TablesOK /\ LocalOK /\ TenantsMade
  BY TypeParts
<1>1. ASSUME NEW r \in Request, Step(r) PROVE TypeInv'
  BY <1>1, StepKinds, TablesStep, TypePartsNext
<1>2. ASSUME NEW t \in Tenant, Lapse(t) PROVE TypeInv'
  <2>1. TablesOK'
    BY <1>0, <1>2 DEF Lapse, TablesOK, LicenceRow
  <2> QED BY <1>0, <1>2, <2>1, TypePartsNext DEF Lapse, local, LocalOK, TenantsMade, Active
<1>3. ASSUME NEW k \in MayExpire, ExpireSession(k) PROVE TypeInv'
  <2>1. TablesOK'
    BY <1>0, <1>3 DEF ExpireSession, data, TablesOK, Without, Restrict
  <2> QED BY <1>0, <1>3, <2>1, TypePartsNext
          DEF ExpireSession, data, local, LocalOK, TenantsMade, Active
<1>4. CASE UNCHANGED vars
  BY <1>0, <1>4, TypePartsNext
     DEF vars, data, local, ghosts, TablesOK, LocalOK, TenantsMade, Active
<1> QED BY <1>1, <1>2, <1>3, <1>4 DEF Next

LEMMA TypeAlways == Spec => []TypeInv
<1>1. Init => TypeInv
  BY TypeInit
<1>2. TypeInv /\ [Next]_vars => TypeInv'
  BY TypeStep
<1> QED BY <1>1, <1>2, PTL DEF Spec

\* The rows, the sessions and what a request remembers are of their kinds, and
\* a request that has answered remembers nothing.
THEOREM TypeCorrect == Spec => []TypeOK
<1>1. TypeInv => TypeOK
  BY DEF TypeInv
<1> QED BY <1>1, TypeAlways, PTL

--------------------------------------------------------------------------------
(* Users have a policy. *)

\* No request takes a step: a licence expires, a session does, or nothing happens.
Idles ==
  /\ UNCHANGED <<users, tenants, policies, local, ghosts>>
  /\ DOMAIN licences' = DOMAIN licences
  /\ \A t \in DOMAIN licences : licences'[t].seats = licences[t].seats
  /\ DOMAIN sessions' \subseteq DOMAIN sessions
  /\ \A k \in DOMAIN sessions' : sessions'[k] = sessions[k]

LEMMA NextKinds ==
  ASSUME TypeInv, [Next]_vars
  PROVE  Idles \/ \E r \in Request : Moves(r) /\ LocalOK' /\ StepKind(r)
<1>1. ASSUME NEW r \in Request, Step(r) PROVE Moves(r) /\ LocalOK' /\ StepKind(r)
  BY <1>1, StepKinds
<1>2. ASSUME NEW t \in Tenant, Lapse(t) PROVE Idles
  BY <1>2 DEF Lapse, Idles, TypeInv, TypeOK, LicenceRow
<1>3. ASSUME NEW k \in MayExpire, ExpireSession(k) PROVE Idles
  BY <1>3 DEF ExpireSession, data, Idles, Without, Restrict
<1>4. CASE UNCHANGED vars
  BY <1>4 DEF vars, data, Idles
<1> QED BY <1>1, <1>2, <1>3, <1>4 DEF Next

LEMMA PolicyInit == Init => PolicyInv
  BY FirstTables DEF Init, PolicyInv, UsersHavePolicy, Active

LEMMA PolicyStep ==
  ASSUME TypeInv, PolicyInv, [Next]_vars PROVE PolicyInv'
<1> USE DEF PolicyInv, UsersHavePolicy, Active, Moves, data, local, ghosts, Ended, WentTo, Began
<1>1. CASE Idles
  BY <1>1 DEF Idles
<1>2. ASSUME NEW r \in Request, Moves(r), StepKind(r) PROVE PolicyInv'
  <2>1. CASE Answers(r) \/ Advances(r) \/ StartsScan(r) \/ ReadsSeats(r)
    BY <1>2, <2>1 DEF Answers, Advances, StartsScan, ReadsSeats
  <2>2. CASE SignsIn(r)
    BY <1>2, <2>2 DEF SignsIn, Identity
  <2>3. CASE IsAdmitted(r)
    BY <1>2, <2>3 DEF IsAdmitted, Authorised, Operations
  <2>4. CASE OpensSession(r)
    BY <1>2, <2>4 DEF OpensSession, With
  <2>5. CASE ClosesSession(r)
    BY <1>2, <2>5 DEF ClosesSession, Without, Restrict
  <2>6. CASE ChangesPassword(r)
    BY <1>2, <2>6, UserTyped DEF ChangesPassword, UserRow
  <2>7. CASE Inserts(r)
    BY <1>2, <2>7 DEF Inserts, With, NewRow
  <2>8. CASE LocksUserOut(r)
    BY <1>2, <2>8, UserTyped DEF LocksUserOut, Without, Restrict, UserRow
  <2>9. CASE EnablesUser(r)
    BY <1>2, <2>9, UserTyped DEF EnablesUser, UserRow
  <2>10. CASE Founds(r)
    BY <1>2, <2>10 DEF Founds
  <2>11. CASE SetsLicence(r)
    BY <1>2, <2>11 DEF SetsLicence
  <2> QED BY <1>2, <2>1, <2>2, <2>3, <2>4, <2>5, <2>6, <2>7, <2>8, <2>9, <2>10, <2>11 DEF StepKind
<1> QED BY <1>1, <1>2, NextKinds

\* However provisioning breaks off, no tenant has a user but no policy of its own.
THEOREM Provisioned == Spec => []UsersHavePolicy
<1>1. TypeInv /\ PolicyInv /\ [Next]_vars => PolicyInv'
  BY PolicyStep
<1>2. PolicyInv => UsersHavePolicy
  BY DEF PolicyInv
<1> QED BY <1>1, <1>2, TypeAlways, PolicyInit, PTL DEF Spec

--------------------------------------------------------------------------------
(* Identities: who knows a user, and that what they know of it stays true. *)

\* The only new user is the one a request inserts, and nobody's tenant or role
\* changes.
LEMMA RowsKeep ==
  ASSUME TypeInv, NEW r \in Request, StepKind(r)
  PROVE  /\ DOMAIN users' \subseteq DOMAIN users \cup {r}
         /\ r \in DOMAIN users' => r \in DOMAIN users \/ Inserts(r)
         /\ \A u \in DOMAIN users' : u \in DOMAIN users /\ (u # r \/ ~ Inserts(r)) =>
              users'[u].tenant = users[u].tenant /\ users'[u].role = users[u].role
<1> USE DEF data
<1>1. CASE users' = users
  BY <1>1
<1>2. CASE ChangesPassword(r)
  BY <1>2, UserTyped DEF ChangesPassword, UserRow
<1>3. CASE Inserts(r)
  BY <1>3 DEF Inserts, With
<1>4. CASE LocksUserOut(r)
  <2>1. CASE pc[r] = "delete"
    BY <1>4, <2>1 DEF LocksUserOut, Without, Restrict
  <2>2. CASE pc[r] = "disable"
    BY <1>4, <2>2, UserTyped DEF LocksUserOut, UserRow
  <2> QED BY <1>4, <2>1, <2>2 DEF LocksUserOut
<1>5. CASE EnablesUser(r)
  BY <1>5, UserTyped DEF EnablesUser, UserRow
<1> QED BY <1>1, <1>2, <1>3, <1>4, <1>5
        DEF StepKind, Answers, Advances, SignsIn, OpensSession, ClosesSession, IsAdmitted,
            StartsScan, ReadsSeats, Founds, SetsLicence

\* Every session there is now was there before, or is r's and has r's identity.
LEMMA SessionsKeep ==
  ASSUME TypeInv, NEW r \in Request, StepKind(r)
  PROVE  \A k \in DOMAIN sessions' :
           \/ k \in DOMAIN sessions /\ sessions'[k] = sessions[k]
           \/ OpensSession(r) /\ k = r /\ sessions'[k] = me[r]
<1>1. CASE sessions' = sessions
  BY <1>1
<1>2. CASE OpensSession(r)
  BY <1>2 DEF OpensSession, With
<1>3. CASE ClosesSession(r)
  BY <1>3 DEF ClosesSession, Without, Restrict
<1> QED BY <1>1, <1>2, <1>3
        DEF StepKind, Answers, Advances, SignsIn, IsAdmitted, StartsScan, ChangesPassword,
            ReadsSeats, Inserts, LocksUserOut, EnablesUser, Founds, SetsLicence

\* An active request acts for whom it did, for a user it has just read, or for
\* that of a session.
LEMMA IdentitiesKeep ==
  ASSUME TypeInv, NEW r \in Request, Moves(r), StepKind(r)
  PROVE  \A q \in Request : Active(q)' =>
           \/ Active(q) /\ me'[q] = me[q]
           \/ \E u \in DOMAIN users : /\ SignsIn(r) /\ q = r /\ me'[q] = Identity(u)
                                      /\ ~ users[u].disabled
           \/ \E k \in DOMAIN sessions : IsAdmitted(r) /\ q = r /\ me'[q] = sessions[k]
<1> USE DEF Active, Moves
<1>1. CASE \/ Answers(r) \/ OpensSession(r) \/ EnablesUser(r) \/ SetsLicence(r)
           \/ ClosesSession(r) \/ Inserts(r)
  BY <1>1 DEF Answers, OpensSession, EnablesUser, SetsLicence, ClosesSession, Inserts,
              Ended, WentTo
<1>2. CASE \/ Advances(r) \/ StartsScan(r) \/ ChangesPassword(r) \/ ReadsSeats(r)
           \/ LocksUserOut(r) \/ Founds(r)
  BY <1>2 DEF Advances, StartsScan, ChangesPassword, ReadsSeats, LocksUserOut, Founds, WentTo
<1>3. CASE SignsIn(r)
  BY <1>3 DEF SignsIn, Began
<1>4. CASE IsAdmitted(r)
  <2>1. PICK k \in DOMAIN sessions : me'[r] = sessions[k]
    BY <1>4 DEF IsAdmitted, Began, Authorised
  <2> QED BY <1>4, <2>1
<1> QED BY <1>1, <1>2, <1>3, <1>4 DEF StepKind

\* Once born, a request stays so, and it is born by inserting its user.
LEMMA BornKeep ==
  ASSUME TypeInv, NEW r \in Request, Moves(r), StepKind(r)
  PROVE  /\ \A q \in Request : pc[q] \in Born => pc'[q] \in Born
         /\ Inserts(r) => pc[r] \notin Born /\ pc'[r] \in Born
<1> USE DEF Born, Moves, Ended, WentTo, Began
<1>1. pc[r] \in Born => pc'[r] \in Born
  BY DEF StepKind, Answers, Advances, SignsIn, OpensSession, ClosesSession, IsAdmitted, StartsScan,
         ChangesPassword, ReadsSeats, Inserts, LocksUserOut, EnablesUser, Founds, SetsLicence
<1> QED BY <1>1 DEF Inserts

IdentityInv == FreshInv /\ CopiesInv

LEMMA IdentityInit == Init => IdentityInv
<1> SUFFICES ASSUME Init PROVE IdentityInv
  OBVIOUS
<1>1. FreshInv
  BY FirstTables, FreshIds DEF Init, FreshInv, Active
<1>2. CopiesInv
  BY FirstTables DEF Init, CopiesInv, Copies, Active
<1> QED BY <1>1, <1>2 DEF IdentityInv

LEMMA IdentityStep ==
  ASSUME TypeInv, IdentityInv, [Next]_vars PROVE IdentityInv'
<1>0. FreshInv /\ CopiesInv
  BY DEF IdentityInv
<1>1. CASE Idles
  BY <1>0, <1>1 DEF Idles, IdentityInv, FreshInv, CopiesInv, Copies, local, Active
<1>2. ASSUME NEW r \in Request, Moves(r), StepKind(r) PROVE IdentityInv'
  <2>1. FreshInv'
    <3> SUFFICES ASSUME NEW q \in Request, pc'[q] \notin Born
                 PROVE  /\ q \notin DOMAIN users'
                        /\ \A k \in DOMAIN sessions' : sessions'[k].user # q
                        /\ \A p \in Request : Active(p)' => me'[p].user # q
      BY DEF FreshInv
    <3>1. pc[q] \notin Born /\ (q = r => ~ Inserts(r))
      BY <1>2, BornKeep
    <3>2. /\ q \notin DOMAIN users
          /\ \A k \in DOMAIN sessions : sessions[k].user # q
          /\ \A p \in Request : Active(p) => me[p].user # q
      BY <1>0, <3>1 DEF FreshInv
    <3>3. q \notin DOMAIN users'
      BY <1>2, <3>1, <3>2, RowsKeep
    <3>4. \A k \in DOMAIN sessions' : sessions'[k].user # q
      BY <1>2, <3>2, SessionsKeep DEF OpensSession, Active
    <3>5. \A u \in DOMAIN users : Identity(u).user # q
      BY <3>2 DEF Identity
    <3>6. \A p \in Request : Active(p)' => me'[p].user # q
      BY <1>2, <3>2, <3>5, IdentitiesKeep
    <3> QED BY <3>3, <3>4, <3>6
  <2>2. \A u \in DOMAIN users' :
          \/ u = r /\ Inserts(r)
          \/ /\ u \in DOMAIN users
             /\ users'[u].tenant = users[u].tenant /\ users'[u].role = users[u].role
    BY <1>2, RowsKeep
  <2>3. Inserts(r) => /\ \A k \in DOMAIN sessions : sessions[k].user # r
                      /\ \A p \in Request : Active(p) => me[p].user # r
    BY <1>0, <1>2, BornKeep DEF FreshInv
  <2>4. \A who : Copies(who) /\ (Inserts(r) => who.user # r) =>
          (who.user \in DOMAIN users' => /\ who.tenant = users'[who.user].tenant
                                         /\ who.role = users'[who.user].role)
    BY <2>2 DEF Copies
  <2>5. \A k \in DOMAIN sessions' : Copies(sessions'[k]) /\ (Inserts(r) => sessions'[k].user # r)
    BY <1>0, <1>2, <2>3, SessionsKeep DEF CopiesInv, OpensSession, Active
  <2>6. \A u \in DOMAIN users : Copies(Identity(u))
    BY DEF Copies, Identity
  <2>7. ~ (SignsIn(r) /\ Inserts(r)) /\ ~ (IsAdmitted(r) /\ Inserts(r))
    BY DEF SignsIn, Inserts, IsAdmitted
  <2>8. \A p \in Request : Active(p)' => Copies(me'[p]) /\ (Inserts(r) => me'[p].user # r)
    BY <1>0, <1>2, <2>3, <2>6, <2>7, IdentitiesKeep DEF CopiesInv
  <2>9. CopiesInv'
    BY <2>4, <2>5, <2>8 DEF CopiesInv, Copies, Active
  <2> QED BY <2>1, <2>9 DEF IdentityInv
<1> QED BY <1>1, <1>2, NextKinds

--------------------------------------------------------------------------------
(* Revocation. *)

\* A revocation under way stays on the trail of a session, unless it fails.
LEMMA ChasesKeep ==
  ASSUME TypeInv, NEW r \in Request, Moves(r), StepKind(r), NEW q \in Request,
         NEW k \in DOMAIN sessions, k \in DOMAIN sessions', sessions'[k] = sessions[k],
         Chases(q, k), sessions[k].user \notin lapsed'
  PROVE  Chases(q, k)' /\ pc'[q] \in {"revoke", "scan"} /\ job'[q] = job[q] /\ me'[q] = me[q]
<1>1. CASE q # r
  BY <1>1 DEF Moves, Chases, Subject, Keep
<1>2. CASE q = r
  <2>1. pc[r] \in {"revoke", "scan"} /\ Subject(r) = sessions[k].user
    BY <1>2 DEF Chases
  <2>2. CASE Answers(r)
    BY <1>2, <2>1, <2>2 DEF Answers, Chases
  <2>3. CASE ClosesSession(r)
    <3>1. pc[r] = "scan" /\ k \in visit[r]
      BY <1>2, <2>1, <2>3 DEF ClosesSession, Chases
    <3>2. PICK l \in Token : /\ sessions' = Without(sessions, l)
                             /\ pc'[r] = "scan" /\ job'[r] = job[r] /\ me'[r] = me[r]
                             /\ visit'[r] = visit[r] \ {l}
      BY <2>3, <3>1 DEF ClosesSession
    <3>3. l # k
      BY <3>2 DEF Without, Restrict
    <3> QED BY <1>2, <2>1, <3>1, <3>2, <3>3 DEF Chases, Subject
  <2>4. CASE StartsScan(r)
    <3>1. k \in visit'[r]
      BY <1>2, <2>1, <2>4 DEF StartsScan, Chases, TokensOf
    <3> QED BY <1>2, <2>1, <2>4, <3>1 DEF StartsScan, Chases, Subject
  <2> QED BY <2>1, <2>2, <2>3, <2>4
          DEF StepKind, Advances, SignsIn, OpensSession, IsAdmitted, ChangesPassword, ReadsSeats,
              Inserts, LocksUserOut, EnablesUser, Founds, SetsLicence
<1> QED BY <1>1, <1>2

\* A login under way was so before, or has just read an enabled user.
LEMMA LoginsKeep ==
  ASSUME TypeInv, NEW r \in Request, Moves(r), StepKind(r),
         NEW q \in Request, pc'[q] \in LoggingIn
  PROVE  \/ pc[q] \in LoggingIn /\ me'[q] = me[q]
         \/ \E u \in DOMAIN users : users' = users /\ me'[q] = Identity(u) /\ ~ users[u].disabled
<1> USE DEF LoggingIn, Moves
<1>1. CASE q # r
  BY <1>1
<1>2. CASE q = r /\ SignsIn(r)
  BY <1>2 DEF SignsIn, Began, data
<1>3. CASE q = r /\ ~ SignsIn(r)
  BY <1>3 DEF StepKind, Answers, Advances, OpensSession, ClosesSession, IsAdmitted, Operations,
      StartsScan, ChangesPassword, ReadsSeats, Inserts, LocksUserOut, EnablesUser, Founds,
      SetsLicence, Ended, WentTo, Began
<1> QED BY <1>1, <1>2, <1>3

\* The histories only grow, and hold the logins that a change of a user meets.
LEMMA HistoriesKeep ==
  ASSUME TypeInv, NEW r \in Request, StepKind(r)
  PROVE  /\ straddling \subseteq straddling' /\ lapsed \subseteq lapsed'
         /\ LocksUserOut(r) =>
              \A q \in Request : pc[q] \in LoggingIn /\ me[q].user = job[r].user => q \in straddling'
         /\ ChangesPassword(r) =>
              \A q \in Request : pc[q] \in LoggingIn /\ me[q].user = me[r].user => q \in straddling'
<1>1. straddling \subseteq straddling' /\ lapsed \subseteq lapsed'
  BY DEF StepKind, Answers, Advances, SignsIn, OpensSession, ClosesSession, IsAdmitted, StartsScan,
         ChangesPassword, ReadsSeats, Inserts, LocksUserOut, EnablesUser, Founds, SetsLicence,
         Straddle, ghosts
<1>2. LocksUserOut(r) =>
        \A q \in Request : pc[q] \in LoggingIn /\ me[q].user = job[r].user => q \in straddling'
  BY DEF LocksUserOut, Straddle
<1>3. ChangesPassword(r) =>
        \A q \in Request : pc[q] \in LoggingIn /\ me[q].user = me[r].user => q \in straddling'
  BY DEF ChangesPassword, Straddle
<1> QED BY <1>1, <1>2, <1>3

\* Only locking a user out makes the user gone.
LEMMA GoneKeep ==
  ASSUME TypeInv, NEW r \in Request, StepKind(r)
  PROVE  \A u : GoneNext(u) => Gone(u) \/ (LocksUserOut(r) /\ u = job[r].user)
<1> SUFFICES ASSUME NEW u, GoneNext(u)
             PROVE  Gone(u) \/ (LocksUserOut(r) /\ u = job[r].user)
  OBVIOUS
<1> USE DEF GoneNext
<1>1. CASE users' = users
  BY <1>1 DEF Gone
<1>2. CASE ChangesPassword(r)
  BY <1>2, UserTyped DEF ChangesPassword, Gone, UserRow
<1>3. CASE Inserts(r)
  BY <1>3 DEF Inserts, Gone, With, NewRow
<1>4. CASE LocksUserOut(r)
  <2>1. CASE pc[r] = "delete"
    BY <1>4, <2>1 DEF LocksUserOut, Gone, Without, Restrict
  <2>2. CASE pc[r] = "disable"
    BY <1>4, <2>2 DEF LocksUserOut, Gone
  <2> QED BY <1>4, <2>1, <2>2 DEF LocksUserOut
<1>5. CASE EnablesUser(r)
  BY <1>5, UserTyped DEF EnablesUser, Gone, UserRow
<1> QED BY <1>1, <1>2, <1>3, <1>4, <1>5
        DEF StepKind, Answers, Advances, SignsIn, OpensSession, ClosesSession, IsAdmitted,
            StartsScan, ReadsSeats, Founds, SetsLicence, data

LEMMA RevokedInit == Init => RevokedInv
  BY FirstTables DEF Init, RevokedInv, Gone, LoggingIn

\* Whoever locks a user out is after every session the user has.
LEMMA LockOutExpels ==
  ASSUME TypeInv, CopiesInv, NEW r \in Request, LocksUserOut(r),
         NEW k \in DOMAIN sessions, sessions[k].user = job[r].user
  PROVE  Expels(r, k)'
<1>1. job[r].op \in {"disable", "delete"}
  BY LocalTyped, ActiveKnows, OpSets DEF LocksUserOut, Active
<1>2. me[r].tenant = sessions[k].tenant
  BY DEF CopiesInv, Copies, LocksUserOut, HasTarget
<1> QED BY <1>1, <1>2 DEF LocksUserOut, WentTo, Expels, Chases, Subject, Keep

LEMMA RevokedStep ==
  ASSUME TypeInv, IdentityInv, RevokedInv, [Next]_vars PROVE RevokedInv'
<1>1. CASE Idles
  <2>1. \A r \in Request, k \in DOMAIN sessions' : Expels(r, k)' <=> Expels(r, k)
    BY <1>1 DEF Idles, Expels, Chases, Subject, Keep, local
  <2> QED BY <1>1, <2>1 DEF Idles, RevokedInv, Gone, local, ghosts
<1>2. ASSUME NEW r \in Request, Moves(r), StepKind(r) PROVE RevokedInv'
  <2>1. ASSUME NEW k \in DOMAIN sessions', GoneNext(sessions'[k].user),
               sessions'[k].user \notin lapsed', k \notin straddling'
        PROVE  \E q \in Request : Expels(q, k)'
    <3>1. k \notin straddling
      BY <1>2, <2>1, HistoriesKeep
    <3>2. CASE OpensSession(r) /\ k = r /\ sessions'[k] = me[r]
      <4>1. Gone(me[r].user) /\ pc[r] \in LoggingIn
        BY <1>2, <2>1, <3>2, GoneKeep DEF OpensSession, LocksUserOut, LoggingIn
      <4> QED BY <3>1, <3>2, <4>1 DEF RevokedInv
    <3>3. CASE k \in DOMAIN sessions /\ sessions'[k] = sessions[k]
      <4>1. CASE LocksUserOut(r) /\ sessions[k].user = job[r].user
        BY <3>3, <4>1, LockOutExpels DEF IdentityInv
      <4>2. CASE Gone(sessions[k].user)
        <5>1. sessions[k].user \notin lapsed
          BY <1>2, <2>1, <3>3, HistoriesKeep
        <5>2. PICK q \in Request : Expels(q, k)
          BY <3>1, <3>3, <4>2, <5>1 DEF RevokedInv
        <5>3. Chases(q, k)' /\ job'[q] = job[q] /\ me'[q] = me[q]
          BY <1>2, <2>1, <3>3, <5>2, ChasesKeep DEF Expels
        <5> QED BY <3>3, <5>2, <5>3 DEF Expels
      <4> QED BY <1>2, <2>1, <3>3, <4>1, <4>2, GoneKeep
    <3> QED BY <1>2, <2>1, <3>2, <3>3, SessionsKeep
  <2>2. ASSUME NEW q \in Request, pc'[q] \in LoggingIn, GoneNext(me'[q].user)
        PROVE  q \in straddling'
    <3>1. CASE pc[q] \in LoggingIn /\ me'[q] = me[q]
      <4>1. CASE Gone(me[q].user)
        BY <1>2, <3>1, <4>1, HistoriesKeep DEF RevokedInv
      <4>2. CASE LocksUserOut(r) /\ me[q].user = job[r].user
        BY <1>2, <3>1, <4>2, HistoriesKeep
      <4> QED BY <1>2, <2>2, <3>1, <4>1, <4>2, GoneKeep
    <3>2. ASSUME NEW u \in DOMAIN users, users' = users, me'[q] = Identity(u), ~ users[u].disabled
          PROVE  FALSE
      BY <2>2, <3>2 DEF GoneNext, Identity
    <3> QED BY <1>2, <2>2, <3>1, <3>2, LoginsKeep
  <2> QED BY <2>1, <2>2 DEF RevokedInv, Gone, GoneNext
<1> QED BY <1>1, <1>2, NextKinds

\* A revocation that is on the trail of a session has yet to end.
LEMMA ChasesExcuses ==
  ASSUME NEW r \in Request, NEW k, Chases(r, k) PROVE Revoking(sessions[k].user)
  BY DEF Chases, Revoking

LEMMA IdentityAlways == Spec => []IdentityInv
<1>1. TypeInv /\ IdentityInv /\ [Next]_vars => IdentityInv'
  BY IdentityStep
<1> QED BY <1>1, TypeAlways, IdentityInit, PTL DEF Spec

LEMMA RevokedAlways == Spec => []RevokedInv
<1>1. TypeInv /\ IdentityInv /\ RevokedInv /\ [Next]_vars => RevokedInv'
  BY RevokedStep
<1> QED BY <1>1, TypeAlways, IdentityAlways, RevokedInit, PTL DEF Spec

\* Once disabling or deleting a user has ended, none of the user's sessions is
\* left but those of logins that had read the user before.
THEOREM LockedOut == Spec => []RevokedStaysOut
<1>1. RevokedInv => RevokedStaysOut
  BY ChasesExcuses DEF RevokedInv, RevokedStaysOut, Gone, Excused, Expels
<1> QED BY <1>1, RevokedAlways, PTL

--------------------------------------------------------------------------------
(* Passwords. *)

OutdatedNext(who) == who.user \in DOMAIN users' /\ who.proof # users'[who.user].pw

\* Only inserting a user and changing a password sets one.
LEMMA PasswordsKeep ==
  ASSUME TypeInv, NEW r \in Request, StepKind(r)
  PROVE  \A who : OutdatedNext(who) =>
           \/ Outdated(who)
           \/ Inserts(r) /\ who.user = r
           \/ ChangesPassword(r) /\ who.user = me[r].user
<1> SUFFICES ASSUME NEW u \in DOMAIN users',
                    ~ (Inserts(r) /\ u = r), ~ (ChangesPassword(r) /\ u = me[r].user)
             PROVE  u \in DOMAIN users /\ users'[u].pw = users[u].pw
  BY DEF Outdated, OutdatedNext
<1>1. CASE users' = users
  BY <1>1
<1>2. CASE ChangesPassword(r)
  BY <1>2 DEF ChangesPassword
<1>3. CASE Inserts(r)
  BY <1>3 DEF Inserts, With
<1>4. CASE LocksUserOut(r)
  <2>1. CASE pc[r] = "delete"
    BY <1>4, <2>1 DEF LocksUserOut, Without, Restrict
  <2>2. CASE pc[r] = "disable"
    BY <1>4, <2>2, UserTyped DEF LocksUserOut, UserRow
  <2> QED BY <1>4, <2>1, <2>2 DEF LocksUserOut
<1>5. CASE EnablesUser(r)
  BY <1>5, UserTyped DEF EnablesUser, UserRow
<1> QED BY <1>1, <1>2, <1>3, <1>4, <1>5
        DEF StepKind, Answers, Advances, SignsIn, OpensSession, ClosesSession, IsAdmitted,
            StartsScan, ReadsSeats, Founds, SetsLicence, data

LEMMA KeeperKeeps ==
  ASSUME TypeInv, NEW r \in Request, StepKind(r)
  PROVE  \A u \in DOMAIN keeper :
           \/ u \in DOMAIN keeper' /\ keeper'[u] = keeper[u]
           \/ ChangesPassword(r) /\ u = me[r].user
<1>1. CASE ChangesPassword(r)
  BY <1>1 DEF ChangesPassword, With
<1>2. CASE ~ ChangesPassword(r)
  BY <1>2 DEF StepKind, Answers, Advances, SignsIn, OpensSession, ClosesSession, IsAdmitted,
      StartsScan, ReadsSeats, Inserts, LocksUserOut, EnablesUser, Founds, SetsLicence, ghosts
<1> QED BY <1>1, <1>2

\* Whoever changes a password is after every session of the user but its own.
LEMMA ChangeChases ==
  ASSUME TypeInv, NEW r \in Request, ChangesPassword(r),
         NEW k \in DOMAIN sessions, sessions[k].user = me[r].user
  PROVE  \/ Chases(r, k)'
         \/ sessions[k].user \in DOMAIN keeper' /\ keeper'[sessions[k].user] = k
<1>1. job[r].op = "password"
  BY LocalTyped, ActiveKnows, OpSets DEF ChangesPassword, Active
<1>2. CASE k = job[r].by
  BY <1>2 DEF ChangesPassword, With
<1>3. CASE k # job[r].by
  BY <1>1, <1>3 DEF ChangesPassword, WentTo, Chases, Subject, Keep
<1> QED BY <1>2, <1>3

LEMMA PasswordInit == Init => PasswordInv
  BY FirstTables DEF Init, PasswordInv, Outdated, LoggingIn

LEMMA PasswordStep ==
  ASSUME TypeInv, IdentityInv, PasswordInv, [Next]_vars PROVE PasswordInv'
<1>1. CASE Idles
  <2>1. \A r \in Request, k \in DOMAIN sessions' : Chases(r, k)' <=> Chases(r, k)
    BY <1>1 DEF Idles, Chases, Subject, Keep, local
  <2> QED BY <1>1, <2>1 DEF Idles, PasswordInv, Outdated, local, ghosts
<1>2. ASSUME NEW r \in Request, Moves(r), StepKind(r) PROVE PasswordInv'
  <2>0. Inserts(r) => /\ \A k \in DOMAIN sessions : sessions[k].user # r
                      /\ \A q \in Request : Active(q) => me[q].user # r
    BY <1>2, BornKeep DEF IdentityInv, FreshInv
  <2>1. ASSUME NEW k \in DOMAIN sessions', OutdatedNext(sessions'[k]),
               sessions'[k].user \notin lapsed', k \notin straddling'
        PROVE  \/ \E q \in Request : Chases(q, k)'
               \/ /\ sessions'[k].user \in DOMAIN keeper'
                  /\ keeper'[sessions'[k].user] = k
    <3>1. k \notin straddling
      BY <1>2, <2>1, HistoriesKeep
    <3>2. CASE OpensSession(r) /\ k = r /\ sessions'[k] = me[r]
      <4>1. Outdated(me[r]) /\ pc[r] \in LoggingIn
        BY <1>2, <2>1, <3>2 DEF OpensSession, data, Outdated, OutdatedNext, LoggingIn
      <4> QED BY <3>1, <3>2, <4>1 DEF PasswordInv
    <3>3. CASE k \in DOMAIN sessions /\ sessions'[k] = sessions[k]
      <4>1. CASE ChangesPassword(r) /\ sessions[k].user = me[r].user
        BY <3>3, <4>1, ChangeChases
      <4>2. CASE /\ Outdated(sessions[k])
                 /\ ~ (ChangesPassword(r) /\ sessions[k].user = me[r].user)
        <5>1. sessions[k].user \notin lapsed
          BY <1>2, <2>1, <3>3, HistoriesKeep
        <5>2. CASE \E q \in Request : Chases(q, k)
          BY <1>2, <2>1, <3>3, <5>2, ChasesKeep
        <5>3. CASE sessions[k].user \in DOMAIN keeper /\ keeper[sessions[k].user] = k
          BY <1>2, <3>3, <4>2, <5>3, KeeperKeeps
        <5> QED BY <3>1, <3>3, <4>2, <5>1, <5>2, <5>3 DEF PasswordInv
      <4> QED BY <1>2, <2>0, <2>1, <3>3, <4>1, <4>2, PasswordsKeep
    <3> QED BY <1>2, <2>1, <3>2, <3>3, SessionsKeep
  <2>2. ASSUME NEW q \in Request, pc'[q] \in LoggingIn, OutdatedNext(me'[q])
        PROVE  q \in straddling'
    <3>1. CASE pc[q] \in LoggingIn /\ me'[q] = me[q]
      <4>1. CASE Outdated(me[q])
        BY <1>2, <3>1, <4>1, HistoriesKeep DEF PasswordInv
      <4>2. CASE ChangesPassword(r) /\ me[q].user = me[r].user
        BY <1>2, <3>1, <4>2, HistoriesKeep
      <4>3. Active(q)
        BY <3>1 DEF LoggingIn, Active
      <4> QED BY <1>2, <2>0, <2>2, <3>1, <4>1, <4>2, <4>3, PasswordsKeep
    <3>2. ASSUME NEW u \in DOMAIN users, users' = users, me'[q] = Identity(u) PROVE FALSE
      BY <2>2, <3>2 DEF OutdatedNext, Identity
    <3> QED BY <1>2, <2>2, <3>1, <3>2, LoginsKeep
  <2> QED BY <2>1, <2>2 DEF PasswordInv, Outdated, OutdatedNext
<1> QED BY <1>1, <1>2, NextKinds

\* Once a password change has ended, every session of the user was opened with
\* the new password or is the one that changed it.
THEOREM OldPasswordOut == Spec => []OldPasswordEndsSessions
<1>1. TypeInv /\ IdentityInv /\ PasswordInv /\ [Next]_vars => PasswordInv'
  BY PasswordStep
<1>2. PasswordInv => OldPasswordEndsSessions
  BY ChasesExcuses DEF PasswordInv, OldPasswordEndsSessions, Outdated, Excused
<1> QED BY <1>1, <1>2, TypeAlways, IdentityAlways, PasswordInit, PTL DEF Spec

--------------------------------------------------------------------------------
(* Seats. *)

TenantInv == LicensedInv /\ NewTenantInv

\* Licences stay, a new one has a seat, and one with fewer seats than before
\* makes its tenant crowded.
LEMMA LicencesKeep ==
  ASSUME TypeInv, NEW r \in Request, StepKind(r)
  PROVE  /\ crowded \subseteq crowded'
         /\ DOMAIN licences \subseteq DOMAIN licences'
         /\ \A t \in DOMAIN licences' : t \notin DOMAIN licences => licences'[t].seats >= 1
         /\ \A t \in DOMAIN licences : licences'[t] = licences[t] \/ licences'[t].seats >= 1
         /\ \A t \in DOMAIN licences \ crowded' : licences[t].seats <= licences'[t].seats
<1>0. \A t \in DOMAIN licences : licences[t].seats \in Nat
  BY DEF TypeInv, TypeOK, LicenceRow
<1>1. CASE SetsLicence(r)
  <2>1. PICK t \in tenants, row \in LicenceRow : row.seats >= 1 /\ SetLicence(t, row)
    BY <1>1 DEF SetsLicence
  <2>2. row.seats \in Nat
    BY DEF LicenceRow
  <2> QED BY <1>0, <2>1, <2>2 DEF SetLicence, With
<1>2. CASE ~ SetsLicence(r)
  <2>1. licences' = licences /\ crowded \subseteq crowded'
    BY <1>2 DEF StepKind, Answers, Advances, SignsIn, OpensSession, ClosesSession, IsAdmitted,
        StartsScan, ChangesPassword, ReadsSeats, Inserts, LocksUserOut, EnablesUser, Founds,
        data, ghosts
  <2> QED BY <1>0, <2>1
<1> QED BY <1>1, <1>2

LEMMA TenantInit == Init => TenantInv
<1> SUFFICES ASSUME Init PROVE TenantInv
  OBVIOUS
<1>1. \A u \in DOMAIN users : users[u].tenant \notin Request
  BY FirstTables, FreshIds, Apart DEF Init, Tenant
<1>2. NewTenantInv
  BY <1>1, FirstTables, FreshIds DEF Init, NewTenantInv, Active
<1>3. LicensedInv
  BY FirstTables DEF Init, LicensedInv, Active
<1> QED BY <1>2, <1>3 DEF TenantInv

\* The row a request inserts belongs to its own new tenant or to one that has a
\* licence, and is not a platform administrator's.
LEMMA NewRowTenant ==
  ASSUME TypeInv, TenantInv, NEW r \in Request, Inserts(r)
  PROVE  /\ r \in DOMAIN users' /\ users'[r].role # "platform_admin"
         /\ \/ pc[r] = "admin" /\ users'[r].tenant = r
            \/ /\ pc[r] = "insert" /\ users'[r].tenant = me[r].tenant
               /\ me[r].tenant \in DOMAIN licences \cup {NoTenant}
<1>1. CASE pc[r] = "admin"
  BY <1>1 DEF Inserts, With, NewRow
<1>2. CASE pc[r] = "insert"
  <2>1. JobFields(job[r]) /\ job[r].op = "create"
    BY <1>2, LocalTyped, ActiveKnows, OpSets DEF Active, Creating
  <2>2. me[r].tenant \in DOMAIN licences \cup {NoTenant}
    BY <1>2 DEF TenantInv, LicensedInv, Active
  <2> QED BY <1>2, <2>1, <2>2 DEF Inserts, With, NewRow, JobFields
<1> QED BY <1>1, <1>2 DEF Inserts

LEMMA LicensedStep ==
  ASSUME TypeInv, TenantInv, NEW r \in Request, Moves(r), StepKind(r) PROVE LicensedInv'
<1>0. LicensedInv
  BY DEF TenantInv
<1>1. DOMAIN licences \subseteq DOMAIN licences' /\ DOMAIN FirstLicences \subseteq DOMAIN licences'
  BY <1>0, LicencesKeep DEF LicensedInv
<1>2. \A u \in DOMAIN users' : users'[u].role = "platform_admin" => users'[u].tenant = NoTenant
  BY <1>0, RowsKeep, NewRowTenant DEF LicensedInv
<1>3. \A k \in DOMAIN sessions' : sessions'[k].tenant \in DOMAIN licences' \cup {NoTenant}
  BY <1>0, <1>1, SessionsKeep DEF LicensedInv, OpensSession, Active
<1>4. ASSUME NEW q \in Request, Active(q)', pc'[q] # "licence"
      PROVE  me'[q].tenant \in DOMAIN licences' \cup {NoTenant}
  <2>1. CASE Active(q) /\ me'[q] = me[q] /\ pc[q] # "licence"
    BY <1>0, <1>1, <2>1 DEF LicensedInv
  <2>2. CASE Active(q) /\ me'[q] = me[q] /\ pc[q] = "licence"
    <3>1. q = r /\ Advances(r)
      BY <1>4, <2>2 DEF Moves, Active, StepKind, Answers, SignsIn, OpensSession, ClosesSession,
          IsAdmitted, StartsScan, ChangesPassword, ReadsSeats, Inserts, LocksUserOut, EnablesUser,
          Founds, SetsLicence, Ended
    <3> QED BY <1>1, <2>2, <3>1 DEF Advances, Licensed
  <2>3. CASE SignsIn(r) /\ q = r
    <3>1. PICK u \in DOMAIN users :
            /\ me'[q] = Identity(u)
            /\ pc'[q] = IF users[u].role = "platform_admin" THEN "session" ELSE "licence"
      BY <2>3 DEF SignsIn, Began
    <3> QED BY <1>0, <1>4, <3>1 DEF LicensedInv, Identity
  <2>4. ASSUME NEW k \in DOMAIN sessions, me'[q] = sessions[k]
        PROVE  me'[q].tenant \in DOMAIN licences' \cup {NoTenant}
    BY <1>0, <1>1, <2>4 DEF LicensedInv
  <2> QED BY <1>4, <2>1, <2>2, <2>3, <2>4, IdentitiesKeep
<1> QED BY <1>1, <1>2, <1>3, <1>4 DEF LicensedInv

LEMMA NewTenantStep ==
  ASSUME TypeInv, TenantInv, NEW r \in Request, Moves(r), StepKind(r) PROVE NewTenantInv'
<1>0. NewTenantInv /\ DOMAIN licences \subseteq DOMAIN licences'
  BY LicencesKeep DEF TenantInv
<1>1. \A q \in Request : pc[q] \in Born => pc'[q] \in Born
  BY BornKeep
<1>2. ASSUME NEW u \in DOMAIN users', users'[u].tenant \in Request
      PROVE  /\ pc'[users'[u].tenant] \in Born
             /\ users'[u].tenant \notin DOMAIN licences' => u = users'[u].tenant
  <2>1. CASE u \in DOMAIN users /\ (u # r \/ ~ Inserts(r))
    <3>1. users'[u].tenant = users[u].tenant
      BY <2>1, RowsKeep
    <3> QED BY <1>0, <1>1, <1>2, <2>1, <3>1 DEF NewTenantInv
  <2>2. CASE u = r /\ Inserts(r) /\ pc[r] = "admin"
    BY <2>2, NewRowTenant, BornKeep
  <2>3. CASE u = r /\ Inserts(r) /\ pc[r] = "insert"
    <3>1. users'[u].tenant = me[r].tenant /\ me[r].tenant \in DOMAIN licences
      BY <1>2, <2>3, NewRowTenant, Apart DEF Tenant
    <3> QED BY <1>0, <1>1, <1>2, <2>3, <3>1 DEF NewTenantInv, Active
  <2> QED BY <2>1, <2>2, <2>3, RowsKeep, NewRowTenant
<1>3. \A k \in DOMAIN sessions' :
        sessions'[k].tenant \in Request => pc'[sessions'[k].tenant] \in Born
  BY <1>0, <1>1, SessionsKeep DEF NewTenantInv, OpensSession, Active
<1>4. \A u \in DOMAIN users :
        Identity(u).tenant \in Request => pc'[Identity(u).tenant] \in Born
  BY <1>0, <1>1 DEF NewTenantInv, Identity
<1>5. \A q \in Request :
        Active(q)' /\ me'[q].tenant \in Request => pc'[me'[q].tenant] \in Born
  BY <1>0, <1>1, <1>4, IdentitiesKeep DEF NewTenantInv
<1>6. \A t \in DOMAIN licences' : t \in Request => licences'[t].seats >= 1
  BY <1>0, LicencesKeep DEF NewTenantInv
<1> QED BY <1>2, <1>3, <1>5, <1>6 DEF NewTenantInv

LEMMA TenantStep ==
  ASSUME TypeInv, TenantInv, [Next]_vars PROVE TenantInv'
<1>1. CASE Idles
  BY <1>1 DEF Idles, TenantInv, LicensedInv, NewTenantInv, local, Active
<1> QED BY <1>1, NextKinds, LicensedStep, NewTenantStep DEF TenantInv

EnabledNext(t) == {u \in DOMAIN users' : users'[u].tenant = t /\ ~ users'[u].disabled}

\* A subset is no larger, and one more element makes a set larger by at most one.
LEMMA NoLarger ==
  ASSUME NEW S, IsFiniteSet(S), NEW T \in SUBSET S
  PROVE  /\ Cardinality(T) \in Nat /\ Cardinality(S) \in Nat
         /\ Cardinality(T) <= Cardinality(S)
<1>1. IsFiniteSet(T) /\ Cardinality(T) <= Cardinality(S)
  BY FS_Subset
<1> QED BY <1>1, FS_CardinalityType

LEMMA OneMore ==
  ASSUME NEW S, IsFiniteSet(S), NEW x, NEW T \in SUBSET (S \cup {x})
  PROVE  Cardinality(T) \in Nat /\ Cardinality(T) <= Cardinality(S) + 1
<1>1. IsFiniteSet(S \cup {x})
  BY FS_AddElement
<1>2. Cardinality(S \cup {x}) = IF x \in S THEN Cardinality(S) ELSE Cardinality(S) + 1
  BY FS_AddElement
<1>3. /\ Cardinality(T) \in Nat /\ Cardinality(S) \in Nat
      /\ Cardinality(T) <= Cardinality(S \cup {x})
  BY <1>1, NoLarger, FS_CardinalityType
<1> QED BY <1>2, <1>3

LEMMA EnabledFinite ==
  ASSUME IsFiniteSet(DOMAIN users), NEW t
  PROVE  IsFiniteSet(EnabledUsers(t)) /\ Cardinality(EnabledUsers(t)) \in Nat
<1>1. EnabledUsers(t) \in SUBSET DOMAIN users
  BY DEF EnabledUsers
<1> QED BY <1>1, FS_Subset, FS_CardinalityType

\* A tenant gets another enabled user only by inserting one or enabling one again.
LEMMA EnabledKeep ==
  ASSUME TypeInv, NEW r \in Request, StepKind(r), NEW t, t \notin crowded'
  PROVE  \/ EnabledNext(t) \subseteq EnabledUsers(t)
         \/ /\ Inserts(r) /\ users'[r].tenant = t
            /\ EnabledNext(t) \subseteq EnabledUsers(t) \cup {r}
<1>1. CASE users' = users
  BY <1>1 DEF EnabledNext, EnabledUsers
<1>2. CASE ChangesPassword(r)
  BY <1>2, UserTyped DEF ChangesPassword, EnabledNext, EnabledUsers, UserRow
<1>3. CASE Inserts(r)
  BY <1>3 DEF Inserts, With, EnabledNext, EnabledUsers
<1>4. CASE LocksUserOut(r)
  <2>1. CASE pc[r] = "delete"
    BY <1>4, <2>1 DEF LocksUserOut, Without, Restrict, EnabledNext, EnabledUsers
  <2>2. CASE pc[r] = "disable"
    BY <1>4, <2>2, UserTyped DEF LocksUserOut, UserRow, EnabledNext, EnabledUsers
  <2> QED BY <1>4, <2>1, <2>2 DEF LocksUserOut
<1>5. CASE EnablesUser(r)
  BY <1>5, UserTyped DEF EnablesUser, HasTarget, UserRow, EnabledNext, EnabledUsers
<1> QED BY <1>1, <1>2, <1>3, <1>4, <1>5
        DEF StepKind, Answers, Advances, SignsIn, OpensSession, ClosesSession, IsAdmitted,
            StartsScan, ReadsSeats, Founds, SetsLicence, data

\* A creation under way was so before, or is the only one in its tenant.
LEMMA CreationsKeep ==
  ASSUME TypeInv, NEW r \in Request, Moves(r), StepKind(r),
         NEW q \in Request, pc'[q] \in Creating
  PROVE  \/ pc[q] \in Creating /\ me'[q] = me[q] /\ pc'[q] # "create"
         \/ pc[q] = "create" /\ me'[q] = me[q] /\ q # r
         \/ /\ q = r /\ pc'[q] = "create"
            /\ me'[q].tenant \notin crowded' =>
                 \A p \in Request : pc[p] \in Creating => me[p].tenant # me'[q].tenant
<1> USE DEF Creating, Moves
<1>1. CASE q # r
  BY <1>1
<1>2. CASE q = r /\ IsAdmitted(r)
  <2>1. PICK j \in Job :
          /\ Began(r, j, sessions[j.by], j.op)
          /\ crowded' = IF j.op = "create" /\ (\E p \in Request :
                                 pc[p] \in Creating /\ me[p].tenant = sessions[j.by].tenant)
                         THEN crowded \cup {sessions[j.by].tenant} ELSE crowded
    BY <1>2 DEF IsAdmitted
  <2>2. pc'[r] = j.op /\ me'[r] = sessions[j.by]
    BY <2>1 DEF Began
  <2>3. j.op = "create"
    BY <2>2, <1>2, JobTyped DEF JobFields, Operations
  <2> QED BY <1>2, <2>1, <2>2, <2>3
<1>3. CASE q = r /\ ~ IsAdmitted(r)
  BY <1>3 DEF StepKind, Answers, Advances, SignsIn, OpensSession, ClosesSession, StartsScan,
      ChangesPassword, ReadsSeats, Inserts, LocksUserOut, EnablesUser, Founds, SetsLicence,
      Ended, WentTo, Began
<1> QED BY <1>1, <1>2, <1>3

LEMMA SeatsInit == Init => SeatsInv
<1> SUFFICES ASSUME Init PROVE SeatsInv
  OBVIOUS
<1>1. SeatsKept
  BY FirstTenants DEF Init, SeatsKept, EnabledUsers
<1>2. IsFiniteSet(DOMAIN users)
  BY FirstTables DEF Init
<1>3. \A r \in Request : pc[r] \notin Creating
  BY DEF Init, Creating
<1> QED BY <1>1, <1>2, <1>3 DEF SeatsInv

\* Where a request inserts a user there is room for one, as long as the count
\* of the tenant is reliable.
LEMMA RoomToInsert ==
  ASSUME TypeInv, TenantInv, SeatsInv, NEW r \in Request, Inserts(r),
         NEW t \in DOMAIN licences \ crowded, users'[r].tenant = t
  PROVE  Cardinality(EnabledUsers(t)) < licences[t].seats
<1>1. CASE pc[r] = "insert"
  <2>1. me[r].tenant = t
    BY <1>1, NewRowTenant
  <2> QED BY <1>1, <2>1 DEF SeatsInv, Creating
<1>2. CASE pc[r] = "admin"
  <2>1. t = r
    BY <1>2, NewRowTenant
  <2>2. EnabledUsers(t) = {}
    BY <1>2, <2>1 DEF TenantInv, NewTenantInv, EnabledUsers, Born
  <2>3. licences[t].seats >= 1 /\ licences[t].seats \in Nat
    BY <2>1 DEF TenantInv, NewTenantInv, TypeInv, TypeOK, LicenceRow
  <2> QED BY <2>2, <2>3, FS_EmptySet
<1> QED BY <1>1, <1>2, NewRowTenant

LEMMA SeatsStep ==
  ASSUME TypeInv, TenantInv, SeatsInv, [Next]_vars PROVE SeatsInv'
<1>0. IsFiniteSet(DOMAIN users) /\ SeatsKept
  BY DEF SeatsInv
<1>1. CASE Idles
  BY <1>1 DEF Idles, SeatsInv, SeatsKept, EnabledUsers, local, ghosts
<1>2. ASSUME NEW r \in Request, Moves(r), StepKind(r) PROVE SeatsInv'
  <2>1. IsFiniteSet(DOMAIN users')
    <3>1. IsFiniteSet(DOMAIN users \cup {r})
      BY <1>0, FS_AddElement
    <3> QED BY <1>2, <3>1, RowsKeep, FS_Subset
  <2>2. \A t \in DOMAIN licences : licences[t].seats \in Nat
    BY DEF TypeInv, TypeOK, LicenceRow
  <2>3. \A t \in DOMAIN licences' : licences'[t].seats \in Nat /\ t \in Tenant
    <3>1. TypeInv'
      BY TypeStep
    <3> QED BY <3>1 DEF TypeInv, TypeOK, LicenceRow
  <2>4. \A t \in DOMAIN licences \ crowded' : licences[t].seats <= licences'[t].seats
    BY <1>2, LicencesKeep
  <2>5. ASSUME NEW t, t \notin crowded', EnabledNext(t) \subseteq EnabledUsers(t)
        PROVE  /\ Cardinality(EnabledNext(t)) \in Nat
               /\ Cardinality(EnabledNext(t)) <= Cardinality(EnabledUsers(t))
    BY <1>0, <2>5, EnabledFinite, NoLarger
  <2>6. ASSUME NEW t \in DOMAIN licences' \ crowded'
        PROVE  Cardinality(EnabledNext(t)) <= licences'[t].seats
    <3>1. t \notin crowded
      BY <1>2, LicencesKeep
    <3>2. Cardinality(EnabledUsers(t)) \in Nat
      BY <1>0, EnabledFinite
    <3>3. CASE t \in DOMAIN licences
      <4>1. Cardinality(EnabledUsers(t)) <= licences[t].seats
        BY <1>0, <3>1, <3>3 DEF SeatsKept
      <4>2. CASE EnabledNext(t) \subseteq EnabledUsers(t)
        BY <2>2, <2>3, <2>4, <2>5, <3>2, <3>3, <4>1, <4>2
      <4>3. CASE /\ Inserts(r) /\ users'[r].tenant = t
                 /\ EnabledNext(t) \subseteq EnabledUsers(t) \cup {r}
        <5>1. Cardinality(EnabledUsers(t)) < licences[t].seats
          BY <1>2, <3>1, <3>3, <4>3, RoomToInsert
        <5>2. /\ Cardinality(EnabledNext(t)) \in Nat
              /\ Cardinality(EnabledNext(t)) <= Cardinality(EnabledUsers(t)) + 1
          BY <1>0, <4>3, EnabledFinite, OneMore
        <5> QED BY <2>2, <2>3, <2>4, <3>2, <3>3, <5>1, <5>2
      <4> QED BY <1>2, <4>2, <4>3, EnabledKeep
    <3>4. CASE t \notin DOMAIN licences
      <4>1. t \in Request /\ licences'[t].seats >= 1
        BY <1>2, <2>3, <3>4, LicencesKeep DEF TenantInv, LicensedInv, Tenant
      <4>2. SetsLicence(r)
        BY <1>2, <3>4 DEF StepKind, Answers, Advances, SignsIn, OpensSession, ClosesSession,
            IsAdmitted, StartsScan, ChangesPassword, ReadsSeats, Inserts, LocksUserOut, EnablesUser,
            Founds, data
      <4>3. EnabledNext(t) \in SUBSET {t}
        BY <3>4, <4>1, <4>2 DEF SetsLicence, EnabledNext, TenantInv, NewTenantInv
      <4>4. Cardinality(EnabledNext(t)) \in Nat /\ Cardinality(EnabledNext(t)) <= 1
        <5>1. IsFiniteSet({t}) /\ Cardinality({t}) = 1
          BY FS_Singleton
        <5> QED BY <4>3, <5>1, NoLarger
      <4> QED BY <2>3, <4>1, <4>4
    <3> QED BY <3>3, <3>4
  <2>7. ASSUME NEW q \in Request, NEW p \in Request, pc'[q] \in Creating, pc'[p] \in Creating,
               me'[q].tenant = me'[p].tenant, me'[p].tenant \notin crowded'
        PROVE  q = p
    <3>1. me'[p].tenant \notin crowded
      BY <1>2, <2>7, LicencesKeep
    <3>2. \A a \in {p, q} :
            \/ pc[a] \in Creating /\ me'[a] = me[a]
            \/ /\ a = r
               /\ \A b \in Request : pc[b] \in Creating => me[b].tenant # me'[a].tenant
      BY <1>2, <2>7, CreationsKeep DEF Creating
    <3> QED BY <2>7, <3>1, <3>2 DEF SeatsInv
  <2>8. ASSUME NEW q \in Request, pc'[q] \in Creating, NEW t \in DOMAIN licences' \ crowded',
               me'[q].tenant = t
        PROVE  /\ pc'[q] \in {"count", "find", "insert"} =>
                    cap'[q] # NoLicence /\ cap'[q] <= licences'[t].seats
               /\ pc'[q] \in {"find", "insert"} =>
                    Cardinality(EnabledNext(t)) < licences'[t].seats
    <3>1. CASE pc'[q] = "create"
      BY <3>1
    <3>2. CASE pc'[q] # "create"
      <4>1. pc[q] \in Creating /\ me[q].tenant = t
        BY <1>2, <2>8, <3>2, CreationsKeep DEF Creating, Moves
      <4>2. t \in DOMAIN licences \ crowded
        <5>1. t \in DOMAIN licences \cup {NoTenant} /\ t # NoTenant
          BY <2>3, <4>1, Apart DEF TenantInv, LicensedInv, Active, Creating
        <5> QED BY <1>2, <5>1, LicencesKeep
      <4>3. /\ pc[q] \in {"count", "find", "insert"} =>
                 cap[q] # NoLicence /\ cap[q] <= licences[t].seats
            /\ pc[q] \in {"find", "insert"} => Cardinality(EnabledUsers(t)) < licences[t].seats
        BY <4>1, <4>2 DEF SeatsInv
      <4>4. cap[q] \in Nat \cup {NoLicence} /\ Cardinality(EnabledUsers(t)) \in Nat
        BY <1>0, EnabledFinite DEF TypeInv, TypeOK
      <4>5. CASE q = r
        <5>1. CASE ReadsSeats(r)
          BY <2>2, <2>4, <4>1, <4>2, <4>5, <5>1, Apart DEF ReadsSeats, data
        <5>2. CASE Advances(r)
          <6>1. users' = users /\ licences' = licences /\ EnabledNext(t) = EnabledUsers(t)
            BY <5>2 DEF Advances, data, EnabledNext, EnabledUsers
          <6>2. CASE pc[r] = "count"
            <7>1. SeatFree(r) /\ WentTo(r, "find")
              BY <5>2, <6>2 DEF Advances
            <7>2. Cardinality(EnabledUsers(t)) < licences[t].seats
              BY <2>2, <4>1, <4>2, <4>3, <4>4, <4>5, <6>2, <7>1 DEF SeatFree
            <7> QED BY <4>3, <4>5, <6>1, <6>2, <7>1, <7>2 DEF WentTo
          <6>3. CASE pc[r] = "find"
            BY <4>3, <4>5, <5>2, <6>1, <6>3 DEF Advances, WentTo
          <6> QED BY <4>1, <4>5, <5>2, <6>2, <6>3 DEF Advances, Creating
        <5> QED BY <1>2, <2>8, <3>2, <4>1, <4>5, <5>1, <5>2
                DEF StepKind, Answers, SignsIn, OpensSession, ClosesSession, IsAdmitted, StartsScan,
                    ChangesPassword, Inserts, LocksUserOut, EnablesUser, Founds, SetsLicence,
                    Ended, WentTo, Creating
      <4>6. CASE q # r
        <5>1. pc'[q] = pc[q] /\ cap'[q] = cap[q]
          BY <1>2, <4>6 DEF Moves
        <5>2. ~ (Inserts(r) /\ users'[r].tenant = t)
          <6>1. SUFFICES ASSUME Inserts(r), users'[r].tenant = t PROVE FALSE
            OBVIOUS
          <6>2. CASE pc[r] = "insert"
            <7>1. me[r].tenant = t
              BY <1>2, <6>1, <6>2, NewRowTenant
            <7> QED BY <4>1, <4>2, <4>6, <6>2, <7>1 DEF SeatsInv, Creating
          <6>3. CASE pc[r] = "admin"
            <7>1. r = t
              BY <1>2, <6>1, <6>3, NewRowTenant
            <7> QED BY <4>1, <6>3, <7>1 DEF TenantInv, NewTenantInv, Active, Creating, Born
          <6> QED BY <1>2, <6>1, <6>2, <6>3, NewRowTenant
        <5>3. EnabledNext(t) \subseteq EnabledUsers(t)
          BY <1>2, <5>2, EnabledKeep
        <5>4. /\ Cardinality(EnabledNext(t)) \in Nat
              /\ Cardinality(EnabledNext(t)) <= Cardinality(EnabledUsers(t))
          BY <2>5, <5>3
        <5>5. licences[t].seats <= licences'[t].seats
          BY <2>4, <4>2
        <5> QED BY <2>2, <2>3, <4>2, <4>3, <4>4, <5>1, <5>4, <5>5
      <4> QED BY <4>5, <4>6
    <3> QED BY <3>1, <3>2
  <2> QED BY <2>1, <2>6, <2>7, <2>8 DEF SeatsInv, SeatsKept, EnabledUsers, EnabledNext
<1> QED BY <1>1, <1>2, NextKinds

\* A tenant has no more enabled users than seats, as long as its creations do
\* not overlap, nobody is enabled again and no licence shrinks.
THEOREM WithinSeats == Spec => []SeatsKept
<1>1. TypeInv /\ TenantInv /\ [Next]_vars => TenantInv'
  BY TenantStep
<1>2. TypeInv /\ TenantInv /\ SeatsInv /\ [Next]_vars => SeatsInv'
  BY SeatsStep
<1>3. SeatsInv => SeatsKept
  BY DEF SeatsInv
<1> QED BY <1>1, <1>2, <1>3, TypeAlways, TenantInit, SeatsInit, PTL DEF Spec

--------------------------------------------------------------------------------
(* Administrators. *)

IsAdminOf(u, t) == u \in EnabledUsers(t) /\ users[u].role = "tenant_admin"
IsAdminOfNext(u, t) == u \in EnabledNext(t) /\ users'[u].role = "tenant_admin"

\* An administrator stays one until locked out.
LEMMA AdminKeeps ==
  ASSUME TypeInv, IdentityInv, NEW r \in Request, Moves(r), StepKind(r), NEW u, NEW t,
         IsAdminOf(u, t), ~ (LocksUserOut(r) /\ u = job[r].user)
  PROVE  IsAdminOfNext(u, t)
<1>1. u \in DOMAIN users /\ ~ Gone(u)
  BY DEF IsAdminOf, EnabledUsers, Gone
<1>2. u \in DOMAIN users' /\ ~ users'[u].disabled
  BY <1>1, GoneKeep DEF GoneNext
<1>3. u # r \/ ~ Inserts(r)
  BY <1>1, BornKeep DEF IdentityInv, FreshInv
<1>4. users'[u].tenant = users[u].tenant /\ users'[u].role = users[u].role
  BY <1>1, <1>2, <1>3, RowsKeep
<1> QED BY <1>2, <1>4 DEF IsAdminOf, IsAdminOfNext, EnabledUsers, EnabledNext

\* Who is locking a user out was so before, or begins with a session while
\* nobody else revokes in the tenant.
LEMMA LockingKeeps ==
  ASSUME TypeInv, NEW r \in Request, Moves(r), StepKind(r), NEW q \in Request, LocksOut(q)'
  PROVE  \/ /\ LocksOut(q) /\ me'[q] = me[q] /\ job'[q] = job[q]
            /\ q = r => pc'[q] \in {"revoke", "scan"}
         \/ /\ q = r /\ users' = users
            /\ \E k \in DOMAIN sessions :
                 /\ me'[q] = sessions[k] /\ sessions[k].role = "tenant_admin"
                 /\ job'[q].user # sessions[k].user
                 /\ sessions[k].tenant \notin crossed' =>
                      \A p \in Request : pc[p] \in Removing => me[p].tenant # sessions[k].tenant
<1>0. pc'[q] \in Removing /\ job'[q].op \in {"disable", "delete"}
  BY DEF LocksOut
<1>1. CASE q # r
  BY <1>1 DEF Moves, LocksOut
<1>2. CASE q = r /\ IsAdmitted(r)
  <2>1. PICK j \in Job :
          /\ Authorised(j) /\ Began(r, j, sessions[j.by], j.op)
          /\ crossed' = IF j.op \in Removing /\ (\E p \in Request :
                                 pc[p] \in Removing /\ me[p].tenant = sessions[j.by].tenant)
                         THEN crossed \cup {sessions[j.by].tenant} ELSE crossed
    BY <1>2 DEF IsAdmitted
  <2>2. me'[r] = sessions[j.by] /\ job'[r] = j /\ pc'[r] = j.op
    BY <2>1 DEF Began
  <2>3. j.op \in {"disable", "delete"} /\ j.op \in Removing
    BY <1>0, <1>2, <2>2
  <2>4. /\ j.by \in DOMAIN sessions /\ sessions[j.by].role = "tenant_admin"
        /\ j.user # sessions[j.by].user
    BY <2>1, <2>3 DEF Authorised, RoleFor, NotOwnAccount
  <2>5. users' = users
    BY <1>2 DEF IsAdmitted, data
  <2> QED BY <1>2, <2>1, <2>2, <2>3, <2>4, <2>5
<1>3. CASE q = r /\ ChangesPassword(r)
  BY <1>0, <1>3, LocalTyped, ActiveKnows, OpSets DEF ChangesPassword, WentTo, Active
<1>4. CASE q = r /\ ~ IsAdmitted(r) /\ ~ ChangesPassword(r)
  BY <1>0, <1>4 DEF StepKind, Answers, Advances, SignsIn, OpensSession, ClosesSession, StartsScan,
      ReadsSeats, Inserts, LocksUserOut, EnablesUser, Founds, SetsLicence, Ended, WentTo, Began,
      LocksOut, Removing
<1> QED BY <1>1, <1>2, <1>3, <1>4

\* Only provisioning peoples a tenant.
LEMMA PeopledKeeps ==
  ASSUME TypeInv, TenantInv, NEW r \in Request, Moves(r), StepKind(r), NEW t, Peopled(t)'
  PROVE  Peopled(t) \/ (Inserts(r) /\ pc[r] = "admin" /\ t = r)
<1>1. CASE t \in DOMAIN FirstLicences
  BY <1>1 DEF Peopled
<1>2. ASSUME NEW u \in DOMAIN users', users'[u].tenant = t
      PROVE  Peopled(t) \/ (Inserts(r) /\ pc[r] = "admin" /\ t = r)
  <2>1. CASE u \in DOMAIN users /\ (u # r \/ ~ Inserts(r))
    BY <1>2, <2>1, RowsKeep DEF Peopled
  <2>2. CASE u = r /\ Inserts(r)
    BY <1>2, <2>2, NewRowTenant DEF Peopled, Active
  <2> QED BY <2>1, <2>2, RowsKeep
<1>3. ASSUME NEW k \in DOMAIN sessions', sessions'[k].tenant = t PROVE Peopled(t)
  BY <1>3, SessionsKeep DEF Peopled, OpensSession, Active
<1>4. ASSUME NEW q \in Request, Active(q)', me'[q].tenant = t PROVE Peopled(t)
  <2>1. \A u \in DOMAIN users : Identity(u).tenant = users[u].tenant
    BY DEF Identity
  <2> QED BY <1>4, <2>1, IdentitiesKeep DEF Peopled
<1> QED BY <1>1, <1>2, <1>3, <1>4 DEF Peopled

LEMMA AdminInit == Init => AdminInv
<1> SUFFICES ASSUME Init, NEW t \in Tenant
             PROVE  /\ \A r \in Request : pc[r] \notin Removing
                    /\ Peopled(t) => Administered(t)
  BY DEF AdminInv, LocksOut, Removing
<1>1. \A r \in Request : pc[r] \notin Removing /\ ~ Active(r)
  BY DEF Init, Removing, Active
<1>2. Peopled(t) => t \in DOMAIN FirstLicences
  BY <1>1, FirstTables, Apart DEF Init, Peopled
<1>3. t \in DOMAIN FirstLicences => Administered(t)
  BY FirstTenants DEF Init, Administered, EnabledUsers
<1> QED BY <1>1, <1>2, <1>3

LEMMA CrossedKeeps ==
  ASSUME TypeInv, NEW r \in Request, StepKind(r) PROVE crossed \subseteq crossed'
  BY DEF StepKind, Answers, Advances, SignsIn, OpensSession, ClosesSession, IsAdmitted, StartsScan,
         ChangesPassword, ReadsSeats, Inserts, LocksUserOut, EnablesUser, Founds, SetsLicence, ghosts

LEMMA AdminStep ==
  ASSUME TypeInv, IdentityInv, RevokedInv, TenantInv, AdminInv, [Next]_vars PROVE AdminInv'
<1>1. CASE Idles
  <2>1. \A t : Peopled(t)' => Peopled(t)
    BY <1>1 DEF Idles, Peopled, local, Active
  <2> QED BY <1>1, <2>1
          DEF Idles, AdminInv, LocksOut, Administered, EnabledUsers, local, ghosts
<1>2. ASSUME NEW r \in Request, Moves(r), StepKind(r), straddling' = {}, lapsed' = {},
             NEW t \in Tenant \ crossed'
      PROVE  /\ \A q, p \in Request :
                  LocksOut(q)' /\ LocksOut(p)' /\ me'[q].tenant = t /\ me'[p].tenant = t => q = p
             /\ \A q \in Request :
                  pc'[q] \in {"disable", "delete"} /\ me'[q].tenant = t =>
                    IsAdminOfNext(me'[q].user, t) /\ me'[q].user # job'[q].user
             /\ Peopled(t)' => \E u : IsAdminOfNext(u, t)
  <2>1. straddling = {} /\ lapsed = {} /\ t \notin crossed
    BY <1>2, HistoriesKeep, CrossedKeeps
  <2>2. /\ \A q, p \in Request :
             LocksOut(q) /\ LocksOut(p) /\ me[q].tenant = t /\ me[p].tenant = t => q = p
        /\ \A q \in Request :
             pc[q] \in {"disable", "delete"} /\ me[q].tenant = t =>
               IsAdminOf(me[q].user, t) /\ me[q].user # job[q].user
        /\ Peopled(t) => \E u : IsAdminOf(u, t)
    BY <2>1 DEF AdminInv, IsAdminOf, Administered
  <2>3. LocksUserOut(r) /\ users[job[r].user].tenant = t =>
          LocksOut(r) /\ me[r].tenant = t /\ IsAdminOf(me[r].user, t) /\ me[r].user # job[r].user
    <3>1. ASSUME LocksUserOut(r), users[job[r].user].tenant = t
          PROVE  me[r].tenant = t /\ pc[r] \in {"disable", "delete"} /\ LocksOut(r)
      BY <3>1, LocalTyped, ActiveKnows, OpSets
         DEF LocksUserOut, HasTarget, LocksOut, Removing, Active
    <3> QED BY <2>2, <3>1
  <2>4. ASSUME NEW q \in Request, NEW p \in Request, LocksOut(q)', LocksOut(p)',
               me'[q].tenant = t, me'[p].tenant = t
        PROVE  q = p
    <3>1. \A a \in {q, p} :
            \/ LocksOut(a) /\ me'[a] = me[a]
            \/ /\ a = r
               /\ \A b \in Request : pc[b] \in Removing => me[b].tenant # t
      BY <1>2, <2>4, LockingKeeps
    <3> QED BY <2>2, <2>4, <3>1 DEF LocksOut
  <2>5. ASSUME NEW q \in Request, pc'[q] \in {"disable", "delete"}, me'[q].tenant = t
        PROVE  IsAdminOfNext(me'[q].user, t) /\ me'[q].user # job'[q].user
    <3>1. LocksOut(q)'
      <4>1. TypeInv'
        BY TypeStep
      <4>2. LocalOK' /\ Active(q)'
        BY <2>5, <4>1, TypePartsNext DEF Active
      <4>3. job'[q].op \in AskedAt(pc'[q])
        BY <4>2 DEF LocalOK, Active
      <4> QED BY <2>5, <4>3, OpSets DEF LocksOut, Removing
    <3>2. CASE LocksOut(q) /\ me'[q] = me[q] /\ job'[q] = job[q] /\ q # r
      <4>1. pc[q] \in {"disable", "delete"} /\ me[q].tenant = t
        BY <1>2, <2>5, <3>2 DEF Moves
      <4>2. IsAdminOf(me[q].user, t) /\ me[q].user # job[q].user
        BY <2>2, <4>1
      <4>3. ~ (LocksUserOut(r) /\ me[q].user = job[r].user)
        BY <2>2, <2>3, <3>2, <4>1, <4>2 DEF IsAdminOf, EnabledUsers
      <4> QED BY <1>2, <3>2, <4>2, <4>3, AdminKeeps
    <3>3. CASE /\ q = r /\ users' = users
               /\ \E k \in DOMAIN sessions :
                    /\ me'[q] = sessions[k] /\ sessions[k].role = "tenant_admin"
                    /\ job'[q].user # sessions[k].user
                    /\ sessions[k].tenant \notin crossed' =>
                         \A p \in Request : pc[p] \in Removing => me[p].tenant # sessions[k].tenant
      <4>1. PICK k \in DOMAIN sessions :
              /\ me'[q] = sessions[k] /\ sessions[k].role = "tenant_admin"
              /\ job'[q].user # sessions[k].user
              /\ \A p \in Request : pc[p] \in Removing => me[p].tenant # sessions[k].tenant
        BY <1>2, <2>5, <3>3
      <4>2. ~ Gone(sessions[k].user)
        BY <2>1, <4>1 DEF RevokedInv, Expels, Chases, Removing
      <4>3. IsAdminOf(sessions[k].user, t)
        BY <2>5, <4>1, <4>2 DEF IdentityInv, CopiesInv, Copies, Gone, IsAdminOf, EnabledUsers
      <4> QED BY <3>3, <4>1, <4>3 DEF IsAdminOf, IsAdminOfNext, EnabledUsers, EnabledNext
    <3> QED BY <1>2, <2>5, <3>1, <3>2, <3>3, LockingKeeps
  <2>6. ASSUME Peopled(t)' PROVE \E u : IsAdminOfNext(u, t)
    <3>1. CASE Peopled(t)
      <4>1. PICK u : IsAdminOf(u, t)
        BY <2>2, <3>1
      <4>2. CASE ~ (LocksUserOut(r) /\ u = job[r].user)
        BY <1>2, <4>1, <4>2, AdminKeeps
      <4>3. CASE LocksUserOut(r) /\ u = job[r].user
        <5>1. IsAdminOf(me[r].user, t) /\ me[r].user # job[r].user
          BY <2>3, <4>1, <4>3 DEF IsAdminOf, EnabledUsers
        <5> QED BY <1>2, <5>1, AdminKeeps
      <4> QED BY <4>2, <4>3
    <3>2. CASE Inserts(r) /\ pc[r] = "admin" /\ t = r
      BY <3>2 DEF Inserts, With, NewRow, IsAdminOfNext, EnabledNext
    <3> QED BY <1>2, <2>6, <3>1, <3>2, PeopledKeeps
  <2> QED BY <2>4, <2>5, <2>6
<1>3. ASSUME NEW r \in Request, Moves(r), StepKind(r) PROVE AdminInv'
  <2>1. SUFFICES ASSUME straddling' = {}, lapsed' = {}, NEW t \in Tenant \ crossed'
                 PROVE  /\ \A q, p \in Request :
                             LocksOut(q)' /\ LocksOut(p)' /\ me'[q].tenant = t
                               /\ me'[p].tenant = t => q = p
                        /\ \A q \in Request :
                             pc'[q] \in {"disable", "delete"} /\ me'[q].tenant = t =>
                               IsAdminOfNext(me'[q].user, t) /\ me'[q].user # job'[q].user
                        /\ Peopled(t)' => \E u : IsAdminOfNext(u, t)
    BY DEF AdminInv, IsAdminOfNext, Administered, EnabledUsers, EnabledNext
  <2> QED BY <1>2, <1>3, <2>1
<1> QED BY <1>1, <1>3, NextKinds

\* A tenant that has had users keeps an administrator who can log in, unless
\* two revocations in it overlapped or one went wrong.
THEOREM AdministratorStays == Spec => []AdminRemains
<1>1. TypeInv /\ TenantInv /\ [Next]_vars => TenantInv'
  BY TenantStep
<1>2. TypeInv /\ IdentityInv /\ RevokedInv /\ TenantInv /\ AdminInv /\ [Next]_vars => AdminInv'
  BY AdminStep
<1>3. TypeInv /\ AdminInv => AdminRemains
  BY DEF TypeInv, TypeOK, AdminInv, AdminRemains, Peopled
<1> QED BY <1>1, <1>2, <1>3, TypeAlways, IdentityAlways, RevokedAlways, TenantInit, AdminInit, PTL
        DEF Spec
================================================================================
