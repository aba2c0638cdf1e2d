-------------------------------- MODULE Accounts --------------------------------
(***************************************************************************)
(* Accounts, sessions and licences of the gateway.                         *)
(*                                                                         *)
(* Users and licences are rows of Postgres, each statement its own         *)
(* transaction; sessions are entries of Redis that hold a copy of the      *)
(* user's identity, tenant and role, and every request is authorised by    *)
(* that copy alone.  Whoever disables or deletes a user, or changes a      *)
(* password, therefore has to find and delete the user's sessions          *)
(* afterwards, with a SCAN over all of them.                               *)
(*                                                                         *)
(* A request picks a job when it arrives; one action is one awaited call   *)
(* with what the handler does before the next one, so any other request    *)
(* may run in between, and every call may throw: what has been committed   *)
(* stays.  A user, tenant or session has the name of the request that made *)
(* it.                                                                     *)
(***************************************************************************)
EXTENDS Naturals, FiniteSets, Functions

CONSTANTS Request,        \* the requests
          Job,            \* what a request may ask for
          Email, Password,
          FirstUsers,     \* the rows of users, licences and sessions at the start
          FirstLicences,
          FirstSessions,
          MayExpire,      \* bound: the sessions whose TTL may run out
          NoTenant,       \* tenant_id of a platform administrator
          NoLicence,      \* no row in licences: no seat cap
          NoJob, NoOne

User   == DOMAIN FirstUsers \cup Request
Tenant == DOMAIN FirstLicences \cup Request
Token  == DOMAIN FirstSessions \cup Request
Role   == {"platform_admin", "tenant_admin", "employee"}

UserRow == [tenant : Tenant \cup {NoTenant}, email : Email, pw : Password,
            role : Role, disabled : BOOLEAN]
LicenceRow  == [seats : Nat, valid : BOOLEAN]
SessionData == [user : User, tenant : Tenant \cup {NoTenant}, role : Role, proof : Password]

\* What can be asked: the body or path of the request and, but for a login,
\* the token it comes with (by).
Asked ==
  [op : {"login"}, email : Email, pw : Password]
  \cup [op : {"logout"}, by : Token]
  \cup [op : {"password"}, by : Token, old : Password, new : Password]
  \cup [op : {"create"}, by : Token, email : Email, pw : Password,
        role : {"tenant_admin", "employee"}]
  \cup [op : {"disable", "enable", "delete"}, by : Token, user : User]
  \cup [op : {"provision"}, by : Token, email : Email, pw : Password, seats : Nat \ {0}]
  \cup [op : {"patch"}, by : Token, tenant : Tenant, seats : Nat \ {0}, valid : BOOLEAN]
  \cup [op : {"rotate"}, by : Token, tenant : Tenant, seats : Nat \ {0}]

ASSUME JobsAsked == Job \subseteq Asked /\ NoJob \notin Job
ASSUME FirstTables ==
  /\ IsFiniteSet(DOMAIN FirstUsers)
  /\ \A u \in DOMAIN FirstUsers :   \* tenant_id REFERENCES tenants; CHECK users_tenant_role
       /\ FirstUsers[u] \in UserRow
       /\ FirstUsers[u].tenant \in DOMAIN FirstLicences \cup {NoTenant}
       /\ FirstUsers[u].role = "platform_admin" => FirstUsers[u].tenant = NoTenant
  /\ \A t \in DOMAIN FirstLicences : FirstLicences[t] \in LicenceRow
  /\ \A k \in DOMAIN FirstSessions :
       /\ FirstSessions[k] \in SessionData
       /\ LET u == FirstSessions[k].user IN
            /\ u \in DOMAIN FirstUsers
            /\ ~ FirstUsers[u].disabled
            /\ FirstSessions[k].proof = FirstUsers[u].pw
            /\ FirstSessions[k].tenant = FirstUsers[u].tenant
            /\ FirstSessions[k].role = FirstUsers[u].role
\* A company starts within its seats and with an administrator who can log in.
ASSUME FirstTenants ==
  \A t \in DOMAIN FirstLicences :
    LET enabled == {u \in DOMAIN FirstUsers : FirstUsers[u].tenant = t /\ ~ FirstUsers[u].disabled}
    IN  /\ Cardinality(enabled) <= FirstLicences[t].seats
        /\ \E u \in enabled : FirstUsers[u].role = "tenant_admin"
\* Users, tenants and tokens get fresh ids.
ASSUME FreshIds ==
  Request \cap (DOMAIN FirstUsers \cup DOMAIN FirstLicences \cup DOMAIN FirstSessions) = {}
ASSUME Apart == NoOne \notin SessionData /\ NoLicence \notin Nat /\ NoTenant \notin Tenant

VARIABLES
  users,       \* user -> its row
  tenants,     \* rows of table tenants
  policies,    \* tenants with a row in policies
  licences,    \* tenant -> its row; valid: active and not expired
  sessions,    \* Redis: token -> the identity it stands for and, as history,
               \* the password that proved it (proof)
  pc,          \* where each request stands
  job,         \* what it was asked for
  me,          \* the identity it acts for, or logs in
  cap,         \* creation: the seats it read
  visit,       \* revocation: tokens the scan will still come by
  straddling,  \* history: logins under way when their user was locked out
  lapsed,      \* history: users whose revocation failed half-way
  keeper,      \* history: user -> the token that last changed the password
  crowded,     \* history: tenants whose seat count nothing guards any more
  crossed      \* history: tenants in which two revocations overlapped

data   == <<users, tenants, policies, licences>>
local  == <<pc, job, me, cap, visit>>
ghosts == <<straddling, lapsed, keeper, crowded, crossed>>
vars   == <<data, sessions, local, ghosts>>

Init ==
  /\ users = FirstUsers
  /\ tenants = DOMAIN FirstLicences
  /\ policies = DOMAIN FirstLicences
  /\ licences = FirstLicences
  /\ sessions = FirstSessions
  /\ pc = [r \in Request |-> "idle"]
  /\ job = [r \in Request |-> NoJob]
  /\ me = [r \in Request |-> NoOne]
  /\ cap = [r \in Request |-> NoLicence]
  /\ visit = [r \in Request |-> {}]
  /\ straddling = {}
  /\ lapsed = {}
  /\ keeper = [u \in {} |-> NoOne]
  /\ crowded = {}
  /\ crossed = {}
--------------------------------------------------------------------------------
Identity(u) == [user |-> u, tenant |-> users[u].tenant, role |-> users[u].role,
                proof |-> users[u].pw]
Without(f, x) == Restrict(f, DOMAIN f \ {x})
With(f, x, value) == [y \in DOMAIN f \cup {x} |-> IF y = x THEN value ELSE f[y]]

EmailTaken(email) == \E u \in DOMAIN users : users[u].email = email
EnabledUsers(t) == {u \in DOMAIN users : users[u].tenant = t /\ ~ users[u].disabled}

Creating   == {"create", "count", "find", "insert"}
Removing   == {"disable", "delete", "revoke", "scan"}
LoggingIn  == {"licence", "session"}
Active(r)  == pc[r] \notin {"idle", "ended"}

\* The user whose sessions r revokes: its target, or itself.
Subject(r) == IF job[r].op = "password" THEN me[r].user ELSE job[r].user

\* r has answered and forgets what it knew.
End(r) ==
  /\ pc' = [pc EXCEPT ![r] = "ended"]
  /\ job' = [job EXCEPT ![r] = NoJob]
  /\ me' = [me EXCEPT ![r] = NoOne]
  /\ cap' = [cap EXCEPT ![r] = NoLicence]
  /\ visit' = [visit EXCEPT ![r] = {}]

Goto(r, at) == pc' = [pc EXCEPT ![r] = at] /\ UNCHANGED <<job, me, cap, visit>>

Begin(r, j, who, at) ==
  /\ pc' = [pc EXCEPT ![r] = at]
  /\ job' = [job EXCEPT ![r] = j]
  /\ me' = [me EXCEPT ![r] = who]
  /\ UNCHANGED <<cap, visit>>
--------------------------------------------------------------------------------
(* POST /api/auth/login and /api/auth/logout. *)

\* findUserByEmail and verifyPassword; a platform administrator needs no licence.
Login(r) ==
  /\ pc[r] = "idle"
  /\ \E j \in Job, u \in DOMAIN users :
       /\ j.op = "login"
       /\ users[u].email = j.email
       /\ users[u].pw = j.pw
       /\ ~ users[u].disabled
       /\ Begin(r, j, Identity(u),
                IF users[u].role = "platform_admin" THEN "session" ELSE "licence")
  /\ UNCHANGED <<data, sessions, ghosts>>

LoginRefused(r) ==
  /\ pc[r] = "idle"
  /\ \E j \in Job :
       /\ j.op = "login"
       /\ \A u \in DOMAIN users :
            users[u].email = j.email => users[u].pw # j.pw \/ users[u].disabled
  /\ End(r)
  /\ UNCHANGED <<data, sessions, ghosts>>

Licensed(t) == t \in DOMAIN licences /\ licences[t].valid

\* licenseValid
CheckLicence(r) ==
  /\ pc[r] = "licence"
  /\ IF Licensed(me[r].tenant) THEN Goto(r, "session") ELSE End(r)
  /\ UNCHANGED <<data, sessions, ghosts>>

CreateSession(r) ==
  /\ pc[r] = "session"
  /\ sessions' = With(sessions, r, me[r])
  /\ End(r)
  /\ UNCHANGED <<data, ghosts>>

\* destroySession
Logout(r) ==
  /\ pc[r] = "idle"
  /\ \E j \in Job : j.op = "logout" /\ sessions' = Without(sessions, j.by)
  /\ End(r)
  /\ UNCHANGED <<data, ghosts>>
--------------------------------------------------------------------------------
(* Requests with a session. *)

RoleFor(op) ==
  CASE op = "password" -> Role
    [] op \in {"create", "disable", "enable", "delete"} -> {"tenant_admin"}
    [] op \in {"provision", "patch", "rotate"} -> {"platform_admin"}

\* Fault: nobody keeps an administrator from locking themselves out.
AnyAccount(j, p) == TRUE

\* PATCH and DELETE users/:id leave one's own account alone.
NotOwnAccount(j, p) == j.op \in {"disable", "enable", "delete"} => j.user # p.user

\* principal, requireTenantAdmin, requirePlatformAdmin: the session decides.
Authorised(j) ==
  /\ j.by \in DOMAIN sessions
  /\ sessions[j.by].role \in RoleFor(j.op)
  /\ NotOwnAccount(j, sessions[j.by])

Authorise(r) ==
  /\ pc[r] = "idle"
  /\ \E j \in Job :
       /\ j.op \notin {"login", "logout"}
       /\ Authorised(j)
       /\ Begin(r, j, sessions[j.by], j.op)
       /\ LET t == sessions[j.by].tenant
              Others(ats) == \E q \in Request : pc[q] \in ats /\ me[q].tenant = t IN
          /\ crowded' = IF j.op = "create" /\ Others(Creating) THEN crowded \cup {t} ELSE crowded
          /\ crossed' = IF j.op \in Removing /\ Others(Removing) THEN crossed \cup {t} ELSE crossed
  /\ UNCHANGED <<data, sessions, straddling, lapsed, keeper>>

Refused(r) ==
  /\ pc[r] = "idle"
  /\ \E j \in Job : j.op \notin {"login", "logout"} /\ ~ Authorised(j)
  /\ End(r)
  /\ UNCHANGED <<data, sessions, ghosts>>
--------------------------------------------------------------------------------
(* destroyUserSessions *)

\* The identity of u has just been withdrawn from those still logging in.
Straddle(u) ==
  straddling' = straddling \cup {q \in Request : pc[q] \in LoggingIn /\ me[q].user = u}

\* The session that a password change leaves alive.
Keep(r) == IF job[r].op = "password" THEN {job[r].by} ELSE {}

TokensOf(u) == {k \in DOMAIN sessions : sessions[k].user = u}

\* The scan is sure to come by every token that exists now and stays.
BeginScan(r) ==
  /\ pc[r] = "revoke"
  /\ visit' = [visit EXCEPT ![r] = TokensOf(Subject(r)) \ Keep(r)]
  /\ pc' = [pc EXCEPT ![r] = "scan"]
  /\ UNCHANGED <<data, sessions, job, me, cap, ghosts>>

\* It comes by a token of the user, perhaps one set meanwhile, and deletes it.
Visit(r) ==
  /\ pc[r] = "scan"
  /\ \E k \in visit[r] \cup (TokensOf(Subject(r)) \ Keep(r)) :
       /\ sessions' = Without(sessions, k)
       /\ visit' = [visit EXCEPT ![r] = @ \ {k}]
  /\ UNCHANGED <<data, pc, job, me, cap, ghosts>>

\* Fault: one page of keys is taken for all of them.
EndAtOnce(r) ==
  /\ pc[r] = "scan"
  /\ End(r)
  /\ UNCHANGED <<data, sessions, ghosts>>

\* The cursor is back at zero.
EndScan(r) ==
  /\ pc[r] = "scan"
  /\ visit[r] = {}
  /\ End(r)
  /\ UNCHANGED <<data, sessions, ghosts>>
--------------------------------------------------------------------------------
(* POST /api/auth/change-password *)

\* getUserById and verifyPassword
VerifyOld(r) ==
  /\ pc[r] = "password"
  /\ IF me[r].user \in DOMAIN users /\ users[me[r].user].pw = job[r].old
       THEN Goto(r, "update") ELSE End(r)
  /\ UNCHANGED <<data, sessions, ghosts>>

\* Fault: the other sessions are left alone.
UpdateOnly(r) ==
  /\ pc[r] = "update"
  /\ me[r].user \in DOMAIN users
  /\ users' = [users EXCEPT ![me[r].user].pw = job[r].new]
  /\ keeper' = With(keeper, me[r].user, job[r].by)
  /\ End(r)
  /\ UNCHANGED <<tenants, policies, licences, sessions, straddling, lapsed, crowded, crossed>>

\* updatePassword; nothing tells that the row is gone.
UpdatePassword(r) ==
  /\ pc[r] = "update"
  /\ LET u == me[r].user IN
       /\ users' = IF u \in DOMAIN users THEN [users EXCEPT ![u].pw = job[r].new] ELSE users
       /\ keeper' = With(keeper, u, job[r].by)
       /\ Straddle(u)
  /\ Goto(r, "revoke")
  /\ UNCHANGED <<tenants, policies, licences, sessions, lapsed, crowded, crossed>>
--------------------------------------------------------------------------------
(* POST, PATCH and DELETE /api/admin/users *)

\* createTenantUser: getLicense
ReadSeats(r) ==
  /\ pc[r] = "create"
  /\ cap' = [cap EXCEPT ![r] = IF me[r].tenant \in DOMAIN licences
                                 THEN licences[me[r].tenant].seats ELSE NoLicence]
  /\ pc' = [pc EXCEPT ![r] = "count"]
  /\ UNCHANGED <<data, sessions, job, me, visit, ghosts>>

\* Fault: the comparison lets one user too many pass.
OneMoreSeat(r) == cap[r] = NoLicence \/ Cardinality(EnabledUsers(me[r].tenant)) <= cap[r]

SeatFree(r) == cap[r] = NoLicence \/ Cardinality(EnabledUsers(me[r].tenant)) < cap[r]

\* createTenantUser: countTenantUsers, SeatLimitError
CountUsers(r) ==
  /\ pc[r] = "count"
  /\ IF SeatFree(r) THEN Goto(r, "find") ELSE End(r)
  /\ UNCHANGED <<data, sessions, ghosts>>

\* findUserByEmail, DuplicateEmailError; the next step differs.
FindEmail(r) ==
  /\ pc[r] \in {"find", "provision"}
  /\ IF EmailTaken(job[r].email) THEN End(r)
       ELSE Goto(r, IF pc[r] = "find" THEN "insert" ELSE "tenant")
  /\ UNCHANGED <<data, sessions, ghosts>>

\* INSERT INTO users; the unique e-mail makes it throw.
InsertUser(r, t, role) ==
  users' = IF EmailTaken(job[r].email) THEN users
           ELSE With(users, r, [tenant |-> t, email |-> job[r].email, pw |-> job[r].pw,
                                role |-> role, disabled |-> FALSE])

CreateUser(r) ==
  /\ pc[r] = "insert"
  /\ InsertUser(r, me[r].tenant, job[r].role)
  /\ End(r)
  /\ UNCHANGED <<tenants, policies, licences, sessions, ghosts>>

\* The row that PATCH and DELETE address, within the administrator's tenant.
HasTarget(r) == job[r].user \in DOMAIN users /\ users[job[r].user].tenant = me[r].tenant

NoTarget(r) ==
  /\ pc[r] \in {"disable", "enable", "delete"}
  /\ ~ HasTarget(r)
  /\ End(r)
  /\ UNCHANGED <<data, sessions, ghosts>>

\* setUserDisabled(true) or deleteUser; then the sessions go.
LockOut(r) ==
  /\ pc[r] \in {"disable", "delete"}
  /\ HasTarget(r)
  /\ users' = IF pc[r] = "delete" THEN Without(users, job[r].user)
              ELSE [users EXCEPT ![job[r].user].disabled = TRUE]
  /\ Straddle(job[r].user)
  /\ Goto(r, "revoke")
  /\ UNCHANGED <<tenants, policies, licences, sessions, lapsed, keeper, crowded, crossed>>

\* setUserDisabled(false): no look at the seats.
Enable(r) ==
  /\ pc[r] = "enable"
  /\ HasTarget(r)
  /\ users' = [users EXCEPT ![job[r].user].disabled = FALSE]
  /\ crowded' = crowded \cup {me[r].tenant}
  /\ End(r)
  /\ UNCHANGED <<tenants, policies, licences, sessions, straddling, lapsed, keeper, crossed>>
--------------------------------------------------------------------------------
(* POST /api/platform/tenants and PATCH .../license *)

\* Fault: the policy is committed before the tenant.
PolicyFirst(r) ==
  /\ pc[r] = "tenant"
  /\ policies' = policies \cup {r}
  /\ Goto(r, "admin")
  /\ UNCHANGED <<users, tenants, licences, sessions, ghosts>>

\* Fault: the first administrator comes before the policy.
TenantThenAdmin(r) ==
  /\ pc[r] = "tenant"
  /\ tenants' = tenants \cup {r}
  /\ Goto(r, "admin")
  /\ UNCHANGED <<users, policies, licences, sessions, ghosts>>

\* createTenantWithAdmin: INSERT INTO tenants
InsertTenant(r) ==
  /\ pc[r] = "tenant"
  /\ tenants' = tenants \cup {r}
  /\ Goto(r, "policy")
  /\ UNCHANGED <<users, policies, licences, sessions, ghosts>>

\* createTenantWithAdmin: INSERT INTO policies
InsertPolicy(r) ==
  /\ pc[r] = "policy"
  /\ policies' = policies \cup {r}
  /\ Goto(r, "admin")
  /\ UNCHANGED <<users, tenants, licences, sessions, ghosts>>

\* createTenantWithAdmin: the first administrator; it throws if the e-mail
\* has been taken meanwhile.
InsertAdmin(r) ==
  /\ pc[r] = "admin"
  /\ InsertUser(r, r, "tenant_admin")
  /\ IF EmailTaken(job[r].email) THEN End(r) ELSE Goto(r, "issue")
  /\ UNCHANGED <<tenants, policies, licences, sessions, ghosts>>

\* t's licence becomes row; fewer seats than before are not held against users.
SetLicence(t, row) ==
  /\ licences' = With(licences, t, row)
  /\ crowded' = IF t \in DOMAIN licences /\ row.seats < licences[t].seats
                  THEN crowded \cup {t} ELSE crowded

\* issueLicense for a new tenant, or to replace the key of an old one: it is
\* active again whatever it was.
IssueLicence(r) ==
  /\ pc[r] \in {"issue", "rotate"}
  /\ LET t == IF pc[r] = "issue" THEN r ELSE job[r].tenant IN
       IF t \in tenants
         THEN SetLicence(t, [seats |-> job[r].seats, valid |-> TRUE])
         ELSE UNCHANGED <<licences, crowded>>
  /\ End(r)
  /\ UNCHANGED <<users, tenants, policies, sessions, straddling, lapsed, keeper, crossed>>

\* updateLicense: seats, status or expiry of an existing row
PatchLicence(r) ==
  /\ pc[r] = "patch"
  /\ IF job[r].tenant \in DOMAIN licences
       THEN SetLicence(job[r].tenant, [seats |-> job[r].seats, valid |-> job[r].valid])
       ELSE UNCHANGED <<licences, crowded>>
  /\ End(r)
  /\ UNCHANGED <<users, tenants, policies, sessions, straddling, lapsed, keeper, crossed>>
--------------------------------------------------------------------------------
(* What may happen at any time. *)

\* expires_at passes.
Lapse(t) ==
  /\ Licensed(t)
  /\ licences' = [licences EXCEPT ![t].valid = FALSE]
  /\ UNCHANGED <<users, tenants, policies, sessions, local, ghosts>>

\* TTL_SECONDS are over.
ExpireSession(k) ==
  /\ k \in DOMAIN sessions
  /\ sessions' = Without(sessions, k)
  /\ UNCHANGED <<data, local, ghosts>>

\* A call throws, or the process dies.
Fail(r) ==
  /\ Active(r)
  /\ lapsed' = IF pc[r] \in {"revoke", "scan"} THEN lapsed \cup {Subject(r)} ELSE lapsed
  /\ End(r)
  /\ UNCHANGED <<data, sessions, straddling, keeper, crowded, crossed>>

Step(r) ==
  \/ Login(r) \/ LoginRefused(r) \/ CheckLicence(r) \/ CreateSession(r) \/ Logout(r)
  \/ Authorise(r) \/ Refused(r)
  \/ BeginScan(r) \/ Visit(r) \/ EndScan(r)
  \/ VerifyOld(r) \/ UpdatePassword(r)
  \/ ReadSeats(r) \/ CountUsers(r) \/ FindEmail(r) \/ CreateUser(r)
  \/ NoTarget(r) \/ LockOut(r) \/ Enable(r)
  \/ InsertTenant(r) \/ InsertPolicy(r) \/ InsertAdmin(r)
  \/ IssueLicence(r) \/ PatchLicence(r)
  \/ Fail(r)

Next ==
  \/ \E r \in Request : Step(r)
  \/ \E t \in Tenant : Lapse(t)
  \/ \E k \in MayExpire : ExpireSession(k)

Spec == Init /\ [][Next]_vars
--------------------------------------------------------------------------------
(* Properties. *)

PC == {"idle", "ended", "update", "tenant", "policy", "admin", "issue",
       "password", "enable", "provision", "patch", "rotate"}
        \cup LoggingIn \cup Creating \cup Removing

\* The tables and what a request remembers are of their kinds, and a request
\* that has answered remembers nothing.
TypeOK ==
  /\ DOMAIN users \subseteq User /\ \A u \in DOMAIN users : users[u] \in UserRow
  /\ tenants \subseteq Tenant /\ policies \subseteq tenants
  /\ DOMAIN licences \subseteq tenants /\ \A t \in DOMAIN licences : licences[t] \in LicenceRow
  /\ DOMAIN sessions \subseteq Token /\ \A k \in DOMAIN sessions : sessions[k] \in SessionData
  /\ pc \in [Request -> PC]
  /\ job \in [Request -> Job \cup {NoJob}]
  /\ me \in [Request -> SessionData \cup {NoOne}]
  /\ \A r \in Request : IF Active(r) THEN job[r] # NoJob /\ me[r] # NoOne
                        ELSE job[r] = NoJob /\ me[r] = NoOne
  /\ cap \in [Request -> Nat \cup {NoLicence}]
  /\ visit \in [Request -> SUBSET Token]

\* A revocation of u's sessions has yet to end.
Revoking(u) == \E r \in Request : pc[r] \in {"revoke", "scan"} /\ Subject(r) = u

\* Why a session may outlive what it was based on: the revocation is not over,
\* it failed, or the login had read the user before.
Excused(k) ==
  Revoking(sessions[k].user) \/ sessions[k].user \in lapsed \/ k \in straddling

\* Once disabling or deleting a user has ended, none of the user's sessions is
\* left, whichever requests were running (admin.ts PATCH and DELETE users/:id,
\* destroyUserSessions) -- but for a login that was already past its reading.
RevokedStaysOut ==
  \A k \in DOMAIN sessions :
    LET u == sessions[k].user IN
    (u \notin DOMAIN users \/ users[u].disabled) => Excused(k)

\* Once a password change has ended, every session of the user was opened with
\* the new password or is the one that changed it (change-password: "Revoke
\* this user's OTHER sessions; keep the current one alive").
OldPasswordEndsSessions ==
  \A k \in DOMAIN sessions :
    LET u == sessions[k].user IN
    u \in DOMAIN users /\ sessions[k].proof # users[u].pw =>
      Excused(k) \/ (u \in DOMAIN keeper /\ keeper[u] = k)

\* A tenant has no more enabled users than seats (createTenantUser), as long as
\* its creations do not overlap, nobody is enabled again and no licence shrinks.
SeatsKept ==
  \A t \in DOMAIN licences \ crowded : Cardinality(EnabledUsers(t)) <= licences[t].seats

Administered(t) == \E u \in EnabledUsers(t) : users[u].role = "tenant_admin"

\* A tenant that has had users keeps an administrator who can log in: nobody
\* can lock out the last one (admin.ts "Eigenes Konto nicht ändern") unless two
\* of them lock out each other at once or by a session that should be gone.
AdminRemains ==
  \A t \in tenants \ crossed :
    t \in DOMAIN FirstLicences \/ (\E u \in DOMAIN users : users[u].tenant = t) =>
      Administered(t) \/ straddling # {} \/ lapsed # {}

\* However provisioning breaks off, no tenant has a user but no policy of its
\* own: the user would chat under the gateway's built-in one, which differs
\* (createTenantWithAdmin, policy.ts DEFAULT_POLICY).
UsersHavePolicy ==
  \A u \in DOMAIN users : users[u].tenant \in policies \cup {NoTenant}
================================================================================
