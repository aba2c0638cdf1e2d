------------------------------- MODULE MCAccounts -------------------------------
(***************************************************************************)
(* Small instances of Accounts for TLC.                                    *)
(***************************************************************************)
EXTENDS Accounts, TLC

CONSTANTS r1, r2, r3, acme, root, boss, vice, emp, temp

\* The owner of the platform, two administrators, an employee and a disabled
\* one; all but the last have a session (the token has the user's name), and
\* one of four seats is free.
Row(t, who, role) ==
  [tenant |-> t, email |-> who, pw |-> "old", role |-> role, disabled |-> who = temp]

StartUsers ==
  [u \in {root, boss, vice, emp, temp} |->
     Row(IF u = root THEN NoTenant ELSE acme, u,
         CASE u = root -> "platform_admin"
           [] u \in {boss, vice} -> "tenant_admin"
           [] u \in {emp, temp} -> "employee")]
StartLicences == [t \in {acme} |-> [seats |-> 4, valid |-> TRUE]]
StartSessions ==
  [u \in DOMAIN StartUsers \ {temp} |->
     [user |-> u, tenant |-> StartUsers[u].tenant, role |-> StartUsers[u].role,
      proof |-> StartUsers[u].pw]]

Mail == {root, boss, vice, emp, temp, "new", "other"}

Jobs ==
  {[op |-> "login", email |-> e, pw |-> p] : e \in {vice, emp}, p \in {"old", "new"}}
  \cup {[op |-> "login", email |-> "new", pw |-> "old"], [op |-> "logout", by |-> emp]}
  \cup {[op |-> "password", by |-> k, old |-> "old", new |-> "new"] : k \in {emp} \cup Request}
  \cup {[op |-> "create", by |-> boss, email |-> e, pw |-> "old", role |-> "employee"] :
          e \in {"new", "other"}}
  \cup {[op |-> op, by |-> k, user |-> u] :
          op \in {"disable", "delete"}, k \in {boss, vice} \cup Request, u \in {vice, boss, emp}}
  \cup {[op |-> "enable", by |-> boss, user |-> u] : u \in {emp, temp}}
  \cup {[op |-> "provision", by |-> root, email |-> "new", pw |-> "old", seats |-> 1]}
  \cup {[op |-> "patch", by |-> root, tenant |-> acme, seats |-> 4, valid |-> FALSE],
        [op |-> "patch", by |-> root, tenant |-> acme, seats |-> 2, valid |-> TRUE],
        [op |-> "rotate", by |-> root, tenant |-> acme, seats |-> 5]}

Symmetric == Permutations(Request)
================================================================================
