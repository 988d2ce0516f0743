------------------------------ MODULE Accounts ------------------------------
(***************************************************************************)
(* Accounts, roles and sessions: internal/api/auth.go, people.go, users.go *)
(* and sessions.go over internal/store/users.go, roles.go and sessions.go. *)
(* One action per database statement (a transaction under the advisory     *)
(* lock of first-run setup is one, and so is each check that a foreign key *)
(* or a unique index makes).  A password is the number of times one was    *)
(* set, the secret of an account somebody else knows an earlier one of.    *)
(***************************************************************************)
EXTENDS Naturals, FiniteSets

CONSTANTS
  People,        \* rows of users
  Emails, Subjects,   \* addresses, and the provider's names for people
  Roles,         \* roles beside the administrator's
  Visits,        \* browsers, each signing in once
  Requests,      \* calls about an account, each made once
  Setups,        \* calls of first-run setup
  MaxPasswords,  \* bound: passwords set
  MaxFailures    \* bound: statements that fail

ASSUME AccountBounds ==
  /\ "admin" \notin Roles /\ "none" \notin Emails \cup Subjects
  /\ MaxPasswords \in Nat \ {0} /\ MaxFailures \in Nat

VARIABLES
  users,         \* the table users
  manages,       \* roles that exist, and whether each has user.manage
  visit,         \* where each browser's sign-in is, and its session
  request,       \* where each call about an account is
  lock,          \* who holds setupLockID
  setup,         \* where each first-run setup is
  settled,       \* the last password whose setting was answered
  passwords,     \* how many passwords were set
  outrun,        \* a call wrote what another had changed since it looked
  failures       \* spent of the bound

accountVars ==
  <<users, manages, visit, request, lock, setup, settled, passwords, outrun, failures>>

AllRoles == {"admin"} \cup Roles
Nobody == [is |-> FALSE, role |-> "admin", disabled |-> FALSE, password |-> 0,
           email |-> "none", subject |-> "none"]
Account(email, role, password, subject) ==
  [is |-> TRUE, role |-> role, disabled |-> FALSE, password |-> password,
   email |-> email, subject |-> subject]
Users == [is : BOOLEAN, role : AllRoles, disabled : BOOLEAN, password : 0 .. MaxPasswords,
          email : Emails \cup {"none"}, subject : Subjects \cup {"none"}]
Rows == {u \in DOMAIN users : users[u].is}
Admins == {u \in Rows : users[u].role = "admin" /\ ~users[u].disabled}

\* late: the session was made after those of its account were ended; spared: the
\* statement that was to end it after a change of the password failed.
SessionFor(u, password) == [at |-> "verified", who |-> u, password |-> password, late |-> FALSE, spared |-> FALSE]
Outside(u) == [SessionFor(u, 0) EXCEPT !.at = "out"]
Outlives(b) == b.late \/ b.spared
Wishes ==
  [op : {"update"}, role : AllRoles \cup {"keep"}, disabled : {TRUE, FALSE}]
    \cup [op : {"password", "delete"}, role : {"keep"}, disabled : {FALSE}]
RequestAt == {"idle", "find", "role", "recast", "switch", "write", "end", "remove", "over"}

AccountsTypeOK ==
  /\ users \in [People -> Users]
  /\ DOMAIN manages \subseteq AllRoles /\ "admin" \in DOMAIN manages
  /\ visit \in [Visits -> [at : {"out", "verified", "in", "over"}, who : People,
                           password : 0 .. MaxPasswords, late : BOOLEAN, spared : BOOLEAN]]
  /\ \A r \in Requests : /\ request[r].at \in RequestAt
                         /\ request[r].whom \in People /\ request[r].by \in People
  /\ lock \in Setups \cup {"free"}
  /\ setup \in [Setups -> {"idle", "locked", "made", "refused"}]
  /\ settled \in [People -> 0 .. MaxPasswords]
  /\ passwords \in 0 .. MaxPasswords
  /\ outrun \in BOOLEAN /\ failures \in 0 .. MaxFailures

\* A deployment just installed, or one with the accounts of S, all
\* administrators with one password each.
AccountsInit(S) ==
  /\ \E email \in [S -> Emails] :
       /\ \A u, v \in S : email[u] = email[v] => u = v
       /\ users = [u \in People |->
            IF u \in S THEN Account(email[u], "admin", 1, "none") ELSE Nobody]
  /\ manages = [r \in AllRoles |-> r = "admin"]
  /\ \E u \in People :
       /\ visit = [v \in Visits |-> Outside(u)]
       /\ request = [r \in Requests |->
            [at |-> "idle", by |-> u, whom |-> u, saw |-> Nobody, overtaken |-> FALSE,
             wish |-> [op |-> "delete", role |-> "keep", disabled |-> FALSE], password |-> 0]]
  /\ lock = "free"
  /\ setup = [s \in Setups |-> "idle"]
  /\ settled = [u \in People |-> 0]
  /\ passwords = 1
  /\ outrun = FALSE
  /\ failures = 0

Failure == failures < MaxFailures /\ failures' = failures + 1

-----------------------------------------------------------------------------
(***************************************************************************)
(* First-run setup.                                                        *)
(***************************************************************************)

\* pg_advisory_xact_lock: waits while another transaction has it.
LockSetup(s) ==
  /\ setup[s] = "idle" /\ lock = "free"
  /\ setup' = [setup EXCEPT ![s] = "locked"]
  /\ lock' = s
  /\ UNCHANGED <<users, manages, visit, request, settled, passwords, outrun, failures>>

\* Setup is open while no account exists.
Open == Rows = {}

\* insertUser: an address belongs to one account, a role has to exist, and an
\* id is never used again (a row that was removed keeps its address here).
Insertable(u, email, role) ==
  /\ users[u] = Nobody
  /\ email \notin {users[v].email : v \in Rows}
  /\ role \in DOMAIN manages
Insert(u, email, role, password, subject) ==
  users' = [users EXCEPT ![u] = Account(email, role, password, subject)]

\* CreateFirstUser, from the count to the commit.
CreateFirstUser(s, u, email) ==
  /\ setup[s] = "locked"
  /\ lock' = "free"
  /\ IF Open THEN /\ Insertable(u, email, "admin")
                  /\ Insert(u, email, "admin", passwords, "none")
                  /\ setup' = [setup EXCEPT ![s] = "made"]
     ELSE UNCHANGED users /\ setup' = [setup EXCEPT ![s] = "refused"]
  /\ UNCHANGED <<manages, visit, request, settled, passwords, outrun, failures>>

-----------------------------------------------------------------------------
(***************************************************************************)
(* Sessions.                                                               *)
(***************************************************************************)

\* Authenticate: one read of the row, and the password it has now.  (Who is
\* refused changes nothing.)
Authenticate(v, u) ==
  /\ visit[v].at = "out"
  /\ users[u].is /\ ~users[u].disabled /\ users[u].password > 0
  /\ visit' = [visit EXCEPT ![v] = SessionFor(u, users[u].password)]
  /\ UNCHANGED <<users, manages, request, lock, setup, settled, passwords, outrun, failures>>

\* CreateSession: the account has to exist, and nothing else is asked.
CreateSession(v) ==
  /\ visit[v].at = "verified"
  /\ \/ /\ users[visit[v].who].is
        /\ visit' = [visit EXCEPT ![v].at = "in"]
        /\ UNCHANGED failures
     \/ /\ ~users[visit[v].who].is
        /\ visit' = [visit EXCEPT ![v].at = "over"] /\ UNCHANGED failures
     \/ /\ Failure /\ visit' = [visit EXCEPT ![v].at = "over"]
  /\ UNCHANGED <<users, manages, request, lock, setup, settled, passwords, outrun>>

\* ActorForSession: the session's account, when it may act.
SignedIn(v) == visit[v].at = "in" /\ users[visit[v].who].is /\ ~users[visit[v].who].disabled

SessionGone(v) ==
  /\ visit[v].at = "in"
  /\ visit' = [visit EXCEPT ![v].at = "over"]
  /\ UNCHANGED <<users, manages, request, lock, setup, settled, passwords, outrun, failures>>

Logout(v) == SessionGone(v)
\* Somebody signed in ends a session they can see in the list.
EndSession(v) == (\E w \in Visits : SignedIn(w)) /\ SessionGone(v)
PruneSessions(v) == SessionGone(v)

\* DELETE FROM sessions WHERE user_id.
SessionsOf(u) == {v \in Visits : visit[v].at = "in" /\ visit[v].who = u}

\* They are gone; sign-ins that already passed are not sessions yet.
EndAll(u) ==
  visit' = [v \in Visits |->
    IF v \in SessionsOf(u) THEN [visit[v] EXCEPT !.at = "over"]
    ELSE IF visit[v].at = "verified" /\ visit[v].who = u THEN [visit[v] EXCEPT !.late = TRUE]
    ELSE visit[v]]

\* The statement fails after a password was set: they go on.
SpareAll(u) ==
  visit' = [v \in Visits |->
    IF v \in SessionsOf(u) THEN [visit[v] EXCEPT !.spared = TRUE]
    ELSE IF visit[v].at = "verified" /\ visit[v].who = u THEN [visit[v] EXCEPT !.late = TRUE]
    ELSE visit[v]]

-----------------------------------------------------------------------------
(***************************************************************************)
(* updateUser, setPassword, deleteUser.                                    *)
(***************************************************************************)

At(r, where) == request' = [request EXCEPT ![r].at = where]

\* require: somebody signed in whose role manages accounts.
Enter(r, v, u, wish) ==
  /\ request[r].at = "idle"
  /\ SignedIn(v) /\ manages[users[visit[v].who].role]
  /\ request' = [request EXCEPT ![r] =
       [@ EXCEPT !.at = "find", !.by = visit[v].who, !.whom = u, !.wish = wish]]
  /\ UNCHANGED <<users, manages, visit, lock, setup, settled, passwords, outrun, failures>>

\* userByID, or there is no such account.
Find(r) ==
  /\ request[r].at = "find"
  /\ LET u == users[request[r].whom] IN
     IF ~u.is THEN At(r, "over")
     ELSE request' = [request EXCEPT ![r] =
            [@ EXCEPT !.saw = u,
                      !.at = CASE request[r].wish.op = "update" -> "role"
                               [] request[r].wish.op = "password" -> "end"
                               [] OTHER -> "remove"]]
  /\ UNCHANGED <<users, manages, visit, lock, setup, settled, passwords, outrun, failures>>

\* Mutant: the last administrator may be disabled, as it can be enabled again.
AloneIfRemoved(r) ==
  request[r].wish.op = "delete" /\ request[r].saw.role = "admin" /\ Cardinality(Admins) <= 1

\* lastAdminStanding: of the account as it was found.
Alone(r) == request[r].saw.role = "admin" /\ Cardinality(Admins) <= 1

\* The checks before anything is written, in the order the code asks.
CheckRole(r) ==
  /\ request[r].at = "role"
  /\ At(r, IF request[r].wish.role \in {"keep", request[r].saw.role} THEN "switch"
           ELSE IF Alone(r) THEN "over" ELSE "recast")
  /\ UNCHANGED <<users, manages, visit, lock, setup, settled, passwords, outrun, failures>>

CheckSwitch(r) ==
  /\ request[r].at = "switch"
  /\ At(r, IF request[r].wish.disabled = request[r].saw.disabled THEN "over"
           ELSE IF request[r].wish.disabled /\ (request[r].whom = request[r].by \/ Alone(r))
           THEN "over" ELSE "write")
  /\ UNCHANGED <<users, manages, visit, lock, setup, settled, passwords, outrun, failures>>

CheckRemove(r) ==
  /\ request[r].at = "remove"
  /\ request' = [request EXCEPT ![r] =
       IF request[r].whom = request[r].by \/ Alone(r) THEN [@ EXCEPT !.at = "over"]
       ELSE [@ EXCEPT !.at = "write"]]
  /\ UNCHANGED <<users, manages, visit, lock, setup, settled, passwords, outrun, failures>>

\* What a write does to the others: they looked at a row that is no more, or
\* counted administrators who are no more.
Onto(r, where) ==
  /\ request' = [q \in Requests |->
       IF q = r THEN [request[q] EXCEPT !.at = where]
       ELSE IF request[q].at \notin {"idle", "find", "over"}
       THEN [request[q] EXCEPT !.overtaken = TRUE] ELSE request[q]]
  /\ outrun' = (outrun \/ request[r].overtaken)

SetUserRole(r) ==
  /\ request[r].at = "recast"
  /\ LET u == request[r].whom IN
     IF users[u].is /\ request[r].wish.role \in DOMAIN manages
     THEN users' = [users EXCEPT ![u].role = request[r].wish.role] /\ Onto(r, "switch")
     ELSE UNCHANGED <<users, outrun>> /\ At(r, "over")
  /\ UNCHANGED <<manages, visit, lock, setup, settled, passwords, failures>>

\* The flag; if it goes up the sessions are ended next.
SetUserDisabled(r) ==
  /\ request[r].at = "write" /\ request[r].wish.op = "update"
  /\ LET u == request[r].whom IN
     IF users[u].is
     THEN /\ users' = [users EXCEPT ![u].disabled = request[r].wish.disabled]
          /\ Onto(r, IF request[r].wish.disabled THEN "end" ELSE "over")
     ELSE UNCHANGED <<users, outrun>> /\ At(r, "over")
  /\ UNCHANGED <<manages, visit, lock, setup, settled, passwords, failures>>

DeleteUser(r) ==
  /\ request[r].at = "write" /\ request[r].wish.op = "delete"
  /\ LET u == request[r].whom IN
     /\ users' = [users EXCEPT ![u].is = FALSE]
     /\ visit' = [v \in Visits |-> IF v \in SessionsOf(u)
                                   THEN [visit[v] EXCEPT !.at = "over"] ELSE visit[v]]
     /\ IF users[u].is THEN Onto(r, "over") ELSE UNCHANGED outrun /\ At(r, "over")
  /\ UNCHANGED <<manages, lock, setup, settled, passwords, failures>>

SetUserPassword(r) ==
  /\ request[r].at = "end" /\ request[r].wish.op = "password" /\ request[r].password = 0
  /\ LET u == request[r].whom IN
     IF users[u].is
     THEN /\ passwords < MaxPasswords
          /\ passwords' = passwords + 1
          /\ users' = [users EXCEPT ![u].password = passwords + 1]
          /\ request' = [request EXCEPT ![r].password = passwords + 1]
     ELSE UNCHANGED <<users, passwords>> /\ At(r, "over")
  /\ UNCHANGED <<manages, visit, lock, setup, settled, outrun, failures>>

\* The password whose setting is answered.
Settle(u, password) == settled' = [settled EXCEPT ![u] = IF password > @ THEN password ELSE @]

\* EndSessionsFor after a password, the same statement after a disabling; in
\* either a failure is passed over, and the call answered as if all were well.
EndSessions(r) ==
  /\ request[r].at = "end"
  /\ request[r].wish.op = "password" => request[r].password > 0
  /\ LET u == request[r].whom IN
     /\ Settle(u, request[r].password)
     /\ \/ EndAll(u) /\ UNCHANGED failures
        \/ Failure /\ IF request[r].password > 0 THEN SpareAll(u) ELSE UNCHANGED visit
  /\ At(r, "over")
  /\ UNCHANGED <<users, manages, lock, setup, passwords, outrun>>

-----------------------------------------------------------------------------
(***************************************************************************)
(* createUser and roles.                                                   *)
(***************************************************************************)

AnAdminIn == \E v \in Visits : SignedIn(v) /\ users[visit[v].who].role = "admin"

CreateUser(u, email, role) ==
  /\ AnAdminIn /\ Insertable(u, email, role)
  /\ \E password \in {0, passwords} : Insert(u, email, role, password, "none")
  /\ UNCHANGED <<manages, visit, request, lock, setup, settled, passwords, outrun, failures>>

CreateRole(role, may) ==
  /\ AnAdminIn /\ role \notin DOMAIN manages
  /\ manages' = [x \in DOMAIN manages \cup {role} |-> IF x = role THEN may ELSE manages[x]]
  /\ UNCHANGED <<users, visit, request, lock, setup, settled, passwords, outrun, failures>>

\* Never the administrator's, and never one's own.
UpdateRole(v, role, may) ==
  /\ SignedIn(v) /\ manages[users[visit[v].who].role]
  /\ role \in DOMAIN manages \ {"admin", users[visit[v].who].role}
  /\ manages' = [manages EXCEPT ![role] = may]
  /\ UNCHANGED <<users, visit, request, lock, setup, settled, passwords, outrun, failures>>

\* users_role_fkey.
Unused(role) == role \notin {users[u].role : u \in Rows}

\* DeleteRole: whatever RoleUsers counted, the row goes only if nothing refers
\* to it as it goes.
DeleteRole(role) ==
  /\ AnAdminIn /\ role \in DOMAIN manages \ {"admin"} /\ Unused(role)
  /\ manages' = [x \in DOMAIN manages \ {role} |-> manages[x]]
  /\ UNCHANGED <<users, visit, request, lock, setup, settled, passwords, outrun, failures>>

SetupNext ==
  \E s \in Setups : LockSetup(s) \/ \E u \in People, e \in Emails : CreateFirstUser(s, u, e)

SessionStep(v) ==
  \/ \E u \in People : Authenticate(v, u)
  \/ CreateSession(v) \/ Logout(v) \/ EndSession(v) \/ PruneSessions(v)

SessionNext == \E v \in Visits : SessionStep(v)

RequestNext ==
  \E r \in Requests :
    \/ \E v \in Visits, u \in People, wish \in Wishes : Enter(r, v, u, wish)
    \/ Find(r) \/ CheckRole(r) \/ CheckSwitch(r) \/ CheckRemove(r)
    \/ SetUserRole(r) \/ SetUserDisabled(r) \/ DeleteUser(r) \/ SetUserPassword(r) \/ EndSessions(r)

RoleNext ==
  \/ \E u \in People, e \in Emails, role \in AllRoles : CreateUser(u, e, role)
  \/ \E role \in Roles : \/ DeleteRole(role)
                         \/ \E may \in BOOLEAN : CreateRole(role, may)
                         \/ \E may \in BOOLEAN, v \in Visits : UpdateRole(v, role, may)

-----------------------------------------------------------------------------
(***************************************************************************)
(* Properties.                                                             *)
(***************************************************************************)

Served == Rows # {}

\* people.go: "a deployment nobody can administer" is what every check here is
\* to prevent: once there are accounts, somebody who may sign in is an
\* administrator, whose role exists.
SomebodyInCharge == Served => Admins # {}

\* It is so unless a call wrote on the strength of what another had changed
\* since, and then first-run setup makes one administrator however many ask
\* (two who remove each other open it again).  Nobody is left with a role that
\* does not exist.
SomebodyInChargeUndisturbed ==
  /\ outrun \/ (SomebodyInCharge /\ Cardinality({s \in Setups : setup[s] = "made"}) <= 1)
  /\ \A u \in Rows : users[u].role \in DOMAIN manages

\* setPassword: "a password changed because somebody has left ... is not a
\* password change if the old session keeps working": once a change is
\* answered, a session opened with an earlier password opens nothing.  The code
\* does not keep that word in two cases, which are excepted by name: the sign-in
\* was between the password and the session meanwhile (late), or the statement
\* that ends the sessions failed, which is logged and answered with ok (spared).
OldPasswordOpensNothing ==
  \A v \in Visits : SignedIn(v) => visit[v].password >= settled[visit[v].who] \/ Outlives(visit[v])

=============================================================================
