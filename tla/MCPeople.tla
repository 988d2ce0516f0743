------------------------------ MODULE MCPeople ------------------------------
(***************************************************************************)
(* Accounts, SignOn and Holdings for TLC.  Each behaviour exercises one    *)
(* part, chosen at the beginning: first-run setup, calls about accounts    *)
(* beside sign-ins with passwords, roles, single sign-on while the         *)
(* directory changes or while the settings do, putting what Azir holds     *)
(* back to empty beside reads, or the audit trail of doing so.             *)
(***************************************************************************)
EXTENDS SignOn, Holdings, TLC

CONSTANT Standing     \* accounts there are already, where there are any

VARIABLE part

mcVars == <<part, vars, holdVars>>

\* Who is alike is looked at in one order: accounts, browsers, calls, customers.
One(S) == CHOOSE x \in S : TRUE
InOrder ==
  /\ (\E r \in Requests : request'[r].at # "idle") => request'[One(Requests)].at # "idle"
  /\ (\E v \in Visits : visit'[v].at # "out") => visit'[One(Visits)].at # "out"
  /\ (\E k \in Doings : doing'[k].at # "idle") => doing'[One(Doings)].at # "idle"

MCInit ==
  /\ part \in {"setup", "people", "roles", "sign-on", "settings", "tidying", "trail"}
  /\ CASE part = "setup" -> AccountsInit({})
       [] part \in {"people", "roles"} -> AccountsInit(Standing)
       [] OTHER -> AccountsInit({One(Standing)})
  /\ visit[One(Visits)].who = One(People)
  /\ One(Standing) \in Rows => users[One(Standing)].email = One(Emails)
  /\ SignOnInit /\ HoldingsInit
  /\ \A c \in Firms \ {One(Firms)} : sealed[c] = 0
  /\ part = "tidying" => firms = Firms /\ (listed \/ \A h \in Holders : holder[h] = "password")
  /\ part # "tidying" => firms = {} /\ listed /\ \A h \in Holders : holder[h] = "password"
  /\ part \in {"settings", "tidying", "trail"} => \A s \in Subjects : address[s] # "none"
  /\ part \notin {"sign-on", "settings", "tidying", "trail"} => \A s \in Subjects : address[s] = "none"

\* Accounts and their calls; the first to sign in is the first account, and no
\* role is asked for that there is not.
PeoplePart ==
  /\ SessionNext \/ RequestNext
  /\ visit'[One(Visits)].who = One(People)
  /\ \A r \in Requests : request'[r].wish.role \in {"keep"} \cup DOMAIN manages

\* A role is made, given, and taken away again.
RolePart ==
  \/ SessionNext \/ RoleNext
  \/ \E r \in Requests, v \in Visits, u \in People, role \in Roles :
       Enter(r, v, u, [op |-> "update", role |-> role, disabled |-> FALSE])
  \/ \E r \in Requests : Find(r) \/ CheckRole(r) \/ SetUserRole(r)

\* Calls that touch connections; and calls that tell nobody but the trail.
TidyingPart == HeldNext /\ \A k \in Doings : doing'[k].op \notin {"create", "link", "clear"}
TrailPart ==
  \/ MirrorEvent
  \/ \E k \in Doings : DoingStep(k) /\ doing'[k].op \in {"none", "create", "link", "clear", "reset"}

\* Sign-on is closed, or open to fewer.
Narrower == {c \in Configs : c.provision /\ c.role = "admin"}

MCNext ==
  /\ UNCHANGED part
  /\ \/ part = "setup" /\ SetupNext /\ UNCHANGED <<signVars, holdVars>>
     \/ part = "people" /\ PeoplePart /\ UNCHANGED <<signVars, holdVars>>
     \/ part = "roles" /\ RolePart /\ UNCHANGED <<signVars, holdVars>>
     \/ part = "sign-on" /\ (VisitNext \/ DirectoryNext) /\ UNCHANGED holdVars
     \/ part = "settings" /\ (VisitNext \/ SettingsNext(Narrower)) /\ UNCHANGED holdVars
     \/ part = "tidying" /\ TidyingPart /\ UNCHANGED vars
     \/ part = "trail" /\ TrailPart /\ UNCHANGED vars
  /\ InOrder

MCSpec == MCInit /\ [][MCNext]_mcVars

=============================================================================
