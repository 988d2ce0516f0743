------------------------------- MODULE SignOn -------------------------------
(***************************************************************************)
(* Single sign-on: oidcStart, oidcCallback and putAuthSettings of          *)
(* internal/api/oidc.go over internal/oidc/oidc.go (the provider and its   *)
(* cache) and internal/store/authconfig.go, on the accounts of Accounts.   *)
(* One action per statement, per request to the provider and per critical  *)
(* section of the cache.                                                   *)
(***************************************************************************)
EXTENDS Accounts, Sequences

CONSTANTS
  Attempts,      \* rows of oidc_states
  Writers,       \* calls of putAuthSettings, each made once
  MaxNames       \* bound: changes of the directory

VARIABLES
  attempt,       \* oidc_states: where each sign-in attempt is
  opened,        \* sessions each attempt opened
  saved,         \* every auth_config there ever was, the last in force
  answered,      \* the last one whose saving was answered
  built,         \* the configuration each *Provider has, by when it was built
  cached,        \* Cache.current; 0: none
  coming,        \* where each visit through the provider is
  writer,        \* where each change of the settings is
  address,       \* the directory: each subject's address, "none" if not in it
  matched,       \* the first identifier each account was recorded against
  names          \* spent of the bound

signVars ==
  <<attempt, opened, saved, answered, built, cached, coming, writer, address, matched, names>>
vars == <<accountVars, signVars>>

Configs == [enabled : BOOLEAN, allows : SUBSET Emails, provision : BOOLEAN, role : AllRoles]
Away == [at |-> "idle", attempt |-> CHOOSE a \in Attempts : TRUE, starting |-> FALSE,
         config |-> 0, provider |-> 0, subject |-> "none", email |-> "none", due |-> 0,
         judged |-> 0, misled |-> FALSE]

SignOnTypeOK ==
  /\ attempt \in [Attempts -> {"unused", "open", "gone"}]
  /\ opened \in [Attempts -> Nat]
  /\ \A i \in 1 .. Len(saved) : saved[i] \in Configs
  /\ answered \in 1 .. Len(saved)
  /\ \A i \in 1 .. Len(built) : built[i] \in 1 .. Len(saved)
  /\ cached \in 0 .. Len(built)
  /\ \A v \in Visits : /\ coming[v].provider \in 0 .. Len(built)
                       /\ coming[v].judged \in 0 .. Len(saved)
  /\ writer \in [Writers -> {"idle", "discovering", "saving", "forgetting", "over"}]
  /\ address \in [Subjects -> Emails \cup {"none"}]
  /\ matched \in [People -> Subjects \cup {"none"}]

\* Sign-on works, is open to everybody, and adds whoever comes; where nobody has
\* an account yet nobody has set it up.
SignOnInit ==
  /\ attempt = [a \in Attempts |-> "unused"]
  /\ opened = [a \in Attempts |-> 0]
  /\ saved = <<[enabled |-> Served, allows |-> Emails, provision |-> TRUE, role |-> "admin"]>>
  /\ answered = 1
  /\ built = <<>> /\ cached = 0
  /\ coming = [v \in Visits |-> Away]
  /\ writer = [w \in Writers |-> "idle"]
  /\ address \in [Subjects -> Emails \cup {"none"}]
  /\ \A s, t \in Subjects : address[s] = address[t] /\ address[s] # "none" => s = t
  /\ matched = [u \in People |-> "none"]
  /\ names = 0

Goes(v, how) == coming' = [coming EXCEPT ![v] = how]
Ends(v, why) ==
  Goes(v, [Away EXCEPT !.at = why, !.due = coming[v].due, !.judged = coming[v].judged,
                       !.misled = coming[v].misled])

-----------------------------------------------------------------------------
(***************************************************************************)
(* provider, for a start or a callback.                                    *)
(***************************************************************************)

\* oidcStart begins.
Start(v, a) ==
  /\ coming[v].at = "idle" /\ visit[v].at = "out" /\ attempt[a] = "unused"
  /\ ~\E w \in Visits : coming[w].starting /\ coming[w].attempt = a
  /\ Goes(v, [Away EXCEPT !.at = "reading", !.attempt = a, !.starting = TRUE, !.due = answered])
  /\ UNCHANGED <<accountVars, attempt, opened, saved, answered, built, cached, writer, address, names, matched>>

\* DELETE ... RETURNING.
Consume(a) == attempt' = [attempt EXCEPT ![a] = "gone"]

\* oidcCallback begins: a browser comes back with an attempt that is open; one
\* that is not, is forged or has expired is refused.
ConsumeOIDCState(v, a) ==
  /\ coming[v].at = "idle" /\ visit[v].at = "out" /\ attempt[a] = "open"
  /\ Consume(a)
  /\ Goes(v, [Away EXCEPT !.at = "reading", !.attempt = a, !.due = answered])
  /\ UNCHANGED <<accountVars, opened, saved, answered, built, cached, writer, address, names, matched>>

\* AuthConfig and the client secret.
ReadSettings(v) ==
  /\ coming[v].at = "reading"
  /\ IF saved[Len(saved)].enabled
     THEN Goes(v, [coming[v] EXCEPT !.at = "getting", !.config = Len(saved)])
     ELSE Ends(v, "refused")
  /\ UNCHANGED <<accountVars, attempt, opened, saved, answered, built, cached, writer, address, names, matched>>

\* Mutant: a provider keeps the configuration it was built from.
RefreshedNever(had, new) == had

\* "Values that do not affect discovery are refreshed in place".
Refreshed(had, new) == new

\* Cache.Get, under its mutex: the provider there is gets this caller's
\* configuration in place, or one is discovered with it.  Whoever holds that
\* provider has the configuration of whoever came last.
GetProvider(v) ==
  /\ coming[v].at = "getting"
  /\ LET new == cached = 0
         p == IF new THEN Len(built) + 1 ELSE cached
     IN
     /\ built' = IF new THEN Append(built, coming[v].config)
                 ELSE [built EXCEPT ![p] = Refreshed(@, coming[v].config)]
     /\ cached' = p
     /\ coming' = [w \in Visits |->
          IF w = v
          THEN [coming[v] EXCEPT !.provider = p,
                                 !.at = IF coming[v].starting THEN "starting" ELSE "exchanging"]
          ELSE IF coming[w].provider = p /\ coming[w].due > coming[v].config
               THEN [coming[w] EXCEPT !.misled = TRUE]
               ELSE coming[w]]
  /\ UNCHANGED <<accountVars, attempt, opened, saved, answered, writer, address, names, matched>>

\* StartOIDCState, and the browser is sent away.
StartOIDCState(v) ==
  /\ coming[v].at = "starting"
  /\ attempt' = [attempt EXCEPT ![coming[v].attempt] = "open"]
  /\ Goes(v, Away)
  /\ UNCHANGED <<accountVars, opened, saved, answered, built, cached, writer, address, names, matched>>

\* An attempt runs out, and PurgeExpiredOIDCStates removes it.
PurgeExpired(a) ==
  /\ attempt[a] = "open"
  /\ attempt' = [attempt EXCEPT ![a] = "gone"]
  /\ UNCHANGED <<accountVars, opened, saved, answered, built, cached, coming, writer, address, names, matched>>

-----------------------------------------------------------------------------
(***************************************************************************)
(* The rest of oidcCallback.                                               *)
(***************************************************************************)

\* The provider says who it is, or anything about the token is amiss.
Exchange(v) ==
  /\ coming[v].at = "exchanging"
  /\ \/ \E s \in Subjects :
          address[s] # "none" /\ Goes(v, [coming[v] EXCEPT !.at = "permitting", !.subject = s, !.email = address[s]])
     \/ Ends(v, "refused")
  /\ UNCHANGED <<accountVars, attempt, opened, saved, answered, built, cached, writer, address, names, matched>>

\* PermittedDomain, of the configuration the provider has by now; then
\* Config, of what it has when linking.
PermittedDomain(v) ==
  /\ coming[v].at = "permitting"
  /\ LET c == built[coming[v].provider] IN
     Goes(v, [coming[v] EXCEPT !.judged = c,
                !.at = IF coming[v].email \in saved[c].allows THEN "linking" ELSE "refused"])
  /\ UNCHANGED <<accountVars, attempt, opened, saved, answered, built, cached, writer, address, names, matched>>

By(v, u) == users[u].is /\ users[u].subject = coming[v].subject
ByEmail(v, u) == users[u].is /\ users[u].email = coming[v].email
Known(v) == {u \in People : By(v, u)}

\* The sign-in passes unless the account is disabled; it shows no password,
\* and whatever the account's is now stands for one.
Passes(v, u) ==
  IF users[u].disabled THEN Ends(v, "refused") /\ UNCHANGED visit
  ELSE /\ Goes(v, [coming[v] EXCEPT !.at = "linked"])
       /\ visit' = [visit EXCEPT ![v] = SessionFor(u, users[u].password)]

\* LinkOrCreateFederatedUser by the stable identifier: the address follows the
\* directory, unless another account has it, which fails the sign-in.
LinkKnown(v, u) ==
  /\ coming[v].at = "linking" /\ By(v, u)
  /\ IF \E w \in Rows \ {u} : users[w].email = coming[v].email
     THEN UNCHANGED <<users, visit>> /\ Ends(v, "refused")
     ELSE /\ users' = [users EXCEPT ![u].email = coming[v].email]
          /\ Passes(v, u)
  /\ UNCHANGED <<manages, request, lock, setup, settled, passwords, outrun, failures>>
  /\ UNCHANGED <<attempt, opened, saved, answered, built, cached, writer, address, names, matched>>

\* By the address, whichever identifier the account had.
LinkByEmail(v, u) ==
  /\ coming[v].at = "linking" /\ Known(v) = {} /\ ByEmail(v, u)
  /\ users' = [users EXCEPT ![u].subject = coming[v].subject]
  /\ matched' = [matched EXCEPT ![u] = IF @ = "none" THEN coming[v].subject ELSE @]
  /\ Passes(v, u)
  /\ UNCHANGED <<manages, request, lock, setup, settled, passwords, outrun, failures>>
  /\ UNCHANGED <<attempt, opened, saved, answered, built, cached, writer, address, names>>

\* Nobody known: added if the configuration says so, or not invited.
Provision(v, u) ==
  /\ coming[v].at = "linking" /\ Known(v) = {}
  /\ ~\E w \in Rows : ByEmail(v, w)
  /\ LET c == saved[built[coming[v].provider]] IN
     IF c.provision /\ c.role \in DOMAIN manages
     THEN /\ users[u] = Nobody
          /\ Insert(u, coming[v].email, c.role, 0, coming[v].subject)
          /\ matched' = [matched EXCEPT ![u] = coming[v].subject]
          /\ visit' = [visit EXCEPT ![v] = SessionFor(u, 0)]
          /\ Goes(v, [coming[v] EXCEPT !.at = "linked"])
     ELSE UNCHANGED <<users, visit, matched>> /\ Ends(v, "refused")
  /\ UNCHANGED <<manages, request, lock, setup, settled, passwords, outrun, failures>>
  /\ UNCHANGED <<attempt, opened, saved, answered, built, cached, writer, address, names>>

\* CreateSession, and the browser is let in.
OpenSession(v) ==
  /\ coming[v].at = "linked"
  /\ CreateSession(v)
  /\ opened' = IF visit'[v].at = "in"
               THEN [opened EXCEPT ![coming[v].attempt] = @ + 1] ELSE opened
  /\ Ends(v, "over")
  /\ UNCHANGED <<attempt, saved, answered, built, cached, writer, address, names, matched>>

-----------------------------------------------------------------------------
(***************************************************************************)
(* putAuthSettings.                                                        *)
(***************************************************************************)

\* Enabling asks for a secret and a provider that answers; the first Forget.
Forget == cached' = 0

\* Somebody who has an account, and the permission, saves.
SaveSettings(w) ==
  /\ writer[w] = "idle" /\ Served
  /\ writer' = [writer EXCEPT ![w] = "discovering"]
  /\ UNCHANGED <<accountVars, attempt, opened, saved, answered, built, cached, coming, address, names, matched>>

Discover(w) ==
  /\ writer[w] = "discovering"
  /\ \E s \in {"saving", "over"} : writer' = [writer EXCEPT ![w] = s]
  /\ Forget
  /\ UNCHANGED <<accountVars, attempt, opened, saved, answered, built, coming, address, names, matched>>

\* SetAuthConfig; auth_config_default_role_fkey.
SetAuthConfig(w, c) ==
  /\ writer[w] = "saving" /\ c.role \in DOMAIN manages
  /\ saved' = Append(saved, c)
  /\ writer' = [writer EXCEPT ![w] = "forgetting"]
  /\ UNCHANGED <<accountVars, attempt, opened, answered, built, cached, coming, address, names, matched>>

\* The second Forget, and the answer.
SettingsSaved(w) ==
  /\ writer[w] = "forgetting"
  /\ writer' = [writer EXCEPT ![w] = "over"]
  /\ Forget
  /\ answered' = Len(saved)
  /\ UNCHANGED <<accountVars, attempt, opened, saved, built, coming, address, names, matched>>

\* Somebody leaves the directory, comes into it, or gets another address,
\* perhaps one that was somebody else's once; one at a time has each.
Rename(s, e) ==
  /\ names < MaxNames /\ address[s] # e
  /\ e = "none" \/ e \notin {address[t] : t \in Subjects}
  /\ names' = names + 1
  /\ address' = [address EXCEPT ![s] = e]
  /\ UNCHANGED <<accountVars, attempt, opened, saved, answered, built, cached, coming, writer, matched>>

VisitNext ==
  \/ \E v \in Visits, a \in Attempts : Start(v, a) \/ ConsumeOIDCState(v, a)
  \/ \E v \in Visits : \/ ReadSettings(v) \/ GetProvider(v) \/ StartOIDCState(v)
                       \/ Exchange(v) \/ PermittedDomain(v) \/ OpenSession(v)
                       \/ \E u \in People : LinkKnown(v, u) \/ LinkByEmail(v, u) \/ Provision(v, u)
  \/ \E a \in Attempts : PurgeExpired(a)

SettingsNext(configs) ==
  \E w \in Writers : \/ SaveSettings(w) \/ Discover(w) \/ SettingsSaved(w)
                     \/ \E c \in configs : SetAuthConfig(w, c)

DirectoryNext == \E s \in Subjects, e \in Emails \cup {"none"} : Rename(s, e)

\* A browser is sent through the provider or asked for a password, not both.
Through(v) == coming[v].at \notin {"idle", "refused", "over"}

\* All of it together.
PeopleInit == (\E S \in SUBSET People : AccountsInit(S)) /\ SignOnInit
PeopleNext ==
  \/ /\ \/ SetupNext \/ RequestNext \/ RoleNext
        \/ \E v \in Visits : ~Through(v) /\ SessionStep(v)
     /\ UNCHANGED signVars
  \/ VisitNext \/ SettingsNext(Configs) \/ DirectoryNext
PeopleSpec == PeopleInit /\ [][PeopleNext]_vars

-----------------------------------------------------------------------------
(***************************************************************************)
(* Properties.                                                             *)
(***************************************************************************)

\* ConsumeOIDCState: a code is "usable exactly once: a replayed callback finds
\* nothing and is refused, rather than racing a second session into existence",
\* however many browsers bring the same attempt back at once.
OneSessionEach == \A a \in Attempts : opened[a] <= 1

\* Cache.Get: "an edit to the allowed domains takes effect".  Whoever comes
\* back after the settings were saved is judged by them, unless a sign-in that
\* had read the earlier ones handed those to the provider they share.
SettingsTakeEffect ==
  \A v \in Visits : coming[v].judged > 0 => coming[v].judged >= coming[v].due \/ coming[v].misled

\* Who may do what: somebody is in charge, unless two changes met; an old password
\* opens nothing once a new one was answered; a sign-in is used for one session.
PeopleAreSafe ==
  /\ AccountsTypeOK
  /\ SignOnTypeOK
  /\ SomebodyInChargeUndisturbed
  /\ OldPasswordOpensNothing
  /\ OneSessionEach

\* LinkOrCreateFederatedUser: an account once matched is "recorded against the
\* stable" identifier, and its address is "never relied on again".
LinkIsKept == \A u \in Rows : matched[u] # "none" => users[u].subject = matched[u]

=============================================================================
