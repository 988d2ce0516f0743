---------------------------- MODULE PeopleProofs ----------------------------
(***************************************************************************)
(* Theorems about SignOn on Accounts, all of it together (PeopleSpec), for *)
(* any people, browsers, calls and bounds: somebody stays in charge, old   *)
(* passwords open nothing, a sign-in attempt makes one session, and saved  *)
(* settings take effect.  And about Holdings, for any customers, calls,    *)
(* reads and bounds: what is disconnected stays so, what was done is on    *)
(* record once, and a reset leaves somebody able to sign in.               *)
(***************************************************************************)
EXTENDS SignOn, Holdings, FiniteSetTheorems, SequenceTheorems, TLAPS

(***************************************************************************)
(* The inductive invariant.                                                *)
(***************************************************************************)

IsVisit == [at : {"out", "verified", "in", "over"}, who : People,
            password : 0 .. MaxPasswords, late : BOOLEAN, spared : BOOLEAN]
IsRequest == [at : RequestAt, by : People, whom : People, saw : Users,
              overtaken : BOOLEAN, wish : Wishes, password : 0 .. MaxPasswords]
AccountsTyped ==
  /\ users \in [People -> Users]
  /\ DOMAIN manages \subseteq AllRoles /\ "admin" \in DOMAIN manages
  /\ visit \in [Visits -> IsVisit]
  /\ request \in [Requests -> IsRequest]
  /\ lock \in Setups \cup {"free"}
  /\ setup \in [Setups -> {"idle", "locked", "made", "refused"}]
  /\ settled \in [People -> 0 .. MaxPasswords]
  /\ passwords \in 1 .. MaxPasswords
  /\ outrun \in BOOLEAN /\ failures \in 0 .. MaxFailures

RolesExist == \A u \in People : users[u].is => users[u].role \in DOMAIN manages

\* Passwords are numbered as they are set: an account has the last one it was
\* given, a call knows one it set, and a session is not older than the last
\* change that was answered, unless its sign-in was under way meanwhile.
PasswordsAreTrue ==
  /\ \A u \in People : settled[u] <= users[u].password /\ users[u].password <= passwords
  /\ \A r \in Requests : /\ request[r].password <= users[request[r].whom].password
                         /\ request[r].at = "idle" => request[r].password = 0
  /\ \A v \in Visits : visit[v].at \in {"verified", "in"} =>
       Outlives(visit[v]) \/ visit[v].password >= settled[visit[v].who]

\* What a call has found out still holds, unless another wrote meanwhile: the
\* account is as it was found, or another administrator is there.
IsAdmin(u) == users[u].is /\ users[u].role = "admin" /\ ~users[u].disabled
Others(u) == \E w \in People : w # u /\ IsAdmin(w)
Knows(c) ==
  /\ c.at \in {"role", "recast", "switch"} => c.wish.op = "update"
  /\ c.at \in {"role", "remove"} => users[c.whom].is /\ users[c.whom].role = c.saw.role
  /\ c.at = "recast" => Others(c.whom)
  /\ c.at = "switch" /\ c.saw.role # "admin" => Others(c.whom)
  /\ c.at = "write" /\ (c.wish.op = "delete" \/ c.wish.disabled) => Others(c.whom)

InCharge ==
  /\ (\E u \in People : users[u].is) => \E u \in People : IsAdmin(u)
  /\ \A s \in Setups : setup[s] = "made" => \E u \in People : users[u].is
  /\ \A s, t \in Setups : setup[s] = "made" /\ setup[t] = "made" => s = t
  /\ \A r \in Requests : request[r].overtaken \/ Knows(request[r])
ChargeIsKept == outrun \/ InCharge

AccountsInv ==
  /\ AccountsTyped
  /\ RolesExist
  /\ PasswordsAreTrue
  /\ ChargeIsKept

IsComing == [at : {"idle", "reading", "getting", "starting", "exchanging", "permitting",
                   "linking", "linked", "refused", "over"},
             attempt : Attempts \cup {Away.attempt}, starting : BOOLEAN, config : Nat,
             provider : Nat, subject : Subjects \cup {"none"}, email : Emails \cup {"none"},
             due : Nat, judged : Nat, misled : BOOLEAN]
SignOnTyped ==
  /\ attempt \in [Attempts -> {"unused", "open", "gone"}]
  /\ opened \in [Attempts -> Nat]
  /\ saved \in Seq(Configs) /\ answered \in 1 .. Len(saved)
  /\ built \in Seq(Nat) /\ \A i \in 1 .. Len(built) : built[i] \in 1 .. Len(saved)
  /\ cached \in 0 .. Len(built)
  /\ coming \in [Visits -> IsComing]
  /\ writer \in [Writers -> {"idle", "discovering", "saving", "forgetting", "over"}]
  /\ address \in [Subjects -> Emails \cup {"none"}]
  /\ matched \in [People -> Subjects \cup {"none"}]

\* An attempt that was not brought back has no session; one that was has one
\* browser that may still make it, or what it made.
Starting(v, a) == coming[v].starting /\ coming[v].attempt = a
Bringing(v, a) ==
  /\ coming[v].at \in {"reading", "getting", "exchanging", "permitting", "linking", "linked"}
  /\ ~coming[v].starting /\ coming[v].attempt = a
AttemptsAreSpent ==
  \A a \in Attempts :
    /\ opened[a] <= 1
    /\ opened[a] = 1 => attempt[a] = "gone"
    /\ \A v \in Visits : Starting(v, a) => attempt[a] = "unused"
    /\ \A v, w \in Visits : Starting(v, a) /\ Starting(w, a) => v = w
    /\ \A v \in Visits : Bringing(v, a) => attempt[a] = "gone" /\ opened[a] = 0
    /\ \A v, w \in Visits : Bringing(v, a) /\ Bringing(w, a) => v = w

\* Whoever holds a provider finds in it nothing older than was in force as it
\* began, or was misled.
HoldsProvider == {"starting", "exchanging", "permitting", "linking", "linked"}
ProvidersAreCurrent ==
  \A v \in Visits :
    /\ coming[v].due <= answered
    /\ coming[v].provider <= Len(built) /\ coming[v].judged <= Len(saved)
    /\ coming[v].at = "getting" =>
         coming[v].config \in 1 .. Len(saved) /\ coming[v].config >= coming[v].due
    /\ coming[v].at \in HoldsProvider => coming[v].provider > 0
    /\ coming[v].at = "starting" => coming[v].starting
    /\ coming[v].at \in HoldsProvider \ {"starting"} => ~coming[v].starting
    /\ coming[v].provider > 0 => built[coming[v].provider] >= coming[v].due \/ coming[v].misled
    /\ coming[v].judged > 0 => coming[v].judged >= coming[v].due \/ coming[v].misled
    /\ coming[v].at = "linking" => coming[v].email \in Emails /\ coming[v].subject \in Subjects
    /\ coming[v].at = "permitting" => coming[v].email \in Emails /\ coming[v].subject \in Subjects

\* Where nobody has an account, nobody has set up sign-on.
Fresh ==
  /\ \A i \in 1 .. Len(saved) : ~saved[i].enabled
  /\ \A w \in Writers : writer[w] = "idle"
  /\ \A v \in Visits : coming[v].at \in {"idle", "reading", "refused"}

SignOnInv ==
  /\ SignOnTyped
  /\ AttemptsAreSpent
  /\ ProvidersAreCurrent
  /\ outrun \/ (\E u \in People : users[u].is) \/ Fresh

PeopleInv == AccountsInv /\ SignOnInv

-----------------------------------------------------------------------------
(***************************************************************************)
(* Accounts.                                                               *)
(***************************************************************************)

LEMMA AccountsStart == ASSUME NEW S \in SUBSET People, AccountsInit(S) PROVE AccountsInv
<1> DEFINE wish == [op |-> "delete", role |-> "keep", disabled |-> FALSE]
           row(e) == [is |-> TRUE, role |-> "admin", disabled |-> FALSE, password |-> 1,
                      email |-> e, subject |-> "none"]
<1>1. PICK email \in [S -> Emails] : users = [u \in People |-> IF u \in S THEN row(email[u]) ELSE Nobody]
  BY DEF AccountsInit, Account
<1>2. PICK u \in People :
        /\ visit = [v \in Visits |-> Outside(u)]
        /\ request = [r \in Requests |->
             [at |-> "idle", by |-> u, whom |-> u, saw |-> Nobody, overtaken |-> FALSE,
              wish |-> wish, password |-> 0]]
  BY DEF AccountsInit
<1>3. /\ manages = [r \in AllRoles |-> r = "admin"]
      /\ lock = "free" /\ setup = [s \in Setups |-> "idle"]
      /\ settled = [w \in People |-> 0] /\ passwords = 1 /\ failures = 0
  BY DEF AccountsInit
<1>4. outrun = FALSE
  BY DEF AccountsInit
<1>5. 0 \in 0 .. MaxPasswords /\ 1 \in 0 .. MaxPasswords
  BY AccountBounds
<1>6. Nobody \in Users
  BY <1>5 DEF Nobody, Users, AllRoles
<1>7. \A w \in S : row(email[w]) \in Users
  BY <1>1, <1>5 DEF Users, AllRoles
<1>8. users \in [People -> Users]
  BY <1>1, <1>6, <1>7
<1>9. \A w \in People : users[w].role = "admin" /\ users[w].disabled = FALSE /\ users[w].password \in {0, 1}
  BY <1>1 DEF Nobody
<1>10. AccountsTyped
  <2>1. visit \in [Visits -> IsVisit]
    BY <1>2, <1>5 DEF Outside, SessionFor, IsVisit
  <2>2. wish \in Wishes
    BY DEF Wishes
  <2>3. request \in [Requests -> IsRequest]
    <3> HIDE DEF wish
    <3>1. QED
      BY <1>2, <1>5, <1>6, <2>2 DEF IsRequest, RequestAt
  <2>4. DOMAIN manages \subseteq AllRoles /\ "admin" \in DOMAIN manages
    BY <1>3 DEF AllRoles
  <2>5. outrun \in BOOLEAN
    BY <1>4
  <2>6. passwords \in 1 .. MaxPasswords /\ failures \in 0 .. MaxFailures
    BY <1>3, AccountBounds
  <2>7. settled \in [People -> 0 .. MaxPasswords]
    BY <1>3, <1>5
  <2>8. QED
    BY <1>3, <1>8, <2>1, <2>3, <2>4, <2>5, <2>6, <2>7 DEF AccountsTyped
<1>11. RolesExist
  BY <1>3, <1>9 DEF RolesExist, AllRoles
<1>12. PasswordsAreTrue
  <2>1. \A v \in Visits : visit[v].at = "out"
    BY <1>2 DEF Outside, SessionFor
  <2>2. \A r \in Requests : request[r].password = 0 /\ request[r].whom \in People
    BY <1>2
  <2>3. QED
    BY <1>3, <1>9, <2>1, <2>2 DEF PasswordsAreTrue
<1>13. InCharge
  <2>1. \A w \in People : users[w].is => IsAdmin(w)
    BY <1>9 DEF IsAdmin
  <2>2. \A r \in Requests : request[r].at = "idle"
    BY <1>2
  <2>3. \A r \in Requests : Knows(request[r])
    BY <2>2 DEF Knows
  <2>4. \A s \in Setups : setup[s] = "idle"
    BY <1>3
  <2>5. QED
    BY <2>1, <2>3, <2>4 DEF InCharge
<1>14. QED
  BY <1>10, <1>11, <1>12, <1>13 DEF AccountsInv, ChargeIsKept

\* One call becomes another record, the others stay.
LEMMA OneCallChanges ==
  ASSUME AccountsTyped, NEW r \in Requests, NEW c \in IsRequest, request' = [request EXCEPT ![r] = c]
  PROVE  /\ request' \in [Requests -> IsRequest]
         /\ \A q \in Requests : request'[q] = IF q = r THEN c ELSE request[q]
BY DEF AccountsTyped

\* While accounts are only added, or change in what nobody is in charge by, what
\* calls found out still holds.
LEMMA KnowsStays ==
  ASSUME NEW c \in IsRequest, Knows(c),
         \A u \in People : users[u].is => /\ users'[u].is /\ users'[u].role = users[u].role
                                          /\ users'[u].disabled = users[u].disabled
  PROVE  Knows(c)'
<1>1. \A u \in People : IsAdmin(u) => IsAdmin(u)'
  BY DEF IsAdmin
<1>2. \A u \in People : Others(u) => Others(u)'
  BY <1>1 DEF Others
<1>3. c.whom \in People
  BY DEF IsRequest
<1>4. QED
  BY <1>2, <1>3 DEF Knows

\* Accounts are added or change in what nobody is in charge by; browsers get as
\* far as their accounts' passwords let them.
LEMMA MildStep ==
  ASSUME AccountsInv, UNCHANGED <<manages, request, settled, passwords, outrun>>,
         users' \in [People -> Users], visit' \in [Visits -> IsVisit],
         lock' \in Setups \cup {"free"}, failures' \in 0 .. MaxFailures,
         setup' \in [Setups -> {"idle", "locked", "made", "refused"}],
         \A u \in People : users[u].is => /\ users'[u].is /\ users'[u].role = users[u].role
                                          /\ users'[u].disabled = users[u].disabled,
         \A u \in People : /\ users[u].password <= users'[u].password
                           /\ users'[u].password <= passwords
                           /\ users'[u].is => users'[u].role \in DOMAIN manages,
         \A v \in Visits : \/ visit'[v] = visit[v]
                           \/ visit'[v].at \notin {"verified", "in"}
                           \/ Outlives(visit'[v])
                           \/ visit'[v].password >= settled[visit'[v].who],
         outrun \/ InCharge =>
           /\ (\E u \in People : users'[u].is) =>
                outrun \/ (\E u \in People : users[u].is) \/ (\E u \in People : IsAdmin(u)')
           /\ \A s \in Setups : setup'[s] = "made" => outrun \/ \E u \in People : users'[u].is
           /\ outrun \/ \A s, t \in Setups : setup'[s] = "made" /\ setup'[t] = "made" => s = t
  PROVE  AccountsInv'
<1> USE DEF AccountsInv
<1>1. AccountsTyped'
  BY DEF AccountsTyped
<1>2. RolesExist'
  BY DEF RolesExist
<1>3. PasswordsAreTrue'
  <2>1. \A u \in People : settled[u] \in Nat /\ users[u].password \in Nat /\ users'[u].password \in Nat
    BY DEF AccountsTyped, Users
  <2>2. \A r \in Requests : request[r].whom \in People /\ request[r].password \in Nat
    BY DEF AccountsTyped, IsRequest
  <2>3. QED
    BY <2>1, <2>2 DEF PasswordsAreTrue
<1>4. ChargeIsKept'
  <2>1. CASE outrun
    BY <2>1 DEF ChargeIsKept
  <2>2. CASE InCharge /\ ~outrun
    <3>1. \A u \in People : IsAdmin(u) => IsAdmin(u)'
      BY DEF IsAdmin
    <3>2. \A r \in Requests : request'[r].overtaken \/ Knows(request[r])'
      <4>1. ASSUME NEW r \in Requests, ~request'[r].overtaken PROVE Knows(request[r])'
        <5>1. Knows(request[r]) /\ request[r] \in IsRequest
          BY <2>2, <4>1 DEF InCharge, AccountsTyped
        <5>2. QED
          BY <5>1, KnowsStays
      <4>2. QED
        BY <4>1
    <3>3. (\E u \in People : users'[u].is) => \E u \in People : IsAdmin(u)'
      BY <2>2, <3>1 DEF InCharge
    <3>4. InCharge'
      <4>1. \A t \in Setups : setup'[t] = "made" => \E u \in People : users'[u].is
        BY <2>2
      <4>2. \A t, t2 \in Setups : setup'[t] = "made" /\ setup'[t2] = "made" => t = t2
        BY <2>2
      <4>3. QED
        BY <3>2, <3>3, <4>1, <4>2 DEF InCharge
    <3>5. QED
      BY <3>4 DEF ChargeIsKept
  <2>3. QED
    BY <2>1, <2>2 DEF ChargeIsKept
<1>5. QED
  BY <1>1, <1>2, <1>3, <1>4

\* First-run setup.
LEMMA SetupStep == ASSUME AccountsInv, SetupNext PROVE AccountsInv'
<1> USE DEF AccountsInv
<1>1. /\ UNCHANGED <<manages, visit, request, settled, passwords, outrun, failures>>
  BY DEF SetupNext, LockSetup, CreateFirstUser
<1>2. visit' \in [Visits -> IsVisit] /\ failures' \in 0 .. MaxFailures
  BY <1>1 DEF AccountsTyped
<1>3. ASSUME NEW s \in Setups, LockSetup(s)
      PROVE  AccountsInv'
  <2>1. /\ users' = users /\ lock' \in Setups \cup {"free"}
        /\ setup' = [setup EXCEPT ![s] = "locked"]
    BY <1>3 DEF LockSetup
  <2>2. setup' \in [Setups -> {"idle", "locked", "made", "refused"}]
    BY <2>1 DEF AccountsTyped
  <2>3. \A t \in Setups : setup'[t] = "made" => setup[t] = "made"
    BY <2>1 DEF AccountsTyped
  <2>4. \A u \in People : users'[u] = users[u] /\ users'[u].password \in Nat
    BY <2>1 DEF AccountsTyped, Users
  <2>5. users' \in [People -> Users]
    BY <2>1 DEF AccountsTyped
  <2>6. QED
    BY <1>1, <1>2, <2>1, <2>2, <2>3, <2>4, <2>5, MildStep DEF InCharge, RolesExist, PasswordsAreTrue
<1>4. ASSUME NEW s \in Setups, NEW u \in People, NEW e \in Emails, CreateFirstUser(s, u, e)
      PROVE  AccountsInv'
  <2>1. lock' = "free"
    BY <1>4 DEF CreateFirstUser
  <2>2. CASE ~Open
    <3>1. users' = users /\ setup' = [setup EXCEPT ![s] = "refused"]
      BY <1>4, <2>2 DEF CreateFirstUser
    <3>2. setup' \in [Setups -> {"idle", "locked", "made", "refused"}]
      BY <3>1 DEF AccountsTyped
    <3>3. \A t \in Setups : setup'[t] = "made" => setup[t] = "made"
      BY <3>1 DEF AccountsTyped
    <3>4. \A w \in People : users'[w] = users[w] /\ users'[w].password \in Nat
      BY <3>1 DEF AccountsTyped, Users
    <3>5. users' \in [People -> Users]
      BY <3>1 DEF AccountsTyped
    <3>6. QED
      BY <1>1, <1>2, <2>1, <3>1, <3>2, <3>3, <3>4, <3>5, MildStep DEF InCharge, RolesExist, PasswordsAreTrue
  <2>3. CASE Open
    <3> DEFINE new == [is |-> TRUE, role |-> "admin", disabled |-> FALSE, password |-> passwords,
                       email |-> e, subject |-> "none"]
    <3>1. /\ users[u] = Nobody /\ users' = [users EXCEPT ![u] = new]
          /\ setup' = [setup EXCEPT ![s] = "made"]
      BY <1>4, <2>3 DEF CreateFirstUser, Insertable, Insert, Account
    <3>2. new \in Users
      BY AccountBounds DEF AccountsTyped, Users, AllRoles
    <3>3. new.role = "admin" /\ new.is = TRUE /\ new.disabled = FALSE /\ new.password = passwords
      OBVIOUS
    <3> HIDE DEF new
    <3>4. \A w \in People : users'[w] = IF w = u THEN new ELSE users[w]
      BY <3>1 DEF AccountsTyped
    <3>5. \A w \in People : users[w].is = FALSE
      BY <2>3 DEF Open, Rows, AccountsTyped, Users
    <3>6. users' \in [People -> Users]
      BY <3>1, <3>2 DEF AccountsTyped
    <3>7. setup' \in [Setups -> {"idle", "locked", "made", "refused"}]
      BY <3>1 DEF AccountsTyped
    <3>8. InCharge => \A t \in Setups : setup'[t] = "made" => t = s
      BY <3>1, <3>5 DEF InCharge, AccountsTyped
    <3>9. IsAdmin(u)' /\ users'[u].is
      BY <3>3, <3>4 DEF IsAdmin
    <3>10. \A w \in People : /\ users[w].password <= users'[w].password
                             /\ users'[w].password <= passwords
                             /\ users'[w].is => users'[w].role \in DOMAIN manages
      <4>1. passwords \in Nat /\ Nobody.password = 0 /\ \A w \in People : users[w].password \in Nat
        BY DEF AccountsTyped, Users, Nobody
      <4>2. QED
        BY <3>1, <3>3, <3>4, <3>5, <4>1 DEF PasswordsAreTrue, AccountsTyped
    <3>11. QED
      BY <1>1, <1>2, <2>1, <3>5, <3>6, <3>7, <3>8, <3>9, <3>10, MildStep
  <2>4. QED
    BY <2>2, <2>3
<1>5. QED
  BY <1>3, <1>4 DEF SetupNext

\* Only how far browsers are changes, and none gets further than its account's
\* password lets it.
LEMMA BrowsersMove ==
  ASSUME AccountsInv,
         UNCHANGED <<users, manages, request, lock, setup, settled, passwords, outrun>>,
         failures' \in 0 .. MaxFailures, visit' \in [Visits -> IsVisit],
         \A v \in Visits : \/ visit'[v] = visit[v]
                           \/ visit'[v].at \notin {"verified", "in"}
                           \/ Outlives(visit'[v])
                           \/ visit'[v].password >= settled[visit'[v].who]
  PROVE  AccountsInv'
<1>1. users' \in [People -> Users] /\ lock' \in Setups \cup {"free"}
      /\ setup' \in [Setups -> {"idle", "locked", "made", "refused"}]
  BY DEF AccountsInv, AccountsTyped
<1>2. \A u \in People : /\ users[u].password <= users'[u].password /\ users'[u].password <= passwords
                        /\ users'[u].is => users'[u].role \in DOMAIN manages
  <2>1. \A u \in People : users[u].password \in Nat
    BY DEF AccountsInv, AccountsTyped, Users
  <2>2. QED
    BY <2>1 DEF AccountsInv, PasswordsAreTrue, RolesExist
<1>3. outrun \/ InCharge =>
        /\ \A s \in Setups : setup'[s] = "made" => outrun \/ \E u \in People : users'[u].is
        /\ outrun \/ \A s, t \in Setups : setup'[s] = "made" /\ setup'[t] = "made" => s = t
  BY DEF InCharge
<1>4. QED
  BY <1>1, <1>2, <1>3, MildStep

\* Signing in with a password, and ending sessions one by one.
LEMMA SessionsStep == ASSUME AccountsInv, NEW v \in Visits, SessionStep(v) PROVE AccountsInv'
<1>1. visit[v] \in IsVisit /\ failures \in 0 .. MaxFailures
  BY DEF AccountsInv, AccountsTyped
<1>2. ASSUME NEW u \in People, Authenticate(v, u)
      PROVE  AccountsInv'
  <2> DEFINE c == SessionFor(u, users[u].password)
  <2>1. c \in IsVisit /\ c.password >= settled[c.who]
    BY DEF SessionFor, AccountsInv, AccountsTyped, Users, IsVisit, PasswordsAreTrue
  <2>2. /\ visit' = [visit EXCEPT ![v] = c]
        /\ UNCHANGED <<users, manages, request, lock, setup, settled, passwords, outrun, failures>>
    BY <1>2 DEF Authenticate
  <2> HIDE DEF c
  <2>3. visit' \in [Visits -> IsVisit] /\ \A w \in Visits : visit'[w] = visit[w] \/ visit'[w] = c
    BY <2>1, <2>2 DEF AccountsInv, AccountsTyped
  <2>4. QED
    BY <1>1, <2>1, <2>2, <2>3, BrowsersMove
<1>3. ASSUME CreateSession(v) PROVE AccountsInv'
  <2>1. UNCHANGED <<users, manages, request, lock, setup, settled, passwords, outrun>>
    BY <1>3 DEF CreateSession
  <2>2. failures' \in 0 .. MaxFailures
    BY <1>1, <1>3, AccountBounds DEF CreateSession, Failure
  <2>3. PICK at \in {"in", "over"} : visit' = [visit EXCEPT ![v].at = at]
    BY <1>3 DEF CreateSession
  <2>4. visit[v].at = "verified"
    BY <1>3 DEF CreateSession
  <2>5. visit' \in [Visits -> IsVisit]
    BY <1>1, <2>3 DEF AccountsInv, AccountsTyped, IsVisit
  <2>6. \A w \in Visits \ {v} : visit'[w] = visit[w]
    BY <2>3 DEF AccountsInv, AccountsTyped
  <2>7. /\ Outlives(visit'[v]) = Outlives(visit[v]) /\ visit'[v].password = visit[v].password
        /\ visit'[v].who = visit[v].who
    BY <1>1, <2>3 DEF AccountsInv, AccountsTyped, IsVisit, Outlives
  <2>8. Outlives(visit[v]) \/ visit[v].password >= settled[visit[v].who]
    BY <2>4 DEF AccountsInv, PasswordsAreTrue
  <2>9. QED
    BY <2>1, <2>2, <2>5, <2>6, <2>7, <2>8, BrowsersMove
<1>4. ASSUME SessionGone(v) PROVE AccountsInv'
  <2>1. /\ UNCHANGED <<users, manages, request, lock, setup, settled, passwords, outrun, failures>>
        /\ visit' = [visit EXCEPT ![v].at = "over"]
    BY <1>4 DEF SessionGone
  <2>2. visit' \in [Visits -> IsVisit] /\ \A w \in Visits : visit'[w] = visit[w] \/ visit'[w].at = "over"
    BY <1>1, <2>1 DEF AccountsInv, AccountsTyped, IsVisit
  <2>3. QED
    BY <1>1, <2>1, <2>2, BrowsersMove
<1>5. QED
  BY <1>2, <1>3, <1>4 DEF SessionStep, Logout, EndSession, PruneSessions

\* A call gets on without writing: what it has found out is so.
LEMMA CallMoves ==
  ASSUME AccountsInv, NEW r \in Requests, NEW c \in IsRequest, request' = [request EXCEPT ![r] = c],
         UNCHANGED <<users, manages, visit, lock, setup, settled, passwords, outrun, failures>>,
         c.overtaken = request[r].overtaken, c.password = request[r].password, c.at # "idle",
         c.whom = request[r].whom \/ request[r].at = "idle",
         InCharge /\ ~request[r].overtaken => Knows(c)
  PROVE  AccountsInv'
<1> USE DEF AccountsInv
<1>1. /\ request' \in [Requests -> IsRequest]
      /\ \A q \in Requests : request'[q] = IF q = r THEN c ELSE request[q]
  BY OneCallChanges
<1>2. AccountsTyped' /\ RolesExist'
  BY <1>1 DEF AccountsTyped, RolesExist
<1>3. PasswordsAreTrue'
  <2>1. c.whom \in People /\ \A u \in People : users[u].password \in Nat
    BY DEF IsRequest, AccountsTyped, Users
  <2>2. \A u \in People : settled[u] \in Nat
    BY DEF AccountsTyped
  <2>3. c.password <= users[c.whom].password
    BY <2>1, <2>2 DEF PasswordsAreTrue
  <2>4. QED
    BY <1>1, <2>3 DEF PasswordsAreTrue
<1>4. ChargeIsKept'
  <2>1. ASSUME InCharge PROVE InCharge'
    <3>1. ASSUME NEW q \in Requests PROVE request'[q].overtaken \/ Knows(request[q])'
      <4>1. CASE q = r
        BY <1>1, <2>1, <4>1 DEF Knows, Others, IsAdmin
      <4>2. CASE q # r
        BY <1>1, <2>1, <4>2 DEF InCharge, Knows, Others, IsAdmin
      <4>3. QED
        BY <4>1, <4>2
    <3>2. QED
      BY <2>1, <3>1 DEF InCharge, IsAdmin
  <2>2. QED
    BY <2>1 DEF ChargeIsKept
<1>5. QED
  BY <1>2, <1>3, <1>4

\* Who is alone is the only administrator there is, as far as can be counted.
LEMMA NotAlone ==
  ASSUME AccountsInv, NEW u \in People, ~(Cardinality(Admins) <= 1)
  PROVE  Others(u)
<1>1. SUFFICES ASSUME ~Others(u) PROVE FALSE
  OBVIOUS
<1>2. \A w \in Admins : w = u
  BY <1>1 DEF Admins, Rows, Others, IsAdmin, AccountsInv, AccountsTyped
<1>3. Admins = {} \/ Admins = {u}
  BY <1>2
<1>4. Cardinality(Admins) \in {0, 1}
  BY <1>3, FS_EmptySet, FS_Singleton
<1>5. QED
  BY <1>4

\* A call comes in, finds its account, or checks what it is about to do.
LEMMA CallsLook ==
  ASSUME AccountsInv, NEW r \in Requests,
         \/ \E v \in Visits, u \in People, wish \in Wishes : Enter(r, v, u, wish)
         \/ Find(r) \/ CheckRole(r) \/ CheckSwitch(r) \/ CheckRemove(r)
  PROVE  AccountsInv'
<1> DEFINE q == request[r]
<1>1. q \in IsRequest /\ q.whom \in People /\ users[q.whom] \in Users
  BY DEF AccountsInv, AccountsTyped, IsRequest
<1>2. UNCHANGED <<users, manages, visit, lock, setup, settled, passwords, outrun, failures>>
  BY DEF Enter, Find, CheckRole, CheckSwitch, CheckRemove
<1>3. ASSUME NEW v \in Visits, NEW u \in People, NEW wish \in Wishes, Enter(r, v, u, wish)
      PROVE  AccountsInv'
  <2> DEFINE by == visit[v].who
             c == [q EXCEPT !.at = "find", !.by = by, !.whom = u, !.wish = wish]
  <2>1. by \in People
    BY DEF AccountsInv, AccountsTyped, IsVisit
  <2>2. q.at = "idle" /\ request' = [request EXCEPT ![r] = c]
    BY <1>3 DEF Enter
  <2> HIDE DEF by
  <2>3. c \in IsRequest /\ c.at = "find" /\ c.overtaken = q.overtaken /\ c.password = q.password
    BY <1>1, <2>1 DEF IsRequest, RequestAt
  <2> HIDE DEF c
  <2>4. Knows(c)
    BY <2>3 DEF Knows
  <2>5. QED
    BY <1>2, <2>2, <2>3, <2>4, CallMoves
<1>4. ASSUME NEW at \in RequestAt, at # "idle", request' = [request EXCEPT ![r].at = at],
             InCharge /\ ~q.overtaken => Knows([q EXCEPT !.at = at])
      PROVE  AccountsInv'
  <2> DEFINE c == [q EXCEPT !.at = at]
  <2>1. c \in IsRequest /\ c.at = at /\ c.overtaken = q.overtaken /\ c.password = q.password /\ c.whom = q.whom
    BY <1>1 DEF IsRequest
  <2>2. request' = [request EXCEPT ![r] = c]
    BY <1>4
  <2>3. InCharge /\ ~q.overtaken => Knows(c)
    BY <1>4
  <2> HIDE DEF c
  <2>4. QED
    BY <1>2, <1>4, <2>1, <2>2, <2>3, CallMoves
<1>5. \A at \in RequestAt : /\ [q EXCEPT !.at = at].at = at /\ [q EXCEPT !.at = at].whom = q.whom
                            /\ [q EXCEPT !.at = at].saw = q.saw /\ [q EXCEPT !.at = at].wish = q.wish
  BY <1>1 DEF IsRequest
<1>6. {"role", "recast", "switch", "write", "end", "remove", "over"} \subseteq RequestAt
  BY DEF RequestAt
<1>7. \A at \in {"end", "over"} : Knows([q EXCEPT !.at = at])
  BY <1>5, <1>6 DEF Knows
<1>8. ASSUME ~Alone(r), q.at \in {"role", "remove"}, InCharge, ~q.overtaken
      PROVE  Others(q.whom)
  <2>1. users[q.whom].is /\ users[q.whom].role = q.saw.role
    BY <1>8 DEF InCharge, Knows
  <2>2. CASE q.saw.role = "admin"
    BY <1>1, <1>8, <2>2, NotAlone DEF Alone
  <2>3. CASE q.saw.role # "admin"
    <3>1. ~IsAdmin(q.whom)
      BY <2>1, <2>3 DEF IsAdmin
    <3>2. \E w \in People : IsAdmin(w)
      BY <1>1, <1>8, <2>1 DEF InCharge
    <3>3. QED
      BY <3>1, <3>2 DEF Others
  <2>4. QED
    BY <2>2, <2>3
<1>9. CASE CheckRole(r)
  <2>0. InCharge /\ ~q.overtaken => q.wish.op = "update"
    BY <1>9 DEF InCharge, Knows, CheckRole
  <2>1. CASE q.wish.role \in {"keep", q.saw.role}
    <3>1. q.at = "role" /\ request' = [request EXCEPT ![r].at = "switch"]
      BY <1>9, <2>1 DEF CheckRole, At
    <3>2. ASSUME InCharge, ~q.overtaken, q.saw.role # "admin" PROVE Others(q.whom)
      BY <1>8, <3>1, <3>2 DEF Alone
    <3>3. InCharge /\ ~q.overtaken => Knows([q EXCEPT !.at = "switch"])
      BY <1>5, <1>6, <2>0, <3>2 DEF Knows
    <3>4. QED
      BY <1>4, <1>6, <3>1, <3>3
  <2>2. CASE q.wish.role \notin {"keep", q.saw.role} /\ Alone(r)
    <3>1. request' = [request EXCEPT ![r].at = "over"]
      BY <1>9, <2>2 DEF CheckRole, At
    <3>2. QED
      BY <1>4, <1>6, <1>7, <3>1
  <2>3. CASE q.wish.role \notin {"keep", q.saw.role} /\ ~Alone(r)
    <3>1. q.at = "role" /\ request' = [request EXCEPT ![r].at = "recast"]
      BY <1>9, <2>3 DEF CheckRole, At
    <3>2. InCharge /\ ~q.overtaken => Knows([q EXCEPT !.at = "recast"])
      BY <1>5, <1>6, <1>8, <2>0, <2>3, <3>1 DEF Knows
    <3>3. QED
      BY <1>4, <1>6, <3>1, <3>2
  <2>4. QED
    BY <2>1, <2>2, <2>3
<1>10. CASE CheckRemove(r)
  <2>1. q.at = "remove"
    BY <1>10 DEF CheckRemove
  <2>2. CASE q.whom = q.by \/ Alone(r)
    <3>1. request' = [request EXCEPT ![r].at = "over"]
      BY <1>10, <2>2 DEF CheckRemove
    <3>2. QED
      BY <1>4, <1>6, <1>7, <3>1
  <2>3. CASE ~(q.whom = q.by \/ Alone(r))
    <3>1. request' = [request EXCEPT ![r].at = "write"]
      BY <1>10, <2>3 DEF CheckRemove
    <3>2. InCharge /\ ~q.overtaken => Knows([q EXCEPT !.at = "write"])
      BY <1>5, <1>6, <1>8, <2>1, <2>3 DEF Knows
    <3>3. QED
      BY <1>4, <1>6, <3>1, <3>2
  <2>4. QED
    BY <2>2, <2>3
<1>11. CASE CheckSwitch(r)
  <2>1. q.at = "switch"
    BY <1>11 DEF CheckSwitch
  <2> DEFINE no == \/ q.wish.disabled = q.saw.disabled
                   \/ q.wish.disabled /\ (q.whom = q.by \/ Alone(r))
  <2>2. CASE no
    <3>1. request' = [request EXCEPT ![r].at = "over"]
      BY <1>11, <2>2 DEF CheckSwitch, At
    <3>2. QED
      BY <1>4, <1>6, <1>7, <3>1
  <2>3. CASE ~no
    <3>1. request' = [request EXCEPT ![r].at = "write"]
      BY <1>11, <2>3 DEF CheckSwitch, At
    <3>2. ASSUME InCharge, ~q.overtaken, q.wish.disabled PROVE Others(q.whom)
      <4>1. CASE q.saw.role = "admin"
        BY <1>1, <2>3, <3>2, <4>1, NotAlone DEF Alone
      <4>2. CASE q.saw.role # "admin"
        BY <2>1, <3>2, <4>2 DEF InCharge, Knows
      <4>3. QED
        BY <4>1, <4>2
    <3>3. InCharge /\ ~q.overtaken => q.wish.op = "update"
      BY <2>1 DEF InCharge, Knows
    <3>4. InCharge /\ ~q.overtaken => Knows([q EXCEPT !.at = "write"])
      BY <1>5, <1>6, <3>2, <3>3 DEF Knows
    <3>5. QED
      BY <1>4, <1>6, <3>1, <3>4
  <2>4. QED
    BY <2>2, <2>3
<1>12. CASE Find(r)
  <2> DEFINE u == users[q.whom]
  <2>1. q.at = "find"
    BY <1>12 DEF Find
  <2>2. CASE ~u.is
    <3>1. request' = [request EXCEPT ![r].at = "over"]
      BY <1>12, <2>2 DEF Find, At
    <3>2. QED
      BY <1>4, <1>6, <1>7, <3>1
  <2>3. CASE u.is
    <3> DEFINE at == CASE q.wish.op = "update" -> "role"
                       [] q.wish.op = "password" -> "end"
                       [] OTHER -> "remove"
               c == [q EXCEPT !.saw = u, !.at = at]
    <3>1. request' = [request EXCEPT ![r] = c]
      BY <1>12, <2>3 DEF Find
    <3>2. at \in {"role", "end", "remove"} /\ (at = "role" => q.wish.op = "update")
      OBVIOUS
    <3> HIDE DEF at
    <3>3. u \in Users
      BY <1>1
    <3> HIDE DEF u
    <3>4. /\ c \in IsRequest /\ c.at = at /\ c.saw = u /\ c.overtaken = q.overtaken
          /\ c.password = q.password /\ c.whom = q.whom /\ c.wish = q.wish
      BY <1>1, <3>2, <3>3 DEF IsRequest, RequestAt
    <3> HIDE DEF c
    <3>5. Knows(c)
      BY <2>3, <3>2, <3>4 DEF Knows, u
    <3>6. QED
      BY <1>2, <3>1, <3>2, <3>4, <3>5, CallMoves
  <2>4. QED
    BY <2>2, <2>3
<1>13. QED
  BY <1>3, <1>9, <1>10, <1>11, <1>12

\* A call writes onto its account: the others looked at what is no more, and it
\* has somebody left in charge unless one of them did so to it.
LEMMA WriteKeepsCharge ==
  ASSUME AccountsTyped, AccountsTyped', ChargeIsKept, NEW r \in Requests,
         NEW where \in {"switch", "end", "over"}, Onto(r, where), UNCHANGED setup,
         \A u \in People \ {request[r].whom} : users'[u] = users[u],
         InCharge /\ ~request[r].overtaken =>
           /\ \E u \in People : IsAdmin(u)'
           /\ where = "switch" => Others(request[r].whom) /\ request[r].wish.op = "update"
  PROVE  ChargeIsKept'
<1>1. SUFFICES ASSUME ~outrun' PROVE InCharge'
  BY DEF ChargeIsKept
<1>2. InCharge /\ ~request[r].overtaken
  BY <1>1 DEF ChargeIsKept, Onto
<1>3. PICK u \in People : IsAdmin(u)'
  BY <1>2
<1>4. \A s \in Setups : setup'[s] = setup[s]
  OBVIOUS
<1>5. ASSUME NEW q \in Requests PROVE request'[q].overtaken \/ Knows(request[q])'
  <2>1. request[q] \in IsRequest
    BY DEF AccountsTyped
  <2>2. CASE q = r
    <3>1. /\ request'[q].at = where /\ request'[q].whom = request[q].whom
          /\ request'[q].wish = request[q].wish
      BY <2>1, <2>2 DEF Onto, IsRequest
    <3>2. where = "switch" => Others(request[q].whom)'
      <4>1. ASSUME where = "switch" PROVE \E w \in People : w # request'[q].whom /\ IsAdmin(w)'
        <5>1. PICK w \in People : w # request[q].whom /\ IsAdmin(w)
          BY <1>2, <2>2, <4>1 DEF Others
        <5>2. IsAdmin(w)'
          BY <2>2, <5>1 DEF IsAdmin
        <5>3. QED
          BY <3>1, <5>1, <5>2
      <4>2. QED
        BY <4>1 DEF Others
    <3>3. QED
      BY <1>2, <2>2, <3>1, <3>2 DEF Knows
  <2>3. CASE q # r /\ request[q].at \notin {"idle", "find", "over"}
    <3>1. request'[q].overtaken
      BY <2>1, <2>3 DEF Onto, IsRequest
    <3>2. QED
      BY <3>1
  <2>4. CASE q # r /\ request[q].at \in {"idle", "find", "over"}
    <3>1. request'[q] = request[q]
      BY <2>4 DEF Onto
    <3>2. QED
      BY <2>4, <3>1 DEF Knows
  <2>5. QED
    BY <2>2, <2>3, <2>4
<1>6. QED
  BY <1>2, <1>3, <1>4, <1>5 DEF InCharge, IsAdmin

\* What a write does to the calls themselves.
LEMMA OntoCalls ==
  ASSUME AccountsInv, NEW r \in Requests, request[r].at # "idle",
         NEW where \in {"switch", "end", "over"}, Onto(r, where)
  PROVE  /\ request' \in [Requests -> IsRequest] /\ outrun' \in BOOLEAN
         /\ \A q \in Requests :
              /\ request'[q].whom = request[q].whom /\ request'[q].password = request[q].password
              /\ request'[q].at = "idle" => request[q].at = "idle"
<1> USE DEF Onto
<1>1. ASSUME NEW q \in Requests
      PROVE  /\ request'[q] \in IsRequest
             /\ request'[q].whom = request[q].whom /\ request'[q].password = request[q].password
             /\ request'[q].at = "idle" => request[q].at = "idle"
  <2>1. request[q] \in IsRequest
    BY DEF AccountsInv, AccountsTyped
  <2>2. CASE q = r
    BY <2>1, <2>2 DEF IsRequest, RequestAt
  <2>3. CASE q # r /\ request[q].at \notin {"idle", "find", "over"}
    BY <2>1, <2>3 DEF IsRequest
  <2>4. CASE q # r /\ request[q].at \in {"idle", "find", "over"}
    BY <2>1, <2>4
  <2>5. QED
    BY <2>2, <2>3, <2>4
<1>2. request' \in [Requests -> IsRequest]
  BY <1>1
<1>3. outrun' \in BOOLEAN
  BY Zenon
<1>4. QED
  BY <1>1, <1>2, <1>3

\* A call that finds its account gone ends.
LEMMA CallEnds ==
  ASSUME AccountsInv, NEW r \in Requests, At(r, "over"),
         UNCHANGED <<users, manages, visit, lock, setup, settled, passwords, outrun, failures>>
  PROVE  AccountsInv'
<1> DEFINE c == [request[r] EXCEPT !.at = "over"]
<1>1. request[r] \in IsRequest
  BY DEF AccountsInv, AccountsTyped
<1>2. /\ c \in IsRequest /\ c.at = "over" /\ c.overtaken = request[r].overtaken
      /\ c.password = request[r].password /\ c.whom = request[r].whom
  BY <1>1 DEF IsRequest, RequestAt
<1>3. request' = [request EXCEPT ![r] = c]
  BY DEF At
<1> HIDE DEF c
<1>4. Knows(c)
  BY <1>2 DEF Knows
<1>5. QED
  BY <1>2, <1>3, <1>4, CallMoves

\* Accounts change in who they are to others, and nothing but calls beside.
LEMMA CallsWriteAccounts ==
  ASSUME AccountsInv, NEW r \in Requests, request[r].at # "idle",
         NEW where \in {"switch", "end", "over"}, Onto(r, where),
         NEW c \in Users, users' = [users EXCEPT ![request[r].whom] = c],
         c.password = users[request[r].whom].password, c.is => c.role \in DOMAIN manages,
         UNCHANGED <<manages, lock, setup, settled, passwords, failures>>,
         visit' \in [Visits -> IsVisit],
         \A v \in Visits : visit'[v] = visit[v] \/ visit'[v].at = "over",
         InCharge /\ ~request[r].overtaken =>
           /\ \E u \in People : IsAdmin(u)'
           /\ where = "switch" => Others(request[r].whom) /\ request[r].wish.op = "update"
  PROVE  AccountsInv'
<1> USE DEF AccountsInv
<1>1. /\ request' \in [Requests -> IsRequest] /\ outrun' \in BOOLEAN
      /\ \A q \in Requests :
           /\ request'[q].whom = request[q].whom /\ request'[q].password = request[q].password
           /\ request'[q].at = "idle" => request[q].at = "idle"
  BY OntoCalls
<1>2. request[r].whom \in People
  BY DEF AccountsTyped, IsRequest
<1>3. \A u \in People : users'[u] = IF u = request[r].whom THEN c ELSE users[u]
  BY DEF AccountsTyped
<1>4. users' \in [People -> Users]
  BY DEF AccountsTyped
<1>5. AccountsTyped'
  BY <1>1, <1>4 DEF AccountsTyped
<1>6. RolesExist'
  BY <1>3 DEF RolesExist
<1>7. PasswordsAreTrue'
  <2>1. \A u \in People : users'[u].password = users[u].password
    BY <1>3
  <2>2. \A q \in Requests : request[q].whom \in People
    BY DEF AccountsTyped, IsRequest
  <2>3. \A q \in Requests : /\ request'[q].password <= users'[request'[q].whom].password
                            /\ request'[q].at = "idle" => request'[q].password = 0
    BY <1>1, <2>1, <2>2 DEF PasswordsAreTrue
  <2>4. QED
    BY <2>1, <2>3 DEF PasswordsAreTrue
<1>8. ChargeIsKept'
  BY <1>3, <1>5, WriteKeepsCharge
<1>9. QED
  BY <1>5, <1>6, <1>7, <1>8

LEMMA RoleIsSet == ASSUME AccountsInv, NEW r \in Requests, SetUserRole(r) PROVE AccountsInv'
<1> DEFINE q == request[r]
           u == q.whom
<1>1. /\ q \in IsRequest /\ u \in People /\ users[u] \in Users /\ q.at = "recast"
      /\ UNCHANGED <<manages, visit, lock, setup, settled, passwords, failures>>
  BY DEF AccountsInv, AccountsTyped, IsRequest, SetUserRole
<1>2. CASE users[u].is /\ q.wish.role \in DOMAIN manages
  <2> DEFINE c == [users[u] EXCEPT !.role = q.wish.role]
  <2>1. users' = [users EXCEPT ![u] = c] /\ Onto(r, "switch")
    BY <1>2 DEF SetUserRole
  <2>2. q.wish.role \in AllRoles
    BY <1>2 DEF AccountsInv, AccountsTyped
  <2>3. /\ c \in Users /\ c.password = users[u].password /\ c.role = q.wish.role
    BY <1>1, <2>2 DEF Users
  <2> HIDE DEF c
  <2>4. c.is => c.role \in DOMAIN manages
    BY <1>2, <2>3
  <2>5. ASSUME InCharge, ~q.overtaken
        PROVE  (\E w \in People : IsAdmin(w)') /\ Others(u) /\ q.wish.op = "update"
    <3>1. Others(u) /\ q.wish.op = "update"
      BY <1>1, <2>5 DEF InCharge, Knows
    <3>2. PICK w \in People : w # u /\ IsAdmin(w)
      BY <3>1 DEF Others
    <3>3. IsAdmin(w)'
      BY <2>1, <3>2 DEF IsAdmin, AccountsInv, AccountsTyped
    <3>4. QED
      BY <3>1, <3>3
  <2>6. visit' \in [Visits -> IsVisit] /\ \A v \in Visits : visit'[v] = visit[v]
    BY <1>1 DEF AccountsInv, AccountsTyped
  <2>7. QED
    BY <1>1, <2>1, <2>3, <2>4, <2>5, <2>6, CallsWriteAccounts
<1>3. CASE ~(users[u].is /\ q.wish.role \in DOMAIN manages)
  <2>1. At(r, "over") /\ UNCHANGED <<users, outrun>>
    BY <1>3 DEF SetUserRole
  <2>2. QED
    BY <1>1, <2>1, CallEnds
<1>4. QED
  BY <1>2, <1>3

LEMMA SwitchIsSet == ASSUME AccountsInv, NEW r \in Requests, SetUserDisabled(r) PROVE AccountsInv'
<1> DEFINE q == request[r]
           u == q.whom
<1>1. /\ q \in IsRequest /\ u \in People /\ users[u] \in Users /\ q.at = "write" /\ q.wish.op = "update"
      /\ UNCHANGED <<manages, visit, lock, setup, settled, passwords, failures>>
  BY DEF AccountsInv, AccountsTyped, IsRequest, SetUserDisabled
<1>2. CASE users[u].is
  <2> DEFINE c == [users[u] EXCEPT !.disabled = q.wish.disabled]
             where == IF q.wish.disabled THEN "end" ELSE "over"
  <2>1. users' = [users EXCEPT ![u] = c] /\ Onto(r, where)
    BY <1>2 DEF SetUserDisabled
  <2>2. q.wish.disabled \in BOOLEAN
    BY <1>1 DEF IsRequest, Wishes
  <2>3. /\ c \in Users /\ c.password = users[u].password /\ c.role = users[u].role
        /\ c.is = users[u].is /\ c.disabled = q.wish.disabled
    BY <1>1, <2>2 DEF Users
  <2> HIDE DEF c
  <2>4. c.is => c.role \in DOMAIN manages
    BY <1>1, <1>2, <2>3 DEF AccountsInv, RolesExist
  <2>5. ASSUME InCharge, ~q.overtaken
        PROVE  \E w \in People : IsAdmin(w)'
    <3>1. CASE q.wish.disabled
      <4>1. Others(u)
        BY <1>1, <2>5, <3>1 DEF InCharge, Knows
      <4>2. PICK w \in People : w # u /\ IsAdmin(w)
        BY <4>1 DEF Others
      <4>3. QED
        BY <2>1, <4>2 DEF IsAdmin, AccountsInv, AccountsTyped
    <3>2. CASE ~q.wish.disabled
      <4>1. PICK w \in People : IsAdmin(w)
        BY <1>1, <1>2, <2>5 DEF InCharge
      <4>2. CASE w # u
        BY <2>1, <4>1, <4>2 DEF IsAdmin, AccountsInv, AccountsTyped
      <4>3. CASE w = u
        <5>1. users'[w] = c
          BY <1>1, <2>1, <4>3 DEF AccountsInv, AccountsTyped
        <5>2. IsAdmin(w)'
          BY <2>3, <3>2, <4>1, <4>3, <5>1 DEF IsAdmin
        <5>3. QED
          BY <5>2
      <4>4. QED
        BY <4>2, <4>3
    <3>3. QED
      BY <3>1, <3>2
  <2>6. visit' \in [Visits -> IsVisit] /\ \A v \in Visits : visit'[v] = visit[v]
    BY <1>1 DEF AccountsInv, AccountsTyped
  <2>7. where \in {"end", "over"}
    OBVIOUS
  <2> HIDE DEF where
  <2>8. QED
    BY <1>1, <2>1, <2>3, <2>4, <2>5, <2>6, <2>7, CallsWriteAccounts
<1>3. CASE ~users[u].is
  <2>1. At(r, "over") /\ UNCHANGED <<users, outrun>>
    BY <1>3 DEF SetUserDisabled
  <2>2. QED
    BY <1>1, <2>1, CallEnds
<1>4. QED
  BY <1>2, <1>3

\* A call ends, and the sessions that have to go with it are gone.
LEMMA CallEndsSessions ==
  ASSUME AccountsInv, NEW r \in Requests, At(r, "over"),
         UNCHANGED <<users, manages, lock, setup, passwords, outrun>>,
         failures' \in 0 .. MaxFailures, visit' \in [Visits -> IsVisit],
         settled' \in [People -> 0 .. MaxPasswords],
         \A u \in People : settled'[u] <= users[u].password,
         \A v \in Visits : \/ visit'[v].at \notin {"verified", "in"}
                           \/ Outlives(visit'[v])
                           \/ visit'[v].password >= settled'[visit'[v].who]
  PROVE  AccountsInv'
<1> USE DEF AccountsInv
<1> DEFINE c == [request[r] EXCEPT !.at = "over"]
<1>1. request[r] \in IsRequest
  BY DEF AccountsTyped
<1>2. /\ c \in IsRequest /\ c.at = "over" /\ c.overtaken = request[r].overtaken
      /\ c.password = request[r].password /\ c.whom = request[r].whom
  BY <1>1 DEF IsRequest, RequestAt
<1>3. request' = [request EXCEPT ![r] = c]
  BY DEF At
<1> HIDE DEF c
<1>4. /\ request' \in [Requests -> IsRequest]
      /\ \A q \in Requests : request'[q] = IF q = r THEN c ELSE request[q]
  BY <1>2, <1>3, OneCallChanges
<1>5. AccountsTyped' /\ RolesExist'
  BY <1>4 DEF AccountsTyped, RolesExist
<1>6. PasswordsAreTrue'
  BY <1>2, <1>4 DEF PasswordsAreTrue
<1>7. ChargeIsKept'
  <2>1. ASSUME InCharge PROVE InCharge'
    <3>1. \A q \in Requests : request'[q].overtaken \/ Knows(request[q])'
      BY <1>2, <1>4, <2>1 DEF InCharge, Knows, Others, IsAdmin
    <3>2. QED
      BY <2>1, <3>1 DEF InCharge, IsAdmin
  <2>2. QED
    BY <2>1 DEF ChargeIsKept
<1>8. QED
  BY <1>5, <1>6, <1>7

LEMMA UserIsDeleted == ASSUME AccountsInv, NEW r \in Requests, DeleteUser(r) PROVE AccountsInv'
<1> DEFINE q == request[r]
           u == q.whom
           c == [users[u] EXCEPT !.is = FALSE]
<1>1. /\ q \in IsRequest /\ u \in People /\ users[u] \in Users /\ q.at = "write" /\ q.wish.op = "delete"
      /\ UNCHANGED <<manages, lock, setup, settled, passwords, failures>>
      /\ users' = [users EXCEPT ![u] = c]
  BY DEF AccountsInv, AccountsTyped, IsRequest, DeleteUser
<1>2. c \in Users /\ c.password = users[u].password /\ ~c.is /\ (~users[u].is => c = users[u])
  BY <1>1 DEF Users
<1>3. visit' = [v \in Visits |-> IF v \in SessionsOf(u)
                                 THEN [visit[v] EXCEPT !.at = "over"] ELSE visit[v]]
  BY DEF DeleteUser
<1> HIDE DEF c
<1>4. visit' \in [Visits -> IsVisit] /\ \A v \in Visits : visit'[v] = visit[v] \/ visit'[v].at = "over"
  <2>1. ASSUME NEW v \in Visits
        PROVE  visit'[v] \in IsVisit /\ (visit'[v] = visit[v] \/ visit'[v].at = "over")
    <3>1. visit[v] \in IsVisit
      BY DEF AccountsInv, AccountsTyped
    <3>2. [visit[v] EXCEPT !.at = "over"] \in IsVisit /\ [visit[v] EXCEPT !.at = "over"].at = "over"
      BY <3>1 DEF IsVisit
    <3>3. QED
      BY <1>3, <3>1, <3>2
  <2>2. QED
    BY <1>3, <2>1
<1>5. CASE users[u].is
  <2>1. Onto(r, "over")
    BY <1>5 DEF DeleteUser
  <2>2. ASSUME InCharge, ~q.overtaken PROVE \E w \in People : IsAdmin(w)'
    <3>1. PICK w \in People : w # u /\ IsAdmin(w)
      BY <1>1, <2>2 DEF InCharge, Knows, Others
    <3>2. QED
      BY <1>1, <3>1 DEF IsAdmin, AccountsInv, AccountsTyped
  <2>3. QED
    BY <1>1, <1>2, <1>4, <2>1, <2>2, CallsWriteAccounts
<1>6. CASE ~users[u].is
  <2>1. At(r, "over") /\ UNCHANGED outrun
    BY <1>6 DEF DeleteUser
  <2>2. users' = users
    BY <1>1, <1>2, <1>6 DEF AccountsInv, AccountsTyped
  <2>3. \A v \in Visits : \/ visit'[v].at \notin {"verified", "in"}
                          \/ Outlives(visit'[v])
                          \/ visit'[v].password >= settled'[visit'[v].who]
    BY <1>1, <1>4 DEF AccountsInv, PasswordsAreTrue
  <2>4. failures' \in 0 .. MaxFailures /\ settled' \in [People -> 0 .. MaxPasswords]
        /\ \A w \in People : settled'[w] <= users[w].password
    BY <1>1 DEF AccountsInv, AccountsTyped, PasswordsAreTrue
  <2>5. QED
    BY <1>1, <1>4, <2>1, <2>2, <2>3, <2>4, CallEndsSessions
<1>7. QED
  BY <1>5, <1>6

LEMMA SessionsAreEnded == ASSUME AccountsInv, NEW r \in Requests, EndSessions(r) PROVE AccountsInv'
<1> DEFINE q == request[r]
           u == q.whom
<1>1. /\ q \in IsRequest /\ u \in People /\ At(r, "over")
      /\ UNCHANGED <<users, manages, lock, setup, passwords, outrun>>
  BY DEF AccountsInv, AccountsTyped, IsRequest, EndSessions
<1>2. /\ visit \in [Visits -> IsVisit] /\ settled \in [People -> 0 .. MaxPasswords]
      /\ failures \in 0 .. MaxFailures /\ q.password \in 0 .. MaxPasswords
      /\ \A w \in People : settled[w] <= users[w].password
      /\ q.password <= users[u].password
      /\ \A v \in Visits : \/ visit[v].at \notin {"verified", "in"}
                           \/ Outlives(visit[v])
                           \/ visit[v].password >= settled[visit[v].who]
  BY <1>1 DEF AccountsInv, AccountsTyped, PasswordsAreTrue, IsRequest
<1>3. CASE EndAll(u) /\ Settle(u, q.password) /\ UNCHANGED failures
  <2>1. \A w \in People : settled'[w] \in {settled[w], q.password} /\ (w # u => settled'[w] = settled[w])
    BY <1>2, <1>3 DEF Settle
  <2>2. settled' \in [People -> 0 .. MaxPasswords] /\ \A w \in People : settled'[w] <= users[w].password
    <3>1. settled' \in [People -> 0 .. MaxPasswords]
      BY <1>2, <1>3 DEF Settle
    <3>2. QED
      BY <1>2, <2>1, <3>1
  <2>3. ASSUME NEW v \in Visits
        PROVE  /\ visit'[v] \in IsVisit
               /\ \/ visit'[v].at \notin {"verified", "in"}
                  \/ Outlives(visit'[v])
                  \/ visit'[v].password >= settled'[visit'[v].who]
    <3>1. visit[v] \in IsVisit
      BY <1>2
    <3>2. CASE v \in SessionsOf(u)
      <4>1. visit'[v] = [visit[v] EXCEPT !.at = "over"]
        BY <1>3, <3>2 DEF EndAll
      <4>2. QED
        BY <3>1, <4>1 DEF IsVisit
    <3>3. CASE v \notin SessionsOf(u) /\ visit[v].at = "verified" /\ visit[v].who = u
      <4>1. visit'[v] = [visit[v] EXCEPT !.late = TRUE]
        BY <1>3, <3>3 DEF EndAll
      <4>2. Outlives(visit'[v])
        BY <3>1, <4>1 DEF IsVisit, Outlives
      <4>3. visit'[v] \in IsVisit
        BY <3>1, <4>1 DEF IsVisit
      <4>4. QED
        BY <4>2, <4>3, Zenon
    <3>4. CASE v \notin SessionsOf(u) /\ ~(visit[v].at = "verified" /\ visit[v].who = u)
      <4>1. visit'[v] = visit[v]
        BY <1>3, <3>4 DEF EndAll
      <4>2. visit[v].at \in {"verified", "in"} => visit[v].who # u
        BY <3>4 DEF SessionsOf
      <4>3. visit[v].who \in People
        BY <3>1 DEF IsVisit
      <4>4. QED
        BY <1>2, <2>1, <3>1, <4>1, <4>2, <4>3
    <3>5. QED
      BY <3>2, <3>3, <3>4
  <2>4. visit' \in [Visits -> IsVisit]
    BY <1>3, <2>3 DEF EndAll
  <2>5. failures' \in 0 .. MaxFailures
    BY <1>2, <1>3
  <2>6. QED
    BY <1>1, <2>2, <2>3, <2>4, <2>5, CallEndsSessions
<1>4. CASE Failure /\ Settle(u, q.password) /\ IF q.password > 0 THEN SpareAll(u) ELSE UNCHANGED visit
  <2>1. failures' \in 0 .. MaxFailures
    BY <1>2, <1>4, AccountBounds DEF Failure
  <2>2. \A w \in People : settled'[w] \in {settled[w], q.password} /\ (w # u => settled'[w] = settled[w])
    BY <1>2, <1>4 DEF Settle
  <2>3. settled' \in [People -> 0 .. MaxPasswords] /\ \A w \in People : settled'[w] <= users[w].password
    BY <1>2, <1>4, <2>2 DEF Settle
  <2>4. CASE ~(q.password > 0)
    <3>1. settled' = settled /\ visit' = visit
      BY <1>1, <1>2, <1>4, <2>4 DEF Settle
    <3>2. QED
      BY <1>1, <1>2, <2>1, <3>1, CallEndsSessions
  <2>5. CASE q.password > 0
    <3>1. ASSUME NEW v \in Visits
          PROVE  /\ visit'[v] \in IsVisit
                 /\ \/ visit'[v].at \notin {"verified", "in"}
                    \/ Outlives(visit'[v])
                    \/ visit'[v].password >= settled'[visit'[v].who]
      <4>1. visit[v] \in IsVisit
        BY <1>2
      <4>2. CASE v \in SessionsOf(u)
        <5>1. visit'[v] = [visit[v] EXCEPT !.spared = TRUE]
          BY <1>4, <2>5, <4>2 DEF SpareAll
        <5>2. visit'[v] \in IsVisit /\ Outlives(visit'[v])
          BY <4>1, <5>1 DEF IsVisit, Outlives
        <5>3. QED
          BY <5>2, Zenon
      <4>3. CASE v \notin SessionsOf(u) /\ visit[v].at = "verified" /\ visit[v].who = u
        <5>1. visit'[v] = [visit[v] EXCEPT !.late = TRUE]
          BY <1>4, <2>5, <4>3 DEF SpareAll
        <5>2. visit'[v] \in IsVisit /\ Outlives(visit'[v])
          BY <4>1, <5>1 DEF IsVisit, Outlives
        <5>3. QED
          BY <5>2, Zenon
      <4>4. CASE v \notin SessionsOf(u) /\ ~(visit[v].at = "verified" /\ visit[v].who = u)
        <5>1. visit'[v] = visit[v]
          BY <1>4, <2>5, <4>4 DEF SpareAll
        <5>2. visit[v].at \in {"verified", "in"} => visit[v].who # u
          BY <4>4 DEF SessionsOf
        <5>3. visit[v].who \in People
          BY <4>1 DEF IsVisit
        <5>4. QED
          BY <1>2, <2>2, <4>1, <5>1, <5>2, <5>3
      <4>5. QED
        BY <4>2, <4>3, <4>4
    <3>2. visit' \in [Visits -> IsVisit]
      BY <1>4, <2>5, <3>1 DEF SpareAll
    <3>3. QED
      BY <1>1, <2>1, <2>3, <3>1, <3>2, CallEndsSessions
  <2>6. QED
    BY <2>4, <2>5
<1>5. QED
  BY <1>3, <1>4 DEF EndSessions

LEMMA PasswordIsSet == ASSUME AccountsInv, NEW r \in Requests, SetUserPassword(r) PROVE AccountsInv'
<1> DEFINE q == request[r]
           u == q.whom
<1>1. /\ q \in IsRequest /\ u \in People /\ users[u] \in Users /\ q.at = "end"
      /\ UNCHANGED <<manages, visit, lock, setup, settled, outrun, failures>>
  BY DEF AccountsInv, AccountsTyped, IsRequest, SetUserPassword
<1>2. CASE ~users[u].is
  <2>1. At(r, "over") /\ UNCHANGED <<users, passwords>>
    BY <1>2 DEF SetUserPassword
  <2>2. QED
    BY <1>1, <2>1, CallEnds
<1>3. CASE users[u].is
  <2> DEFINE n == passwords + 1
             c == [users[u] EXCEPT !.password = n]
             d == [q EXCEPT !.password = n]
  <2>1. /\ n \in 1 .. MaxPasswords /\ passwords' = n /\ passwords < n /\ passwords \in Nat
        /\ users' = [users EXCEPT ![u] = c] /\ request' = [request EXCEPT ![r] = d]
    BY <1>3, AccountBounds DEF SetUserPassword, AccountsInv, AccountsTyped
  <2> HIDE DEF n
  <2>2. c \in Users /\ c.password = n /\ c.is = users[u].is /\ c.role = users[u].role /\ c.disabled = users[u].disabled
    BY <1>1, <2>1 DEF Users
  <2>3. /\ d \in IsRequest /\ d.password = n /\ d.at = "end" /\ d.whom = u
        /\ d.overtaken = q.overtaken /\ d.wish = q.wish /\ d.saw = q.saw
    BY <1>1, <2>1 DEF IsRequest
  <2> HIDE DEF c, d
  <2>4. /\ users' \in [People -> Users]
        /\ \A w \in People : users'[w] = IF w = u THEN c ELSE users[w]
    BY <2>1, <2>2 DEF AccountsInv, AccountsTyped
  <2>5. /\ request' \in [Requests -> IsRequest]
        /\ \A p \in Requests : request'[p] = IF p = r THEN d ELSE request[p]
    BY <2>1, <2>3, OneCallChanges DEF AccountsInv
  <2>6. AccountsTyped'
    BY <1>1, <2>1, <2>4, <2>5 DEF AccountsInv, AccountsTyped
  <2>7. RolesExist'
    BY <1>1, <2>2, <2>4 DEF AccountsInv, RolesExist
  <2>8. PasswordsAreTrue'
    <3>1. \A w \in People : /\ users[w].password \in Nat /\ users'[w].password \in Nat
                            /\ settled[w] \in Nat /\ settled[w] <= users[w].password
                            /\ users[w].password <= passwords
      BY <2>4 DEF AccountsInv, AccountsTyped, Users, PasswordsAreTrue
    <3>2. n \in Nat
      BY <2>1
    <3>3. \A w \in People : /\ users[w].password <= users'[w].password /\ users'[w].password <= n
                            /\ settled[w] <= users'[w].password
      BY <2>1, <2>2, <2>4, <3>1, <3>2
    <3>4. \A p \in Requests : request[p].password \in Nat /\ request[p].whom \in People
      BY DEF AccountsInv, AccountsTyped, IsRequest
    <3>5. \A p \in Requests : /\ request'[p].password <= users'[request'[p].whom].password
                              /\ request'[p].at = "idle" => request'[p].password = 0
      <4>1. ASSUME NEW p \in Requests, p # r
            PROVE  request[p].password <= users'[request[p].whom].password
        <5>1. request[p].password <= users[request[p].whom].password
          BY DEF AccountsInv, PasswordsAreTrue
        <5>2. QED
          BY <3>1, <3>3, <3>4, <5>1
      <4>2. d.password <= users'[u].password
        BY <1>1, <2>2, <2>3, <2>4, <3>2
      <4>3. \A p \in Requests : p # r => (request[p].at = "idle" => request[p].password = 0)
        BY DEF AccountsInv, PasswordsAreTrue
      <4>4. QED
        BY <2>3, <2>5, <4>1, <4>2, <4>3
    <3>6. \A v \in Visits : visit'[v].at \in {"verified", "in"} =>
            Outlives(visit'[v]) \/ visit'[v].password >= settled'[visit'[v].who]
      BY <1>1 DEF AccountsInv, PasswordsAreTrue
    <3>7. QED
      BY <1>1, <2>1, <3>3, <3>5, <3>6 DEF PasswordsAreTrue
  <2>9. ChargeIsKept'
    <3>1. \A w \in People : /\ users'[w].is = users[w].is /\ users'[w].role = users[w].role
                            /\ users'[w].disabled = users[w].disabled
      BY <2>2, <2>4
    <3>2. \A w \in People : IsAdmin(w) = IsAdmin(w)'
      BY <3>1 DEF IsAdmin
    <3>3. ASSUME InCharge PROVE InCharge'
      <4>1. ASSUME NEW p \in Requests PROVE request'[p].overtaken \/ Knows(request[p])'
        <5>1. request'[p] \in IsRequest /\ request[p] \in IsRequest
          BY <2>5 DEF AccountsInv, AccountsTyped
        <5>2. request[p].overtaken \/ Knows(request[p])
          BY <3>3 DEF InCharge
        <5>3. CASE p = r
          BY <2>3, <2>5, <5>3 DEF Knows
        <5>4. CASE p # r
          <6>1. request'[p] = request[p]
            BY <2>5, <5>4
          <6>2. \A w \in People : Others(w) => Others(w)'
            BY <3>2 DEF Others
          <6>3. request[p].whom \in People
            BY <5>1 DEF IsRequest
          <6>4. QED
            BY <3>1, <5>2, <6>1, <6>2, <6>3 DEF Knows
        <5>5. QED
          BY <5>3, <5>4
      <4>2. (\E w \in People : users'[w].is) => \E w \in People : IsAdmin(w)'
        BY <3>1, <3>2, <3>3 DEF InCharge
      <4>3. \A s \in Setups : setup'[s] = "made" => \E w \in People : users'[w].is
        BY <1>1, <3>1, <3>3 DEF InCharge
      <4>4. \A s, t \in Setups : setup'[s] = "made" /\ setup'[t] = "made" => s = t
        BY <1>1, <3>3 DEF InCharge
      <4>5. QED
        BY <4>1, <4>2, <4>3, <4>4 DEF InCharge, IsAdmin
    <3>4. outrun' = outrun
      BY <1>1
    <3>5. QED
      BY <3>3, <3>4 DEF AccountsInv, ChargeIsKept
  <2>10. QED
    BY <2>6, <2>7, <2>8, <2>9 DEF AccountsInv
<1>4. QED
  BY <1>2, <1>3

\* Accounts are added, and roles come and go.
LEMMA RolesStep == ASSUME AccountsInv, RoleNext PROVE AccountsInv'
<1> USE DEF AccountsInv
<1>0. UNCHANGED <<visit, request, lock, setup, settled, passwords, outrun, failures>>
  BY DEF RoleNext, CreateUser, CreateRole, UpdateRole, DeleteRole
<1>1. AnAdminIn => \E u \in People : users[u].is
  BY DEF AnAdminIn, SignedIn, AccountsTyped, IsVisit
<1>2. ASSUME NEW u \in People, NEW e \in Emails, NEW role \in AllRoles, CreateUser(u, e, role)
      PROVE  AccountsInv'
  <2>1. /\ users[u] = Nobody /\ role \in DOMAIN manages /\ AnAdminIn /\ UNCHANGED manages
    BY <1>2 DEF CreateUser, Insertable
  <2>2. PICK password \in {0, passwords} : users' = [users EXCEPT ![u] = Account(e, role, password, "none")]
    BY <1>2 DEF CreateUser, Insert
  <2> DEFINE c == Account(e, role, password, "none")
  <2>3. c \in Users /\ c.role = role /\ c.password = password /\ passwords \in Nat /\ 0 <= password /\ password <= passwords
    BY <2>2, AccountBounds DEF Account, Users, AccountsTyped
  <2> HIDE DEF c
  <2>4. /\ users' \in [People -> Users] /\ visit' \in [Visits -> IsVisit]
        /\ \A w \in People : users'[w] = IF w = u THEN c ELSE users[w]
        /\ lock' \in Setups \cup {"free"} /\ failures' \in 0 .. MaxFailures
        /\ setup' \in [Setups -> {"idle", "locked", "made", "refused"}]
    <3>1. users' = [users EXCEPT ![u] = c] /\ users \in [People -> Users]
      BY <2>2 DEF AccountsTyped, c
    <3>2. users' \in [People -> Users] /\ \A w \in People : users'[w] = IF w = u THEN c ELSE users[w]
      BY <2>3, <3>1
    <3>3. QED
      BY <1>0, <3>2 DEF AccountsTyped
  <2>5. users[u].is = FALSE /\ users[u].password = 0
    BY <2>1 DEF Nobody
  <2>6. \A w \in People : /\ users[w].password <= users'[w].password
                          /\ users'[w].password <= passwords
                          /\ users'[w].is => users'[w].role \in DOMAIN manages
    <3>1. \A w \in People : users[w].password \in Nat
      BY DEF AccountsTyped, Users
    <3>2. QED
      BY <2>1, <2>3, <2>4, <2>5, <3>1 DEF PasswordsAreTrue, RolesExist
  <2>7. \A w \in People : users[w].is => /\ users'[w].is /\ users'[w].role = users[w].role
                                         /\ users'[w].disabled = users[w].disabled
    BY <2>4, <2>5
  <2>8. InCharge => /\ \A s \in Setups : setup'[s] = "made" => \E w \in People : users'[w].is
                    /\ \A s, t \in Setups : setup'[s] = "made" /\ setup'[t] = "made" => s = t
    BY <1>0, <2>7 DEF InCharge
  <2>9. \E w \in People : users[w].is
    BY <1>1, <2>1
  <2>10. QED
    BY <1>0, <2>1, <2>4, <2>6, <2>7, <2>8, <2>9, MildStep
<1>3. ASSUME UNCHANGED users, DOMAIN manages' \subseteq AllRoles, "admin" \in DOMAIN manages',
             \A u \in People : users[u].is => users[u].role \in DOMAIN manages'
      PROVE  AccountsInv'
  <2>1. AccountsTyped' /\ RolesExist' /\ PasswordsAreTrue'
    BY <1>0, <1>3 DEF AccountsTyped, RolesExist, PasswordsAreTrue
  <2>2. ChargeIsKept'
    BY <1>0, <1>3 DEF ChargeIsKept, InCharge, Knows, Others, IsAdmin
  <2>3. QED
    BY <2>1, <2>2
<1>4. ASSUME NEW role \in Roles, NEW may \in BOOLEAN, CreateRole(role, may) PROVE AccountsInv'
  <2>1. UNCHANGED users /\ DOMAIN manages' = DOMAIN manages \cup {role}
    BY <1>4 DEF CreateRole
  <2>2. QED
    BY <1>3, <2>1 DEF AccountsTyped, RolesExist, AllRoles
<1>5. ASSUME NEW role \in Roles, NEW may \in BOOLEAN, NEW v \in Visits, UpdateRole(v, role, may) PROVE AccountsInv'
  <2>1. UNCHANGED users /\ DOMAIN manages' = DOMAIN manages
    BY <1>5 DEF UpdateRole
  <2>2. QED
    BY <1>3, <2>1 DEF AccountsTyped, RolesExist
<1>6. ASSUME NEW role \in Roles, DeleteRole(role) PROVE AccountsInv'
  <2>1. UNCHANGED users /\ DOMAIN manages' = DOMAIN manages \ {role} /\ Unused(role)
    BY <1>6 DEF DeleteRole
  <2>2. \A u \in People : users[u].is => users[u].role # role
    BY <2>1 DEF Unused, Rows, AccountsTyped
  <2>3. QED
    BY <1>3, <2>1, <2>2, AccountBounds DEF AccountsTyped, RolesExist
<1>7. QED
  BY <1>2, <1>4, <1>5, <1>6 DEF RoleNext

\* Every step of the accounts' own.
LEMMA AccountsStep ==
  ASSUME AccountsInv, SetupNext \/ RequestNext \/ RoleNext \/ \E v \in Visits : SessionStep(v)
  PROVE  AccountsInv'
BY SetupStep, CallsLook, RoleIsSet, SwitchIsSet, UserIsDeleted, PasswordIsSet, SessionsAreEnded,
   RolesStep, SessionsStep
   DEF RequestNext

-----------------------------------------------------------------------------
(***************************************************************************)
(* Single sign-on.                                                         *)
(***************************************************************************)

LEMMA AwayIs ==
  /\ Away \in IsComing
  /\ Away.at = "idle" /\ Away.starting = FALSE /\ Away.config = 0 /\ Away.provider = 0
  /\ Away.due = 0 /\ Away.judged = 0 /\ Away.misled = FALSE
BY DEF Away, IsComing

LEMMA SignOnStarts == ASSUME PeopleInit PROVE SignOnInv
<1> DEFINE c(b) == [enabled |-> b, allows |-> Emails, provision |-> TRUE, role |-> "admin"]
<1>1. /\ attempt = [a \in Attempts |-> "unused"] /\ opened = [a \in Attempts |-> 0]
      /\ saved = <<c(Served)>> /\ answered = 1 /\ built = <<>> /\ cached = 0
      /\ coming = [v \in Visits |-> Away] /\ writer = [w \in Writers |-> "idle"]
      /\ address \in [Subjects -> Emails \cup {"none"}] /\ matched = [u \in People |-> "none"]
  BY DEF PeopleInit, SignOnInit
<1>2. \A v \in Visits : coming[v] = Away
  BY <1>1
<1>3. \A b \in BOOLEAN : c(b) \in Configs
  BY DEF Configs, AllRoles
<1>4. Served \in BOOLEAN
  BY DEF Served
<1>5. saved[1] = c(Served) /\ Len(saved) = 1 /\ saved \in Seq(Configs)
  <2> DEFINE x == c(Served)
  <2>1. x \in Configs /\ saved = <<x>>
    BY <1>1, <1>3, <1>4
  <2> HIDE DEF x
  <2>2. saved[1] = x /\ Len(saved) = 1 /\ saved \in Seq(Configs)
    BY <2>1
  <2>3. QED
    BY <2>2 DEF x
<1>6. SignOnTyped
  <2>1. coming \in [Visits -> IsComing]
    BY <1>1, AwayIs
  <2>2. built \in Seq(Nat) /\ Len(built) = 0
    BY <1>1
  <2>3. QED
    BY <1>1, <1>5, <2>1, <2>2 DEF SignOnTyped
<1>7. AttemptsAreSpent
  BY <1>1, <1>2, AwayIs DEF AttemptsAreSpent, Starting, Bringing
<1>8. ProvidersAreCurrent
  BY <1>1, <1>2, <1>5, AwayIs DEF ProvidersAreCurrent, HoldsProvider
<1>9. (\E u \in People : users[u].is) \/ Fresh
  <2>1. PICK S \in SUBSET People : AccountsInit(S)
    BY DEF PeopleInit
  <2>2. DOMAIN users = People
    BY <2>1 DEF AccountsInit
  <2>3. CASE Served
    BY <2>2, <2>3 DEF Served, Rows
  <2>4. CASE ~Served
    <3>1. saved[1].enabled = FALSE
      BY <1>5, <2>4
    <3>2. \A i \in 1 .. Len(saved) : ~saved[i].enabled
      BY <1>5, <3>1
    <3>3. QED
      BY <1>1, <1>2, <3>2, AwayIs DEF Fresh
  <2>5. QED
    BY <2>3, <2>4
<1>10. QED
  BY <1>6, <1>7, <1>8, <1>9 DEF SignOnInv

\* One browser goes on.
LEMMA OneGoesOn ==
  ASSUME SignOnTyped, NEW v \in Visits, NEW c \in IsComing, Goes(v, c)
  PROVE  /\ coming' \in [Visits -> IsComing]
         /\ \A w \in Visits : coming'[w] = IF w = v THEN c ELSE coming[w]
BY DEF SignOnTyped, Goes

LEMMA EndsGoes ==
  ASSUME SignOnTyped, NEW v \in Visits,
         NEW why \in {"refused", "over"}, Ends(v, why)
  PROVE  \E c \in IsComing :
           /\ Goes(v, c) /\ c.at = why /\ c.starting = FALSE /\ c.provider = 0
           /\ c.due = coming[v].due /\ c.judged = coming[v].judged /\ c.misled = coming[v].misled
<1> DEFINE c == [Away EXCEPT !.at = why, !.due = coming[v].due, !.judged = coming[v].judged,
                             !.misled = coming[v].misled]
<1>1. coming[v] \in IsComing
  BY DEF SignOnTyped
<1>2. Goes(v, c)
  BY DEF Ends
<1>3. /\ c \in IsComing /\ c.at = why /\ c.starting = FALSE /\ c.provider = 0
      /\ c.due = coming[v].due /\ c.judged = coming[v].judged /\ c.misled = coming[v].misled
  BY <1>1, AwayIs DEF IsComing
<1> HIDE DEF c
<1>4. QED
  BY <1>2, <1>3

\* Attempts stay spent while none is begun, brought back or used.
LEMMA SpentStays ==
  ASSUME AttemptsAreSpent, UNCHANGED <<attempt, opened>>,
         \A v \in Visits, a \in Attempts : /\ Starting(v, a)' => Starting(v, a)
                                           /\ Bringing(v, a)' => Bringing(v, a)
  PROVE  AttemptsAreSpent'
BY DEF AttemptsAreSpent, Starting, Bringing

\* A record of a browser as the invariant has it, where that many settings and
\* providers are.
IsCurrent(c) ==
  /\ c.due <= answered
  /\ c.provider <= Len(built) /\ c.judged <= Len(saved)
  /\ c.at = "getting" => c.config \in 1 .. Len(saved) /\ c.config >= c.due
  /\ c.at \in HoldsProvider => c.provider > 0
  /\ c.at = "starting" => c.starting
  /\ c.at \in HoldsProvider \ {"starting"} => ~c.starting
  /\ c.provider > 0 => built[c.provider] >= c.due \/ c.misled
  /\ c.judged > 0 => c.judged >= c.due \/ c.misled
  /\ c.at = "linking" => c.email \in Emails /\ c.subject \in Subjects
  /\ c.at = "permitting" => c.email \in Emails /\ c.subject \in Subjects

LEMMA EachIsCurrent == ProvidersAreCurrent <=> \A v \in Visits : IsCurrent(coming[v])
BY DEF ProvidersAreCurrent, IsCurrent

\* A browser goes on and nobody else notices.
LEMMA BrowserGoesOn ==
  ASSUME SignOnInv, NEW v \in Visits, NEW c \in IsComing, Goes(v, c),
         UNCHANGED <<attempt, opened, saved, answered, built, cached, writer, address>>,
         matched' \in [People -> Subjects \cup {"none"}],
         c.starting => coming[v].starting /\ c.attempt = coming[v].attempt,
         c.at \in {"reading", "getting", "exchanging", "permitting", "linking", "linked"}
           /\ ~c.starting => Bringing(v, c.attempt),
         IsCurrent(c)
  PROVE  SignOnTyped' /\ AttemptsAreSpent' /\ ProvidersAreCurrent'
<1> USE DEF SignOnInv
<1>1. /\ coming' \in [Visits -> IsComing]
      /\ \A w \in Visits : coming'[w] = IF w = v THEN c ELSE coming[w]
  BY OneGoesOn
<1>2. SignOnTyped'
  BY <1>1 DEF SignOnTyped
<1>3. AttemptsAreSpent'
  <2>1. \A w \in Visits, a \in Attempts : /\ Starting(w, a)' => Starting(w, a)
                                          /\ Bringing(w, a)' => Bringing(w, a)
    BY <1>1 DEF Starting, Bringing
  <2>2. QED
    BY <2>1, SpentStays
<1>4. ProvidersAreCurrent'
  <2>1. \A w \in Visits : IsCurrent(coming'[w])
    BY <1>1, EachIsCurrent
  <2>2. ASSUME NEW w \in Visits PROVE IsCurrent(coming[w])'
    BY <2>1 DEF IsCurrent
  <2>3. QED
    BY <2>2 DEF ProvidersAreCurrent, IsCurrent
<1>5. QED
  BY <1>2, <1>3, <1>4

\* Whoever got any further found sign-on set up, by somebody with an account.
LEMMA SetUp ==
  ASSUME SignOnInv, NEW v \in Visits, coming[v].at \notin {"idle", "reading", "refused"}
  PROVE  outrun \/ \E u \in People : users[u].is
BY DEF SignOnInv, Fresh

LEMMA ComingBegins ==
  ASSUME SignOnInv, NEW v \in Visits, NEW a \in Attempts, Start(v, a) \/ ConsumeOIDCState(v, a)
  PROVE  SignOnInv'
<1> USE DEF SignOnInv
<1>1. /\ UNCHANGED <<accountVars, opened, saved, answered, built, cached, writer, address, matched>>
  BY DEF Start, ConsumeOIDCState
<1>2. answered \in Nat /\ answered \in 1 .. Len(saved) /\ Len(saved) \in Nat /\ Len(built) \in Nat
  BY DEF SignOnTyped
<1>3. ASSUME NEW c \in IsComing, Goes(v, c), c.at = "reading", c.attempt = a, c.due = answered,
             c.provider = 0, c.judged = 0,
             attempt' \in [Attempts -> {"unused", "open", "gone"}],
             \A b \in Attempts : b # a => attempt'[b] = attempt[b],
             \/ /\ c.starting /\ attempt'[a] = "unused" /\ attempt[a] = "unused"
                /\ ~\E w \in Visits : Starting(w, a)
             \/ ~c.starting /\ attempt[a] = "open" /\ attempt'[a] = "gone"
      PROVE  SignOnInv'
  <2>1. /\ coming' \in [Visits -> IsComing]
        /\ \A w \in Visits : coming'[w] = IF w = v THEN c ELSE coming[w]
    BY <1>3, OneGoesOn
  <2>2. SignOnTyped'
    BY <1>1, <1>3, <2>1 DEF SignOnTyped
  <2>3. AttemptsAreSpent'
    <3>1. ASSUME NEW b \in Attempts, b # a, NEW w \in Visits
          PROVE  /\ Starting(w, b)' => Starting(w, b)
                 /\ Bringing(w, b)' => Bringing(w, b)
      BY <1>3, <2>1, <3>1 DEF Starting, Bringing
    <3>2. opened[a] = 0 /\ ~\E w \in Visits : Bringing(w, a)
      <4>1. opened[a] \in Nat
        BY DEF SignOnTyped
      <4>2. attempt[a] # "gone" /\ opened[a] <= 1
        BY <1>3 DEF AttemptsAreSpent
      <4>3. QED
        BY <4>1, <4>2 DEF AttemptsAreSpent
    <3>3. opened' = opened
      BY <1>1
    <3>4. CASE c.starting /\ attempt'[a] = "unused"
      <4>1. \A w \in Visits : (Starting(w, a)' => w = v) /\ ~Bringing(w, a)'
        BY <1>3, <2>1, <3>2, <3>4 DEF Starting, Bringing
      <4>2. QED
        BY <1>3, <3>1, <3>2, <3>3, <3>4, <4>1 DEF AttemptsAreSpent
    <3>5. CASE ~c.starting /\ attempt'[a] = "gone"
      <4>1. \A w \in Visits : ~Starting(w, a)
        BY <1>3, <3>5 DEF AttemptsAreSpent
      <4>2. \A w \in Visits : ~Starting(w, a)' /\ (Bringing(w, a)' => w = v)
        BY <1>3, <2>1, <3>2, <3>5, <4>1 DEF Starting, Bringing
      <4>3. QED
        BY <1>3, <3>1, <3>2, <3>3, <3>5, <4>2 DEF AttemptsAreSpent
    <3>6. QED
      BY <1>3, <3>4, <3>5
  <2>4. ProvidersAreCurrent'
    <3>1. IsCurrent(c)
      BY <1>2, <1>3 DEF IsCurrent, HoldsProvider
    <3>2. \A w \in Visits : IsCurrent(coming'[w])
      BY <2>1, <3>1, EachIsCurrent
    <3>3. QED
      BY <1>1, <3>2 DEF ProvidersAreCurrent, IsCurrent
  <2>5. outrun' \/ (\E u \in People : users'[u].is) \/ Fresh'
    BY <1>1, <1>3, <2>1 DEF Fresh, accountVars
  <2>6. QED
    BY <2>2, <2>3, <2>4, <2>5
<1>4. CASE Start(v, a)
  <2> DEFINE c == [Away EXCEPT !.at = "reading", !.attempt = a, !.starting = TRUE, !.due = answered]
  <2>1. /\ c \in IsComing /\ c.at = "reading" /\ c.attempt = a /\ c.starting /\ c.due = answered
        /\ c.provider = 0 /\ c.judged = 0
    BY <1>2, AwayIs DEF IsComing
  <2>2. Goes(v, c) /\ UNCHANGED attempt /\ attempt[a] = "unused"
    BY <1>4 DEF Start
  <2>3. ~\E w \in Visits : Starting(w, a)
    BY <1>4 DEF Start, Starting
  <2> HIDE DEF c
  <2>4. QED
    BY <1>3, <2>1, <2>2, <2>3 DEF SignOnTyped
<1>5. CASE ConsumeOIDCState(v, a)
  <2> DEFINE c == [Away EXCEPT !.at = "reading", !.attempt = a, !.due = answered]
  <2>1. /\ c \in IsComing /\ c.at = "reading" /\ c.attempt = a /\ ~c.starting /\ c.due = answered
        /\ c.provider = 0 /\ c.judged = 0
    BY <1>2, AwayIs DEF IsComing
  <2>2. Goes(v, c) /\ attempt' = [attempt EXCEPT ![a] = "gone"] /\ attempt[a] = "open"
    BY <1>5 DEF ConsumeOIDCState, Consume
  <2> HIDE DEF c
  <2>3. QED
    BY <1>3, <2>1, <2>2 DEF SignOnTyped
<1>6. QED
  BY <1>4, <1>5

\* The settings are read, the provider answers, and the sign-in is judged.
LEMMA ComingIsJudged ==
  ASSUME SignOnInv, NEW v \in Visits, ReadSettings(v) \/ Exchange(v) \/ PermittedDomain(v)
  PROVE  SignOnInv'
<1> USE DEF SignOnInv
<1> DEFINE b == coming[v]
<1>1. /\ UNCHANGED <<accountVars, attempt, opened, saved, answered, built, cached, writer, address, matched>>
  BY DEF ReadSettings, Exchange, PermittedDomain
<1>2. /\ b \in IsComing /\ IsCurrent(b) /\ answered \in 1 .. Len(saved)
      /\ Len(saved) \in Nat /\ Len(built) \in Nat
      /\ \A i \in 1 .. Len(built) : built[i] \in 1 .. Len(saved)
      /\ matched' \in [People -> Subjects \cup {"none"}]
  BY <1>1, EachIsCurrent DEF SignOnTyped
<1>3. ASSUME NEW why \in {"refused", "over"}, Ends(v, why)
      PROVE  SignOnTyped' /\ AttemptsAreSpent' /\ ProvidersAreCurrent' /\ coming'[v].at = why
  <2>1. PICK c \in IsComing :
           /\ Goes(v, c) /\ c.at = why /\ c.starting = FALSE /\ c.provider = 0
           /\ c.due = b.due /\ c.judged = b.judged /\ c.misled = b.misled
    BY <1>3, EndsGoes
  <2>2. IsCurrent(c)
    BY <1>2, <2>1 DEF IsCurrent, HoldsProvider
  <2>3. QED
    BY <1>1, <1>2, <2>1, <2>2, BrowserGoesOn, OneGoesOn
<1>4. CASE ReadSettings(v)
  <2>1. CASE saved[Len(saved)].enabled
    <3> DEFINE c == [b EXCEPT !.at = "getting", !.config = Len(saved)]
    <3>1. Goes(v, c) /\ b.at = "reading"
      BY <1>4, <2>1 DEF ReadSettings
    <3>2. /\ c \in IsComing /\ c.at = "getting" /\ c.config = Len(saved) /\ c.attempt = b.attempt
          /\ c.starting = b.starting /\ c.due = b.due /\ c.judged = b.judged /\ c.misled = b.misled
          /\ c.provider = b.provider
      BY <1>2 DEF IsComing
    <3> HIDE DEF c
    <3>3. b.due \in Nat /\ b.provider \in Nat /\ b.judged \in Nat
      BY <1>2 DEF IsComing
    <3>4. IsCurrent(c)
      BY <1>2, <3>2, <3>3 DEF IsCurrent, HoldsProvider
    <3>5. ~c.starting => Bringing(v, c.attempt)
      BY <3>1, <3>2 DEF Bringing
    <3>6. SignOnTyped' /\ AttemptsAreSpent' /\ ProvidersAreCurrent'
      BY <1>1, <1>2, <3>1, <3>2, <3>4, <3>5, BrowserGoesOn
    <3>7. ~Fresh
      BY <1>2, <2>1 DEF Fresh
    <3>8. QED
      BY <1>1, <3>6, <3>7 DEF accountVars
  <2>2. CASE ~saved[Len(saved)].enabled
    <3>1. Ends(v, "refused")
      BY <1>4, <2>2 DEF ReadSettings
    <3>2. \A w \in Visits : w # v => coming'[w] = coming[w]
      BY <3>1 DEF Ends, Goes, SignOnTyped
    <3>3. Fresh => Fresh'
      BY <1>1, <1>3, <3>1, <3>2 DEF Fresh
    <3>4. QED
      BY <1>1, <1>3, <3>1, <3>3 DEF accountVars
  <2>3. QED
    BY <2>1, <2>2
<1>5. CASE Exchange(v) \/ PermittedDomain(v)
  <2>1. b.at \in {"exchanging", "permitting"}
    BY <1>5 DEF Exchange, PermittedDomain
  <2>2. outrun' \/ \E u \in People : users'[u].is
    BY <1>1, <2>1, SetUp DEF accountVars
  <2>3. b.provider \in 1 .. Len(built) /\ ~b.starting
    BY <1>2, <2>1 DEF IsCurrent, HoldsProvider, IsComing
  <2>4. ASSUME NEW s \in Subjects, address[s] # "none",
               Goes(v, [b EXCEPT !.at = "permitting", !.subject = s, !.email = address[s]])
        PROVE  SignOnTyped' /\ AttemptsAreSpent' /\ ProvidersAreCurrent'
    <3> DEFINE e == address[s]
               c == [b EXCEPT !.at = "permitting", !.subject = s, !.email = e]
    <3>1. e \in Emails /\ Goes(v, c)
      BY <2>4 DEF SignOnTyped
    <3> HIDE DEF e
    <3>2. /\ c \in IsComing /\ c.at = "permitting" /\ c.subject = s /\ c.email = e
          /\ c.attempt = b.attempt /\ c.starting = b.starting /\ c.due = b.due
          /\ c.judged = b.judged /\ c.misled = b.misled /\ c.provider = b.provider
      BY <1>2, <3>1 DEF IsComing
    <3> HIDE DEF c
    <3>3. IsCurrent(c)
      BY <1>2, <2>1, <2>3, <3>1, <3>2 DEF IsCurrent, HoldsProvider
    <3>4. Bringing(v, c.attempt)
      BY <2>1, <2>3, <3>2 DEF Bringing
    <3>5. QED
      BY <1>1, <1>2, <2>3, <3>1, <3>2, <3>3, <3>4, BrowserGoesOn
  <2>5. ASSUME NEW at \in {"linking", "refused"}, b.at = "permitting",
               Goes(v, [b EXCEPT !.judged = built[b.provider], !.at = at])
        PROVE  SignOnTyped' /\ AttemptsAreSpent' /\ ProvidersAreCurrent'
    <3> DEFINE n == built[b.provider]
               c == [b EXCEPT !.judged = n, !.at = at]
    <3>1. Goes(v, c) /\ n \in 1 .. Len(saved) /\ (n >= b.due \/ b.misled)
      BY <1>2, <2>3, <2>5 DEF IsCurrent
    <3> HIDE DEF n
    <3>2. /\ c \in IsComing /\ c.at = at /\ c.subject = b.subject /\ c.email = b.email
          /\ c.attempt = b.attempt /\ c.starting = b.starting /\ c.due = b.due
          /\ c.judged = n /\ c.misled = b.misled /\ c.provider = b.provider
      <4>1. n \in Nat
        BY <1>2, <3>1
      <4>2. b \in IsComing
        BY <1>2
      <4>3. QED
        BY <4>1, <4>2 DEF IsComing
    <3> HIDE DEF c
    <3>3. IsCurrent(c)
      BY <1>2, <2>3, <2>5, <3>1, <3>2 DEF IsCurrent, HoldsProvider
    <3>4. Bringing(v, c.attempt)
      BY <2>1, <2>3, <3>2 DEF Bringing
    <3>5. QED
      BY <1>1, <1>2, <2>3, <3>1, <3>2, <3>3, <3>4, BrowserGoesOn
  <2>6. CASE Exchange(v)
    BY <1>3, <2>2, <2>4, <2>6 DEF Exchange
  <2>7. CASE PermittedDomain(v)
    <3> DEFINE at == IF b.email \in saved[built[b.provider]].allows THEN "linking" ELSE "refused"
    <3>1. b.at = "permitting" /\ Goes(v, [b EXCEPT !.judged = built[b.provider], !.at = at])
      BY <2>7 DEF PermittedDomain
    <3>2. at \in {"linking", "refused"}
      OBVIOUS
    <3> HIDE DEF at
    <3>3. QED
      BY <2>2, <2>5, <3>1, <3>2
  <2>8. QED
    BY <1>5, <2>6, <2>7
<1>6. QED
  BY <1>4, <1>5

\* The provider there is, or a new one, gets the settings this caller read.
LEMMA ProviderIsGot == ASSUME SignOnInv, NEW v \in Visits, GetProvider(v) PROVE SignOnInv'
<1> USE DEF SignOnInv
<1> DEFINE b == coming[v]
           p == IF cached = 0 THEN Len(built) + 1 ELSE cached
           at == IF b.starting THEN "starting" ELSE "exchanging"
           c == [b EXCEPT !.provider = p, !.at = at]
<1>1. /\ UNCHANGED <<accountVars, attempt, opened, saved, answered, writer, address, matched>>
      /\ b.at = "getting" /\ cached' = p
      /\ built' = IF cached = 0 THEN Append(built, b.config) ELSE [built EXCEPT ![p] = b.config]
  BY DEF GetProvider, Refreshed
<1>2. /\ b \in IsComing /\ \A w \in Visits : IsCurrent(coming[w])
      /\ Len(saved) \in Nat /\ Len(built) \in Nat /\ built \in Seq(Nat) /\ cached \in 0 .. Len(built)
      /\ \A i \in 1 .. Len(built) : built[i] \in 1 .. Len(saved)
  BY EachIsCurrent DEF SignOnTyped
<1>3. b.config \in 1 .. Len(saved) /\ b.config >= b.due /\ b.config \in Nat /\ b.due \in Nat
  BY <1>1, <1>2 DEF IsCurrent, IsComing
<1>4. /\ built' \in Seq(Nat) /\ Len(built') \in Nat /\ Len(built) <= Len(built')
      /\ p \in 1 .. Len(built') /\ built'[p] = b.config
      /\ \A i \in 1 .. Len(built) : i # p => built'[i] = built[i]
      /\ \A i \in 1 .. Len(built') : built'[i] \in 1 .. Len(saved)
  <2>1. CASE cached = 0
    <3>1. built' = Append(built, b.config) /\ p = Len(built) + 1
      BY <1>1, <2>1
    <3>2. /\ built' \in Seq(Nat) /\ Len(built') = Len(built) + 1 /\ built'[Len(built) + 1] = b.config
          /\ \A i \in 1 .. Len(built) : built'[i] = built[i]
      BY ONLY <1>2, <1>3, <3>1, AppendProperties
    <3>3. QED
      BY ONLY <1>2, <1>3, <3>1, <3>2
  <2>2. CASE cached # 0
    <3>1. built' = [built EXCEPT ![p] = b.config] /\ p \in 1 .. Len(built)
      BY <1>1, <1>2, <2>2
    <3>2. /\ built' \in Seq(Nat) /\ Len(built') = Len(built) /\ built'[p] = b.config
          /\ \A i \in 1 .. Len(built) : i # p => built'[i] = built[i]
      BY ONLY <1>2, <1>3, <3>1, ExceptSeq
    <3>3. QED
      BY ONLY <1>2, <1>3, <3>1, <3>2
  <2>3. QED
    BY <2>1, <2>2
<1>5. p \in Nat \ {0} /\ at \in {"starting", "exchanging"}
      /\ (at = "starting" => b.starting) /\ (at = "exchanging" => ~b.starting)
  BY <1>4
<1>6. coming' = [w \in Visits |->
        IF w = v THEN c
        ELSE IF coming[w].provider = p /\ coming[w].due > b.config
             THEN [coming[w] EXCEPT !.misled = TRUE] ELSE coming[w]]
  BY DEF GetProvider
<1> HIDE DEF p, at
<1>7. /\ c \in IsComing /\ c.at = at /\ c.provider = p /\ c.attempt = b.attempt
      /\ c.starting = b.starting /\ c.due = b.due /\ c.judged = b.judged /\ c.misled = b.misled
  BY <1>2, <1>5 DEF IsComing
<1> HIDE DEF c
<1>8. ASSUME NEW w \in Visits, w # v
      PROVE  /\ coming'[w] \in IsComing
             /\ coming'[w].at = coming[w].at /\ coming'[w].attempt = coming[w].attempt
             /\ coming'[w].starting = coming[w].starting
             /\ IsCurrent(coming[w])'
  <2>1. coming[w] \in IsComing /\ IsCurrent(coming[w])
    BY <1>2 DEF SignOnTyped
  <2>2. CASE coming[w].provider = p /\ coming[w].due > b.config
    <3> DEFINE d == [coming[w] EXCEPT !.misled = TRUE]
    <3>1. /\ d \in IsComing /\ d.at = coming[w].at /\ d.attempt = coming[w].attempt
          /\ d.starting = coming[w].starting /\ d.due = coming[w].due /\ d.judged = coming[w].judged
          /\ d.provider = coming[w].provider /\ d.config = coming[w].config /\ d.email = coming[w].email
          /\ d.subject = coming[w].subject
      BY <2>1 DEF IsComing
    <3>2. d.misled = TRUE
      BY <2>1 DEF IsComing
    <3>3. coming'[w] = d
      BY <1>6, <1>8, <2>2
    <3> HIDE DEF d
    <3>4. coming'[w].misled
      BY <3>2, <3>3
    <3>5. IsCurrent(coming[w])'
      <4>1. UNCHANGED <<saved, answered>>
        BY <1>1
      <4>2. coming[w].provider <= Len(built')
        BY <1>2, <1>4, <2>1, <3>1, SMTT(40) DEF IsCurrent, IsComing
      <4>3. QED
        BY <1>4, <2>1, <3>1, <3>3, <3>4, <4>1, <4>2 DEF IsCurrent
    <3>6. QED
      BY <3>1, <3>3, <3>5
  <2>3. CASE ~(coming[w].provider = p /\ coming[w].due > b.config)
    <3>1. coming'[w] = coming[w]
      BY <1>6, <1>8, <2>3
    <3>2. coming[w].provider > 0 => built'[coming[w].provider] >= coming[w].due \/ coming[w].misled
      <4>1. CASE coming[w].provider = p
        <5>1. ~(coming[w].due > b.config) /\ coming[w].due \in Nat
          BY <2>1, <2>3, <4>1 DEF IsComing
        <5>2. b.config >= coming[w].due
          BY <1>3, <5>1
        <5>3. QED
          BY <1>4, <4>1, <5>2
      <4>2. CASE coming[w].provider # p
        <5>1. coming[w].provider > 0 => coming[w].provider \in 1 .. Len(built)
          BY <1>2, <2>1 DEF IsComing, IsCurrent
        <5>2. coming[w].provider > 0 => built'[coming[w].provider] = built[coming[w].provider]
          BY <1>4, <4>2, <5>1
        <5>3. coming[w].provider > 0 => built[coming[w].provider] >= coming[w].due \/ coming[w].misled
          BY <2>1 DEF IsCurrent
        <5>4. QED
          BY <5>2, <5>3
      <4>3. QED
        BY <4>1, <4>2
    <3>3. coming[w].provider <= Len(built')
      BY <1>2, <1>4, <2>1 DEF IsComing, IsCurrent
    <3>4. QED
      BY <1>1, <2>1, <3>1, <3>2, <3>3 DEF IsCurrent
  <2>4. QED
    BY <2>2, <2>3
<1>9. coming'[v] = c
  BY <1>6
<1>10. SignOnTyped'
  <2>1. coming' \in [Visits -> IsComing]
    BY <1>6, <1>7, <1>8, <1>9
  <2>2. cached' \in 0 .. Len(built')
    BY <1>1, <1>4
  <2>3. QED
    BY <1>1, <1>4, <2>1, <2>2 DEF SignOnTyped
<1>11. AttemptsAreSpent'
  <2>1. ASSUME NEW w \in Visits, NEW a \in Attempts
        PROVE  /\ Starting(w, a)' => Starting(w, a)
               /\ Bringing(w, a)' => Bringing(w, a)
    BY <1>1, <1>7, <1>8, <1>9 DEF Starting, Bringing
  <2>2. QED
    BY <1>1, <2>1, SpentStays
<1>12. ProvidersAreCurrent'
  <2>1. IsCurrent(coming[v])'
    <3>1. b.judged \in Nat /\ IsCurrent(b)
      BY <1>2 DEF IsComing
    <3>2. QED
      BY <1>1, <1>3, <1>4, <1>5, <1>7, <1>9, <3>1 DEF IsCurrent, HoldsProvider
  <2>2. QED
    BY <1>8, <2>1 DEF ProvidersAreCurrent, IsCurrent
<1>13. QED
  BY <1>1, <1>10, <1>11, <1>12, SetUp DEF accountVars

\* The browser is sent away; an attempt runs out.
LEMMA AttemptMoves ==
  ASSUME SignOnInv, (\E v \in Visits : StartOIDCState(v)) \/ \E a \in Attempts : PurgeExpired(a)
  PROVE  SignOnInv'
<1> USE DEF SignOnInv
<1>1. ASSUME NEW v \in Visits, StartOIDCState(v) PROVE SignOnInv'
  <2>0. PICK a : a = coming[v].attempt
    OBVIOUS
  <2>1. /\ UNCHANGED <<accountVars, opened, saved, answered, built, cached, writer, address, matched>>
        /\ coming[v].at = "starting" /\ attempt' = [attempt EXCEPT ![a] = "open"] /\ Goes(v, Away)
    BY <1>1, <2>0 DEF StartOIDCState
  <2>2. /\ coming' \in [Visits -> IsComing]
        /\ \A w \in Visits : coming'[w] = IF w = v THEN Away ELSE coming[w]
    BY <2>1, AwayIs, OneGoesOn
  <2>3. SignOnTyped'
    BY <2>1, <2>2 DEF SignOnTyped
  <2>4. Starting(v, a)
    BY <2>0, <2>1 DEF ProvidersAreCurrent, Starting
  <2>5. AttemptsAreSpent'
    <3>1. ASSUME NEW w \in Visits, NEW x \in Attempts
          PROVE  /\ Starting(w, x)' => Starting(w, x) /\ w # v
                 /\ Bringing(w, x)' => Bringing(w, x)
      BY <2>2, AwayIs DEF Starting, Bringing
    <3>2. ASSUME NEW x \in Attempts, x # a PROVE attempt'[x] = attempt[x]
      BY <2>1, <3>2 DEF SignOnTyped
    <3>3. ASSUME a \in Attempts
          PROVE  opened[a] # 1 /\ \A w \in Visits : ~Starting(w, a)' /\ ~Bringing(w, a)'
      <4>1. attempt[a] = "unused" /\ opened[a] # 1
        BY <2>4, <3>3 DEF AttemptsAreSpent
      <4>2. ASSUME NEW w \in Visits PROVE ~Starting(w, a)' /\ ~Bringing(w, a)'
        <5>1. ~Bringing(w, a)
          BY <3>3, <4>1 DEF AttemptsAreSpent
        <5>2. Starting(w, a) => w = v
          BY <2>4, <3>3 DEF AttemptsAreSpent
        <5>3. QED
          BY <3>1, <3>3, <5>1, <5>2
      <4>3. QED
        BY <4>1, <4>2
    <3>4. ASSUME NEW x \in Attempts, x # a
          PROVE  /\ opened'[x] <= 1 /\ (opened'[x] = 1 => attempt'[x] = "gone")
                 /\ \A w \in Visits : Starting(w, x)' => attempt'[x] = "unused"
                 /\ \A w, y \in Visits : Starting(w, x)' /\ Starting(y, x)' => w = y
                 /\ \A w \in Visits : Bringing(w, x)' => attempt'[x] = "gone" /\ opened'[x] = 0
                 /\ \A w, y \in Visits : Bringing(w, x)' /\ Bringing(y, x)' => w = y
      BY <2>1, <3>1, <3>2, <3>4 DEF AttemptsAreSpent
    <3>5. a \in Attempts => opened'[a] <= 1
      BY <2>1 DEF AttemptsAreSpent
    <3>6. QED
      BY <2>1, <3>3, <3>4, <3>5 DEF AttemptsAreSpent
  <2>6. ProvidersAreCurrent'
    <3>1. IsCurrent(Away)
      BY AwayIs DEF IsCurrent, HoldsProvider, SignOnTyped
    <3>2. \A w \in Visits : IsCurrent(coming'[w])
      BY <2>2, <3>1, EachIsCurrent
    <3>3. QED
      BY <2>1, <3>2 DEF ProvidersAreCurrent, IsCurrent
  <2>7. QED
    BY <2>1, <2>3, <2>5, <2>6, SetUp DEF accountVars
<1>2. ASSUME NEW a \in Attempts, PurgeExpired(a) PROVE SignOnInv'
  <2>1. /\ UNCHANGED <<accountVars, opened, saved, answered, built, cached, coming, writer, address, matched>>
        /\ attempt[a] = "open" /\ attempt' = [attempt EXCEPT ![a] = "gone"]
    BY <1>2 DEF PurgeExpired
  <2>2. SignOnTyped' /\ ProvidersAreCurrent'
    BY <2>1 DEF SignOnTyped, ProvidersAreCurrent
  <2>3. AttemptsAreSpent'
    <3>1. \A x \in Attempts : attempt'[x] = IF x = a THEN "gone" ELSE attempt[x]
      BY <2>1 DEF SignOnTyped
    <3>2. QED
      BY <2>1, <3>1 DEF AttemptsAreSpent, Starting, Bringing
  <2>4. QED
    BY <2>1, <2>2, <2>3 DEF Fresh, accountVars
<1>3. QED
  BY <1>1, <1>2

\* Settings and the directory.
LEMMA SettingsMove ==
  ASSUME SignOnInv, users \in [People -> Users], SettingsNext(Configs) \/ DirectoryNext
  PROVE  SignOnInv' /\ UNCHANGED accountVars
<1> USE DEF SignOnInv
<1>1. UNCHANGED <<accountVars, attempt, opened, built, coming, matched>>
  BY DEF SettingsNext, SaveSettings, Discover, SetAuthConfig, SettingsSaved, DirectoryNext, Rename
<1>2. AttemptsAreSpent'
  BY <1>1 DEF AttemptsAreSpent, Starting, Bringing
<1>3. /\ Len(saved) \in Nat /\ answered \in 1 .. Len(saved) /\ answered \in Nat
      /\ \A v \in Visits : coming[v] \in IsComing
  BY DEF SignOnTyped
<1>4. ASSUME SignOnTyped', Len(saved) <= Len(saved'), answered <= answered'
      PROVE  ProvidersAreCurrent'
  <2>1. ASSUME NEW v \in Visits PROVE IsCurrent(coming[v])'
    <3>1. IsCurrent(coming[v]) /\ coming[v] \in IsComing
      BY <1>3, EachIsCurrent
    <3>2. Len(saved') \in Nat /\ answered' \in Nat /\ coming'[v] = coming[v]
      BY <1>1, <1>4 DEF SignOnTyped
    <3>3. QED
      BY <1>1, <1>3, <1>4, <3>1, <3>2 DEF IsCurrent, IsComing
  <2>2. QED
    BY <2>1 DEF ProvidersAreCurrent, IsCurrent
<1>5. ASSUME NEW w \in Writers, SaveSettings(w) PROVE SignOnInv'
  <2>1. writer' = [writer EXCEPT ![w] = "discovering"] /\ UNCHANGED <<saved, answered, cached, address>> /\ Served
    BY <1>5 DEF SaveSettings
  <2>2. SignOnTyped'
    BY <1>1, <2>1 DEF SignOnTyped
  <2>3. \E u \in People : users[u].is
    BY <2>1 DEF Served, Rows
  <2>4. QED
    BY <1>1, <1>2, <1>3, <1>4, <2>1, <2>2, <2>3 DEF accountVars
<1>6. ASSUME NEW w \in Writers, writer[w] # "idle",
             SignOnTyped', Len(saved) <= Len(saved'), answered <= answered'
      PROVE  SignOnInv'
  <2>1. ~Fresh
    BY <1>6 DEF Fresh
  <2>2. QED
    BY <1>1, <1>2, <1>4, <1>6, <2>1 DEF accountVars
<1>7. ASSUME NEW w \in Writers, Discover(w) PROVE SignOnInv'
  <2>1. /\ UNCHANGED <<saved, answered, address>> /\ cached' = 0 /\ writer[w] = "discovering"
        /\ \E s \in {"saving", "over"} : writer' = [writer EXCEPT ![w] = s]
    BY <1>7 DEF Discover, Forget
  <2>2. SignOnTyped'
    <3>1. writer' \in [Writers -> {"idle", "discovering", "saving", "forgetting", "over"}]
      BY <2>1 DEF SignOnTyped
    <3>2. 0 \in 0 .. Len(built)
      BY DEF SignOnTyped
    <3>3. QED
      BY <1>1, <2>1, <3>1, <3>2 DEF SignOnTyped
  <2>3. QED
    BY <1>3, <1>6, <2>1, <2>2
<1>8. ASSUME NEW w \in Writers, SettingsSaved(w) PROVE SignOnInv'
  <2>1. /\ UNCHANGED <<saved, address>> /\ cached' = 0 /\ writer[w] = "forgetting" /\ answered' = Len(saved)
        /\ writer' = [writer EXCEPT ![w] = "over"]
    BY <1>8 DEF SettingsSaved, Forget
  <2>2. SignOnTyped'
    <3>1. 0 \in 0 .. Len(built) /\ answered' \in 1 .. Len(saved)
      BY <1>3, <2>1 DEF SignOnTyped
    <3>2. QED
      BY <1>1, <2>1, <3>1 DEF SignOnTyped
  <2>3. QED
    BY <1>3, <1>6, <2>1, <2>2
<1>9. ASSUME NEW w \in Writers, NEW c \in Configs, SetAuthConfig(w, c) PROVE SignOnInv'
  <2>1. /\ UNCHANGED <<answered, cached, address>> /\ writer[w] = "saving" /\ saved' = Append(saved, c)
        /\ writer' = [writer EXCEPT ![w] = "forgetting"]
    BY <1>9 DEF SetAuthConfig
  <2>2. saved' \in Seq(Configs) /\ Len(saved') = Len(saved) + 1
    BY <2>1 DEF SignOnTyped
  <2>3. SignOnTyped'
    <3>1. \A i \in 1 .. Len(built) : built[i] \in 1 .. Len(saved')
      BY <1>3, <2>2 DEF SignOnTyped
    <3>2. QED
      BY <1>1, <1>3, <2>1, <2>2, <3>1 DEF SignOnTyped
  <2>4. QED
    BY <1>3, <1>6, <2>1, <2>2, <2>3
<1>10. ASSUME NEW s \in Subjects, NEW e \in Emails \cup {"none"}, Rename(s, e) PROVE SignOnInv'
  <2>1. UNCHANGED <<saved, answered, cached, writer>> /\ address' = [address EXCEPT ![s] = e]
    BY <1>10 DEF Rename
  <2>2. SignOnTyped'
    BY <1>1, <2>1 DEF SignOnTyped
  <2>3. Fresh => Fresh'
    BY <1>1, <2>1 DEF Fresh
  <2>4. QED
    BY <1>1, <1>2, <1>3, <1>4, <2>1, <2>2, <2>3 DEF accountVars
<1>11. QED
  BY <1>1, <1>5, <1>7, <1>8, <1>9, <1>10 DEF SettingsNext, DirectoryNext

\* Whoever the provider names gets an account, or none.
LEMMA ComingIsLinked ==
  ASSUME SignOnInv, NEW v \in Visits, coming[v].at = "linking",
         Ends(v, "refused") \/ Goes(v, [coming[v] EXCEPT !.at = "linked"]),
         UNCHANGED <<attempt, opened, saved, answered, built, cached, writer, address, outrun>>,
         matched' \in [People -> Subjects \cup {"none"}],
         \A u \in People : users[u].is => users'[u].is
  PROVE  SignOnInv'
<1> USE DEF SignOnInv
<1> DEFINE b == coming[v]
<1>1. b \in IsComing /\ IsCurrent(b) /\ ~b.starting
  BY EachIsCurrent DEF SignOnTyped, IsCurrent, HoldsProvider
<1>2. CASE Ends(v, "refused")
  <2>1. PICK c \in IsComing :
           /\ Goes(v, c) /\ c.at = "refused" /\ c.starting = FALSE /\ c.provider = 0
           /\ c.due = b.due /\ c.judged = b.judged /\ c.misled = b.misled
    BY <1>2, EndsGoes
  <2>2. IsCurrent(c)
    BY <1>1, <2>1 DEF IsCurrent, HoldsProvider, SignOnTyped
  <2>3. SignOnTyped' /\ AttemptsAreSpent' /\ ProvidersAreCurrent'
    BY <2>1, <2>2, BrowserGoesOn
  <2>4. QED
    BY <2>3, SetUp
<1>3. CASE Goes(v, [b EXCEPT !.at = "linked"])
  <2> DEFINE c == [b EXCEPT !.at = "linked"]
  <2>1. /\ c \in IsComing /\ c.at = "linked" /\ c.attempt = b.attempt /\ c.starting = b.starting
        /\ c.due = b.due /\ c.judged = b.judged /\ c.misled = b.misled /\ c.provider = b.provider
    BY <1>1 DEF IsComing
  <2>2. Goes(v, c)
    BY <1>3
  <2> HIDE DEF c
  <2>3. IsCurrent(c)
    BY <1>1, <2>1 DEF IsCurrent, HoldsProvider
  <2>4. Bringing(v, c.attempt)
    BY <1>1, <2>1 DEF Bringing
  <2>5. SignOnTyped' /\ AttemptsAreSpent' /\ ProvidersAreCurrent'
    BY <1>1, <2>1, <2>2, <2>3, <2>4, BrowserGoesOn
  <2>6. QED
    BY <2>5, SetUp
<1>4. QED
  BY <1>2, <1>3

\* An account that is there gets another address or identifier, and whoever
\* came for it passes unless it is disabled.
LEMMA AccountIsLinked ==
  ASSUME PeopleInv, NEW v \in Visits, coming[v].at = "linking", NEW u \in People, users[u].is,
         NEW c \in Users, users' = [users EXCEPT ![u] = c], Passes(v, u),
         c.is, c.role = users[u].role, c.disabled = users[u].disabled, c.password = users[u].password,
         UNCHANGED <<manages, request, lock, setup, settled, passwords, outrun, failures>>,
         UNCHANGED <<attempt, opened, saved, answered, built, cached, writer, address>>,
         matched' \in [People -> Subjects \cup {"none"}]
  PROVE  PeopleInv'
<1> USE DEF PeopleInv
<1>1. /\ users' \in [People -> Users] /\ \A w \in People : users'[w] = IF w = u THEN c ELSE users[w]
      /\ \A w \in People : users[w].password \in Nat
  BY DEF AccountsInv, AccountsTyped, Users
<1> DEFINE in == SessionFor(u, users[u].password)
<1>2. in \in IsVisit /\ in.password >= settled[in.who]
  BY DEF SessionFor, AccountsInv, AccountsTyped, PasswordsAreTrue, IsVisit, Users
<1>3. \/ Ends(v, "refused") /\ UNCHANGED visit
      \/ Goes(v, [coming[v] EXCEPT !.at = "linked"]) /\ visit' = [visit EXCEPT ![v] = in]
  BY DEF Passes
<1> HIDE DEF in
<1>4. visit' \in [Visits -> IsVisit] /\ \A w \in Visits : visit'[w] = visit[w] \/ visit'[w] = in
  BY <1>2, <1>3 DEF AccountsInv, AccountsTyped
<1>5. \A w \in Visits : \/ visit'[w] = visit[w]
                        \/ visit'[w].at \notin {"verified", "in"}
                        \/ Outlives(visit'[w])
                        \/ visit'[w].password >= settled[visit'[w].who]
  BY <1>2, <1>4
<1>6. \A w \in People : /\ users[w].is => /\ users'[w].is /\ users'[w].role = users[w].role
                                          /\ users'[w].disabled = users[w].disabled
                        /\ users[w].password <= users'[w].password
                        /\ users'[w].password <= passwords
                        /\ users'[w].is => users'[w].role \in DOMAIN manages
  BY <1>1 DEF AccountsInv, PasswordsAreTrue, RolesExist
<1>7. AccountsInv'
  <2>1. /\ lock' \in Setups \cup {"free"} /\ failures' \in 0 .. MaxFailures
        /\ setup' \in [Setups -> {"idle", "locked", "made", "refused"}]
    BY DEF AccountsInv, AccountsTyped
  <2>2. InCharge => \A s, t \in Setups : setup'[s] = "made" /\ setup'[t] = "made" => s = t
    BY DEF InCharge
  <2>3. users'[u].is
    BY <1>6
  <2>4. QED
    BY <1>1, <1>4, <1>5, <1>6, <2>1, <2>2, <2>3, MildStep
<1>8. SignOnInv'
  BY <1>3, <1>6, ComingIsLinked
<1>9. QED
  BY <1>7, <1>8

LEMMA LinksStep ==
  ASSUME PeopleInv, NEW v \in Visits, NEW u \in People, LinkKnown(v, u) \/ LinkByEmail(v, u)
  PROVE  PeopleInv'
<1>1. /\ coming[v].at = "linking" /\ users[u].is
      /\ UNCHANGED <<manages, request, lock, setup, settled, passwords, outrun, failures>>
      /\ UNCHANGED <<attempt, opened, saved, answered, built, cached, writer, address>>
  BY DEF LinkKnown, LinkByEmail, By, ByEmail
<1>2. /\ users[u] \in Users /\ coming[v].email \in Emails /\ coming[v].subject \in Subjects
      /\ matched \in [People -> Subjects \cup {"none"}] /\ coming[v] \in IsComing
  BY <1>1 DEF PeopleInv, AccountsInv, AccountsTyped, SignOnInv, SignOnTyped, ProvidersAreCurrent
<1>3. CASE LinkKnown(v, u)
  <2>1. CASE \E w \in Rows \ {u} : users[w].email = coming[v].email
    <3>1. UNCHANGED <<users, visit, matched>> /\ Ends(v, "refused")
      BY <1>3, <2>1 DEF LinkKnown
    <3>2. SignOnInv'
      BY <1>1, <1>2, <3>1, ComingIsLinked DEF PeopleInv
    <3>3. failures' \in 0 .. MaxFailures /\ visit' \in [Visits -> IsVisit]
      BY <1>1, <3>1 DEF PeopleInv, AccountsInv, AccountsTyped
    <3>4. AccountsInv'
      BY <1>1, <3>1, <3>3, BrowsersMove DEF PeopleInv
    <3>5. QED
      BY <3>2, <3>4 DEF PeopleInv
  <2>2. CASE ~\E w \in Rows \ {u} : users[w].email = coming[v].email
    <3> DEFINE c == [users[u] EXCEPT !.email = coming[v].email]
    <3>1. users' = [users EXCEPT ![u] = c] /\ Passes(v, u) /\ UNCHANGED matched
      BY <1>3, <2>2 DEF LinkKnown
    <3>2. /\ c \in Users /\ c.is = users[u].is /\ c.role = users[u].role
          /\ c.disabled = users[u].disabled /\ c.password = users[u].password
      BY <1>2 DEF Users
    <3> HIDE DEF c
    <3>3. QED
      BY <1>1, <1>2, <3>1, <3>2, AccountIsLinked
  <2>3. QED
    BY <2>1, <2>2
<1>4. CASE LinkByEmail(v, u)
  <2> DEFINE c == [users[u] EXCEPT !.subject = coming[v].subject]
  <2>1. /\ users' = [users EXCEPT ![u] = c] /\ Passes(v, u)
        /\ matched' = [matched EXCEPT ![u] = IF @ = "none" THEN coming[v].subject ELSE @]
    BY <1>4 DEF LinkByEmail
  <2>2. /\ c \in Users /\ c.is = users[u].is /\ c.role = users[u].role
        /\ c.disabled = users[u].disabled /\ c.password = users[u].password
    BY <1>2 DEF Users
  <2> HIDE DEF c
  <2>3. matched' \in [People -> Subjects \cup {"none"}]
    BY <1>2, <2>1
  <2>4. QED
    BY <1>1, <1>2, <2>1, <2>2, <2>3, AccountIsLinked
<1>5. QED
  BY <1>3, <1>4

LEMMA ProvisionStep ==
  ASSUME PeopleInv, NEW v \in Visits, NEW u \in People, Provision(v, u)
  PROVE  PeopleInv'
<1> USE DEF PeopleInv
<1> DEFINE role == saved[built[coming[v].provider]].role
           may == saved[built[coming[v].provider]].provision /\ role \in DOMAIN manages
<1>1. /\ coming[v].at = "linking"
      /\ UNCHANGED <<manages, request, lock, setup, settled, passwords, outrun, failures>>
      /\ UNCHANGED <<attempt, opened, saved, answered, built, cached, writer, address>>
  BY DEF Provision
<1>2. /\ coming[v].email \in Emails /\ coming[v].subject \in Subjects
      /\ matched \in [People -> Subjects \cup {"none"}]
      /\ failures' \in 0 .. MaxFailures /\ lock' \in Setups \cup {"free"}
      /\ setup' \in [Setups -> {"idle", "locked", "made", "refused"}]
      /\ visit \in [Visits -> IsVisit] /\ users \in [People -> Users]
      /\ passwords \in Nat /\ settled \in [People -> 0 .. MaxPasswords]
  BY <1>1 DEF AccountsInv, AccountsTyped, SignOnInv, SignOnTyped, ProvidersAreCurrent
<1>3. outrun \/ \E w \in People : users[w].is
  BY <1>1, SetUp
<1>4. CASE ~may
  <2>1. UNCHANGED <<users, visit, matched>> /\ Ends(v, "refused")
    BY <1>4 DEF Provision
  <2>2. SignOnInv'
    BY <1>1, <1>2, <2>1, ComingIsLinked
  <2>3. AccountsInv'
    BY <1>1, <1>2, <2>1, BrowsersMove
  <2>4. QED
    BY <2>2, <2>3
<1>5. CASE may
  <2> DEFINE c == Account(coming[v].email, role, 0, coming[v].subject)
             in == SessionFor(u, 0)
  <2>1. /\ users[u] = Nobody /\ users' = [users EXCEPT ![u] = c]
        /\ matched' = [matched EXCEPT ![u] = coming[v].subject]
        /\ visit' = [visit EXCEPT ![v] = in] /\ Goes(v, [coming[v] EXCEPT !.at = "linked"])
        /\ role \in DOMAIN manages
    BY <1>5 DEF Provision, Insert
  <2>2. role \in AllRoles
    BY <2>1 DEF AccountsInv, AccountsTyped
  <2> HIDE DEF role
  <2>3. c \in Users /\ c.role = role /\ c.password = 0
    BY <1>2, <2>2, AccountBounds DEF Users, Account
  <2> HIDE DEF c
  <2>4. users[u].is = FALSE /\ users[u].password = 0
    BY <2>1 DEF Nobody
  <2>5. in \in IsVisit /\ in.password >= settled[in.who]
    BY <1>2, <2>4, AccountBounds DEF SessionFor, IsVisit, AccountsInv, PasswordsAreTrue
  <2> HIDE DEF in
  <2>6. /\ users' \in [People -> Users] /\ \A w \in People : users'[w] = IF w = u THEN c ELSE users[w]
    BY <1>2, <2>1, <2>3
  <2>7. visit' \in [Visits -> IsVisit] /\ \A w \in Visits : visit'[w] = visit[w] \/ visit'[w] = in
    BY <1>2, <2>1, <2>5
  <2>8. \A w \in People : users[w].is => /\ users'[w].is /\ users'[w].role = users[w].role
                                         /\ users'[w].disabled = users[w].disabled
    BY <2>4, <2>6
  <2>9. \A w \in People : /\ users[w].password <= users'[w].password
                          /\ users'[w].password <= passwords
                          /\ users'[w].is => users'[w].role \in DOMAIN manages
    <3>1. \A w \in People : users[w].password \in Nat
      BY <1>2 DEF Users
    <3>2. QED
      BY <1>2, <2>1, <2>3, <2>4, <2>6, <3>1 DEF AccountsInv, PasswordsAreTrue, RolesExist
  <2>10. \A w \in Visits : \/ visit'[w] = visit[w]
                           \/ visit'[w].at \notin {"verified", "in"}
                           \/ Outlives(visit'[w])
                           \/ visit'[w].password >= settled[visit'[w].who]
    BY <2>5, <2>7
  <2>11. InCharge => \A s, t \in Setups : setup'[s] = "made" /\ setup'[t] = "made" => s = t
    BY <1>1 DEF InCharge
  <2>12. outrun \/ \E w \in People : users'[w].is
    BY <1>3, <2>8
  <2>13. AccountsInv'
    BY <1>1, <1>2, <1>3, <2>6, <2>7, <2>8, <2>9, <2>10, <2>11, <2>12, MildStep
  <2>14. matched' \in [People -> Subjects \cup {"none"}]
    BY <1>2, <2>1
  <2>15. SignOnInv'
    BY <1>1, <2>1, <2>8, <2>14, ComingIsLinked
  <2>16. QED
    BY <2>13, <2>15
<1>6. QED
  BY <1>4, <1>5

\* The browser is let in: the session is the first of its attempt.
LEMMA SessionIsOpened ==
  ASSUME PeopleInv, NEW v \in Visits, OpenSession(v)
  PROVE  PeopleInv'
<1> USE DEF PeopleInv, SignOnInv
<1>0. PICK a : a = coming[v].attempt
  OBVIOUS
<1>1. /\ coming[v].at = "linked" /\ CreateSession(v) /\ Ends(v, "over")
      /\ UNCHANGED <<attempt, saved, answered, built, cached, writer, address, matched>>
      /\ opened' = IF visit'[v].at = "in" THEN [opened EXCEPT ![a] = @ + 1] ELSE opened
  BY <1>0 DEF OpenSession
<1>2. AccountsInv'
  BY <1>1, SessionsStep DEF SessionStep
<1>3. UNCHANGED <<users, outrun>>
  BY <1>1 DEF CreateSession
<1>4. PICK c \in IsComing :
        /\ Goes(v, c) /\ c.at = "over" /\ c.starting = FALSE /\ c.provider = 0
        /\ c.due = coming[v].due /\ c.judged = coming[v].judged /\ c.misled = coming[v].misled
  BY <1>1, EndsGoes
<1>5. /\ coming' \in [Visits -> IsComing]
      /\ \A w \in Visits : coming'[w] = IF w = v THEN c ELSE coming[w]
  BY <1>4, OneGoesOn
<1>6. opened' \in [Attempts -> Nat] /\ \A x \in Attempts : x # a => opened'[x] = opened[x]
  <2>1. opened \in [Attempts -> Nat]
    BY DEF SignOnTyped
  <2>2. CASE visit'[v].at = "in"
    <3>1. opened' = [opened EXCEPT ![a] = @ + 1]
      BY <1>1, <2>2
    <3>2. \A x \in Attempts : opened'[x] = IF x = a THEN opened[a] + 1 ELSE opened[x]
      BY <2>1, <3>1
    <3>3. \A x \in Attempts : opened'[x] \in Nat
      BY <2>1, <3>2
    <3>4. opened' \in [Attempts -> Nat]
      BY <2>1, <3>1, <3>3
    <3>5. QED
      BY <3>2, <3>4
  <2>3. CASE visit'[v].at # "in"
    BY <1>1, <2>1, <2>3
  <2>4. QED
    BY <2>2, <2>3
<1>7. SignOnTyped'
  BY <1>1, <1>5, <1>6 DEF SignOnTyped
<1>8. Bringing(v, a)
  BY <1>0, <1>1 DEF Bringing, ProvidersAreCurrent, HoldsProvider
<1>9. ASSUME NEW w \in Visits, NEW x \in Attempts
      PROVE  /\ Starting(w, x)' => Starting(w, x)
             /\ Bringing(w, x)' => Bringing(w, x) /\ w # v
  BY <1>4, <1>5 DEF Starting, Bringing
<1>10. AttemptsAreSpent'
  <2>1. ASSUME NEW x \in Attempts, x # a
        PROVE  /\ opened'[x] <= 1 /\ (opened'[x] = 1 => attempt'[x] = "gone")
               /\ \A w \in Visits : Starting(w, x)' => attempt'[x] = "unused"
               /\ \A w, y \in Visits : Starting(w, x)' /\ Starting(y, x)' => w = y
               /\ \A w \in Visits : Bringing(w, x)' => attempt'[x] = "gone" /\ opened'[x] = 0
               /\ \A w, y \in Visits : Bringing(w, x)' /\ Bringing(y, x)' => w = y
    BY <1>1, <1>6, <1>9, <2>1 DEF AttemptsAreSpent
  <2>2. ASSUME a \in Attempts
        PROVE  /\ opened'[a] <= 1 /\ attempt'[a] = "gone"
               /\ \A w \in Visits : ~Starting(w, a)' /\ ~Bringing(w, a)'
    <3>1. attempt[a] = "gone" /\ opened[a] = 0 /\ \A w \in Visits : Bringing(w, a) => w = v
      BY <1>8, <2>2 DEF AttemptsAreSpent
    <3>2. opened'[a] \in {0, 1}
      BY <1>1, <2>2, <3>1 DEF SignOnTyped
    <3>3. \A w \in Visits : ~Starting(w, a)
      BY <2>2, <3>1 DEF AttemptsAreSpent
    <3>4. QED
      BY <1>1, <1>9, <2>2, <3>1, <3>2, <3>3
  <2>3. QED
    BY <2>1, <2>2 DEF AttemptsAreSpent
<1>11. ProvidersAreCurrent'
  <2>1. IsCurrent(c)
    BY <1>4, EachIsCurrent DEF IsCurrent, HoldsProvider, SignOnTyped
  <2>2. \A w \in Visits : IsCurrent(coming'[w])
    BY <1>5, <2>1, EachIsCurrent
  <2>3. QED
    BY <1>1, <2>2 DEF ProvidersAreCurrent, IsCurrent
<1>12. QED
  BY <1>1, <1>2, <1>3, <1>7, <1>10, <1>11, SetUp

-----------------------------------------------------------------------------
(***************************************************************************)
(* All of it together.                                                     *)
(***************************************************************************)

\* What the accounts do by themselves leaves sign-on as it is.
LEMMA AccountsLeaveSignOn ==
  ASSUME PeopleInv, AccountsInv', UNCHANGED signVars,
         SetupNext \/ RequestNext \/ RoleNext \/ \E v \in Visits : SessionStep(v)
  PROVE  SignOnInv'
<1> USE DEF PeopleInv, SignOnInv
<1>1. UNCHANGED <<attempt, opened, saved, answered, built, cached, coming, writer, address, matched>>
  BY DEF signVars
<1>2. SignOnTyped' /\ AttemptsAreSpent' /\ ProvidersAreCurrent' /\ (Fresh => Fresh')
  <2>1. SignOnTyped'
    BY <1>1 DEF SignOnTyped
  <2>2. AttemptsAreSpent'
    BY <1>1 DEF AttemptsAreSpent, Starting, Bringing
  <2>3. ProvidersAreCurrent'
    BY <1>1 DEF ProvidersAreCurrent
  <2>4. Fresh => Fresh'
    BY <1>1 DEF Fresh
  <2>5. QED
    BY <2>1, <2>2, <2>3, <2>4
<1>3. outrun => outrun'
  BY DEF SetupNext, LockSetup, CreateFirstUser, RequestNext, Enter, Find, CheckRole, CheckSwitch, CheckRemove,
         SetUserRole, SetUserDisabled, DeleteUser, SetUserPassword, EndSessions, Onto, RoleNext, CreateUser,
         CreateRole, UpdateRole, DeleteRole, SessionStep, Authenticate, CreateSession, SessionGone, Logout,
         EndSession, PruneSessions
<1>4. ASSUME NEW u \in People, users[u].is PROVE outrun' \/ \E w \in People : users'[w].is
  <2>1. users \in [People -> Users]
    BY DEF AccountsInv, AccountsTyped
  <2>2. ASSUME users' = users PROVE users'[u].is
    BY <1>4, <2>2
  <2>3. CASE RoleNext \/ \E v \in Visits : SessionStep(v)
    <3>1. CASE \E w \in People, e \in Emails, role \in AllRoles : CreateUser(w, e, role)
      <4>1. PICK w \in People : /\ users[w] = Nobody
                               /\ \A x \in People : x = w \/ users'[x] = users[x]
        BY <2>1, <3>1 DEF CreateUser, Insertable, Insert
      <4>2. w # u
        BY <1>4, <4>1 DEF Nobody
      <4>3. QED
        BY <1>4, <2>1, <4>1, <4>2
    <3>2. CASE ~\E w \in People, e \in Emails, role \in AllRoles : CreateUser(w, e, role)
      <4>1. users' = users
        BY <2>3, <3>2 DEF RoleNext, CreateRole, UpdateRole, DeleteRole, SessionStep, Authenticate, CreateSession,
                          SessionGone, Logout, EndSession, PruneSessions
      <4>2. QED
        BY <2>2, <4>1
    <3>3. QED
      BY <3>1, <3>2
  <2>4. CASE SetupNext
    <3>1. Rows # {}
      BY <1>4, <2>1 DEF Rows
    <3>2. users' = users
      BY <2>4, <3>1 DEF SetupNext, LockSetup, CreateFirstUser, Open
    <3>3. QED
      BY <2>2, <3>2
  <2>5. CASE RequestNext
    <3>1. PICK r \in Requests :
            \/ \E v \in Visits, w \in People, wish \in Wishes : Enter(r, v, w, wish)
            \/ Find(r) \/ CheckRole(r) \/ CheckSwitch(r) \/ CheckRemove(r)
            \/ SetUserRole(r) \/ SetUserDisabled(r) \/ DeleteUser(r) \/ SetUserPassword(r) \/ EndSessions(r)
      BY <2>5 DEF RequestNext
    <3>2. users[request[r].whom] \in Users /\ users[u] \in Users /\ request[r] \in IsRequest
      BY <2>1 DEF AccountsInv, AccountsTyped, IsRequest
    <3>3. CASE DeleteUser(r)
      <4>1. CASE outrun'
        BY <4>1
      <4>2. CASE ~outrun'
        <5>1. CASE ~users[request[r].whom].is
          <6>1. u # request[r].whom
            BY <1>4, <5>1
          <6>2. QED
            BY <1>4, <2>1, <3>3, <6>1 DEF DeleteUser
        <5>2. CASE users[request[r].whom].is
          <6>1. ~outrun /\ ~request[r].overtaken
            BY <3>3, <4>2, <5>2 DEF DeleteUser, Onto
          <6>2. Others(request[r].whom)
            BY <3>3, <6>1 DEF DeleteUser, AccountsInv, ChargeIsKept, InCharge, Knows
          <6>3. PICK w \in People : w # request[r].whom /\ users[w].is
            BY <6>2 DEF Others, IsAdmin
          <6>4. users'[w] = users[w]
            BY <2>1, <3>3, <6>3 DEF DeleteUser
          <6>5. QED
            BY <6>3, <6>4
        <5>3. QED
          BY <5>1, <5>2
      <4>3. QED
        BY <4>1, <4>2
    <3>4. CASE ~DeleteUser(r)
      <4>1. \/ users' = users
            \/ \E x : users' = [users EXCEPT ![request[r].whom].role = x]
            \/ \E x : users' = [users EXCEPT ![request[r].whom].disabled = x]
            \/ \E x : users' = [users EXCEPT ![request[r].whom].password = x]
        BY <3>1, <3>4 DEF Enter, Find, CheckRole, CheckSwitch, CheckRemove, SetUserRole, SetUserDisabled,
                          SetUserPassword, EndSessions
      <4>2. PICK w \in People : w = request[r].whom
        BY <3>2 DEF IsRequest
      <4>3. users[w] \in Users
        BY <2>1
      <4>4. \A x : /\ [users[w] EXCEPT !.role = x].is = users[w].is
                   /\ [users[w] EXCEPT !.disabled = x].is = users[w].is
                   /\ [users[w] EXCEPT !.password = x].is = users[w].is
        BY <4>3 DEF Users
      <4>5. \/ users' = users
            \/ \E d : users' = [users EXCEPT ![w] = d] /\ d.is = users[w].is
        BY <4>1, <4>2, <4>4, ZenonT(60)
      <4>6. users'[u].is
        BY <1>4, <2>1, <4>5
      <4>7. QED
        BY <4>6
    <3>5. QED
      BY <3>3, <3>4
  <2>6. QED
    BY <2>3, <2>4, <2>5
<1>5. QED
  BY <1>2, <1>3, <1>4

LEMMA PeopleStep == PeopleInv /\ [PeopleNext]_vars => PeopleInv'
<1> SUFFICES ASSUME PeopleInv, [PeopleNext]_vars PROVE PeopleInv'
  OBVIOUS
<1> USE DEF PeopleInv
<1>1. ASSUME UNCHANGED accountVars PROVE AccountsInv'
  <2>1. UNCHANGED <<users, manages, visit, request, lock, setup, settled, passwords, outrun, failures>>
    BY <1>1 DEF accountVars
  <2>2. AccountsTyped' /\ RolesExist' /\ PasswordsAreTrue'
    BY <2>1 DEF AccountsInv, AccountsTyped, RolesExist, PasswordsAreTrue
  <2>3. ChargeIsKept'
    BY <2>1 DEF AccountsInv, ChargeIsKept, InCharge, Knows, Others, IsAdmin
  <2>4. QED
    BY <2>2, <2>3 DEF AccountsInv
<1>2. CASE /\ SetupNext \/ RequestNext \/ RoleNext \/ \E v \in Visits : ~Through(v) /\ SessionStep(v)
           /\ UNCHANGED signVars
  <2>1. SetupNext \/ RequestNext \/ RoleNext \/ \E v \in Visits : SessionStep(v)
    BY <1>2
  <2>2. AccountsInv'
    BY <2>1, AccountsStep
  <2>3. QED
    BY <1>2, <2>1, <2>2, AccountsLeaveSignOn
<1>3. ASSUME NEW v \in Visits, NEW a \in Attempts, Start(v, a) \/ ConsumeOIDCState(v, a) PROVE PeopleInv'
  BY <1>1, <1>3, ComingBegins DEF Start, ConsumeOIDCState
<1>4. ASSUME NEW v \in Visits, ReadSettings(v) \/ Exchange(v) \/ PermittedDomain(v) PROVE PeopleInv'
  BY <1>1, <1>4, ComingIsJudged DEF ReadSettings, Exchange, PermittedDomain
<1>5. ASSUME NEW v \in Visits, GetProvider(v) PROVE PeopleInv'
  BY <1>1, <1>5, ProviderIsGot DEF GetProvider
<1>6. ASSUME NEW v \in Visits, StartOIDCState(v) PROVE PeopleInv'
  BY <1>1, <1>6, AttemptMoves DEF StartOIDCState
<1>7. ASSUME NEW a \in Attempts, PurgeExpired(a) PROVE PeopleInv'
  BY <1>1, <1>7, AttemptMoves DEF PurgeExpired
<1>8. CASE VisitNext
  BY <1>3, <1>4, <1>5, <1>6, <1>7, <1>8, SessionIsOpened, LinksStep, ProvisionStep DEF VisitNext
<1>9. CASE SettingsNext(Configs) \/ DirectoryNext
  BY <1>1, <1>9, SettingsMove DEF AccountsInv, AccountsTyped
<1>10. CASE UNCHANGED vars
  <2>1. UNCHANGED accountVars /\ UNCHANGED signVars
    BY <1>10 DEF vars
  <2>2. SignOnTyped' /\ AttemptsAreSpent' /\ ProvidersAreCurrent'
    BY <2>1 DEF SignOnInv, SignOnTyped, AttemptsAreSpent, Starting, Bringing, ProvidersAreCurrent, signVars
  <2>3. (outrun \/ (\E u \in People : users[u].is) \/ Fresh)'
    BY <2>1 DEF SignOnInv, Fresh, signVars, accountVars
  <2>4. QED
    BY <1>1, <2>1, <2>2, <2>3 DEF SignOnInv
<1>11. QED
  BY <1>2, <1>8, <1>9, <1>10 DEF PeopleNext

LEMMA PeopleAlways == PeopleSpec => []PeopleInv
<1>1. PeopleInit => PeopleInv
  <2> SUFFICES ASSUME PeopleInit PROVE PeopleInv
    OBVIOUS
  <2>1. AccountsInv
    BY AccountsStart DEF PeopleInit
  <2>2. QED
    BY <2>1, SignOnStarts DEF PeopleInv
<1>2. QED
  BY <1>1, PeopleStep, PTL DEF PeopleSpec

\* Accounts have their types, somebody is in charge unless two changes met and
\* nobody has a role that does not exist, an old password opens nothing once the
\* new one is answered, and an attempt to sign in makes one session: however
\* calls, sign-ins and settings interleave.
THEOREM PeopleSafe == PeopleSpec => []PeopleAreSafe
<1>1. PeopleInv => PeopleAreSafe
  <2> SUFFICES ASSUME PeopleInv PROVE PeopleAreSafe
    OBVIOUS
  <2> USE DEF PeopleInv, AccountsInv, SignOnInv
  <2>1. AccountsTypeOK
    BY AccountBounds DEF AccountsTyped, AccountsTypeOK, IsVisit, IsRequest
  <2>2. SignOnTypeOK
    <3>1. \A v \in Visits : coming[v].provider \in 0 .. Len(built) /\ coming[v].judged \in 0 .. Len(saved)
      <4>1. Len(built) \in Nat /\ Len(saved) \in Nat /\ \A v \in Visits : coming[v] \in IsComing
        BY DEF SignOnTyped
      <4>2. QED
        BY <4>1 DEF ProvidersAreCurrent, IsComing
    <3>2. QED
      BY <3>1 DEF SignOnTyped, SignOnTypeOK
  <2>3. SomebodyInChargeUndisturbed
    <3>1. DOMAIN users = People
      BY DEF AccountsTyped
    <3>2. \A u \in Rows : users[u].role \in DOMAIN manages
      BY <3>1 DEF RolesExist, Rows
    <3>3. ASSUME ~outrun PROVE SomebodyInCharge /\ Cardinality({s \in Setups : setup[s] = "made"}) <= 1
      <4>1. InCharge
        BY <3>3 DEF ChargeIsKept
      <4>2. SomebodyInCharge
        BY <3>1, <4>1 DEF InCharge, SomebodyInCharge, Served, Rows, Admins, IsAdmin
      <4>3. PICK made : made = {s \in Setups : setup[s] = "made"}
        OBVIOUS
      <4>4. made = {} \/ \E s \in Setups : made = {s}
        BY <4>1, <4>3 DEF InCharge
      <4>5. Cardinality(made) \in {0, 1}
        BY <4>4, FS_EmptySet, FS_Singleton
      <4>6. Cardinality(made) <= 1
        BY <4>5
      <4>7. QED
        BY <4>2, <4>3, <4>6
    <3>4. QED
      BY <3>2, <3>3 DEF SomebodyInChargeUndisturbed
  <2>4. OldPasswordOpensNothing
    BY DEF PasswordsAreTrue, OldPasswordOpensNothing, SignedIn
  <2>5. OneSessionEach
    BY DEF AttemptsAreSpent, OneSessionEach
  <2>6. QED
    BY <2>1, <2>2, <2>3, <2>4, <2>5 DEF PeopleAreSafe
<1>2. QED
  BY <1>1, PeopleAlways, PTL

\* Whoever comes back after settings were saved is judged by nothing older, but
\* for one whom a slower sign-in handed what it had read before.
THEOREM SettingsInForce == PeopleSpec => []SettingsTakeEffect
<1>1. PeopleInv => SettingsTakeEffect
  BY DEF PeopleInv, SignOnInv, ProvidersAreCurrent, SettingsTakeEffect
<1>2. QED
  BY <1>1, PeopleAlways, PTL

(***************************************************************************)
(* Holdings: the inductive invariant.                                      *)
(***************************************************************************)

DoingRecords ==
  [op : Ops \cup {"none"}, firm : Firms \cup {"nobody"}, moved : BOOLEAN, read : BOOLEAN,
   at : {"idle", "changing", "recording", "forgetting", "announcing", "over", "refused"}]
GlanceRecords ==
  [firm : Firms \cup {"nobody"}, by : 0 .. MaxConnections, at : {"idle", "asking", "holding", "over"}]
Events == [of : Doings, tries : Nat]

HoldTyped ==
  /\ firms \subseteq Firms /\ link \in [Marks -> Firms \cup {"nobody"}]
  /\ sealed \in [Firms -> 0 .. MaxConnections]
  /\ known \in [Firms -> 0 .. MaxConnections]
  /\ kept \in [Firms -> 0 .. MaxConnections]
  /\ listed \in BOOLEAN /\ provider \in BOOLEAN /\ holder \in [Holders -> Ways]
  /\ doing \in [Doings -> DoingRecords]
  /\ glance \in [Glances -> GlanceRecords]
  /\ stream \in Seq(Events)
  /\ log \in [Doings -> 0 .. MaxTries] /\ took \in [Doings -> SUBSET Doings]
  /\ severed \subseteq Firms /\ adrift \subseteq Firms /\ spoiled \subseteq Doings
  /\ saves \in 0 .. MaxConnections /\ losses \in 0 .. MaxLosses

\* A call knows whose it is, and only some calls have answers to forget or
\* plugins to tell; a read is of a customer.
CallFits(d) ==
  /\ d.op \in {"save", "disconnect", "link", "create"} => d.firm \in Firms
  /\ d.at = "forgetting" => d.op = "disconnect"
  /\ d.at = "announcing" => d.op \in {"save", "disconnect", "reset"}
CallsFit == /\ \A k \in Doings : CallFits(doing[k])
            /\ \A r \in Glances : glance[r].at \in {"asking", "holding"} => glance[r].firm \in Firms

\* A reset that has looked, and that nobody overtook, found a password.
ResetsLooked ==
  \A k \in Doings : doing[k].op = "reset" /\ doing[k].at = "changing" /\ ~doing[k].moved => WithPassword # {}

\* What was severed stays so: nothing is in hand that could bring it back.
Severance(c) ==
  c \in severed \ adrift => /\ sealed[c] = 0 /\ kept[c] = 0 /\ known[c] = 0
                   /\ \A r \in Glances : ~(glance[r].at = "holding" /\ glance[r].firm = c)

\* A call that severs: the answers kept are gone from here on, and without a
\* read beside it nothing is in hand.
Emptying(d) == \/ d.op \in {"disconnect", "reset"} /\ d.at = "announcing"
               \/ d.op = "reset" /\ d.at = "recording"
CutsClean(k) ==
  k \notin spoiled /\ ~doing[k].read =>
    \A c \in Severing(k) : ~InHand(c) /\ (Emptying(doing[k]) => kept[c] = 0)

\* A call is on record once or on its way there once, and before it was made
\* not at all; whatever became of it, not more often than it was tried.
Early == {"idle", "changing", "recording", "refused"}
Waits(k) == \E i \in 1 .. Len(stream) : stream[i].of = k
EventFine(i) ==
  /\ log[stream[i].of] <= stream[i].tries /\ stream[i].tries < MaxTries
  /\ doing[stream[i].of].at \notin Early
CallFine(k) ==
  /\ doing[k].at \in Early => log[k] = 0
  /\ k \notin spoiled =>
       /\ log[k] <= 1 /\ (Waits(k) => log[k] = 0)
       /\ doing[k].at \notin Early => log[k] = 1 \/ Waits(k) \/ took[k] \ {k} # {}
TrailFine ==
  /\ \A i, j \in 1 .. Len(stream) : stream[i].of = stream[j].of => i = j
  /\ \A i \in 1 .. Len(stream) : EventFine(i)
  /\ \A k \in Doings : CallFine(k)

HoldInv ==
  /\ HoldTyped /\ CallsFit /\ ResetsLooked
  /\ \A c \in Firms : Severance(c)
  /\ \A k \in Doings : CutsClean(k)
  /\ TrailFine

(***************************************************************************)
(* One call goes on, and what the invariant says of the others.            *)
(***************************************************************************)

Ats == {"idle", "changing", "recording", "forgetting", "announcing", "over", "refused"}

LEMMA GoesOn ==
  ASSUME doing \in [Doings -> DoingRecords], NEW k \in Doings, NEW at \in Ats, Moves(k, at)
  PROVE  /\ doing' \in [Doings -> DoingRecords]
         /\ \A j \in Doings : j # k => doing'[j] = doing[j]
         /\ doing'[k].at = at /\ doing'[k].op = doing[k].op /\ doing'[k].firm = doing[k].firm
         /\ doing'[k].moved = doing[k].moved /\ doing'[k].read = doing[k].read
<1>1. PICK d : d = [doing[k] EXCEPT !.at = at] OBVIOUS
<1>2. doing[k] \in DoingRecords OBVIOUS
<1>3. /\ d \in DoingRecords /\ d.at = at /\ d.op = doing[k].op /\ d.firm = doing[k].firm
      /\ d.moved = doing[k].moved /\ d.read = doing[k].read
  BY <1>1, <1>2 DEF DoingRecords, Ats
<1>4. doing' = [doing EXCEPT ![k] = d] BY <1>1 DEF Moves
<1> QED BY <1>3, <1>4

LEMMA EventsAre ==
  ASSUME NEW s \in Seq(Events)
  PROVE  \A i \in 1 .. Len(s) : s[i] \in Events /\ s[i].of \in Doings /\ s[i].tries \in Nat
<1>1. \A i \in 1 .. Len(s) : s[i] \in Events BY ElementOfSeq
<1> QED BY <1>1 DEF Events

\* Nothing happened to the trail.
LEMMA TrailUntouched ==
  ASSUME HoldTyped, HoldTyped', TrailFine, UNCHANGED trailVars, spoiled \subseteq spoiled',
         \A j \in Doings : doing[j].at \notin Early => doing'[j].at \notin Early,
         \A j \in Doings : doing[j].at \in Early /\ j \notin spoiled' => doing'[j].at \in Early
  PROVE  TrailFine'
<1>1. stream' = stream /\ log' = log /\ took' = took BY DEF trailVars
<1>2. \A i \in 1 .. Len(stream) : stream[i].of \in Doings BY EventsAre DEF HoldTyped
<1>3. \A i \in 1 .. Len(stream') : EventFine(i)'
  BY <1>1, <1>2 DEF TrailFine, EventFine
<1>4. ASSUME NEW k \in Doings PROVE CallFine(k)'
  <2>1. CallFine(k) BY DEF TrailFine
  <2>2. Waits(k)' <=> Waits(k) BY <1>1 DEF Waits
  <2> QED BY <1>1, <2>1, <2>2 DEF CallFine
<1> QED BY <1>1, <1>3, <1>4 DEF TrailFine

\* Nothing happened to connections and answers; calls went on without severing
\* more than they had.
LEMMA CutsUntouched ==
  ASSUME HoldTyped, HoldTyped', \A k \in Doings : CutsClean(k),
         UNCHANGED <<kept, glance>>, spoiled \subseteq spoiled',
         \A j \in Doings : \/ j \in spoiled' \/ doing'[j].at \in {"idle", "over", "refused"}
                           \/ /\ doing[j].at \notin {"idle", "over", "refused"}
                              /\ doing'[j].op = doing[j].op /\ doing'[j].firm = doing[j].firm
                              /\ doing'[j].read = doing[j].read
                              /\ Emptying(doing'[j]) => Emptying(doing[j])
  PROVE  \A k \in Doings : CutsClean(k)'
<1> SUFFICES ASSUME NEW k \in Doings, k \notin spoiled', ~doing'[k].read, NEW c \in Severing(k)'
             PROVE  ~InHand(c)' /\ (Emptying(doing'[k]) => kept'[c] = 0)
  BY DEF CutsClean
<1>1. doing'[k].at \notin {"idle", "over", "refused"} BY DEF Severing
<1>2. /\ doing[k].at \notin {"idle", "over", "refused"}
      /\ doing'[k].op = doing[k].op /\ doing'[k].firm = doing[k].firm
      /\ doing'[k].read = doing[k].read
      /\ Emptying(doing'[k]) => Emptying(doing[k])
  BY <1>1
<1>3. c \in Severing(k) BY <1>1, <1>2 DEF Severing
<1>4. ~InHand(c) /\ (Emptying(doing[k]) => kept[c] = 0) BY <1>2, <1>3 DEF CutsClean
<1>5. ~InHand(c)' BY <1>4 DEF InHand
<1> QED BY <1>2, <1>4, <1>5

LEMMA LooksUntouched ==
  ASSUME ResetsLooked, UNCHANGED holder,
         \A j \in Doings : doing'[j].op = "reset" /\ doing'[j].at = "changing" /\ ~doing'[j].moved
                           => doing[j].op = "reset" /\ doing[j].at = "changing" /\ ~doing[j].moved
  PROVE  ResetsLooked'
BY DEF ResetsLooked, WithPassword

LEMMA SeveranceUntouched ==
  ASSUME \A c \in Firms : Severance(c), UNCHANGED <<sealed, known, kept, glance, severed, adrift>>
  PROVE  \A c \in Firms : Severance(c)'
BY DEF Severance

(***************************************************************************)
(* The calls.                                                              *)
(***************************************************************************)

LEMMA UndertakeHolds ==
  ASSUME HoldInv, NEW k \in Doings, NEW op \in Ops, NEW c \in Firms \cup {"nobody"}, Undertake(k, op, c)
  PROVE  HoldInv'
<1> USE DEF HoldInv
<1>1. /\ doing[k].at = "idle" /\ (op \in {"create", "save", "disconnect", "link"} => c \in Firms)
      /\ UNCHANGED <<spineVars, known, kept, listed, holder, provider, glance, trailVars, severed, adrift, spoiled, saves, losses>>
  BY DEF Undertake
<1>2. PICK at : at = (IF op = "reset" /\ WithPassword = {} THEN "refused" ELSE "changing") OBVIOUS
<1>3. PICK read \in BOOLEAN :
        read = \E d \in (IF op = "reset" THEN Firms ELSE IF op = "disconnect" THEN {c} ELSE {}) : InHand(d)
  OBVIOUS
<1>4. PICK d : d = [NotDoing EXCEPT !.op = op, !.firm = c, !.at = at, !.read = read] OBVIOUS
<1>5. doing' = [doing EXCEPT ![k] = d] BY <1>2, <1>3, <1>4 DEF Undertake
<1>6. d = [op |-> op, firm |-> c, at |-> at, moved |-> FALSE, read |-> read] BY <1>4 DEF NotDoing
<1>7. /\ d \in DoingRecords /\ d.op = op /\ d.firm = c /\ d.at = at /\ d.moved = FALSE /\ d.read = read
      /\ at \in {"changing", "refused"}
  BY <1>2, <1>3, <1>6 DEF DoingRecords
<1>8. doing \in [Doings -> DoingRecords] BY DEF HoldTyped
<1>9. doing'[k] = d /\ \A j \in Doings : j # k => doing'[j] = doing[j] BY <1>5, <1>8
<1>10. doing' \in [Doings -> DoingRecords] BY <1>5, <1>7, <1>8
<1>11. HoldTyped' BY <1>1, <1>10 DEF HoldTyped, spineVars, trailVars
<1>12. CallsFit'
  <2>1. \A j \in Doings : CallFits(doing'[j]) BY <1>1, <1>7, <1>9 DEF CallsFit, CallFits
  <2> QED BY <1>1, <2>1 DEF CallsFit
<1>13. ResetsLooked' BY <1>1, <1>2, <1>7, <1>9 DEF ResetsLooked, WithPassword
<1>14. \A x \in Firms : Severance(x)' BY <1>1, SeveranceUntouched DEF spineVars
<1>15. ASSUME NEW j \in Doings PROVE CutsClean(j)'
  <2> SUFFICES ASSUME j \notin spoiled', ~doing'[j].read, NEW x \in Severing(j)'
               PROVE  ~InHand(x)' /\ (Emptying(doing'[j]) => kept'[x] = 0)
    BY DEF CutsClean
  <2>1. CASE j = k
    <3>1. x \in (IF op = "reset" THEN Firms ELSE IF op = "disconnect" THEN {c} ELSE {})
      BY <1>7, <1>9, <2>1 DEF Severing
    <3>2. ~InHand(x) BY <1>3, <1>7, <1>9, <2>1, <3>1
    <3>3. ~Emptying(doing'[j]) BY <1>7, <1>9, <2>1 DEF Emptying
    <3> QED BY <1>1, <3>2, <3>3 DEF InHand
  <2>2. CASE j # k
    <3>1. x \in Severing(j) BY <1>9, <2>2 DEF Severing
    <3> QED BY <1>1, <1>9, <2>2, <3>1 DEF CutsClean, InHand
  <2> QED BY <2>1, <2>2
<1>16. TrailFine'
  <2>1. \A j \in Doings : doing'[j].at \in Early <=> doing[j].at \in Early BY <1>1, <1>7, <1>9 DEF Early
  <2>2. spoiled' = spoiled /\ UNCHANGED trailVars BY <1>1
  <2> QED BY <1>11, <2>1, <2>2, TrailUntouched
<1> QED BY <1>11, <1>12, <1>13, <1>14, <1>15, <1>16

LEMMA DepartHolds == ASSUME HoldInv, NEW k \in Doings, Depart(k) PROVE HoldInv'
<1> USE DEF HoldInv
<1>1. /\ doing[k].at \in {"changing", "recording", "forgetting"}
      /\ spoiled' = spoiled \cup {k} /\ losses' \in 0 .. MaxLosses
      /\ UNCHANGED <<spineVars, known, kept, listed, holder, provider, glance, trailVars, severed, adrift, saves>>
  BY HoldingsAssumption DEF Depart, Loss, HoldTyped
<1>2. PICK at : at = IF doing[k].at = "changing" THEN "refused"
                    ELSE IF doing[k].op \in {"save", "disconnect", "reset"} THEN "announcing" ELSE "over"
  OBVIOUS
<1>a. /\ at \in {"refused", "announcing", "over"} /\ (at = "refused" <=> doing[k].at = "changing")
      /\ at = "announcing" => doing[k].op \in {"save", "disconnect", "reset"}
  BY <1>2
<1>b. Moves(k, at) BY <1>2 DEF Depart
<1>3. /\ doing' \in [Doings -> DoingRecords]
      /\ \A j \in Doings : j # k => doing'[j] = doing[j]
      /\ doing'[k].at = at /\ doing'[k].op = doing[k].op /\ doing'[k].firm = doing[k].firm
  BY <1>a, <1>b, GoesOn DEF Ats, HoldTyped
<1>4. HoldTyped' BY <1>1, <1>3 DEF HoldTyped, spineVars, trailVars
<1>5. CallsFit'
  <2>1. \A j \in Doings : CallFits(doing'[j]) BY <1>a, <1>3 DEF CallsFit, CallFits
  <2> QED BY <1>1, <2>1 DEF CallsFit
<1>6. ResetsLooked' BY <1>1, <1>a, <1>3, LooksUntouched
<1>7. \A x \in Firms : Severance(x)' BY <1>1, SeveranceUntouched DEF spineVars
<1>8. \A j \in Doings : CutsClean(j)'
  <2>1. \A j \in Doings : j \in spoiled' \/ (j # k /\ doing'[j] = doing[j]) BY <1>1, <1>3
  <2> QED BY <1>1, <1>4, <2>1, CutsUntouched
<1>9. TrailFine'
  <2>1. \A j \in Doings : doing[j].at \notin Early => doing'[j].at \notin Early BY <1>1, <1>a, <1>3 DEF Early
  <2>2. \A j \in Doings : doing[j].at \in Early /\ j \notin spoiled' => doing'[j].at \in Early
    BY <1>1, <1>3
  <2> QED BY <1>1, <1>4, <2>1, <2>2, TrailUntouched
<1> QED BY <1>4, <1>5, <1>6, <1>7, <1>8, <1>9

LEMMA CreateCustomerHolds == ASSUME HoldInv, NEW k \in Doings, CreateCustomer(k) PROVE HoldInv'
<1> USE DEF HoldInv
<1>1. /\ doing[k].at = "changing" /\ doing[k].op = "create" /\ firms' = firms \cup {doing[k].firm}
      /\ doing[k].firm \in Firms
      /\ UNCHANGED <<link, sealed, kept, listed, holder, provider, trailVars, severed, adrift, spoiled, saves, losses>>
  BY DEF CreateCustomer, Changes, CallsFit, CallFits
<1> DEFINE f == doing[k].firm
<1>2. PICK at \in {"refused", "recording"} : Moves(k, at) BY DEF CreateCustomer
<1>3. /\ doing' \in [Doings -> DoingRecords]
      /\ \A j \in Doings : j # k => doing'[j] = doing[j]
      /\ doing'[k].at = at /\ doing'[k].op = doing[k].op /\ doing'[k].firm = doing[k].firm
      /\ doing'[k].read = doing[k].read
  BY <1>2, GoesOn DEF Ats, HoldTyped
<1>4. /\ known' \in [Firms -> 0 .. MaxConnections]
      /\ \A c \in Firms : known'[c] \in {known[c], 0}
  BY <1>1, HoldingsAssumption, SMTT(40) DEF CreateCustomer, HoldTyped
<1>5. /\ glance' \in [Glances -> GlanceRecords]
      /\ \A r \in Glances : glance'[r] = glance[r] \/ glance'[r].at = "over"
  <2>1. CASE UNCHANGED glance BY <2>1 DEF HoldTyped
  <2>2. CASE glance' = [r \in Glances |-> IF glance[r].firm = f THEN [NoGlance EXCEPT !.at = "over"]
                                                                ELSE glance[r]]
    <3>1. PICK g : g = [NoGlance EXCEPT !.at = "over"] OBVIOUS
    <3>2. g = [firm |-> "nobody", at |-> "over", by |-> 0] BY <3>1 DEF NoGlance
    <3>3. g \in GlanceRecords /\ g.at = "over" BY <3>2, HoldingsAssumption DEF GlanceRecords
    <3> QED BY <2>2, <3>1, <3>3 DEF HoldTyped
  <2> QED BY <2>1, <2>2 DEF CreateCustomer
<1>6. HoldTyped' BY <1>1, <1>3, <1>4, <1>5 DEF HoldTyped, trailVars
<1>7. CallsFit'
  <2>1. \A j \in Doings : CallFits(doing'[j]) BY <1>1, <1>3 DEF CallsFit, CallFits
  <2> QED BY <1>5, <2>1 DEF CallsFit
<1>8. ResetsLooked' BY <1>1, <1>3, LooksUntouched
<1>9. ASSUME NEW c \in Firms PROVE Severance(c)' BY <1>1, <1>4, <1>5 DEF Severance
<1>10. ASSUME NEW j \in Doings PROVE CutsClean(j)'
  <2> SUFFICES ASSUME j \notin spoiled', ~doing'[j].read, NEW x \in Severing(j)'
               PROVE  ~InHand(x)' /\ (Emptying(doing'[j]) => kept'[x] = 0)
    BY DEF CutsClean
  <2>1. j # k BY <1>1, <1>3 DEF Severing
  <2>2. x \in Severing(j) BY <1>3, <2>1 DEF Severing
  <2>3. ~InHand(x) /\ (Emptying(doing[j]) => kept[x] = 0) BY <1>1, <1>3, <2>1, <2>2 DEF CutsClean
  <2> QED BY <1>1, <1>3, <1>5, <2>1, <2>3 DEF InHand
<1>11. TrailFine'
  <2>1. \A j \in Doings : doing'[j].at \in Early <=> doing[j].at \in Early BY <1>1, <1>3 DEF Early
  <2>2. spoiled' = spoiled /\ UNCHANGED trailVars BY <1>1
  <2> QED BY <1>6, <2>1, <2>2, TrailUntouched
<1> QED BY <1>6, <1>7, <1>8, <1>9, <1>10, <1>11

LEMMA LinkIdentityHolds ==
  ASSUME HoldInv, NEW k \in Doings, NEW mark \in Marks, LinkIdentity(k, mark) PROVE HoldInv'
<1> USE DEF HoldInv
<1>1. /\ doing[k].at = "changing" /\ doing[k].op = "link" /\ doing[k].firm \in Firms
      /\ UNCHANGED <<firms, sealed, known, kept, listed, holder, provider, glance, trailVars, severed, adrift, spoiled, saves, losses>>
  BY DEF LinkIdentity, Changes, CallsFit, CallFits
<1>2. PICK at \in {"refused", "recording"} : Moves(k, at) BY DEF LinkIdentity
<1>3. /\ doing' \in [Doings -> DoingRecords]
      /\ \A j \in Doings : j # k => doing'[j] = doing[j]
      /\ doing'[k].at = at /\ doing'[k].op = doing[k].op /\ doing'[k].firm = doing[k].firm
      /\ doing'[k].read = doing[k].read
  BY <1>2, GoesOn DEF Ats, HoldTyped
<1>4. link' \in [Marks -> Firms \cup {"nobody"}] BY <1>1 DEF LinkIdentity, HoldTyped
<1>5. HoldTyped' BY <1>1, <1>3, <1>4 DEF HoldTyped, trailVars
<1>6. CallsFit'
  <2>1. \A j \in Doings : CallFits(doing'[j]) BY <1>1, <1>3 DEF CallsFit, CallFits
  <2> QED BY <1>1, <2>1 DEF CallsFit
<1>7. ResetsLooked' BY <1>1, <1>3, LooksUntouched
<1>8. \A c \in Firms : Severance(c)' BY <1>1, SeveranceUntouched
<1>9. \A j \in Doings : CutsClean(j)'
  <2>1. \A j \in Doings : j # k => (Emptying(doing'[j]) <=> Emptying(doing[j])) BY <1>3
  <2>2. ~Emptying(doing'[k]) BY <1>1, <1>3 DEF Emptying
  <2>3. doing[k].at \notin {"idle", "over", "refused"} BY <1>1
  <2> QED BY <1>1, <1>3, <1>5, <2>1, <2>2, <2>3, CutsUntouched
<1>10. TrailFine'
  <2>1. \A j \in Doings : doing'[j].at \in Early <=> doing[j].at \in Early BY <1>1, <1>3 DEF Early
  <2>2. spoiled' = spoiled /\ UNCHANGED trailVars BY <1>1
  <2> QED BY <1>5, <2>1, <2>2, TrailUntouched
<1> QED BY <1>5, <1>6, <1>7, <1>8, <1>9, <1>10

LEMMA SaveConnectionHolds == ASSUME HoldInv, NEW k \in Doings, SaveConnection(k) PROVE HoldInv'
<1> USE DEF HoldInv
<1>1. /\ doing[k].at = "changing" /\ doing[k].op = "save" /\ doing[k].firm \in Firms
      /\ UNCHANGED <<firms, link, known, kept, listed, holder, provider, glance, trailVars, spoiled, losses>>
  BY DEF SaveConnection, Changes, CallsFit, CallFits
<1>2. PICK at \in {"refused", "recording"} : Moves(k, at) BY DEF SaveConnection
<1>3. /\ doing' \in [Doings -> DoingRecords]
      /\ \A j \in Doings : j # k => doing'[j] = doing[j]
      /\ doing'[k].at = at /\ doing'[k].op = doing[k].op /\ doing'[k].firm = doing[k].firm
      /\ doing'[k].read = doing[k].read
  BY <1>2, GoesOn DEF Ats, HoldTyped
<1>4. /\ sealed' \in [Firms -> 0 .. MaxConnections] /\ saves' \in 0 .. MaxConnections
      /\ severed' \subseteq severed /\ adrift' \subseteq adrift /\ severed' \ adrift' \subseteq severed \ adrift
      /\ \A c \in severed' : sealed'[c] = sealed[c]
  <2>1. saves + 1 \in 0 .. MaxConnections BY HoldingsAssumption DEF SaveConnection, HoldTyped
  <2> QED BY <1>1, <2>1 DEF SaveConnection, HoldTyped
<1>5. HoldTyped' BY <1>1, <1>3, <1>4 DEF HoldTyped, trailVars
<1>6. CallsFit'
  <2>1. \A j \in Doings : CallFits(doing'[j]) BY <1>1, <1>3 DEF CallsFit, CallFits
  <2> QED BY <1>1, <2>1 DEF CallsFit
<1>7. ResetsLooked' BY <1>1, <1>3, LooksUntouched
<1>8. ASSUME NEW c \in Firms PROVE Severance(c)' BY <1>1, <1>4 DEF Severance
<1>9. \A j \in Doings : CutsClean(j)'
  <2>1. \A j \in Doings : j # k => (Emptying(doing'[j]) <=> Emptying(doing[j])) BY <1>3
  <2>2. ~Emptying(doing'[k]) BY <1>1, <1>3 DEF Emptying
  <2>3. doing[k].at \notin {"idle", "over", "refused"} BY <1>1
  <2> QED BY <1>1, <1>3, <1>5, <2>1, <2>2, <2>3, CutsUntouched
<1>10. TrailFine'
  <2>1. \A j \in Doings : doing'[j].at \in Early <=> doing[j].at \in Early BY <1>1, <1>3 DEF Early
  <2>2. spoiled' = spoiled /\ UNCHANGED trailVars BY <1>1
  <2> QED BY <1>5, <2>1, <2>2, TrailUntouched
<1> QED BY <1>5, <1>6, <1>7, <1>8, <1>9, <1>10

LEMMA DisconnectHolds == ASSUME HoldInv, NEW k \in Doings, Disconnect(k) PROVE HoldInv'
<1> USE DEF HoldInv
<1>1. /\ doing[k].at = "changing" /\ doing[k].op = "disconnect" /\ doing[k].firm \in Firms
      /\ sealed' = [sealed EXCEPT ![doing[k].firm] = 0] /\ Moves(k, "recording")
      /\ link' = [x \in Marks |-> IF link[x] = doing[k].firm THEN "nobody" ELSE link[x]]
      /\ UNCHANGED <<firms, known, kept, listed, holder, provider, glance, trailVars, severed, adrift, spoiled, saves, losses>>
  BY DEF Disconnect, Changes, CallsFit, CallFits
<1>2. /\ doing' \in [Doings -> DoingRecords]
      /\ \A j \in Doings : j # k => doing'[j] = doing[j]
      /\ doing'[k].at = "recording" /\ doing'[k].op = doing[k].op /\ doing'[k].firm = doing[k].firm
      /\ doing'[k].read = doing[k].read
  BY <1>1, GoesOn DEF Ats, HoldTyped
<1>3. /\ sealed' \in [Firms -> 0 .. MaxConnections] /\ \A c \in Firms : sealed'[c] \in {sealed[c], 0}
  BY <1>1, HoldingsAssumption DEF HoldTyped
<1>4. link' \in [Marks -> Firms \cup {"nobody"}] BY <1>1 DEF HoldTyped
<1>5. HoldTyped' BY <1>1, <1>2, <1>3, <1>4 DEF HoldTyped, trailVars
<1>6. CallsFit'
  <2>1. \A j \in Doings : CallFits(doing'[j]) BY <1>1, <1>2 DEF CallsFit, CallFits
  <2> QED BY <1>1, <2>1 DEF CallsFit
<1>7. ResetsLooked' BY <1>1, <1>2, LooksUntouched
<1>8. ASSUME NEW c \in Firms PROVE Severance(c)' BY <1>1, <1>3 DEF Severance
<1>9. \A j \in Doings : CutsClean(j)'
  <2>1. \A j \in Doings : j # k => (Emptying(doing'[j]) <=> Emptying(doing[j])) BY <1>2
  <2>2. ~Emptying(doing'[k]) BY <1>1, <1>2 DEF Emptying
  <2>3. doing[k].at \notin {"idle", "over", "refused"} BY <1>1
  <2> QED BY <1>1, <1>2, <1>5, <2>1, <2>2, <2>3, CutsUntouched
<1>10. TrailFine'
  <2>1. \A j \in Doings : doing'[j].at \in Early <=> doing[j].at \in Early BY <1>1, <1>2 DEF Early
  <2>2. spoiled' = spoiled /\ UNCHANGED trailVars BY <1>1
  <2> QED BY <1>5, <2>1, <2>2, TrailUntouched
<1> QED BY <1>5, <1>6, <1>7, <1>8, <1>9, <1>10

\* The log is emptied: whoever was in it has its row taken by somebody else.
LEMMA WipedTrail ==
  ASSUME HoldTyped, TrailFine, NEW k \in Doings, doing[k].at = "changing", WipeLog(k),
         UNCHANGED <<stream, spoiled>>,
         \A j \in Doings : j # k => doing'[j] = doing[j], doing'[k].at = "recording"
  PROVE  /\ TrailFine' /\ log' \in [Doings -> 0 .. MaxTries] /\ took' \in [Doings -> SUBSET Doings]
<1>1. /\ log' = [j \in Doings |-> 0]
      /\ took' = [j \in Doings |-> IF log[j] > 0 THEN took[j] \cup {k} ELSE took[j]]
  BY DEF WipeLog
<1>2. /\ log' \in [Doings -> 0 .. MaxTries] /\ took' \in [Doings -> SUBSET Doings]
  BY <1>1, HoldingsAssumption DEF HoldTyped
<1>3. \A i \in 1 .. Len(stream) : stream[i].of \in Doings /\ stream[i].tries \in Nat BY EventsAre DEF HoldTyped
<1>4. \A j \in Doings : doing'[j].at \in Early <=> doing[j].at \in Early BY DEF Early
<1>5. \A i \in 1 .. Len(stream') : EventFine(i)' BY <1>1, <1>3, <1>4 DEF TrailFine, EventFine
<1>6. ASSUME NEW j \in Doings PROVE CallFine(j)'
  <2>1. CallFine(j) BY DEF TrailFine
  <2>2. Waits(j)' <=> Waits(j) BY DEF Waits
  <2>3. log'[j] = 0 BY <1>1
  <2>4. ASSUME j \notin spoiled, doing'[j].at \notin Early PROVE Waits(j) \/ took'[j] \ {j} # {}
    <3>1. j # k BY <2>4 DEF Early
    <3>2. log[j] = 1 \/ Waits(j) \/ took[j] \ {j} # {} BY <1>4, <2>1, <2>4 DEF CallFine
    <3>3. log[j] = 1 => k \in took'[j] BY <1>1
    <3>4. took[j] \subseteq took'[j] BY <1>1
    <3> QED BY <3>1, <3>2, <3>3, <3>4
  <2> QED BY <2>2, <2>3, <2>4 DEF CallFine
<1> QED BY <1>2, <1>5, <1>6 DEF TrailFine

LEMMA ClearWorkHolds == ASSUME HoldInv, NEW k \in Doings, ClearWork(k) PROVE HoldInv'
<1> USE DEF HoldInv
<1>1. /\ doing[k].at = "changing" /\ doing[k].op = "clear"
      /\ kept' = [c \in Firms |-> 0] /\ Moves(k, "recording") /\ WipeLog(k)
      /\ UNCHANGED <<spineVars, known, listed, holder, provider, glance, stream, severed, adrift, spoiled, saves, losses>>
  BY DEF ClearWork, Changes, Emptied
<1>2. /\ doing' \in [Doings -> DoingRecords]
      /\ \A j \in Doings : j # k => doing'[j] = doing[j]
      /\ doing'[k].at = "recording" /\ doing'[k].op = doing[k].op /\ doing'[k].firm = doing[k].firm
      /\ doing'[k].read = doing[k].read
  BY <1>1, GoesOn DEF Ats, HoldTyped
<1>3. /\ TrailFine' /\ log' \in [Doings -> 0 .. MaxTries] /\ took' \in [Doings -> SUBSET Doings]
  BY <1>1, <1>2, WipedTrail
<1>4. kept' \in [Firms -> 0 .. MaxConnections] BY <1>1, HoldingsAssumption
<1>5. HoldTyped' BY <1>1, <1>2, <1>3, <1>4 DEF HoldTyped, spineVars
<1>6. CallsFit'
  <2>1. \A j \in Doings : CallFits(doing'[j]) BY <1>1, <1>2 DEF CallsFit, CallFits
  <2> QED BY <1>1, <2>1 DEF CallsFit
<1>7. ResetsLooked' BY <1>1, <1>2, LooksUntouched
<1>8. ASSUME NEW c \in Firms PROVE Severance(c)' BY <1>1 DEF Severance, spineVars
<1>9. ASSUME NEW j \in Doings PROVE CutsClean(j)'
  <2> SUFFICES ASSUME j \notin spoiled', ~doing'[j].read, NEW x \in Severing(j)'
               PROVE  ~InHand(x)' /\ (Emptying(doing'[j]) => kept'[x] = 0)
    BY DEF CutsClean
  <2>1. j # k BY <1>1, <1>2 DEF Severing
  <2>2. x \in Severing(j) BY <1>2, <2>1 DEF Severing
  <2>3. ~InHand(x) BY <1>1, <1>2, <2>1, <2>2 DEF CutsClean
  <2>4. x \in Firms BY <2>1, <2>2, <1>2 DEF Severing, CallsFit, CallFits
  <2> QED BY <1>1, <2>3, <2>4 DEF InHand
<1> QED BY <1>3, <1>5, <1>6, <1>7, <1>8, <1>9

LEMMA ResetAllHolds == ASSUME HoldInv, NEW k \in Doings, ResetAll(k) PROVE HoldInv'
<1> USE DEF HoldInv
<1>1. /\ doing[k].at = "changing" /\ doing[k].op = "reset"
      /\ firms' = {} /\ link' = [x \in Marks |-> "nobody"] /\ sealed' = [c \in Firms |-> 0] /\ provider' = FALSE
      /\ kept' = [c \in Firms |-> 0] /\ Moves(k, "recording") /\ WipeLog(k)
      /\ UNCHANGED <<known, listed, holder, glance, stream, severed, adrift, spoiled, saves, losses>>
  BY DEF ResetAll, Changes, Emptied
<1>2. /\ doing' \in [Doings -> DoingRecords]
      /\ \A j \in Doings : j # k => doing'[j] = doing[j]
      /\ doing'[k].at = "recording" /\ doing'[k].op = doing[k].op /\ doing'[k].firm = doing[k].firm
      /\ doing'[k].read = doing[k].read
  BY <1>1, GoesOn DEF Ats, HoldTyped
<1>3. /\ TrailFine' /\ log' \in [Doings -> 0 .. MaxTries] /\ took' \in [Doings -> SUBSET Doings]
  BY <1>1, <1>2, WipedTrail
<1>4. /\ kept' \in [Firms -> 0 .. MaxConnections] /\ sealed' \in [Firms -> 0 .. MaxConnections]
      /\ link' \in [Marks -> Firms \cup {"nobody"}]
  BY <1>1, HoldingsAssumption
<1>5. HoldTyped' BY <1>1, <1>2, <1>3, <1>4 DEF HoldTyped
<1>6. CallsFit'
  <2>1. \A j \in Doings : CallFits(doing'[j]) BY <1>1, <1>2 DEF CallsFit, CallFits
  <2> QED BY <1>1, <2>1 DEF CallsFit
<1>7. ResetsLooked' BY <1>1, <1>2, LooksUntouched
<1>8. ASSUME NEW c \in Firms PROVE Severance(c)' BY <1>1 DEF Severance
<1>9. ASSUME NEW j \in Doings PROVE CutsClean(j)'
  <2> SUFFICES ASSUME j \notin spoiled', ~doing'[j].read, NEW x \in Severing(j)'
               PROVE  ~InHand(x)' /\ (Emptying(doing'[j]) => kept'[x] = 0)
    BY DEF CutsClean
  <2>1. doing'[j].op = doing[j].op /\ doing'[j].firm = doing[j].firm /\ doing'[j].read = doing[j].read
    BY <1>2
  <2>2. doing[j].at \notin {"idle", "over", "refused"} BY <1>1, <1>2 DEF Severing
  <2>3. x \in Severing(j) BY <2>1, <2>2 DEF Severing
  <2>4. ~InHand(x) BY <1>1, <2>1, <2>3 DEF CutsClean
  <2>5. x \in Firms BY <2>2, <2>3 DEF Severing, CallsFit, CallFits
  <2> QED BY <1>1, <2>4, <2>5 DEF InHand
<1> QED BY <1>3, <1>5, <1>6, <1>7, <1>8, <1>9

\* One more event: nobody of it was waiting.
LEMMA TrailGrows ==
  ASSUME HoldTyped, TrailFine, NEW k \in Doings, doing[k].at = "recording",
         NEW e, e = [of |-> k, tries |-> 0], stream' = Append(stream, e),
         UNCHANGED <<log, took, spoiled>>,
         \A j \in Doings : j # k => doing'[j] = doing[j], doing'[k].at \notin Early
  PROVE  TrailFine' /\ stream' \in Seq(Events)
<1>1. e \in Events /\ e.of = k /\ e.tries = 0 BY DEF Events
<1>2. stream \in Seq(Events) BY DEF HoldTyped
<1>3. /\ stream' \in Seq(Events) /\ Len(stream') = Len(stream) + 1 /\ Len(stream) \in Nat
      /\ stream'[Len(stream) + 1] = e /\ \A i \in 1 .. Len(stream) : stream'[i] = stream[i]
  BY <1>1, <1>2
<1>4. \A i \in 1 .. Len(stream) : stream[i].of \in Doings /\ stream[i].tries \in Nat BY <1>2, EventsAre
<1>5. \A i \in 1 .. Len(stream) : stream[i].of # k BY DEF TrailFine, EventFine, Early
<1>6. log[k] = 0 BY DEF TrailFine, CallFine, Early
<1>7. ASSUME NEW i \in 1 .. Len(stream'), NEW j \in 1 .. Len(stream'), stream'[i].of = stream'[j].of
      PROVE  i = j
  <2>1. i \in 1 .. Len(stream) \/ i = Len(stream) + 1 BY <1>3
  <2>2. j \in 1 .. Len(stream) \/ j = Len(stream) + 1 BY <1>3
  <2> QED BY <1>1, <1>3, <1>5, <1>7, <2>1, <2>2 DEF TrailFine
<1>8. ASSUME NEW i \in 1 .. Len(stream') PROVE EventFine(i)'
  <2>1. CASE i = Len(stream) + 1
    BY <1>1, <1>3, <1>6, <2>1, HoldingsAssumption DEF EventFine
  <2>2. CASE i \in 1 .. Len(stream)
    <3>1. stream'[i] = stream[i] /\ stream[i].of # k /\ stream[i].of \in Doings BY <1>3, <1>4, <1>5, <2>2
    <3> QED BY <2>2, <3>1 DEF EventFine, TrailFine
  <2> QED BY <1>3, <2>1, <2>2
<1>9. ASSUME NEW j \in Doings PROVE CallFine(j)'
  <2>1. CallFine(j) BY DEF TrailFine
  <2>2. CASE j = k
    <3>1. Waits(k)' BY <1>1, <1>3 DEF Waits
    <3> QED BY <1>6, <2>2, <3>1 DEF CallFine
  <2>3. CASE j # k
    <3>1. Waits(j)' => Waits(j)
      <4> SUFFICES ASSUME NEW i \in 1 .. Len(stream'), stream'[i].of = j PROVE Waits(j)
        BY DEF Waits
      <4>1. i \in 1 .. Len(stream) BY <1>1, <1>3, <2>3
      <4> QED BY <1>3, <4>1 DEF Waits
    <3>2. Waits(j) => Waits(j)'
      <4> SUFFICES ASSUME NEW i \in 1 .. Len(stream), stream[i].of = j PROVE Waits(j)'
        BY DEF Waits
      <4> QED BY <1>3 DEF Waits
    <3> QED BY <2>1, <2>3, <3>1, <3>2 DEF CallFine
  <2> QED BY <2>2, <2>3
<1> QED BY <1>3, <1>7, <1>8, <1>9 DEF TrailFine

LEMMA RecordHolds == ASSUME HoldInv, NEW k \in Doings, Record(k) PROVE HoldInv'
<1> USE DEF HoldInv
<1>1. /\ doing[k].at = "recording" /\ Moves(k, AfterRecord(doing[k].op))
      /\ UNCHANGED <<spineVars, known, kept, listed, holder, provider, glance, log, took, severed, adrift, saves>>
  BY DEF Record
<1>2. PICK at : at = AfterRecord(doing[k].op) OBVIOUS
<1>3. /\ at \in {"forgetting", "announcing", "over"}
      /\ at = "forgetting" => doing[k].op = "disconnect"
      /\ at = "announcing" => doing[k].op \in {"save", "reset"}
  BY <1>2 DEF AfterRecord
<1>4. /\ doing' \in [Doings -> DoingRecords]
      /\ \A j \in Doings : j # k => doing'[j] = doing[j]
      /\ doing'[k].at = at /\ doing'[k].op = doing[k].op /\ doing'[k].firm = doing[k].firm
      /\ doing'[k].read = doing[k].read
  BY <1>1, <1>2, <1>3, GoesOn DEF Ats, HoldTyped
<1>5. TrailFine' /\ stream' \in Seq(Events) /\ losses' \in 0 .. MaxLosses
      /\ spoiled \subseteq spoiled' /\ spoiled' \subseteq Doings
  <2>1. CASE stream' = Append(stream, [of |-> k, tries |-> 0]) /\ UNCHANGED <<spoiled, losses>>
    <3>1. doing'[k].at \notin Early BY <1>3, <1>4 DEF Early
    <3> QED BY <1>1, <1>4, <2>1, <3>1, TrailGrows DEF HoldTyped
  <2>2. CASE Loss /\ spoiled' = spoiled \cup {k} /\ UNCHANGED stream
    <3>1. /\ losses' \in 0 .. MaxLosses /\ stream' \in Seq(Events) /\ spoiled' \subseteq Doings
      BY <2>2, HoldingsAssumption DEF Loss, HoldTyped
    <3>2. HoldTyped' BY <1>1, <1>4, <3>1 DEF HoldTyped, spineVars
    <3>3. \A j \in Doings : doing[j].at \notin Early => doing'[j].at \notin Early BY <1>3, <1>4 DEF Early
    <3>4. \A j \in Doings : doing[j].at \in Early /\ j \notin spoiled' => doing'[j].at \in Early
      BY <1>4, <2>2
    <3>5. UNCHANGED trailVars BY <1>1, <2>2 DEF trailVars
    <3>6. spoiled \subseteq spoiled' BY <2>2
    <3>7. TrailFine' BY <3>2, <3>3, <3>4, <3>5, <3>6, TrailUntouched
    <3> QED BY <3>1, <3>6, <3>7
  <2> QED BY <2>1, <2>2 DEF Record
<1>6. HoldTyped' BY <1>1, <1>4, <1>5 DEF HoldTyped, spineVars
<1>7. CallsFit'
  <2>1. \A j \in Doings : CallFits(doing'[j]) BY <1>3, <1>4 DEF CallsFit, CallFits
  <2> QED BY <1>1, <2>1 DEF CallsFit
<1>8. ResetsLooked' BY <1>1, <1>3, <1>4, LooksUntouched
<1>9. \A c \in Firms : Severance(c)' BY <1>1, SeveranceUntouched DEF spineVars
<1>10. \A j \in Doings : CutsClean(j)'
  <2>1. \A j \in Doings : j # k => (Emptying(doing'[j]) <=> Emptying(doing[j])) BY <1>4
  <2>2. Emptying(doing'[k]) => Emptying(doing[k]) BY <1>1, <1>3, <1>4 DEF Emptying
  <2>3. doing[k].at \notin {"idle", "over", "refused"} BY <1>1
  <2> QED BY <1>1, <1>4, <1>5, <1>6, <2>1, <2>2, <2>3, CutsUntouched
<1> QED BY <1>5, <1>6, <1>7, <1>8, <1>9, <1>10

LEMMA ForgetAnswersHolds == ASSUME HoldInv, NEW k \in Doings, ForgetAnswers(k) PROVE HoldInv'
<1> USE DEF HoldInv
<1>1. /\ doing[k].at = "forgetting" /\ doing[k].op = "disconnect" /\ doing[k].firm \in Firms
      /\ kept' = [kept EXCEPT ![doing[k].firm] = 0] /\ Moves(k, "announcing")
      /\ UNCHANGED <<spineVars, known, listed, holder, provider, glance, trailVars, severed, adrift, spoiled, saves, losses>>
  BY DEF ForgetAnswers, CallsFit, CallFits
<1>2. /\ doing' \in [Doings -> DoingRecords]
      /\ \A j \in Doings : j # k => doing'[j] = doing[j]
      /\ doing'[k].at = "announcing" /\ doing'[k].op = doing[k].op /\ doing'[k].firm = doing[k].firm
      /\ doing'[k].read = doing[k].read
  BY <1>1, GoesOn DEF Ats, HoldTyped
<1>3. /\ kept' \in [Firms -> 0 .. MaxConnections] /\ kept'[doing[k].firm] = 0
      /\ \A c \in Firms : kept'[c] \in {kept[c], 0}
  BY <1>1, HoldingsAssumption DEF HoldTyped
<1>5. HoldTyped' BY <1>1, <1>2, <1>3 DEF HoldTyped, trailVars, spineVars
<1>6. CallsFit'
  <2>1. \A j \in Doings : CallFits(doing'[j]) BY <1>1, <1>2 DEF CallsFit, CallFits
  <2> QED BY <1>1, <2>1 DEF CallsFit
<1>7. ResetsLooked' BY <1>1, <1>2, LooksUntouched
<1>8. ASSUME NEW c \in Firms PROVE Severance(c)' BY <1>1, <1>3 DEF Severance, spineVars
<1>9. ASSUME NEW j \in Doings PROVE CutsClean(j)'
  <2> SUFFICES ASSUME j \notin spoiled', ~doing'[j].read, NEW x \in Severing(j)'
               PROVE  ~InHand(x)' /\ (Emptying(doing'[j]) => kept'[x] = 0)
    BY DEF CutsClean
  <2>1. doing'[j].op = doing[j].op /\ doing'[j].firm = doing[j].firm /\ doing'[j].read = doing[j].read
    BY <1>2
  <2>2. doing[j].at \notin {"idle", "over", "refused"} BY <1>1, <1>2 DEF Severing
  <2>3. x \in Severing(j) BY <2>1, <2>2 DEF Severing
  <2>4. ~InHand(x) /\ (Emptying(doing[j]) => kept[x] = 0) BY <1>1, <2>1, <2>3 DEF CutsClean
  <2>5. x \in Firms BY <2>2, <2>3 DEF Severing, CallsFit, CallFits
  <2>6. CASE j = k
    <3>1. x = doing[k].firm BY <1>1, <2>3, <2>6 DEF Severing
    <3> QED BY <1>1, <1>3, <2>4, <3>1 DEF InHand
  <2>7. CASE j # k BY <1>1, <1>2, <1>3, <2>4, <2>5, <2>7 DEF InHand
  <2> QED BY <2>6, <2>7
<1>10. TrailFine'
  <2>1. \A j \in Doings : doing'[j].at \in Early <=> doing[j].at \in Early BY <1>1, <1>2 DEF Early
  <2>2. spoiled' = spoiled /\ UNCHANGED trailVars BY <1>1
  <2> QED BY <1>5, <2>1, <2>2, TrailUntouched
<1> QED BY <1>5, <1>6, <1>7, <1>8, <1>9, <1>10

LEMMA AnnounceHolds == ASSUME HoldInv, NEW k \in Doings, Announce(k) PROVE HoldInv'
<1> USE DEF HoldInv
<1>1. /\ doing[k].at = "announcing" /\ doing[k].op \in {"save", "disconnect", "reset"} /\ Moves(k, "over")
      /\ UNCHANGED <<spineVars, kept, listed, holder, provider, glance, trailVars, spoiled, saves>>
  BY DEF Announce, CallsFit, CallFits
<1>2. /\ doing' \in [Doings -> DoingRecords]
      /\ \A j \in Doings : j # k => doing'[j] = doing[j]
      /\ doing'[k].at = "over" /\ doing'[k].op = doing[k].op /\ doing'[k].firm = doing[k].firm
      /\ doing'[k].read = doing[k].read
  BY <1>1, GoesOn DEF Ats, HoldTyped
<1> DEFINE cut == {c \in Severing(k) : sealed[c] = 0}
<1>12. PICK heard \in BOOLEAN :
        /\ IF heard THEN UNCHANGED losses ELSE Loss
        /\ known' = (IF heard /\ Reaches(k) THEN [c \in Firms |-> 0] ELSE known)
        /\ severed' = severed \cup cut
        /\ adrift' = IF heard /\ (doing[k].op = "reset" => listed) /\ k \notin spoiled /\ ~doing[k].read
                     THEN adrift \ cut ELSE adrift \cup (cut \ severed)
  BY DEF Announce
<1>13. cut \subseteq Firms BY <1>1 DEF Severing, CallsFit, CallFits
<1>14. losses' \in 0 .. MaxLosses BY <1>12, HoldingsAssumption DEF Loss, HoldTyped
<1>3. /\ known' \in [Firms -> 0 .. MaxConnections]
      /\ \A c \in Firms : known'[c] \in {known[c], 0}
      /\ heard /\ Reaches(k) => \A c \in Firms : known'[c] = 0
  BY <1>12, HoldingsAssumption DEF HoldTyped
<1>4. ASSUME NEW c \in severed' \ adrift', c \notin severed \ adrift
      PROVE  c \in Severing(k) /\ sealed[c] = 0 /\ k \notin spoiled /\ ~doing[k].read /\ heard /\ Reaches(k) /\ c \in Firms
  <2>1. c \in cut /\ k \notin spoiled /\ ~doing[k].read /\ heard /\ (doing[k].op = "reset" => listed)
    BY <1>4, <1>12
  <2>2. Reaches(k) BY <2>1 DEF Reaches
  <2> QED BY <1>13, <2>1, <2>2
<1>5. severed' \subseteq Firms /\ adrift' \subseteq Firms BY <1>12, <1>13 DEF HoldTyped
<1> HIDE DEF cut
<1>6. HoldTyped' BY <1>1, <1>2, <1>3, <1>5, <1>14 DEF HoldTyped, trailVars, spineVars
<1>7. CallsFit'
  <2>1. \A j \in Doings : CallFits(doing'[j]) BY <1>1, <1>2 DEF CallsFit, CallFits
  <2> QED BY <1>1, <2>1 DEF CallsFit
<1>8. ResetsLooked' BY <1>1, <1>2, LooksUntouched
<1>9. ASSUME NEW c \in Firms PROVE Severance(c)'
  <2>1. CASE c \in severed \ adrift BY <1>1, <1>3, <2>1 DEF Severance, spineVars
  <2>2. CASE c \in severed' \ adrift' /\ c \notin severed \ adrift
    <3>1. c \in Severing(k) /\ sealed[c] = 0 /\ k \notin spoiled /\ ~doing[k].read /\ heard /\ Reaches(k)
      BY <1>4, <2>2
    <3>2. doing[k].op # "save" BY <1>1, <3>1 DEF Severing
    <3>3. Emptying(doing[k]) BY <1>1, <3>2 DEF Emptying
    <3>4. ~InHand(c) /\ kept[c] = 0 BY <3>1, <3>3 DEF CutsClean
    <3> QED BY <1>1, <1>3, <3>1, <3>4 DEF Severance, InHand, spineVars
  <2> QED BY <2>1, <2>2 DEF Severance
<1>10. \A j \in Doings : CutsClean(j)'
  <2>1. \A j \in Doings : j # k => (Emptying(doing'[j]) <=> Emptying(doing[j])) BY <1>2
  <2>2. \A j \in Doings : \/ j \in spoiled' \/ doing'[j].at \in {"idle", "over", "refused"}
                           \/ /\ doing[j].at \notin {"idle", "over", "refused"}
                              /\ doing'[j].op = doing[j].op /\ doing'[j].firm = doing[j].firm
                              /\ doing'[j].read = doing[j].read
                              /\ Emptying(doing'[j]) => Emptying(doing[j])
    BY <1>2, <2>1
  <2>3. spoiled \subseteq spoiled' /\ UNCHANGED <<kept, glance>> BY <1>1
  <2> QED BY <1>6, <2>2, <2>3, CutsUntouched
<1>11. TrailFine'
  <2>1. \A j \in Doings : doing'[j].at \in Early <=> doing[j].at \in Early BY <1>1, <1>2 DEF Early
  <2>2. spoiled' = spoiled /\ UNCHANGED trailVars BY <1>1
  <2> QED BY <1>6, <2>1, <2>2, TrailUntouched
<1> QED BY <1>6, <1>7, <1>8, <1>9, <1>10, <1>11

(***************************************************************************)
(* Reads, accounts and the mirror.                                         *)
(***************************************************************************)

LEMMA LookHolds == ASSUME HoldInv, NEW r \in Glances, NEW c \in Firms, Look(r, c) PROVE HoldInv'
<1> USE DEF HoldInv
<1>1. /\ glance[r].at = "idle"
      /\ glance' = [glance EXCEPT ![r] = [NoGlance EXCEPT !.firm = c, !.at = "asking"]]
      /\ doing' = [k \in Doings |-> [doing[k] EXCEPT !.read = @ \/ c \in Severing(k)]]
      /\ UNCHANGED <<spineVars, known, kept, listed, holder, provider, trailVars, severed, adrift, spoiled, saves, losses>>
  BY DEF Look
<1>2. PICK g : g = [NoGlance EXCEPT !.firm = c, !.at = "asking"] OBVIOUS
<1>3. g = [firm |-> c, at |-> "asking", by |-> 0] BY <1>2 DEF NoGlance
<1>4. g \in GlanceRecords /\ g.at = "asking" /\ g.firm = c BY <1>3, HoldingsAssumption DEF GlanceRecords
<1>5. /\ glance' \in [Glances -> GlanceRecords] /\ glance'[r] = g
      /\ \A q \in Glances : q # r => glance'[q] = glance[q]
  BY <1>1, <1>2, <1>4 DEF HoldTyped
<1>6. ASSUME NEW k \in Doings
      PROVE  /\ doing'[k] \in DoingRecords /\ doing'[k].at = doing[k].at /\ doing'[k].op = doing[k].op
             /\ doing'[k].firm = doing[k].firm /\ doing'[k].moved = doing[k].moved
             /\ ~doing'[k].read => ~doing[k].read /\ c \notin Severing(k)
  <2>1. doing[k] \in DoingRecords BY DEF HoldTyped
  <2>3. doing[k].read \in BOOLEAN BY <2>1 DEF DoingRecords
  <2>4. PICK a \in BOOLEAN : a = IF c \in Severing(k) THEN TRUE ELSE doing[k].read BY <2>3
  <2>5. PICK d : d = [doing[k] EXCEPT !.read = a] OBVIOUS
  <2>6. doing'[k] = d
    <3>1. doing'[k] = [doing[k] EXCEPT !.read = doing[k].read \/ c \in Severing(k)] BY <1>1
    <3>2. (doing[k].read \/ c \in Severing(k)) = a BY <2>3, <2>4
    <3> QED BY <2>5, <3>1, <3>2
  <2>7. /\ d \in DoingRecords /\ d.at = doing[k].at /\ d.op = doing[k].op
        /\ d.firm = doing[k].firm /\ d.moved = doing[k].moved /\ d.read = a
    BY <2>1, <2>5 DEF DoingRecords
  <2> QED BY <2>3, <2>4, <2>6, <2>7
<1>7. DOMAIN doing' = Doings /\ doing' = [k \in Doings |-> doing'[k]] BY <1>1
<1>8. doing' \in [Doings -> DoingRecords] BY <1>6, <1>7
<1>9. HoldTyped' BY <1>1, <1>5, <1>8 DEF HoldTyped, spineVars, trailVars
<1>10. CallsFit'
  <2>1. \A j \in Doings : CallFits(doing'[j]) BY <1>6 DEF CallsFit, CallFits
  <2> QED BY <1>4, <1>5, <2>1 DEF CallsFit
<1>11. ResetsLooked' BY <1>1, <1>6, LooksUntouched
<1>12. ASSUME NEW x \in Firms PROVE Severance(x)' BY <1>1, <1>4, <1>5 DEF Severance, spineVars
<1>13. ASSUME NEW j \in Doings PROVE CutsClean(j)'
  <2> SUFFICES ASSUME j \notin spoiled', ~doing'[j].read, NEW x \in Severing(j)'
               PROVE  ~InHand(x)' /\ (Emptying(doing'[j]) => kept'[x] = 0)
    BY DEF CutsClean
  <2>1. x \in Severing(j) BY <1>6 DEF Severing
  <2>2. ~InHand(x) /\ (Emptying(doing[j]) => kept[x] = 0) BY <1>1, <1>6, <2>1 DEF CutsClean
  <2>3. x # c BY <1>6, <2>1
  <2>4. ~InHand(x)' BY <1>4, <1>5, <2>2, <2>3 DEF InHand
  <2>5. Emptying(doing'[j]) <=> Emptying(doing[j]) BY <1>6 DEF Emptying
  <2> QED BY <1>1, <2>2, <2>4, <2>5
<1>14. TrailFine'
  <2>1. \A j \in Doings : doing'[j].at \in Early <=> doing[j].at \in Early BY <1>6
  <2>2. spoiled' = spoiled /\ UNCHANGED trailVars BY <1>1
  <2> QED BY <1>9, <2>1, <2>2, TrailUntouched
<1> QED BY <1>9, <1>10, <1>11, <1>12, <1>13, <1>14

LEMMA ConnectHolds == ASSUME HoldInv, NEW r \in Glances, Connect(r) PROVE HoldInv'
<1> USE DEF HoldInv
<1> DEFINE c == glance[r].firm
           by == IF known[c] # 0 THEN known[c] ELSE sealed[c]
           at == IF by = 0 THEN "over" ELSE "holding"
<1>1. /\ glance[r].at = "asking" /\ c \in Firms
      /\ glance' = [glance EXCEPT ![r].at = at, ![r].by = by] /\ known' = [known EXCEPT ![c] = by]
      /\ UNCHANGED <<spineVars, kept, listed, holder, provider, doing, trailVars, severed, adrift, spoiled, saves, losses>>
  BY DEF Connect, CallsFit
<1>2. by \in 0 .. MaxConnections /\ at \in {"over", "holding"} BY <1>1 DEF HoldTyped
<1>3. /\ glance' \in [Glances -> GlanceRecords]
      /\ glance'[r].at = at /\ glance'[r].firm = c
      /\ \A q \in Glances : q # r => glance'[q] = glance[q]
  <2>1. glance[r] \in GlanceRecords BY DEF HoldTyped
  <2> HIDE DEF at, by
  <2>2. PICK g : g = [glance[r] EXCEPT !.at = at, !.by = by] OBVIOUS
  <2>3. g \in GlanceRecords /\ g.at = at /\ g.firm = c BY <1>2, <2>1, <2>2 DEF GlanceRecords
  <2>4. glance' = [glance EXCEPT ![r] = g] BY <1>1, <2>2
  <2> QED BY <2>3, <2>4 DEF HoldTyped
<1>4. known' \in [Firms -> 0 .. MaxConnections] BY <1>1, <1>2 DEF HoldTyped
<1>5. HoldTyped' BY <1>1, <1>3, <1>4 DEF HoldTyped, spineVars, trailVars
<1>6. CallsFit'
  <2>1. \A j \in Doings : CallFits(doing'[j]) BY <1>1 DEF CallsFit
  <2> QED BY <1>1, <1>3, <2>1 DEF CallsFit
<1>7. ResetsLooked' BY <1>1, LooksUntouched
<1>8. ASSUME NEW x \in Firms PROVE Severance(x)'
  <2>1. CASE x = c /\ x \in severed \ adrift
    <3>1. by = 0 /\ at = "over" BY <1>1, <2>1 DEF Severance
    <3>2. known'[x] = 0 BY <1>1, <2>1, <3>1 DEF HoldTyped
    <3> QED BY <1>1, <1>3, <2>1, <3>1, <3>2 DEF Severance, spineVars
  <2>2. CASE x # c
    <3>1. known'[x] = known[x] BY <1>1, <2>2 DEF HoldTyped
    <3> QED BY <1>1, <1>3, <2>2, <3>1 DEF Severance, spineVars
  <2> QED BY <1>1, <2>1, <2>2 DEF Severance
<1>9. ASSUME NEW j \in Doings PROVE CutsClean(j)'
  <2> SUFFICES ASSUME j \notin spoiled, ~doing[j].read, NEW x \in Severing(j)
               PROVE  ~InHand(x)' /\ (Emptying(doing[j]) => kept[x] = 0)
    BY <1>1 DEF CutsClean, Severing
  <2>1. ~InHand(x) /\ (Emptying(doing[j]) => kept[x] = 0) BY DEF CutsClean
  <2>2. x # c BY <1>1, <2>1 DEF InHand
  <2> QED BY <1>3, <2>1, <2>2 DEF InHand
<1>10. TrailFine'
  <2>1. doing' = doing /\ spoiled' = spoiled /\ UNCHANGED trailVars BY <1>1
  <2> QED BY <1>5, <2>1, TrailUntouched
<1> QED BY <1>5, <1>6, <1>7, <1>8, <1>9, <1>10

LEMMA PutAnswerHolds == ASSUME HoldInv, NEW r \in Glances, PutAnswer(r) PROVE HoldInv'
<1> USE DEF HoldInv
<1> DEFINE c == glance[r].firm
<1>1. /\ glance[r].at = "holding" /\ c \in Firms /\ glance' = [glance EXCEPT ![r].at = "over"]
      /\ kept' = (IF c \in firms THEN [kept EXCEPT ![c] = glance[r].by] ELSE kept)
      /\ UNCHANGED <<spineVars, known, listed, holder, provider, doing, trailVars, severed, adrift, spoiled, saves, losses>>
  BY DEF PutAnswer, CallsFit
<1>2. glance[r] \in GlanceRecords /\ glance[r].by \in 0 .. MaxConnections BY DEF HoldTyped, GlanceRecords
<1>3. /\ glance' \in [Glances -> GlanceRecords] /\ glance'[r].at = "over"
      /\ \A q \in Glances : q # r => glance'[q] = glance[q]
  <2>1. PICK g : g = [glance[r] EXCEPT !.at = "over"] OBVIOUS
  <2>2. g \in GlanceRecords /\ g.at = "over" BY <1>2, <2>1 DEF GlanceRecords
  <2>3. glance' = [glance EXCEPT ![r] = g] BY <1>1, <2>1
  <2> QED BY <2>2, <2>3 DEF HoldTyped
<1>4. kept' \in [Firms -> 0 .. MaxConnections] /\ \A x \in Firms : x # c => kept'[x] = kept[x]
  BY <1>1, <1>2 DEF HoldTyped
<1>5. HoldTyped' BY <1>1, <1>3, <1>4 DEF HoldTyped, spineVars, trailVars
<1>6. CallsFit'
  <2>1. \A j \in Doings : CallFits(doing'[j]) BY <1>1 DEF CallsFit
  <2> QED BY <1>3, <2>1 DEF CallsFit
<1>7. ResetsLooked' BY <1>1, LooksUntouched
<1>8. ASSUME NEW x \in Firms PROVE Severance(x)'
  <2>1. CASE x \in severed \ adrift
    <3>1. x # c BY <1>1, <2>1 DEF Severance
    <3>2. kept'[x] = kept[x] BY <1>4, <3>1
    <3> QED BY <1>1, <1>3, <3>2 DEF Severance, spineVars
  <2> QED BY <1>1, <2>1 DEF Severance
<1>9. ASSUME NEW j \in Doings PROVE CutsClean(j)'
  <2> SUFFICES ASSUME j \notin spoiled, ~doing[j].read, NEW x \in Severing(j)
               PROVE  ~InHand(x)' /\ (Emptying(doing[j]) => kept'[x] = 0)
    BY <1>1 DEF CutsClean, Severing
  <2>1. ~InHand(x) /\ (Emptying(doing[j]) => kept[x] = 0) BY DEF CutsClean
  <2>2. x # c BY <1>1, <2>1 DEF InHand
  <2>3. x \in Firms BY DEF Severing, CallsFit, CallFits
  <2> QED BY <1>3, <1>4, <2>1, <2>2, <2>3 DEF InHand
<1>10. TrailFine'
  <2>1. doing' = doing /\ spoiled' = spoiled /\ UNCHANGED trailVars BY <1>1
  <2> QED BY <1>5, <2>1, TrailUntouched
<1> QED BY <1>5, <1>6, <1>7, <1>8, <1>9, <1>10

LEMMA DisableHolds == ASSUME HoldInv, NEW h \in Holders, Disable(h) PROVE HoldInv'
<1> USE DEF HoldInv
<1>1. /\ holder' = [holder EXCEPT ![h] = "gone"] /\ losses' \in 0 .. MaxLosses
      /\ doing' = [k \in Doings |-> IF doing[k].at = "changing" THEN [doing[k] EXCEPT !.moved = TRUE] ELSE doing[k]]
      /\ UNCHANGED <<spineVars, known, kept, listed, provider, glance, trailVars, severed, adrift, spoiled, saves>>
  BY HoldingsAssumption DEF Disable, Loss, HoldTyped
<1>2. ASSUME NEW k \in Doings
      PROVE  /\ doing'[k] \in DoingRecords /\ doing'[k].at = doing[k].at /\ doing'[k].op = doing[k].op
             /\ doing'[k].firm = doing[k].firm /\ doing'[k].read = doing[k].read
             /\ doing'[k].at = "changing" => doing'[k].moved
  <2>1. doing[k] \in DoingRecords BY DEF HoldTyped
  <2>2. PICK d : d = [doing[k] EXCEPT !.moved = TRUE] OBVIOUS
  <2>3. /\ d \in DoingRecords /\ d.at = doing[k].at /\ d.op = doing[k].op
        /\ d.firm = doing[k].firm /\ d.moved = TRUE /\ d.read = doing[k].read
    BY <2>1, <2>2 DEF DoingRecords
  <2>4. doing'[k] = IF doing[k].at = "changing" THEN d ELSE doing[k] BY <1>1, <2>2
  <2> QED BY <2>1, <2>3, <2>4
<1>3. doing' = [k \in Doings |-> doing'[k]] BY <1>1
<1>4. doing' \in [Doings -> DoingRecords] BY <1>2, <1>3
<1>5. holder' \in [Holders -> Ways] BY <1>1 DEF HoldTyped, Ways
<1>6. HoldTyped' BY <1>1, <1>4, <1>5 DEF HoldTyped, spineVars, trailVars
<1>7. CallsFit'
  <2>1. \A j \in Doings : CallFits(doing'[j]) BY <1>2 DEF CallsFit, CallFits
  <2> QED BY <1>1, <2>1 DEF CallsFit
<1>8. ResetsLooked' BY <1>2 DEF ResetsLooked
<1>9. \A x \in Firms : Severance(x)' BY <1>1, SeveranceUntouched DEF spineVars
<1>10. ASSUME NEW j \in Doings PROVE CutsClean(j)'
  <2>1. Severing(j)' = Severing(j) BY <1>2 DEF Severing
  <2>2. Emptying(doing'[j]) <=> Emptying(doing[j]) BY <1>2 DEF Emptying
  <2>3. doing'[j].read = doing[j].read BY <1>2
  <2>4. CutsClean(j) OBVIOUS
  <2>5. \A x : InHand(x)' <=> InHand(x) BY <1>1 DEF InHand
  <2> QED BY <1>1, <2>1, <2>2, <2>3, <2>4, <2>5 DEF CutsClean
<1>11. TrailFine'
  <2>1. \A j \in Doings : doing'[j].at \in Early <=> doing[j].at \in Early BY <1>2
  <2>2. spoiled' = spoiled /\ UNCHANGED trailVars BY <1>1
  <2> QED BY <1>6, <2>1, <2>2, TrailUntouched
<1> QED BY <1>6, <1>7, <1>8, <1>9, <1>10, <1>11

\* The trail loses its first event, or has it once more at its end: what is said
\* of each event that is left was said of it before, or of the first.
Repeated(e) == [of |-> e.of, tries |-> e.tries + 1]

LEMMA StreamShifts ==
  ASSUME NEW s \in Seq(Events), s # <<>>, NEW more \in BOOLEAN,
         NEW t, t = IF more THEN Append(Tail(s), Repeated(Head(s))) ELSE Tail(s)
  PROVE  /\ t \in Seq(Events) /\ Len(t) = (IF more THEN Len(s) ELSE Len(s) - 1)
         /\ \A i \in 1 .. Len(s) - 1 : t[i] = s[i + 1]
         /\ more => t[Len(s)] = Repeated(s[1])
<1>1. Len(s) \in Nat /\ Len(s) >= 1 /\ Head(s) = s[1] /\ s[1] \in Events
  BY EmptySeq, LenProperties, HeadTailProperties, EventsAre
<1>2. PICK u : u = Tail(s) OBVIOUS
<1>3. u \in Seq(Events) /\ Len(u) = Len(s) - 1 /\ \A i \in 1 .. Len(s) - 1 : u[i] = s[i + 1]
  BY <1>2, HeadTailProperties
<1>4. PICK e : e = Repeated(Head(s)) OBVIOUS
<1>5. e \in Events /\ e = Repeated(s[1]) BY <1>1, <1>4 DEF Repeated, Events
<1>6. /\ Append(u, e) \in Seq(Events) /\ Len(Append(u, e)) = Len(u) + 1
      /\ \A i \in 1 .. Len(u) : Append(u, e)[i] = u[i]
      /\ Append(u, e)[Len(u) + 1] = e
  BY ONLY <1>3, <1>5, AppendProperties
<1>7. CASE ~more BY <1>2, <1>3, <1>7
<1>8. CASE more
  <2>1. t = Append(u, e) BY <1>2, <1>4, <1>8
  <2>2. Len(u) + 1 = Len(s) BY <1>1, <1>3
  <2> QED BY <1>3, <1>5, <1>6, <1>8, <2>1, <2>2
<1> QED BY <1>7, <1>8

LEMMA StreamMoves ==
  ASSUME NEW s \in Seq(Events), s # <<>>, NEW more \in BOOLEAN, NEW t \in Seq(Events),
         Len(t) = (IF more THEN Len(s) ELSE Len(s) - 1), \A i \in 1 .. Len(s) - 1 : t[i] = s[i + 1],
         more => t[Len(s)] = Repeated(s[1]), \A i, j \in 1 .. Len(s) : s[i].of = s[j].of => i = j
  PROVE  /\ \A i, j \in 1 .. Len(t) : t[i].of = t[j].of => i = j
         /\ \A i \in 1 .. Len(t) :
              \/ \E m \in 2 .. Len(s) : t[i] = s[m]
              \/ t[i] = Repeated(s[1]) /\ more
         /\ \A m \in 2 .. Len(s) : \E i \in 1 .. Len(t) : t[i] = s[m]
         /\ more => \E i \in 1 .. Len(t) : t[i] = Repeated(s[1])
<1>1. PICK n \in Nat : n = Len(s) /\ n >= 1 BY EmptySeq, LenProperties
<1>2. Repeated(s[1]).of = s[1].of BY DEF Repeated
<1>3. \A i \in 1 .. Len(t) : (i \in 1 .. n - 1 /\ i + 1 \in 2 .. n) \/ (more /\ i = n)
  BY ONLY <1>1, Len(t) = (IF more THEN Len(s) ELSE Len(s) - 1), more \in BOOLEAN
<1>4. \A i \in 1 .. n - 1 : i \in 1 .. Len(t)
  BY ONLY <1>1, Len(t) = (IF more THEN Len(s) ELSE Len(s) - 1), more \in BOOLEAN
<1>5. ASSUME NEW i \in 1 .. Len(t), NEW j \in 1 .. Len(t), t[i].of = t[j].of PROVE i = j
  <2>1. \A k \in 1 .. n - 1 : t[k].of # s[1].of
    <3> SUFFICES ASSUME NEW k \in 1 .. n - 1 PROVE t[k].of # s[1].of
      OBVIOUS
    <3>1. t[k] = s[k + 1] /\ k + 1 \in 1 .. Len(s) /\ 1 \in 1 .. Len(s) /\ k + 1 # 1 BY <1>1
    <3> QED BY <3>1
  <2>2. more => t[n].of = s[1].of BY <1>1, <1>2
  <2>3. CASE i \in 1 .. n - 1 /\ j \in 1 .. n - 1
    <3>1. t[i] = s[i + 1] /\ t[j] = s[j + 1] BY <1>1, <2>3
    <3>2. i + 1 \in 1 .. Len(s) /\ j + 1 \in 1 .. Len(s) BY <1>1, <2>3
    <3>3. i + 1 = j + 1 BY <1>5, <3>1, <3>2
    <3> QED BY <2>3, <3>3
  <2> QED BY <1>3, <1>5, <2>1, <2>2, <2>3
<1>6. ASSUME NEW i \in 1 .. Len(t) PROVE (\E m \in 2 .. Len(s) : t[i] = s[m]) \/ (t[i] = Repeated(s[1]) /\ more)
  <2>1. CASE i \in 1 .. n - 1 /\ i + 1 \in 2 .. n BY <1>1, <2>1
  <2>2. CASE more /\ i = n BY <1>1, <2>2
  <2> QED BY <1>3, <2>1, <2>2
<1>7. ASSUME NEW m \in 2 .. Len(s) PROVE \E i \in 1 .. Len(t) : t[i] = s[m]
  <2>1. PICK i \in 1 .. n - 1 : m = i + 1
    <3>1. m - 1 \in 1 .. n - 1 /\ m = (m - 1) + 1 BY <1>1
    <3> QED BY <3>1
  <2> QED BY <1>1, <1>4, <2>1
<1>8. ASSUME more PROVE \E i \in 1 .. Len(t) : t[i] = Repeated(s[1])
  <2>1. n \in 1 .. Len(t) BY <1>1, <1>8
  <2> QED BY <1>1, <1>8, <2>1
<1> QED BY <1>5, <1>6, <1>7, <1>8

LEMMA TrailPasses ==
  ASSUME HoldTyped, TrailFine, stream # <<>>, NEW more \in BOOLEAN, NEW hit \in BOOLEAN,
         NEW f, f = Head(stream).of, more => Head(stream).tries + 1 < MaxTries,
         stream' = IF more THEN Append(Tail(stream), Repeated(Head(stream))) ELSE Tail(stream),
         log' = IF hit THEN [log EXCEPT ![f] = log[f] + 1] ELSE log,
         spoiled \subseteq spoiled', f \in spoiled' \/ (hit <=> ~more), UNCHANGED <<doing, took>>
  PROVE  TrailFine' /\ stream' \in Seq(Events) /\ log' \in [Doings -> 0 .. MaxTries] /\ f \in Doings
<1>1. stream \in Seq(Events) /\ log \in [Doings -> 0 .. MaxTries] BY DEF HoldTyped
<1>2. /\ Len(stream) \in Nat /\ Len(stream) >= 1 /\ Head(stream) = stream[1] /\ 1 \in 1 .. Len(stream)
  BY <1>1, EmptySeq, LenProperties, HeadTailProperties
<1>3. \A i \in 1 .. Len(stream) : stream[i].of \in Doings /\ stream[i].tries \in Nat BY <1>1, EventsAre
<1>4. f \in Doings /\ f = stream[1].of BY <1>2, <1>3
<1>5. log[f] <= stream[1].tries /\ stream[1].tries < MaxTries /\ doing[f].at \notin Early
      /\ stream[1].tries \in Nat /\ log[f] \in Nat /\ MaxTries \in Nat
  BY <1>1, <1>2, <1>3, <1>4, HoldingsAssumption DEF TrailFine, EventFine
<1>6. log' \in [Doings -> 0 .. MaxTries] /\ \A j \in Doings : j # f => log'[j] = log[j]
  BY <1>1, <1>4, <1>5
<1>7. log'[f] = IF hit THEN log[f] + 1 ELSE log[f] BY <1>1, <1>4
<1>8. /\ stream' \in Seq(Events)
      /\ \A i, j \in 1 .. Len(stream') : stream'[i].of = stream'[j].of => i = j
      /\ \A i \in 1 .. Len(stream') :
           \/ \E m \in 2 .. Len(stream) : stream'[i] = stream[m]
           \/ stream'[i] = Repeated(stream[1]) /\ more
      /\ \A m \in 2 .. Len(stream) : \E i \in 1 .. Len(stream') : stream'[i] = stream[m]
      /\ more => \E i \in 1 .. Len(stream') : stream'[i] = Repeated(stream[1])
  <2>1. \A i, j \in 1 .. Len(stream) : stream[i].of = stream[j].of => i = j BY DEF TrailFine
  <2>2. PICK t : t = stream' OBVIOUS
  <2>3. /\ t \in Seq(Events) /\ Len(t) = (IF more THEN Len(stream) ELSE Len(stream) - 1)
        /\ \A i \in 1 .. Len(stream) - 1 : t[i] = stream[i + 1]
        /\ more => t[Len(stream)] = Repeated(stream[1])
    BY <1>1, <2>2, StreamShifts
  <2>4. /\ \A i, j \in 1 .. Len(t) : t[i].of = t[j].of => i = j
        /\ \A i \in 1 .. Len(t) :
             \/ \E m \in 2 .. Len(stream) : t[i] = stream[m]
             \/ t[i] = Repeated(stream[1]) /\ more
        /\ \A m \in 2 .. Len(stream) : \E i \in 1 .. Len(t) : t[i] = stream[m]
        /\ more => \E i \in 1 .. Len(t) : t[i] = Repeated(stream[1])
    BY ONLY <1>1, <2>1, <2>3, stream # <<>>, more \in BOOLEAN, StreamMoves
  <2> QED BY <2>2, <2>3, <2>4, ZenonT(60)
<1>9. \A m \in 2 .. Len(stream) : m \in 1 .. Len(stream) /\ stream[m].of # f /\ stream[m].of \in Doings
  <2> SUFFICES ASSUME NEW m \in 2 .. Len(stream)
               PROVE  m \in 1 .. Len(stream) /\ stream[m].of # f /\ stream[m].of \in Doings
    OBVIOUS
  <2>1. m \in 1 .. Len(stream) /\ m # 1 BY <1>2
  <2> QED BY <1>2, <1>3, <1>4, <2>1 DEF TrailFine
<1>10. Repeated(stream[1]).of = f /\ Repeated(stream[1]).tries = stream[1].tries + 1 BY <1>4 DEF Repeated
<1>11. ASSUME NEW i \in 1 .. Len(stream') PROVE EventFine(i)'
  <2>1. CASE \E m \in 2 .. Len(stream) : stream'[i] = stream[m]
    <3>1. PICK m \in 2 .. Len(stream) : stream'[i] = stream[m] BY <2>1
    <3>2. EventFine(m) BY <1>9 DEF TrailFine
    <3>3. log'[stream[m].of] = log[stream[m].of] BY <1>6, <1>9
    <3> QED BY <3>1, <3>2, <3>3 DEF EventFine
  <2>2. CASE stream'[i] = Repeated(stream[1]) /\ more
    <3>1. stream'[i].of = f /\ stream'[i].tries = stream[1].tries + 1 BY <1>10, <2>2
    <3>2. log'[f] <= stream[1].tries + 1 BY <1>5, <1>7
    <3>3. stream[1].tries + 1 < MaxTries BY <1>2, <2>2
    <3> QED BY <1>5, <3>1, <3>2, <3>3 DEF EventFine
  <2> QED BY <1>8, <2>1, <2>2
<1>12. ASSUME NEW j \in Doings PROVE CallFine(j)'
  <2>1. CallFine(j) BY DEF TrailFine
  <2>2. CASE j = f
    <3>1. Waits(f) BY <1>2, <1>4 DEF Waits
    <3>2. ASSUME j \notin spoiled' PROVE /\ log'[j] <= 1 /\ (Waits(j)' => log'[j] = 0)
                                         /\ log'[j] = 1 \/ Waits(j)'
      <4>1. (hit <=> ~more) /\ log[f] = 0 BY <2>1, <2>2, <3>1, <3>2 DEF CallFine
      <4>2. CASE hit
        <5>1. ~Waits(f)'
          <6> SUFFICES ASSUME NEW i \in 1 .. Len(stream'), stream'[i].of = f PROVE FALSE
            BY DEF Waits
          <6>1. PICK m \in 2 .. Len(stream) : stream'[i] = stream[m] BY <1>8, <4>1, <4>2
          <6> QED BY <1>9, <6>1
        <5>2. log'[f] = 1 BY <1>7, <4>1, <4>2
        <5> QED BY <2>2, <5>1, <5>2
      <4>3. CASE ~hit
        <5>1. Waits(f)' BY <1>8, <1>10, <4>1, <4>3 DEF Waits
        <5>2. log'[f] = 0 BY <1>7, <4>1, <4>3
        <5> QED BY <2>2, <5>1, <5>2
      <4> QED BY <4>2, <4>3
    <3> QED BY <1>5, <2>2, <3>2 DEF CallFine
  <2>3. CASE j # f
    <3>1. Waits(j)' => Waits(j)
      <4> SUFFICES ASSUME NEW i \in 1 .. Len(stream'), stream'[i].of = j PROVE Waits(j)
        BY DEF Waits
      <4>1. PICK m \in 2 .. Len(stream) : stream'[i] = stream[m] BY <1>8, <1>10, <2>3
      <4> QED BY <1>9, <4>1 DEF Waits
    <3>2. Waits(j) => Waits(j)'
      <4> SUFFICES ASSUME NEW i \in 1 .. Len(stream), stream[i].of = j PROVE Waits(j)'
        BY DEF Waits
      <4>1. i \in 2 .. Len(stream)
        <5>1. i # 1 BY <1>4, <2>3
        <5> QED BY <1>2, <5>1
      <4> QED BY <1>8, <4>1 DEF Waits
    <3>3. log'[j] = log[j] BY <1>6, <2>3
    <3> QED BY <2>1, <3>1, <3>2, <3>3 DEF CallFine
  <2> QED BY <2>2, <2>3
<1> QED BY <1>4, <1>6, <1>8, <1>11, <1>12 DEF TrailFine

LEMMA MirrorEventHolds == ASSUME HoldInv, MirrorEvent PROVE HoldInv'
<1> USE DEF HoldInv
<1>1. /\ stream # <<>>
      /\ UNCHANGED <<spineVars, known, kept, listed, holder, provider, doing, glance, took, severed, adrift, saves>>
  BY DEF MirrorEvent
<1>2. /\ stream \in Seq(Events) /\ Head(stream) \in Events /\ Tail(stream) \in Seq(Events)
  BY <1>1, HeadTailProperties DEF HoldTyped
<1>3. PICK h \in Events : h = Head(stream) BY <1>2
<1>4. h.of \in Doings /\ h.tries \in Nat /\ log[h.of] \in Nat BY <1>3 DEF Events, HoldTyped
<1>5. PICK hit \in BOOLEAN, more \in BOOLEAN :
        /\ more => h.tries + 1 < MaxTries
        /\ stream' = IF more THEN Append(Tail(stream), Repeated(Head(stream))) ELSE Tail(stream)
        /\ log' = IF hit THEN [log EXCEPT ![h.of] = log[h.of] + 1] ELSE log
        /\ spoiled' \in {spoiled, spoiled \cup {h.of}}
        /\ h.of \in spoiled' \/ (hit <=> ~more)
        /\ losses' \in 0 .. MaxLosses
  <2>1. CASE /\ log' = [log EXCEPT ![h.of] = @ + 1] /\ stream' = Tail(stream)
             /\ UNCHANGED <<spoiled, losses>>
    <3>1. losses' \in 0 .. MaxLosses BY <2>1 DEF HoldTyped
    <3> QED BY <2>1, <3>1
  <2>2. CASE /\ Loss /\ stream' = Tail(stream) \o Tried(h)
             /\ log' \in {log, [log EXCEPT ![h.of] = @ + 1]}
             /\ spoiled' = IF log' # log \/ h.tries + 1 = MaxTries THEN spoiled \cup {h.of} ELSE spoiled
    <3>1. losses' \in 0 .. MaxLosses BY <2>2, HoldingsAssumption DEF Loss, HoldTyped
    <3>2. PICK more \in BOOLEAN : more <=> h.tries + 1 < MaxTries OBVIOUS
    <3>3. stream' = IF more THEN Append(Tail(stream), Repeated(Head(stream))) ELSE Tail(stream)
      <4>1. CASE more
        <5>1. PICK e : e = [h EXCEPT !.tries = @ + 1] OBVIOUS
        <5>2. PICK n \in Nat : n = h.tries + 1 BY <1>4
        <5>3. e \in Events /\ e.of = h.of /\ e.tries = n BY <1>3, <5>1, <5>2 DEF Events
        <5>4. e = Repeated(h) BY <5>2, <5>3 DEF Events, Repeated
        <5>5. Tried(h) = <<e>> BY <3>2, <4>1, <5>1 DEF Tried
        <5>6. stream' = Tail(stream) \o <<e>> BY <2>2, <5>5
        <5>7. Append(Tail(stream), e) = Tail(stream) \o <<e>> BY ONLY <1>2, <5>3, AppendIsConcat
        <5> QED BY <1>3, <4>1, <5>4, <5>6, <5>7
      <4>2. CASE ~more
        <5>1. Tried(h) = <<>> BY <3>2, <4>2 DEF Tried
        <5>2. stream' = Tail(stream) \o <<>> BY <2>2, <5>1
        <5>3. Tail(stream) \o <<>> = Tail(stream) BY ONLY <1>2, ConcatEmptySeq
        <5> QED BY <4>2, <5>2, <5>3
      <4> QED BY <4>1, <4>2
    <3>4. CASE log' = log
      <4>1. h.of \in spoiled' \/ more
        <5>1. h.tries < MaxTries
          <6>1. 1 \in 1 .. Len(stream) /\ stream[1] = h BY <1>1, <1>2, <1>3, EmptySeq, LenProperties, HeadTailProperties
          <6> QED BY <6>1 DEF TrailFine, EventFine
        <5>2. more \/ h.tries + 1 = MaxTries BY <1>4, <3>2, <5>1, HoldingsAssumption
        <5> QED BY <2>2, <5>2
      <4>2. PICK hit \in BOOLEAN : hit = FALSE OBVIOUS
      <4> QED BY <2>2, <3>1, <3>2, <3>3, <3>4, <4>1, <4>2
    <3>5. CASE log' = [log EXCEPT ![h.of] = @ + 1]
      <4>1. log'[h.of] = log[h.of] + 1 BY <1>4, <3>5 DEF HoldTyped
      <4>2. log' # log BY <1>4, <4>1
      <4>3. h.of \in spoiled' /\ spoiled' = spoiled \cup {h.of} BY <2>2, <4>2
      <4>4. PICK hit \in BOOLEAN : hit = TRUE OBVIOUS
      <4> QED BY <3>1, <3>2, <3>3, <3>5, <4>3, <4>4
    <3> QED BY <2>2, <3>4, <3>5
  <2> QED BY <1>3, <2>1, <2>2 DEF MirrorEvent
<1>6. TrailFine' /\ stream' \in Seq(Events) /\ log' \in [Doings -> 0 .. MaxTries] /\ h.of \in Doings
  <2>1. spoiled \subseteq spoiled' BY <1>5
  <2>2. h.of = Head(stream).of /\ (more => Head(stream).tries + 1 < MaxTries) BY <1>3, <1>5
  <2> QED BY <1>1, <1>5, <2>1, <2>2, TrailPasses
<1>7. HoldTyped' BY <1>1, <1>4, <1>5, <1>6 DEF HoldTyped, spineVars
<1>8. CallsFit' BY <1>1 DEF CallsFit
<1>9. ResetsLooked' BY <1>1, LooksUntouched
<1>10. \A c \in Firms : Severance(c)' BY <1>1, SeveranceUntouched DEF spineVars
<1>11. \A j \in Doings : CutsClean(j)'
  <2>1. doing' = doing /\ kept' = kept /\ glance' = glance /\ spoiled \subseteq spoiled' BY <1>1, <1>5
  <2> QED BY <1>7, <2>1, CutsUntouched
<1> QED BY <1>6, <1>7, <1>8, <1>9, <1>10, <1>11

(***************************************************************************)
(* What Azir holds.                                                        *)
(***************************************************************************)

LEMMA HoldInvInit == ASSUME HoldingsInit PROVE HoldInv
<1>1. /\ firms \subseteq Firms /\ link = [x \in Marks |-> "nobody"]
      /\ known = [c \in Firms |-> 0] /\ kept = [c \in Firms |-> 0] /\ listed \in BOOLEAN /\ provider = TRUE
      /\ holder \in [Holders -> {"password", "provider"}]
      /\ doing = [k \in Doings |-> NotDoing] /\ glance = [r \in Glances |-> NoGlance]
      /\ stream = <<>> /\ log = [k \in Doings |-> 0] /\ took = [k \in Doings |-> {}]
      /\ severed = {} /\ adrift = {} /\ spoiled = {} /\ losses = 0
  BY DEF HoldingsInit
<1>2. sealed \in [Firms -> 0 .. MaxConnections] /\ saves \in 0 .. MaxConnections
  <2>1. PICK c \in Firms :
          sealed = [d \in Firms |-> IF d = c /\ d \in firms /\ MaxConnections > 0 THEN 1 ELSE 0]
    BY DEF HoldingsInit
  <2>2. sealed \in [Firms -> 0 .. MaxConnections] BY <2>1, HoldingsAssumption
  <2>3. (\E d \in Firms : sealed[d] = 1) => MaxConnections > 0 BY <2>1
  <2> QED BY <2>2, <2>3, HoldingsAssumption DEF HoldingsInit
<1>3. NotDoing \in DoingRecords /\ NotDoing.at = "idle" /\ NotDoing.op = "none" BY DEF NotDoing, DoingRecords
<1>4. NoGlance \in GlanceRecords /\ NoGlance.at = "idle" BY HoldingsAssumption DEF NoGlance, GlanceRecords
<1>5. HoldTyped
  <2>1. stream \in Seq(Events) BY <1>1
  <2>2. log \in [Doings -> 0 .. MaxTries] /\ losses \in 0 .. MaxLosses
        /\ known \in [Firms -> 0 .. MaxConnections] /\ kept \in [Firms -> 0 .. MaxConnections]
    BY <1>1, HoldingsAssumption
  <2>3. holder \in [Holders -> Ways] BY <1>1 DEF Ways
  <2> QED BY <1>1, <1>2, <1>3, <1>4, <2>1, <2>2, <2>3 DEF HoldTyped
<1>6. CallsFit BY <1>1, <1>3, <1>4 DEF CallsFit, CallFits
<1>7. ResetsLooked BY <1>1, <1>3 DEF ResetsLooked
<1>8. \A c \in Firms : Severance(c) BY <1>1 DEF Severance
<1>9. \A k \in Doings : CutsClean(k) BY <1>1, <1>3 DEF CutsClean, Severing
<1>10. TrailFine
  <2>1. Len(stream) = 0 BY <1>1
  <2>2. \A k \in Doings : CallFine(k) BY <1>1, <1>3, <2>1 DEF CallFine, Waits, Early
  <2> QED BY <2>1, <2>2 DEF TrailFine
<1> QED BY <1>5, <1>6, <1>7, <1>8, <1>9, <1>10 DEF HoldInv

LEMMA HoldInvNext == ASSUME HoldInv, [HoldingsNext]_holdVars PROVE HoldInv'
<1>1. CASE UNCHANGED holdVars
  <2>1. /\ UNCHANGED <<firms, link, sealed, known, kept, listed, holder, provider, doing, glance>>
        /\ UNCHANGED <<stream, log, took, severed, adrift, spoiled, saves, losses>>
    BY <1>1 DEF holdVars, spineVars, trailVars
  <2>2. HoldTyped' /\ CallsFit' /\ ResetsLooked'
    BY <2>1 DEF HoldInv, HoldTyped, CallsFit, ResetsLooked, WithPassword
  <2>3. \A c \in Firms : Severance(c)' BY <2>1 DEF HoldInv, Severance
  <2>4. \A k \in Doings : CutsClean(k)' BY <2>1 DEF HoldInv, CutsClean, InHand, Severing
  <2>5. TrailFine' BY <2>1 DEF HoldInv, TrailFine, EventFine, CallFine, Waits
  <2> QED BY <2>2, <2>3, <2>4, <2>5 DEF HoldInv
<1>2. ASSUME NEW k \in Doings, DoingStep(k) PROVE HoldInv'
  <2>1. CASE \E op \in Ops, c \in Firms \cup {"nobody"} : Undertake(k, op, c) BY <2>1, UndertakeHolds
  <2>2. CASE Depart(k) BY <2>2, DepartHolds
  <2>3. CASE CreateCustomer(k) BY <2>3, CreateCustomerHolds
  <2>4. CASE SaveConnection(k) BY <2>4, SaveConnectionHolds
  <2>5. CASE Disconnect(k) BY <2>5, DisconnectHolds
  <2>6. CASE ClearWork(k) BY <2>6, ClearWorkHolds
  <2>7. CASE ResetAll(k) BY <2>7, ResetAllHolds
  <2>8. CASE \E x \in Marks : LinkIdentity(k, x) BY <2>8, LinkIdentityHolds
  <2>9. CASE Record(k) BY <2>9, RecordHolds
  <2>10. CASE ForgetAnswers(k) BY <2>10, ForgetAnswersHolds
  <2>11. CASE Announce(k) BY <2>11, AnnounceHolds
  <2> QED BY <1>2, <2>1, <2>2, <2>3, <2>4, <2>5, <2>6, <2>7, <2>8, <2>9, <2>10, <2>11 DEF DoingStep
<1>3. ASSUME NEW r \in Glances, GlanceStep(r) PROVE HoldInv'
  BY <1>3, LookHolds, ConnectHolds, PutAnswerHolds DEF GlanceStep
<1>4. ASSUME NEW h \in Holders, Disable(h) PROVE HoldInv' BY <1>4, DisableHolds
<1>5. CASE MirrorEvent BY <1>5, MirrorEventHolds
<1> QED BY <1>1, <1>2, <1>3, <1>4, <1>5 DEF HoldingsNext, HeldNext

LEMMA HoldInvKept == HoldingsSpec => []HoldInv
<1>1. HoldingsInit => HoldInv BY HoldInvInit
<1>2. HoldInv /\ [HoldingsNext]_holdVars => HoldInv' BY HoldInvNext
<1> QED BY <1>1, <1>2, PTL DEF HoldingsSpec

\* A customer that was disconnected is, or is known to be adrift; and what was
\* done is on record once, unless somebody cleared it, the client left or a
\* message was lost.
THEOREM HoldingsKept == HoldingsSpec => []HoldingsAreKept
<1>1. ASSUME HoldInv PROVE HoldingsAreKept
  <2>1. HoldingsTypeOK
    <3>1. \A i \in DOMAIN stream : stream[i].of \in Doings /\ stream[i].tries \in 0 .. MaxTries
      <4> SUFFICES ASSUME NEW i \in DOMAIN stream PROVE stream[i].of \in Doings /\ stream[i].tries \in 0 .. MaxTries
        OBVIOUS
      <4>1. i \in 1 .. Len(stream) BY <1>1 DEF HoldInv, HoldTyped
      <4>2. stream[i].of \in Doings /\ stream[i].tries \in Nat BY <1>1, <4>1, EventsAre DEF HoldInv, HoldTyped
      <4>3. stream[i].tries < MaxTries BY <1>1, <4>1 DEF HoldInv, TrailFine, EventFine
      <4> QED BY <4>2, <4>3, HoldingsAssumption
    <3> QED BY <1>1, <3>1 DEF HoldInv, HoldTyped, HoldingsTypeOK, DoingRecords, GlanceRecords
  <2>2. SeveredIsSevered BY <1>1 DEF HoldInv, HoldTyped, Severance, SeveredIsSevered
  <2>3. DoneIsOnRecord
    <3>1. DOMAIN stream = 1 .. Len(stream) BY <1>1 DEF HoldInv, HoldTyped
    <3> SUFFICES ASSUME NEW k \in Doings \ spoiled
                 PROVE  /\ log[k] <= 1 /\ (log[k] > 0 => doing[k].at # "refused")
                        /\ doing[k].at = "over" => log[k] = 1 \/ Waits(k) \/ took[k] \ {k} # {}
      BY <3>1 DEF DoneIsOnRecord, Waits
    <3> QED BY <1>1 DEF HoldInv, TrailFine, CallFine, Early
  <2> QED BY <2>1, <2>2, <2>3 DEF HoldingsAreKept
<1> QED BY <1>1, HoldInvKept, PTL

\* The provider goes only while an account has a password, unless one was
\* disabled between the look and the reset.
THEOREM SomebodyCanSignIn == HoldingsSpec => SomebodyCanSignInUndisturbed
<1> DEFINE Kept == provider /\ ~provider' =>
                     \/ \E h \in Holders : holder[h] = "password"
                     \/ \E k \in Doings : doing[k].op = "reset" /\ doing[k].at = "changing" /\ doing[k].moved
<1>1. HoldInv /\ [HoldingsNext]_holdVars => [Kept]_holdVars
  <2> SUFFICES ASSUME HoldInv, HoldingsNext, provider, ~provider' PROVE Kept
    OBVIOUS
  <2>1. ASSUME NEW r \in Glances PROVE ~GlanceStep(r)
    BY <2>1 DEF GlanceStep, Connect, PutAnswer, Look
  <2>2. ASSUME NEW h \in Holders PROVE ~Disable(h) BY <2>2 DEF Disable
  <2>3. ~MirrorEvent BY DEF MirrorEvent
  <2>4. PICK k \in Doings : DoingStep(k) BY <2>1, <2>2, <2>3 DEF HoldingsNext, HeldNext
  <2>5. ResetAll(k)
    BY <2>4 DEF DoingStep, Undertake, Depart, CreateCustomer, SaveConnection, Disconnect, ClearWork,
                LinkIdentity, Record, ForgetAnswers, Announce
  <2>6. doing[k].op = "reset" /\ doing[k].at = "changing" BY <2>5 DEF ResetAll, Changes
  <2>7. doing[k].moved \/ WithPassword # {} BY <2>6 DEF HoldInv, ResetsLooked
  <2> QED BY <2>6, <2>7 DEF WithPassword
<1> QED BY <1>1, HoldInvKept, PTL DEF HoldingsSpec, SomebodyCanSignInUndisturbed

=============================================================================
