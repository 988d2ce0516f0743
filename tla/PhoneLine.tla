------------------------------ MODULE PhoneLine ------------------------------
(***************************************************************************)
(* The telephone plugin's way to a customer's phone system: connect, get,  *)
(* post, patch, remove, action and fetch of cmd/plugin-3cx/main.go, and    *)
(* systemStatus, which makes three requests of one connection.  One lock   *)
(* is held by whoever looks for a token, the sign-in included.             *)
(*                                                                         *)
(* A tick is half a minute; a request takes no longer than one, because it *)
(* is given up after twenty to twenty-five seconds.                        *)
(***************************************************************************)
EXTENDS Integers, FiniteSets

CONSTANTS
  Tenants,       \* customers
  Systems,       \* phone systems
  Rings,         \* calls of the plugin's tools, each made once
  Conditions,    \* what a phone system may be like: how many of its phones and trunks are
                 \* registered, whether it is otherwise sound, and what is left of its licence
  TokenLife,     \* ticks for which an access token is good
  Margin,        \* ticks it must still be good for to be used again
  MaxTicks,      \* bound: time
  MaxMoves,      \* bound: addresses saved, and phone systems that restart
  MaxSilences    \* bound: requests nobody answers

ASSUME PhoneLineAssumption ==
  /\ "none" \notin Systems /\ "nobody" \notin Rings
  /\ {TokenLife, Margin, MaxTicks, MaxMoves, MaxSilences} \subseteq Nat /\ TokenLife > Margin /\ Margin > 1
  /\ \A c \in Conditions : c.hours \in Int /\ c.active \in BOOLEAN /\ c.sound \in BOOLEAN
  /\ \A c \in Conditions : {c.phones.up, c.phones.all, c.trunks.up, c.trunks.all} \subseteq Nat
                            /\ c.phones.up <= c.phones.all /\ c.trunks.up <= c.trunks.all

VARIABLES
  address,       \* the phone system saved for each customer
  condition,     \* what each phone system is like; hours until its licence lapses
  keptToken,     \* tokens.byCustomer: at most one each
  dialling,      \* who holds the lock
  ring,          \* the calls
  landed,        \* changes that took effect, and where
  ticks, moves, silences

dialVars == <<address, condition, keptToken, dialling, ring, landed, ticks, moves, silences>>

RingKinds == {"status", "change", "capture"}
NotRinging == [kind |-> "none", tenant |-> "none", at |-> "idle", token |-> {}, step |-> 0, since |-> 0,
               systems |-> {}, early |-> "none", read |-> {}, healthy |-> FALSE, told |-> "nothing"]
TokenOf(s) == [system |-> s, until |-> ticks + TokenLife, sound |-> TRUE]

PhoneLineTypeOK ==
  /\ address \in [Tenants -> Systems \cup {"none"}] /\ condition \in [Systems -> Conditions]
  /\ \A t \in Tenants : Cardinality(keptToken[t]) <= 1 /\ \A k \in keptToken[t] : k.system \in Systems
  /\ dialling \in Rings \cup {"nobody"}
  /\ \A r \in Rings :
       /\ ring[r].at \in {"idle", "waiting", "dialling", "asking", "over"} /\ ring[r].step \in 0 .. 3
       /\ ring[r].kind \in RingKinds \cup {"none"} /\ ring[r].told \in {"nothing", "done", "refused", "failed"}
       /\ ring[r].early \in {"none", "good", "out", "unsound"}
  /\ landed \in [Rings -> Systems \cup {"none"}]
  /\ ticks \in 0 .. MaxTicks /\ moves \in 0 .. MaxMoves /\ silences \in 0 .. MaxSilences

PhoneLineInit ==
  /\ address \in [Tenants -> Systems \cup {"none"}] /\ condition \in [Systems -> Conditions]
  /\ keptToken = [t \in Tenants |-> {}] /\ dialling = "nobody"
  /\ ring = [r \in Rings |-> NotRinging] /\ landed = [r \in Rings |-> "none"]
  /\ ticks = 0 /\ moves = 0 /\ silences = 0

Silence == silences < MaxSilences /\ silences' = silences + 1

-----------------------------------------------------------------------------
\* connect.

Ring(r, kind, t) ==
  /\ ring[r].at = "idle"
  /\ ring' = [ring EXCEPT ![r] = [@ EXCEPT !.kind = kind, !.tenant = t, !.at = "waiting", !.systems = {address[t]}]]
  /\ UNCHANGED <<address, condition, keptToken, dialling, landed, ticks, moves, silences>>

ReusableAnywhere(t) == {k \in keptToken[t] : ticks < k.until - Margin}
\* A token still good for a minute, of the address that is saved.
Reusable(t) == {k \in keptToken[t] : k.system = address[t] /\ ticks < k.until - Margin}

\* The settings are read under the lock; the password only to sign in.
Connect(r) ==
  /\ ring[r].at = "waiting" /\ dialling = "nobody"
  /\ LET t == ring[r].tenant IN
     \/ /\ address[t] = "none"
        /\ ring' = [ring EXCEPT ![r].at = "over", ![r].told = "refused"] /\ UNCHANGED dialling
     \/ /\ address[t] # "none" /\ Reusable(t) # {}
        /\ ring' = [ring EXCEPT ![r] = [@ EXCEPT !.at = "asking", !.token = Reusable(t), !.step = 1, !.since = ticks]]
        /\ UNCHANGED dialling
     \/ /\ address[t] # "none" /\ Reusable(t) = {}
        /\ ring' = [ring EXCEPT ![r] = [@ EXCEPT !.at = "dialling", !.token = {TokenOf(address[t])}, !.since = ticks]]
        /\ dialling' = r
  /\ UNCHANGED <<address, condition, keptToken, landed, ticks, moves, silences>>

\* The sign-in: a token, or a refusal, or nothing.
SignIn(r) ==
  /\ ring[r].at = "dialling" /\ dialling' = "nobody"
  /\ LET system == (CHOOSE k \in ring[r].token : TRUE).system
         fresh == {TokenOf(system)}
     IN  \/ /\ keptToken' = [keptToken EXCEPT ![ring[r].tenant] = fresh]
            /\ ring' = [ring EXCEPT ![r] = [@ EXCEPT !.at = "asking", !.token = fresh, !.step = 1, !.since = ticks]]
            /\ UNCHANGED silences
         \/ /\ Silence /\ ring' = [ring EXCEPT ![r].at = "over", ![r].told = "failed"] /\ UNCHANGED keptToken
  /\ UNCHANGED <<address, condition, landed, ticks, moves>>

-----------------------------------------------------------------------------
\* Requests.

Token(r) == CHOOSE k \in ring[r].token : TRUE
InTime(r) == ticks < Token(r).until
Admitted(r) == InTime(r) /\ Token(r).sound
\* How the first request of a call went, as far as its token is concerned.
Early(r) == IF ring[r].step > 1 THEN ring[r].early ELSE IF ~Token(r).sound THEN "unsound" ELSE IF InTime(r) THEN "good" ELSE "out"
Over(r, what) == ring' = [ring EXCEPT ![r] = [@ EXCEPT !.at = "over", !.told = what, !.early = Early(r)]]

\* post, patch, remove and action: a change is made once, and refused with
\* whatever the phone system says, or not answered.
Change(r) ==
  /\ ring[r].at = "asking" /\ ring[r].kind = "change"
  /\ \/ Admitted(r) /\ landed' = [landed EXCEPT ![r] = Token(r).system] /\ Over(r, "done") /\ UNCHANGED silences
     \/ Over(r, "refused") /\ UNCHANGED <<landed, silences>>
     \/ Silence /\ Over(r, "failed") /\ landed' \in {landed} \cup (IF Admitted(r) THEN {[landed EXCEPT ![r] = Token(r).system]} ELSE {})
  /\ UNCHANGED <<address, condition, keptToken, dialling, ticks, moves>>

\* fetch: a capture is handed on as it comes.
Fetch(r) ==
  /\ ring[r].at = "asking" /\ ring[r].kind = "capture"
  /\ \/ Over(r, IF Admitted(r) THEN "done" ELSE "refused") /\ UNCHANGED silences
     \/ Silence /\ Over(r, "failed")
  /\ UNCHANGED <<address, condition, keptToken, dialling, landed, ticks, moves>>

\* systemStatus: the status, then the licence, then the names of the trunks; only
\* the first is needed.
Parts == <<"status", "licence", "trunks">>
\* int(hours / 24) rounds towards zero.
Days(hours) == IF hours < 0 THEN -((-hours) \div 24) ELSE hours \div 24
Lapses(hours) == Days(hours) <= 14

\* What the status says: no phone registered, or fewer than half; a trunk that is
\* not; a service down, a system extension away, no activation or a full disk.
OfStatus(c) ==
  {w \in {"silent", "phones", "trunks", "system"} :
     \/ w = "silent" /\ c.phones.all > 0 /\ c.phones.up = 0
     \/ w = "phones" /\ c.phones.up > 0 /\ c.phones.up * 2 < c.phones.all
     \/ w = "trunks" /\ c.trunks.up < c.trunks.all
     \/ w = "system" /\ ~c.sound}

Concerns(c, read) ==
  (IF "status" \in read THEN OfStatus(c) ELSE {})
  \cup (IF "licence" \in read /\ Lapses(c.hours) THEN {IF Days(c.hours) < 0 THEN "expired" ELSE "expires"} ELSE {})
  \cup (IF "licence" \in read /\ ~c.active THEN {"inactive"} ELSE {})

ReadPart(r, answered) ==
  /\ ring[r].at = "asking" /\ ring[r].kind = "status"
  /\ IF answered THEN UNCHANGED silences ELSE Silence
  /\ LET n == ring[r].step
         good == answered /\ Admitted(r)
         read == IF good THEN ring[r].read \cup {Parts[n]} ELSE ring[r].read
     IN  \/ n = 1 /\ ~good /\ Over(r, "failed")
         \/ /\ n < 3 /\ (n = 1 => good)
            /\ ring' = [ring EXCEPT ![r] = [@ EXCEPT !.step = n + 1, !.read = read, !.since = ticks, !.early = Early(r)]]
         \/ /\ n = 3
            /\ ring' = [ring EXCEPT ![r] = [@ EXCEPT !.at = "over", !.told = "done", !.read = read,
                           !.healthy = Concerns(condition[Token(r).system], read) = {}]]
  /\ UNCHANGED <<address, condition, keptToken, dialling, landed, ticks, moves>>

-----------------------------------------------------------------------------
\* Around it.

\* An administrator saves another address, or none.
SaveAddress(t, s) ==
  /\ moves < MaxMoves /\ s # address[t] /\ moves' = moves + 1
  /\ address' = [address EXCEPT ![t] = s]
  /\ ring' = [r \in Rings |-> IF ring[r].tenant = t /\ ring[r].at \in {"waiting", "dialling"}
                              THEN [ring[r] EXCEPT !.systems = @ \cup {s}] ELSE ring[r]]
  /\ UNCHANGED <<condition, keptToken, dialling, landed, ticks, silences>>

\* A phone system restarts and knows none of its tokens.
Unsound(ks, s) == {IF k.system = s THEN [k EXCEPT !.sound = FALSE] ELSE k : k \in ks}
RestartSystem(s) ==
  /\ moves < MaxMoves /\ moves' = moves + 1
  /\ keptToken' = [t \in Tenants |-> Unsound(keptToken[t], s)]
  /\ ring' = [r \in Rings |-> [ring[r] EXCEPT !.token = IF ring[r].at = "asking" THEN Unsound(@, s) ELSE @]]
  /\ UNCHANGED <<address, condition, dialling, landed, ticks, silences>>

\* Nobody waits longer than a tick for one answer.
Tick ==
  /\ ticks < MaxTicks /\ \A r \in Rings : ring[r].at \in {"dialling", "asking"} => ticks - ring[r].since < 1
  /\ ticks' = ticks + 1
  /\ UNCHANGED <<address, condition, keptToken, dialling, ring, landed, moves, silences>>

PhoneLineNext ==
  \/ \E r \in Rings : Connect(r) \/ SignIn(r) \/ Change(r) \/ Fetch(r) \/ \E yes \in BOOLEAN : ReadPart(r, yes)
  \/ \E r \in Rings, kind \in RingKinds, t \in Tenants : Ring(r, kind, t)
  \/ \E t \in Tenants, s \in Systems \cup {"none"} : SaveAddress(t, s)
  \/ \E s \in Systems : RestartSystem(s)
  \/ Tick

PhoneLineSpec == PhoneLineInit /\ [][PhoneLineNext]_dialVars

-----------------------------------------------------------------------------

\* A technician "needs to know which business that is about": what is asked of a
\* phone system, and done there, is for a customer whose address it was after the
\* call came in.
CallsGoWhereSaved ==
  \A r \in Rings :
    /\ ring[r].at = "asking" => Token(r).system \in ring[r].systems
    /\ landed[r] # "none" => landed[r] \in ring[r].systems

\* "A token that expires mid-request fails in a way that reads like the PBX being
\* down": none does in the first request of a call.
FirstRequestIsInTime == \A r \in Rings : ring[r].early # "out"

\* What is done was asked for; what is refused was not done.
ChangesAreToldTrue ==
  \A r \in Rings : ring[r].kind = "change" =>
    /\ ring[r].told = "done" => landed[r] # "none"
    /\ ring[r].told = "refused" => landed[r] = "none"

\* "Finding out on the day it lapses is finding out too late": a phone system
\* said to be healthy can ring somewhere and has half its phones and more, has all
\* its trunks and nothing else amiss, and a licence for a fortnight and more where
\* that could be read.  That up to half of the phones may be away is what the code
\* takes for health.
HealthyIsHealthy ==
  \A r \in Rings : ring[r].at = "over" /\ ring[r].healthy =>
    LET c == condition[Token(r).system] IN
    /\ c.phones.all = 0 \/ (c.phones.up > 0 /\ 2 * c.phones.up >= c.phones.all)
    /\ c.trunks.up = c.trunks.all /\ c.sound
    /\ "licence" \in ring[r].read => c.active /\ c.hours > 14 * 24

LinesAreKept ==
  /\ PhoneLineTypeOK
  /\ CallsGoWhereSaved
  /\ FirstRequestIsInTime
  /\ ChangesAreToldTrue
  /\ HealthyIsHealthy

=============================================================================
