------------------------------- MODULE Syncro -------------------------------
(***************************************************************************)
(* The helpdesk's plugin (cmd/plugin-syncro, internal/syncro) over the     *)
(* SDK's client, endpoints and health (pkg/plugin/httpclient.go, serve.go, *)
(* health.go): calls that wait in line at their tool, the check of what    *)
(* the API token may read, a write with its retries, and what becomes of   *)
(* all that when another token is saved.                                   *)
(*                                                                         *)
(* How a saved token reaches the plugin's vault is in Settings; here the   *)
(* announcement is the moment it does.  Time passes in minutes.            *)
(***************************************************************************)
EXTENDS Naturals, Sequences

CONSTANTS
  Orders,         \* calls of the plugin's tools, each made once
  Tokens,         \* API tokens
  Resources,      \* what a token is allowed to read, or not
  MaxRetries,     \* HTTPConfig.MaxRetries
  AccessLife,     \* minutes for which cachedAccess believes its probes
  HealthLife,     \* minutes for which healthCache believes the preflight
  MaxMinutes,     \* bound: minutes that pass
  MaxSaves,       \* bound: tokens saved or changed at the helpdesk
  MaxOutages      \* bound: requests that get no usable answer

ASSUME SyncroAssumption ==
  /\ {MaxRetries, AccessLife, HealthLife, MaxMinutes, MaxSaves, MaxOutages} \subseteq Nat
  /\ "tickets" \in Resources

VARIABLES
  grants,         \* what the helpdesk lets each token read
  saved,          \* the token in core's vault
  resolved,       \* the token in the plugin's: at most one
  inHand,         \* a token core handed out and the vault has not kept yet
  late,           \* it was kept after the vault had been emptied
  heard,          \* how far the plugin is with an announcement
  access,         \* Client.access: the probes of the last check
  health,         \* healthCache.last
  check,          \* CheckAccess, for the guard or for the preflight
  line,           \* calls waiting at each tool's endpoint, the first is handled
  order,          \* where each call is, and what its caller was told
  posted,         \* how often the helpdesk did what each call asks
  unclear,        \* calls with a request that was done and not answered
  minutes, tokenSaves, outages

syncroVars == <<grants, saved, resolved, inHand, late, heard, access, health, check, line,
                order, posted, unclear, minutes, tokenSaves, outages>>
tokenVars == <<grants, saved, tokenSaves, inHand, late>>
lineVars == <<line, order, posted, unclear>>

Tools == {"comment", "update", "search"}
Checkers == {"guard", "preflight"}
NoCheck == [on |-> FALSE, rest |-> {}, reach |-> {}, with |-> {}]
Unchecked == [known |-> FALSE, since |-> 0, reach |-> {}, with |-> {}]
Told == {"nothing", "done", "refused", "failed", "silence"}

SyncroTypeOK ==
  /\ grants \in [Tokens -> SUBSET Resources] /\ saved \in Tokens /\ {resolved, inHand} \subseteq SUBSET Tokens
  /\ late \in BOOLEAN
  /\ heard \in {"all", "announced", "forgotten"}
  /\ {access, health} \subseteq [known : BOOLEAN, since : 0 .. MaxMinutes,
                                 reach : SUBSET Resources, with : SUBSET Tokens]
  /\ check \in [Checkers -> [on : BOOLEAN, rest : SUBSET Resources, reach : SUBSET Resources,
                             with : SUBSET Tokens]]
  /\ \A t \in Tools : line[t] \in Seq(Orders)
  /\ order \in [Orders -> [tool : Tools \cup {"none"}, at : {"idle", "line", "probing", "status", "asking", "over"},
                           tries : 0 .. MaxRetries + 1, told : Told]]
  /\ posted \in [Orders -> Nat] /\ unclear \subseteq Orders
  /\ minutes \in 0 .. MaxMinutes /\ tokenSaves \in 0 .. MaxSaves /\ outages \in 0 .. MaxOutages

SyncroInit ==
  /\ grants \in [Tokens -> {{}, {"tickets"}}] /\ saved \in Tokens
  /\ resolved = {} /\ inHand = {} /\ late = FALSE /\ heard = "all"
  /\ access = Unchecked /\ health = Unchecked
  /\ check = [k \in Checkers |-> NoCheck]
  /\ line = [t \in Tools |-> <<>>]
  /\ order = [o \in Orders |-> [tool |-> "none", at |-> "idle", tries |-> 0, told |-> "nothing"]]
  /\ posted = [o \in Orders |-> 0] /\ unclear = {}
  /\ minutes = 0 /\ tokenSaves = 0 /\ outages = 0

-----------------------------------------------------------------------------
\* Tokens.

\* authorize resolves the token for every request, from the vault's cache or core.
InUse == IF resolved = {} THEN saved ELSE CHOOSE t \in resolved : TRUE

\* An administrator saves another token, and core announces it.  Core may just
\* have handed out the one it replaces.
SaveToken(t) ==
  /\ tokenSaves < MaxSaves /\ t # saved /\ heard = "all"
  /\ saved' = t /\ heard' = "announced" /\ tokenSaves' = tokenSaves + 1
  /\ inHand' \in IF resolved = {} THEN {{}, {saved}} ELSE {{}}
  /\ UNCHANGED <<grants, resolved, late, access, health, check, lineVars, minutes, outages>>

\* The helpdesk's administrator edits what a token may read.
EditGrants(t, R) ==
  /\ tokenSaves < MaxSaves /\ grants[t] # R
  /\ grants' = [grants EXCEPT ![t] = R] /\ tokenSaves' = tokenSaves + 1
  /\ UNCHANGED <<saved, inHand, late, resolved, heard, access, health, check, lineVars, minutes, outages>>

\* Vault.For puts in the cache what core handed out, whatever happened since.
KeepToken ==
  /\ inHand # {}
  /\ resolved' = inHand /\ inHand' = {} /\ late' = (heard # "announced")
  /\ UNCHANGED <<grants, saved, tokenSaves, heard, access, health, check, lineVars, minutes, outages>>

\* The five minutes for which the vault keeps it are over.
ForgetToken ==
  /\ resolved # {} /\ resolved' = {}
  /\ UNCHANGED <<tokenVars, heard, access, health, check, lineVars, minutes, outages>>

\* The plugin hears the announcement: the settings and secrets it kept go first.
HearSaved ==
  /\ heard = "announced"
  /\ resolved' = {} /\ late' = FALSE /\ heard' = "forgotten"
  /\ UNCHANGED <<grants, saved, tokenSaves, inHand, access, health, check, lineVars, minutes, outages>>

\* Mutant: what is known of the token's health goes without waiting.
MayInvalidateAtOnce == TRUE

\* Then healthCache.invalidate, which waits for a preflight under way: that holds
\* the mutex.
MayInvalidate == ~check["preflight"].on
Invalidate ==
  /\ heard = "forgotten" /\ MayInvalidate
  /\ health' = Unchecked /\ heard' = "all"
  /\ UNCHANGED <<tokenVars, resolved, access, check, lineVars, minutes, outages>>

-----------------------------------------------------------------------------
\* CheckAccess: every resource is read once, in any order.

Begin(k) == check' = [check EXCEPT ![k] = [NoCheck EXCEPT !.on = TRUE, !.rest = Resources]]
Fresh(kept, life) == kept.known /\ minutes - kept.since < life
Found(k) == [known |-> TRUE, since |-> minutes, reach |-> check[k].reach, with |-> check[k].with]

\* canRead: a refusal is a denial; anything else that is no answer is not.
Readable(t, r) == r \in grants[t]
Probe(k, r, answered) ==
  /\ check[k].on /\ r \in check[k].rest
  /\ ~answered => outages < MaxOutages
  /\ outages' = IF answered THEN outages ELSE outages + 1
  /\ resolved' = {InUse}
  /\ check' = [check EXCEPT ![k] =
       [@ EXCEPT !.rest = check[k].rest \ {r}, !.with = check[k].with \cup {InUse},
                 !.reach = check[k].reach \cup {x \in {r} : answered => Readable(InUse, x)}]]
  /\ UNCHANGED <<tokenVars, heard, access, health, lineVars, minutes>>

\* healthCache.get, asked by core's sweep: a new preflight when the last is old.
AskPreflight ==
  /\ ~check["preflight"].on /\ ~Fresh(health, HealthLife)
  /\ Begin("preflight")
  /\ UNCHANGED <<tokenVars, resolved, heard, access, health, lineVars, minutes, outages>>

PreflightDone ==
  /\ check["preflight"].on /\ check["preflight"].rest = {}
  /\ health' = Found("preflight")
  /\ check' = [check EXCEPT !["preflight"] = NoCheck]
  /\ UNCHANGED <<tokenVars, resolved, heard, access, lineVars, minutes, outages>>

-----------------------------------------------------------------------------
\* Calls.

Goes(o, at) == order' = [order EXCEPT ![o].at = at]
First(o) == line[order[o].tool] # <<>> /\ Head(line[order[o].tool]) = o

\* The handler returns: its endpoint takes the next call, and the caller hears
\* the answer unless it stopped waiting.
Return(o, what) ==
  /\ order' = [order EXCEPT ![o].at = "over",
                            ![o].told = IF order[o].told = "nothing" THEN what ELSE order[o].told]
  /\ line' = [line EXCEPT ![order[o].tool] = Tail(@)]

\* Core calls a tool.  Every tool has a subscription of its own, which handles
\* one call after the other.
Call(o, t) ==
  /\ order[o].at = "idle"
  /\ order' = [order EXCEPT ![o].tool = t, ![o].at = "line"]
  /\ line' = [line EXCEPT ![t] = Append(@, o)]
  /\ UNCHANGED <<tokenVars, resolved, heard, access, health, check, posted, unclear, minutes, outages>>

\* After thirty seconds core waits no longer; the handler has no deadline.
GiveUpWaiting(o) ==
  /\ order[o].at \notin {"idle", "over"} /\ order[o].told = "nothing"
  /\ order' = [order EXCEPT ![o].told = "silence"]
  /\ UNCHANGED <<tokenVars, resolved, heard, access, health, check, line, posted, unclear, minutes, outages>>

After(o) == IF order[o].tool = "update" THEN "status" ELSE "asking"
Allow(o, reach) ==
  IF "tickets" \in reach THEN Goes(o, After(o)) /\ UNCHANGED line ELSE Return(o, "refused")

\* guarded, RequireGrants: every guard waits for the one that probes.
Believes == Fresh(access, AccessLife)

Guard(o) ==
  /\ order[o].at = "line" /\ First(o) /\ ~check["guard"].on
  /\ \/ Believes /\ Allow(o, access.reach) /\ UNCHANGED check
     \/ ~Believes /\ Begin("guard") /\ Goes(o, "probing") /\ UNCHANGED line
  /\ UNCHANGED <<tokenVars, resolved, heard, access, health, posted, unclear, minutes, outages>>

Guarded(o) ==
  /\ order[o].at = "probing" /\ check["guard"].rest = {}
  /\ access' = Found("guard")
  /\ check' = [check EXCEPT !["guard"] = NoCheck]
  /\ Allow(o, check["guard"].reach)
  /\ UNCHANGED <<tokenVars, resolved, heard, health, posted, unclear, minutes, outages>>

\* UpdateTicket: the status must be one the account defines, when the list of
\* them can be read.
CheckStatus(o) ==
  /\ order[o].at = "status"
  /\ \/ Goes(o, "asking") /\ UNCHANGED <<line, outages>>
     \/ Return(o, "refused") /\ UNCHANGED outages
     \/ outages < MaxOutages /\ outages' = outages + 1 /\ Goes(o, "asking") /\ UNCHANGED line
  /\ resolved' = {InUse}
  /\ UNCHANGED <<tokenVars, heard, access, health, check, posted, unclear, minutes>>

\* What can come of one request: an answer; one nobody can read; a refusal; a
\* rate limit; a failure, or no connection, before or after it was done.
Outcomes == {"ok", "garbled", "refused", "limited", "failed", "lost"}
\* Mutant: an answer nobody can read is asked for again.
RetriedUnreadable(outcome) == outcome \in {"limited", "failed", "lost", "garbled"}
Retried(outcome) == outcome \in {"limited", "failed", "lost"}
Says(outcome) == CASE outcome = "ok" -> "done" [] outcome = "refused" -> "refused" [] OTHER -> "failed"

\* HTTPClient.Do.
Request(o, outcome) ==
  /\ order[o].at = "asking"
  /\ outcome \notin {"ok", "refused"} => outages < MaxOutages
  /\ outages' = IF outcome \in {"ok", "refused"} THEN outages ELSE outages + 1
  /\ resolved' = {InUse}
  /\ \E did \in CASE outcome \in {"ok", "garbled"} -> {1}
                  [] outcome \in {"refused", "limited"} -> {0}
                  [] OTHER -> {0, 1} :
       /\ posted' = [posted EXCEPT ![o] = @ + did]
       /\ unclear' = IF did = 1 /\ outcome \in {"failed", "lost"} THEN unclear \cup {o} ELSE unclear
  /\ IF Retried(outcome) /\ order[o].tries < MaxRetries
     THEN order' = [order EXCEPT ![o].tries = @ + 1] /\ UNCHANGED line
     ELSE Return(o, Says(outcome))
  /\ UNCHANGED <<tokenVars, heard, access, health, check, minutes>>

Minute ==
  /\ minutes < MaxMinutes /\ minutes' = minutes + 1
  /\ UNCHANGED <<tokenVars, resolved, heard, access, health, check, lineVars, outages>>

-----------------------------------------------------------------------------

OrderNext ==
  \E o \in Orders :
    \/ GiveUpWaiting(o) \/ Guard(o) \/ Guarded(o) \/ CheckStatus(o)
    \/ \E t \in Tools : Call(o, t)
    \/ \E outcome \in Outcomes : Request(o, outcome)

TokenNext ==
  \/ KeepToken \/ ForgetToken \/ HearSaved \/ Invalidate \/ AskPreflight \/ PreflightDone
  \/ \E t \in Tokens : SaveToken(t) \/ \E R \in SUBSET Resources : EditGrants(t, R)
  \/ \E k \in Checkers, r \in Resources, answered \in BOOLEAN : Probe(k, r, answered)

SyncroNext == OrderNext \/ TokenNext \/ Minute

SyncroSpec == SyncroInit /\ [][SyncroNext]_syncroVars

-----------------------------------------------------------------------------

\* A comment is posted once, and one that is refused is not posted, unless a
\* request of it was done and its answer never came: then the client posts the
\* same comment again.
PostedOnceUndisturbed ==
  \A o \in Orders \ unclear :
    /\ posted[o] <= 1
    /\ order[o].told = "done" => posted[o] = 1
    /\ order[o].told = "refused" => posted[o] = 0

\* Without the exception.  "Azir is read-only", and what may be sent in another
\* form is sent "despite being reads": that is why everything may be retried.
PostedOnce == \A o \in Orders : posted[o] <= 1

\* Once the plugin has dealt with an announcement, what its health says was
\* found with the token that was saved; unless the vault was handed the old one
\* before the save and kept it after.
HealthFollowsSave ==
  heard = "all" /\ health.known /\ ~late => health.with \subseteq {saved}

TokensAreKept == SyncroTypeOK /\ HealthFollowsSave

\* "An administrator pressing save takes effect now rather than whenever the
\* caches happen to expire": the guard too judges the token that was saved.
GuardFollowsSave == heard = "all" /\ Believes => access.with \subseteq {saved}

=============================================================================
