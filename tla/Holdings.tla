------------------------------ MODULE Holdings ------------------------------
(***************************************************************************)
(* What Azir holds, and putting it back to empty: customers and what each  *)
(* system calls them, connections, answers kept, and the audit trail       *)
(* (internal/store/customers.go, data.go; internal/api/data.go and the     *)
(* customers' handlers of api.go; internal/audit/audit.go).  Every call    *)
(* runs under its client's context, which ends when the client leaves.     *)
(*                                                                         *)
(* A connection is one number for its settings and its credential, how     *)
(* many there have been; saving one in detail is in Settings.  A           *)
(* transaction is one action.                                              *)
(***************************************************************************)
EXTENDS Naturals, Sequences, FiniteSets, SequencesExt

CONSTANTS
  Firms,          \* customers
  Marks,          \* what a connected system calls its records of them
  Holders,        \* accounts
  Doings,         \* calls that change something, each made once
  Glances,        \* reads of a connected system, each made once
  MaxTries,       \* MaxDeliver of the consumer that mirrors the trail
  MaxConnections, \* bound: connections saved
  MaxLosses       \* bound: clients that leave, statements and messages lost

ASSUME HoldingsAssumption ==
  /\ "nobody" \notin Firms
  /\ MaxTries \in Nat \ {0} /\ {MaxConnections, MaxLosses} \subseteq Nat

VARIABLES
  firms,          \* rows of customers
  link,           \* customer_identities: whose each mark is
  sealed,         \* plugin_config and credentials: the connection, 0 for none
  known,          \* what the plugin keeps of it
  kept,           \* tool_cache: the connection an answer came by
  listed,         \* whether the registry's snapshot has the plugin
  holder,         \* how each account gets in
  provider,       \* whether there is a row of auth_config
  doing,          \* where each call is
  glance,         \* where each read is
  stream,         \* audit events the mirror has not acknowledged, oldest first
  log,            \* rows of audit_log, by the call they tell of
  took,           \* whose clearing took rows of each call from the log
  severed,        \* customers disconnected since
  adrift,         \* of those, whose disconnecting did not reach everything it should
  spoiled,        \* calls whose client left, or an event of which was lost
  saves, losses

spineVars == <<firms, link, sealed>>
trailVars == <<stream, log, took>>
holdVars == <<spineVars, known, kept, listed, holder, provider, doing, glance, trailVars,
              severed, adrift, spoiled, saves, losses>>

Ops == {"create", "link", "save", "disconnect", "clear", "reset"}
NotDoing == [op |-> "none", firm |-> "nobody", at |-> "idle", moved |-> FALSE, read |-> FALSE]
NoGlance == [firm |-> "nobody", at |-> "idle", by |-> 0]
Ways == {"password", "provider", "gone"}

HoldingsTypeOK ==
  /\ firms \subseteq Firms /\ link \in [Marks -> Firms \cup {"nobody"}]
  /\ {sealed, known, kept} \subseteq [Firms -> 0 .. MaxConnections]
  /\ listed \in BOOLEAN /\ provider \in BOOLEAN /\ holder \in [Holders -> Ways]
  /\ doing \in [Doings -> [op : Ops \cup {"none"}, firm : Firms \cup {"nobody"}, moved : BOOLEAN, read : BOOLEAN,
        at : {"idle", "changing", "recording", "forgetting", "announcing", "over", "refused"}]]
  /\ glance \in [Glances -> [firm : Firms \cup {"nobody"}, by : 0 .. MaxConnections,
        at : {"idle", "asking", "holding", "over"}]]
  /\ \A i \in DOMAIN stream : stream[i].of \in Doings /\ stream[i].tries \in 0 .. MaxTries
  /\ log \in [Doings -> 0 .. MaxTries] /\ took \in [Doings -> SUBSET Doings]
  /\ severed \subseteq Firms /\ adrift \subseteq Firms /\ spoiled \subseteq Doings
  /\ saves \in 0 .. MaxConnections /\ losses \in 0 .. MaxLosses

\* Customers and accounts as a deployment in use has them, one connected.
HoldingsInit ==
  /\ firms \in SUBSET Firms /\ link = [x \in Marks |-> "nobody"]
  /\ \E c \in Firms : sealed = [d \in Firms |-> IF d = c /\ d \in firms /\ MaxConnections > 0 THEN 1 ELSE 0]
  /\ saves = IF \E c \in Firms : sealed[c] = 1 THEN 1 ELSE 0
  /\ known = [c \in Firms |-> 0] /\ kept = known
  /\ listed \in BOOLEAN /\ provider = TRUE
  /\ holder \in [Holders -> {"password", "provider"}]
  /\ doing = [k \in Doings |-> NotDoing] /\ glance = [r \in Glances |-> NoGlance]
  /\ stream = <<>> /\ log = [k \in Doings |-> 0] /\ took = [k \in Doings |-> {}]
  /\ severed = {} /\ adrift = {} /\ spoiled = {} /\ losses = 0

Loss == losses < MaxLosses /\ losses' = losses + 1
InHand(c) == \E r \in Glances : glance[r].at \in {"asking", "holding"} /\ glance[r].firm = c
Severing(k) ==
  IF doing[k].at \in {"idle", "over", "refused"} THEN {}
  ELSE IF doing[k].op = "reset" THEN Firms ELSE IF doing[k].op = "disconnect" THEN {doing[k].firm} ELSE {}
Moves(k, at) == doing' = [doing EXCEPT ![k].at = at]

-----------------------------------------------------------------------------
\* Calls.

\* Mutant: an account that has only ever come through the provider counts.
RoutesOfAnyKind == {h \in Holders : holder[h] # "gone"}
\* SignInRoutes: who gets in whatever happens to the provider.
WithPassword == {h \in Holders : holder[h] = "password"}

\* A handler begins; a reset asks first how people get in.
Undertake(k, op, c) ==
  /\ doing[k].at = "idle"
  /\ op \in {"create", "save", "disconnect", "link"} <=> c # "nobody"
  /\ doing' = [doing EXCEPT ![k] = [NotDoing EXCEPT !.op = op, !.firm = c,
       !.at = IF op = "reset" /\ WithPassword = {} THEN "refused" ELSE "changing",
       !.read = \E d \in (IF op = "reset" THEN Firms ELSE IF op = "disconnect" THEN {c} ELSE {}) : InHand(d)]]
  /\ UNCHANGED <<spineVars, known, kept, listed, holder, provider, glance, trailVars, severed, adrift, spoiled, saves, losses>>

\* The client goes away, or a statement fails: before the change it is not made,
\* and after it nothing that needs the context is done.
Depart(k) ==
  /\ Loss /\ doing[k].at \in {"changing", "recording", "forgetting"}
  /\ Moves(k, IF doing[k].at = "changing" THEN "refused"
              ELSE IF doing[k].op \in {"save", "disconnect", "reset"} THEN "announcing" ELSE "over")
  /\ spoiled' = spoiled \cup {k}
  /\ UNCHANGED <<spineVars, known, kept, listed, holder, provider, glance, trailVars, severed, adrift, saves>>

Changes(k, op) == doing[k].at = "changing" /\ doing[k].op = op

\* CreateCustomer: one of a name, and nothing is kept yet under its id, even where
\* one that is gone had the name.
CreateCustomer(k) ==
  /\ Changes(k, "create")
  /\ firms' = firms \cup {doing[k].firm}
  /\ IF doing[k].firm \in firms
     THEN Moves(k, "refused") /\ UNCHANGED <<known, glance>>
     ELSE /\ Moves(k, "recording")
          /\ known' = [known EXCEPT ![doing[k].firm] = 0]
          /\ glance' = [r \in Glances |-> IF glance[r].firm = doing[k].firm THEN [NoGlance EXCEPT !.at = "over"]
                                                                          ELSE glance[r]]
  /\ UNCHANGED <<link, sealed, kept, listed, holder, provider, trailVars, severed, adrift, spoiled, saves, losses>>

\* LinkIdentity: a mark somebody else had is theirs no longer.
LinkIdentity(k, mark) ==
  /\ Changes(k, "link")
  /\ IF doing[k].firm \in firms
     THEN link' = [link EXCEPT ![mark] = doing[k].firm] /\ Moves(k, "recording")
     ELSE Moves(k, "refused") /\ UNCHANGED link
  /\ UNCHANGED <<firms, sealed, known, kept, listed, holder, provider, glance, trailVars, severed, adrift, spoiled, saves, losses>>

SaveConnection(k) ==
  /\ Changes(k, "save") /\ saves < MaxConnections
  /\ IF doing[k].firm \in firms
     THEN /\ saves' = saves + 1 /\ sealed' = [sealed EXCEPT ![doing[k].firm] = saves + 1]
          /\ severed' = severed \ {doing[k].firm} /\ adrift' = adrift \ {doing[k].firm} /\ Moves(k, "recording")
     ELSE Moves(k, "refused") /\ UNCHANGED <<saves, sealed, severed, adrift>>
  /\ UNCHANGED <<firms, link, known, kept, listed, holder, provider, glance, trailVars, spoiled, losses>>

\* Disconnect: the three tables at once.
Disconnect(k) ==
  /\ Changes(k, "disconnect")
  /\ link' = [x \in Marks |-> IF link[x] = doing[k].firm THEN "nobody" ELSE link[x]]
  /\ sealed' = [sealed EXCEPT ![doing[k].firm] = 0]
  /\ Moves(k, "recording")
  /\ UNCHANGED <<firms, known, kept, listed, holder, provider, glance, trailVars, severed, adrift, spoiled, saves, losses>>

\* clear: the log goes last.
WipeLog(k) ==
  /\ log' = [j \in Doings |-> 0]
  /\ took' = [j \in Doings |-> IF log[j] > 0 THEN took[j] \cup {k} ELSE took[j]]
Emptied == kept' = [c \in Firms |-> 0]

ClearWork(k) ==
  /\ Changes(k, "clear")
  /\ Emptied /\ WipeLog(k) /\ Moves(k, "recording")
  /\ UNCHANGED <<spineVars, known, listed, holder, provider, glance, stream, severed, adrift, spoiled, saves, losses>>

ResetAll(k) ==
  /\ Changes(k, "reset")
  /\ firms' = {} /\ link' = [x \in Marks |-> "nobody"] /\ sealed' = [c \in Firms |-> 0]
  /\ provider' = FALSE
  /\ Emptied /\ WipeLog(k) /\ Moves(k, "recording")
  /\ UNCHANGED <<known, listed, holder, glance, stream, severed, adrift, spoiled, saves, losses>>

\* What a handler does after the change: its event, then the answers kept, then
\* the announcement.
AfterRecord(op) == CASE op = "disconnect" -> "forgetting" [] op \in {"save", "reset"} -> "announcing" [] OTHER -> "over"

\* Record: published, or logged as lost.
Record(k) ==
  /\ doing[k].at = "recording"
  /\ Moves(k, AfterRecord(doing[k].op))
  /\ \/ stream' = Append(stream, [of |-> k, tries |-> 0]) /\ UNCHANGED <<spoiled, losses>>
     \/ Loss /\ spoiled' = spoiled \cup {k} /\ UNCHANGED stream
  /\ UNCHANGED <<spineVars, known, kept, listed, holder, provider, glance, log, took, severed, adrift, saves>>

\* InvalidateCache, for this plugin and customer.
ForgetAnswers(k) ==
  /\ doing[k].at = "forgetting"
  /\ kept' = [kept EXCEPT ![doing[k].firm] = 0] /\ Moves(k, "announcing")
  /\ UNCHANGED <<spineVars, known, listed, holder, provider, glance, trailVars, severed, adrift, spoiled, saves, losses>>

\* Mutant: a reset tells nobody.
ReachesIfAsked(k) == doing[k].op # "reset"
\* announceConfigChange tells one plugin, announceEveryPlugin those of the
\* snapshot: what it kept is dropped.  Where the message is lost, which is logged
\* at most, the call is answered as if it were not.
Reaches(k) == doing[k].op # "reset" \/ listed

Announce(k) ==
  /\ doing[k].at = "announcing" /\ Moves(k, "over")
  /\ \E heard \in BOOLEAN :
       /\ IF heard THEN UNCHANGED losses ELSE Loss
       /\ known' = IF heard /\ Reaches(k) THEN [c \in Firms |-> 0] ELSE known
       /\ LET cut == {c \in Severing(k) : sealed[c] = 0}
              clean == heard /\ (doing[k].op = "reset" => listed) /\ k \notin spoiled /\ ~doing[k].read
          IN  /\ severed' = severed \cup cut
              /\ adrift' = IF clean THEN adrift \ cut ELSE adrift \cup (cut \ severed)
  /\ UNCHANGED <<spineVars, kept, listed, holder, provider, glance, trailVars, spoiled, saves>>

-----------------------------------------------------------------------------
\* Meanwhile.

\* A read, by customer or by what the system calls the record (ResolveIdentity).
Look(r, c) ==
  /\ glance[r].at = "idle"
  /\ c \in firms \cup ({link[x] : x \in Marks} \ {"nobody"})
  /\ glance' = [glance EXCEPT ![r] = [NoGlance EXCEPT !.firm = c, !.at = "asking"]]
  /\ doing' = [k \in Doings |-> [doing[k] EXCEPT !.read = @ \/ c \in Severing(k)]]
  /\ UNCHANGED <<spineVars, known, kept, listed, holder, provider, trailVars, severed, adrift, spoiled, saves, losses>>

\* The plugin connects by what it keeps, or asks core.
Connect(r) ==
  /\ glance[r].at = "asking"
  /\ LET c == glance[r].firm
         by == IF known[c] # 0 THEN known[c] ELSE sealed[c]
     IN  /\ glance' = [glance EXCEPT ![r].at = IF by = 0 THEN "over" ELSE "holding", ![r].by = by]
         /\ known' = [known EXCEPT ![c] = by]
  /\ UNCHANGED <<spineVars, kept, listed, holder, provider, doing, trailVars, severed, adrift, spoiled, saves, losses>>

\* PutCached: a row of a customer that is gone is refused.
PutAnswer(r) ==
  /\ glance[r].at = "holding"
  /\ kept' = IF glance[r].firm \in firms THEN [kept EXCEPT ![glance[r].firm] = glance[r].by] ELSE kept
  /\ glance' = [glance EXCEPT ![r].at = "over"]
  /\ UNCHANGED <<spineVars, known, listed, holder, provider, doing, trailVars, severed, adrift, spoiled, saves, losses>>

\* An account is disabled: a reset that has looked does not look again.
Disable(h) ==
  /\ Loss /\ holder[h] # "gone" /\ holder' = [holder EXCEPT ![h] = "gone"]
  /\ doing' = [k \in Doings |-> IF doing[k].at = "changing" THEN [doing[k] EXCEPT !.moved = TRUE] ELSE doing[k]]
  /\ UNCHANGED <<spineVars, known, kept, listed, provider, glance, trailVars, severed, adrift, spoiled, saves>>

\* Mirror: the next event is inserted and acknowledged; or it is not inserted,
\* or not acknowledged, and comes again until it has been tried enough.
Tried(e) == IF e.tries + 1 < MaxTries THEN <<[e EXCEPT !.tries = @ + 1]>> ELSE <<>>

MirrorEvent ==
  /\ stream # <<>>
  /\ LET e == Head(stream) IN
     \/ /\ log' = [log EXCEPT ![e.of] = @ + 1] /\ stream' = Tail(stream) /\ UNCHANGED <<spoiled, losses>>
     \/ /\ Loss /\ stream' = Tail(stream) \o Tried(e)
        /\ log' \in {log, [log EXCEPT ![e.of] = @ + 1]}
        /\ spoiled' = IF log' # log \/ e.tries + 1 = MaxTries THEN spoiled \cup {e.of} ELSE spoiled
  /\ UNCHANGED <<spineVars, known, kept, listed, holder, provider, doing, glance, took, severed, adrift, saves>>

DoingStep(k) ==
  \/ \E op \in Ops, c \in Firms \cup {"nobody"} : Undertake(k, op, c)
  \/ Depart(k) \/ CreateCustomer(k) \/ SaveConnection(k) \/ Disconnect(k) \/ ClearWork(k) \/ ResetAll(k)
  \/ \E x \in Marks : LinkIdentity(k, x)
  \/ Record(k) \/ ForgetAnswers(k) \/ Announce(k)

GlanceStep(r) == Connect(r) \/ PutAnswer(r) \/ \E c \in Firms : Look(r, c)

HeldNext ==
  \/ \E k \in Doings : DoingStep(k)
  \/ \E r \in Glances : GlanceStep(r)
  \/ \E h \in Holders : Disable(h)

HoldingsNext == HeldNext \/ MirrorEvent

HoldingsSpec == HoldingsInit /\ [][HoldingsNext]_holdVars

-----------------------------------------------------------------------------

\* Disconnecting "must not look like" rows that "are gone and the connection
\* still works": once it is answered, no answer is kept that came by the
\* connection, and the plugin keeps nothing of it.  The code answers 200 and does
\* not keep that word where the announcement is lost, a read ran beside it, the
\* client left or its event was lost, the answers could not be forgotten, or (a
\* reset) the plugin was not among those core knew: those are adrift.
SeveredIsSevered == \A c \in severed : c \in adrift \/ (kept[c] = 0 /\ known[c] = 0)

\* "Refused outright if it would leave nobody able to sign in": the provider
\* goes only while an account has a password, unless one was disabled between
\* the look and the reset.
SomebodyCanSignInUndisturbed ==
  [][ provider /\ ~provider' =>
        \/ \E h \in Holders : holder[h] = "password"
        \/ \E k \in Doings : doing[k].op = "reset" /\ doing[k].at = "changing" /\ doing[k].moved ]_holdVars

\* "The one entry in an otherwise empty log is the act that emptied it": what
\* was done is on record once, and nothing that was not; until somebody else
\* clears the log, or unless the client left or a message was lost.
DoneIsOnRecord ==
  \A k \in Doings \ spoiled :
    /\ log[k] <= 1 /\ (log[k] > 0 => doing[k].at # "refused")
    /\ doing[k].at = "over" =>
         \/ log[k] = 1 \/ \E i \in DOMAIN stream : stream[i].of = k
         \/ took[k] \ {k} # {}

\* What was severed stays so, and what was done to holdings is on record.
HoldingsAreKept == HoldingsTypeOK /\ SeveredIsSevered /\ DoneIsOnRecord

=============================================================================
