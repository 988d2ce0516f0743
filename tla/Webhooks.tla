------------------------------ MODULE Webhooks ------------------------------
(***************************************************************************)
(* Deliveries from a connected system: receiveWebhook, getWebhook and      *)
(* rotateWebhook of internal/api/webhooks.go over internal/store/          *)
(* webhooks.go, for one plugin.  What a delivery sets off elsewhere        *)
(* (forgetting, announcing, reindexing) are the steps it is joined with.   *)
(***************************************************************************)
EXTENDS Naturals

CONSTANTS
  Deliveries,     \* calls of a webhook address, each made at most once
  Askers          \* calls of getWebhook or rotateWebhook

VARIABLES
  secret,         \* webhook_endpoints.secret; 0: there is no row
  issued,         \* how many addresses were ever made
  asker,          \* where each call about the address is
  given,          \* the address each call was answered with
  crossed,        \* calls that overlapped one that made an address, or were
                  \* followed by a rotation
  delivery        \* where each delivery is

hookVars == <<secret, issued, asker, given, crossed, delivery>>

HookTypeOK ==
  /\ secret \in Nat /\ issued \in Nat
  /\ asker \in [Askers -> {"idle", "missing", "rotating", "over"}]
  /\ given \in [Askers -> Nat]
  /\ crossed \subseteq Askers
  /\ delivery \in [Deliveries -> {"idle", "allowed", "forgotten", "refused", "over"}]

\* made: the address was already pasted into the connected system.
HookInit(made) ==
  /\ secret = IF made THEN 1 ELSE 0
  /\ issued = secret
  /\ asker = [a \in Askers |-> "idle"]
  /\ given = [a \in Askers |-> 0]
  /\ crossed = {}
  /\ delivery = [d \in Deliveries |-> "idle"]

-----------------------------------------------------------------------------

\* Calls under way that will make an address.
Making == {a \in Askers : asker[a] \in {"missing", "rotating"}}
Cross(a) == crossed' = IF Making = {} THEN crossed ELSE crossed \cup Making \cup {a}

\* webhookEndpoint finds no row.
Missing == secret = 0

\* WebhookEndpointFor reads the row; without one it goes on to make it.
AskAddress(a) ==
  /\ asker[a] = "idle"
  /\ IF Missing
     THEN asker' = [asker EXCEPT ![a] = "missing"] /\ UNCHANGED given
     ELSE asker' = [asker EXCEPT ![a] = "over"] /\ given' = [given EXCEPT ![a] = secret]
  /\ Cross(a)
  /\ UNCHANGED <<secret, issued, delivery>>

\* An administrator presses the button.
AskRotation(a) ==
  /\ asker[a] = "idle"
  /\ asker' = [asker EXCEPT ![a] = "rotating"]
  /\ Cross(a)
  /\ UNCHANGED <<secret, issued, given, delivery>>

\* RotateWebhookSecret, for either: an upsert that takes the new address
\* whatever the row held.
MakeAddress(a) ==
  /\ asker[a] \in {"missing", "rotating"}
  /\ issued' = issued + 1
  /\ secret' = issued + 1
  /\ asker' = [asker EXCEPT ![a] = "over"]
  /\ given' = [given EXCEPT ![a] = issued + 1]
  /\ crossed' = IF asker[a] = "rotating" THEN crossed \cup (Askers \ {a}) ELSE crossed
  /\ UNCHANGED delivery

-----------------------------------------------------------------------------

\* A delivery to an address that is ours is let in, or, when the minute has
\* seen deliveryLimit of them (rateWindow.allow), told to come back later.
Receive(d) ==
  /\ delivery[d] = "idle" /\ secret # 0
  /\ \E s \in {"allowed", "refused"} : delivery' = [delivery EXCEPT ![d] = s]
  /\ UNCHANGED <<secret, issued, asker, given, crossed>>

\* The handler's next step: the tools its subject makes stale are forgotten,
\* then the change is announced and the delivery answered.
Onward(d, from, to) ==
  /\ delivery[d] = from
  /\ delivery' = [delivery EXCEPT ![d] = to]
  /\ UNCHANGED <<secret, issued, asker, given, crossed>>

-----------------------------------------------------------------------------

\* The address somebody is given works until somebody else asks for another:
\* getWebhook never takes away what getWebhook gave.  (Two first asks at once
\* are left out: each makes an address, and the first of them is dead.)
AddressesWork ==
  \A a \in Askers : asker[a] = "over" /\ a \notin crossed => given[a] = secret

=============================================================================
