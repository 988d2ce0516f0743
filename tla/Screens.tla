------------------------------ MODULE Screens -------------------------------
(***************************************************************************)
(* What a person looking at a screen sees: deliveries (Webhooks) empty the *)
(* cache and are announced, changes made here do both too, announcements   *)
(* reach browsers (Live), and a browser asks again through the cache       *)
(* (ToolCache).  Every change of the connected system may send a delivery, *)
(* or none: nothing depends on it but how soon a screen is right.          *)
(***************************************************************************)
EXTENDS ToolCache, Live, Webhooks

\* A screen is a reader.
ASSUME ScreensAssumption == Browsers = Readers

vars == <<cacheVars, liveVars, hookVars>>

TypeOK == CacheTypeOK /\ LiveTypeOK /\ HookTypeOK

\* The connected system has the address.
Init == CacheInit /\ LiveInit /\ HookInit(TRUE)

\* receiveWebhook, in three steps.
Delivered(d) == Receive(d) /\ UNCHANGED <<cacheVars, liveVars>>
DeliveryForgets(d) ==
  Onward(d, "allowed", "forgotten") /\ ForgetSome(Entries) /\ UNCHANGED liveVars
DeliveryAnnounced(d) ==
  Onward(d, "forgotten", "over") /\ (\E s \in Topics : Announce(s)) /\ UNCHANGED cacheVars

\* performTool, to its end.
WriteAnnounced(w) == WriteAnswered(w) /\ (\E s \in Watched : Announce(s)) /\ UNCHANGED hookVars

\* A screen asks again; somebody opens a ticket to act on it.
ScreenAsks(b, e) == Refetch(b) /\ Ask(b, e, "invoke") /\ UNCHANGED hookVars
OpenTicket(b, e) == Ask(b, e, "refresh") /\ UNCHANGED <<liveVars, hookVars>>

CacheAlone ==
  /\ \/ \E r \in Readers : ReadStep(r) \/ RefreshStep(r)
     \/ \E w \in Writers : Write(w) \/ Invoke(w) \/ AfterChange(w)
     \/ \E e \in Entries : Age(e) \/ Prune(e)
     \/ Change
  /\ UNCHANGED <<liveVars, hookVars>>

LiveAlone ==
  /\ \/ Tell \/ \E s \in Topics : WindowEnds(s) \/ AnnounceElsewhere(s)
     \/ \E b \in Browsers : Hear(b) \/ Connect(b) \/ Break(b) \/ PushAges(b) \/ Poll(b)
  /\ UNCHANGED <<cacheVars, hookVars>>

HooksAlone(a) ==
  /\ AskAddress(a) \/ AskRotation(a) \/ MakeAddress(a)
  /\ UNCHANGED <<cacheVars, liveVars>>

Next ==
  \/ \E d \in Deliveries : Delivered(d) \/ DeliveryForgets(d) \/ DeliveryAnnounced(d)
  \/ \E w \in Writers : WriteAnnounced(w)
  \/ \E b \in Browsers, e \in Entries : ScreenAsks(b, e) \/ OpenTicket(b, e)
  \/ \E a \in Askers : HooksAlone(a)
  \/ CacheAlone \/ LiveAlone

\* Handlers and goroutines run, time passes, a browser's timer ticks.  Nobody
\* has to change anything, deliver anything or keep a stream open.
Fairness ==
  /\ \A b \in Browsers :
       /\ WF_vars((ReadStep(b) \/ RefreshStep(b)) /\ UNCHANGED <<liveVars, hookVars>>)
       /\ WF_vars(PushAges(b) /\ UNCHANGED <<cacheVars, hookVars>>)
       /\ WF_vars(Poll(b) /\ UNCHANGED <<cacheVars, hookVars>>)
       /\ WF_vars(\E e \in Entries : ScreenAsks(b, e))
  /\ \A e \in Entries : WF_vars(Age(e) /\ UNCHANGED <<liveVars, hookVars>>)

Spec == Init /\ [][Next]_vars /\ Fairness

\* What a screen is given: what was written, unless a read was in hand meanwhile;
\* one refresh of an entry at a time; and an address that works.
ScreensAreTrue ==
  /\ TypeOK
  /\ ReadsSeeWritesUndisturbed
  /\ OneRefreshEach
  /\ AddressesWork

HearsElsewhere(b) == Hear(b) /\ Head(queue[b]) \notin Watched

\* "A screen that missed one refresh is wrong for a second rather than forever"
\* (live.go) is too much said, as the last announcement of a burst may be
\* merged away; but the poll is the floor under lost, merged and dropped
\* announcements, and the budget under lost forgetting, so no screen stays wrong.
\* "A slow poll stays as a floor" (live.ts) is too much said as well: one lastPush
\* is set by every message, so while what the screen does not show keeps changing
\* its poll stands down and nothing makes it ask.  That case is excepted.
ScreensCatchUp ==
  \A b \in Browsers :
    (reader[b].shown < world ~> reader[b].shown = world) \/ []<><<HearsElsewhere(b)>>_vars

=============================================================================
