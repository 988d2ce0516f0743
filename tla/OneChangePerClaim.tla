-------------------------- MODULE OneChangePerClaim --------------------------
(***************************************************************************)
(* What Azir promises about every change it makes to somebody's system on  *)
(* the strength of a database row: a row is claimed before the change goes *)
(* out, and a claim is good for one change at most.  "The claim is what    *)
(* turns at-least-once delivery into at-most-one change"                   *)
(* (internal/scheduler/scheduler.go, Run).                                 *)
(*                                                                         *)
(* This is the abstract specification.  JobScheduler (scheduled work) and  *)
(* Proposals (changes the assistant proposed) are checked to implement it. *)
(***************************************************************************)
EXTENDS Naturals

CONSTANTS
  Work,   \* the rows: scheduled jobs, proposed changes
  Once    \* the rows whose change may be made once in their whole life

VARIABLES
  state,    \* state[w]: "open" may be claimed, "claimed", or "closed" for good
  tickets,  \* the rows some claimant may still make the change of
  changes   \* changes[w]: how often the outside system has been changed for w

vars == <<state, tickets, changes>>

TypeOK ==
  /\ state \in [Work -> {"open", "claimed", "closed"}]
  /\ tickets \subseteq Work
  /\ changes \in [Work -> Nat]

Init ==
  /\ state = [w \in Work |-> "open"]
  /\ tickets = {}
  /\ changes = [w \in Work |-> 0]

\* A claim hands out one ticket.  The claimant may fail to learn that it won
\* (the commit succeeds, its answer is lost): then no ticket is handed out.
Claim(w) ==
  /\ state[w] = "open"
  /\ state' = [state EXCEPT ![w] = "claimed"]
  /\ tickets' = tickets \/ tickets' = tickets \cup {w}
  /\ UNCHANGED changes

\* The change goes out, and the ticket is spent whatever the far end answers.
Change(w) ==
  /\ w \in tickets
  /\ tickets' = tickets \ {w}
  /\ changes' = [changes EXCEPT ![w] = @ + 1]
  /\ UNCHANGED state

\* Tickets are lost without a change: refused by a gate, or the holders died.
GiveUp(S) ==
  /\ tickets' = tickets \ S
  /\ UNCHANGED <<state, changes>>

\* What was claimed is over, or, when it may repeat, open for another claim.
Settle(S) ==
  /\ \A w \in S : state[w] = "claimed"
  /\ state' = [w \in Work |-> IF w \in S THEN "closed" ELSE state[w]]
  /\ UNCHANGED <<tickets, changes>>

Reopen(w) ==
  /\ w \notin Once
  /\ state[w] = "claimed"
  /\ state' = [state EXCEPT ![w] = "open"]
  /\ UNCHANGED <<tickets, changes>>

\* Cancelled, missed, discarded or deleted before anybody claimed it.
Close(w) ==
  /\ state[w] = "open"
  /\ state' = [state EXCEPT ![w] = "closed"]
  /\ UNCHANGED <<tickets, changes>>

Next ==
  \/ \E w \in Work : Claim(w) \/ Change(w) \/ Reopen(w) \/ Close(w)
  \/ \E S \in SUBSET Work : GiveUp(S) \/ Settle(S)

Spec == Init /\ [][Next]_vars

-----------------------------------------------------------------------------

\* What the promise comes to for work that happens once: one change at most.
OnceChangesOnce == \A w \in Work \cap Once : changes[w] <= 1

=============================================================================
