------------------------------ MODULE Proposals ------------------------------
(***************************************************************************)
(* Changes the assistant proposed and a person applies or discards:        *)
(* decideProposal and performTool of internal/api/proposals.go, the rows   *)
(* of internal/store/proposals.go, the standing gates of mayUse            *)
(* (internal/api/api.go), and the plugin at the other end of NATS.         *)
(*                                                                         *)
(* One action per database statement, per look at a gate and per message,  *)
(* because another request, an administrator, a client that goes away or a *)
(* crash may come between any two.  Every call of a handler uses the       *)
(* request's context: once the client is gone, all of them fail.           *)
(*                                                                         *)
(* A request here is one that found the change to be its own               *)
(* conversation's; the others are answered "no such change" and touch      *)
(* nothing.  The audit log and the tool cache are left out.                *)
(***************************************************************************)
EXTENDS Naturals, FiniteSets

CONSTANTS
  Changes,      \* the proposed changes
  Requests,     \* requests to apply or discard one, each made at most once
  MaxToggles,   \* bound: how often gates and the tool's availability change
  MaxCrashes,   \* bound: how often the process dies
  MaxFaults,    \* bound: how many statements fail or lose their answer
  MaxLeaves     \* bound: how many clients go away

ASSUME BoundsAssumption == {MaxToggles, MaxCrashes, MaxFaults, MaxLeaves} \subseteq Nat

VARIABLES
  status,       \* proposed_changes.status
  phase,        \* phase[r]: where request r's handler is
  of, want,     \* the change request r is about, and what it wants
  answer,       \* what request r was answered
  gone,         \* the requests whose client went away
  inflight,     \* the requests whose tool call is on its way to the plugin
  changes,      \* how often the outside system was changed for a proposal
  open,         \* the gates that would let a request through now
  available,    \* the registry has the tool, and the plugin says it works
  stopped,      \* <<r, g>>: g has been shut since before r's last look at it
  toggles, crashes, faults  \* spent of the bounds

handlers == <<phase, of, want, answer, gone>>
gates == <<open, available, stopped, toggles>>
outside == <<inflight, changes>>
vars == <<status, handlers, outside, gates, crashes, faults>>

\* mayUse asks whether writes are enabled for the plugin, then whether the tool
\* is approved.
Gates == {"writes", "approved"}

\* "deleted": the conversation was, and the row went with it.
Statuses == {"absent", "pending", "applied", "discarded", "failed", "deleted"}

\* Before the claim, between the claim and the tool call, and after.
Before == {"read", "found", "unavailable", "writesOn", "allowed"}
Holding == {"claimed", "stillOn", "cleared"}
After == {"asking", "answered", "failing"}
Active == Before \cup Holding \cup After

Answers == {"none", "conflict", "discarded", "unavailable", "refused",
            "applied", "failed", "error", "lost"}

TypeOK ==
  /\ status \in [Changes -> Statuses]
  /\ phase \in [Requests -> Active \cup {"idle", "over"}]
  /\ of \in [Requests -> Changes]
  /\ want \in [Requests -> {"apply", "discard"}]
  /\ answer \in [Requests -> Answers]
  /\ gone \subseteq Requests
  /\ inflight \subseteq Requests
  /\ changes \in [Changes -> Nat]
  /\ open \subseteq Gates
  /\ available \in BOOLEAN
  /\ stopped \subseteq Requests \X Gates
  /\ toggles \in Nat /\ crashes \in Nat /\ faults \in Nat

Init ==
  /\ status = [p \in Changes |-> "absent"]
  /\ phase = [r \in Requests |-> "idle"]
  /\ of \in [Requests -> Changes]
  /\ want \in [Requests -> {"apply", "discard"}]
  /\ answer = [r \in Requests |-> "none"]
  /\ gone = {}
  /\ inflight = {}
  /\ changes = [p \in Changes |-> 0]
  /\ open = Gates
  /\ available = TRUE
  /\ stopped = {}
  /\ toggles = 0 /\ crashes = 0 /\ faults = 0

Fault ==
  /\ faults < MaxFaults
  /\ faults' = faults + 1

\* A call of r's handler goes through, or it fails without effect.
Works(r) == r \notin gone /\ UNCHANGED faults
Fails(r) == (r \in gone /\ UNCHANGED faults) \/ (r \notin gone /\ Fault)

Goto(r, p) ==
  /\ phase' = [phase EXCEPT ![r] = p]
  /\ UNCHANGED answer

End(r, a) ==
  /\ phase' = [phase EXCEPT ![r] = "over"]
  /\ answer' = [answer EXCEPT ![r] = a]

-----------------------------------------------------------------------------
(***************************************************************************)
(* The row.                                                                *)
(***************************************************************************)

\* stage: the assistant's write tool only ever inserts a pending row.
Propose(p) ==
  /\ status[p] = "absent"
  /\ status' = [status EXCEPT ![p] = "pending"]
  /\ UNCHANGED <<handlers, outside, gates, crashes, faults>>

\* deleteConversation: the rows go with it (ON DELETE CASCADE).
DeleteConversation(p) ==
  /\ status[p] \notin {"absent", "deleted"}
  /\ status' = [status EXCEPT ![p] = "deleted"]
  /\ UNCHANGED <<handlers, outside, gates, crashes, faults>>

\* Mutant: DecideProposal without its status = 'pending'.
UndecidedAny(p) == status[p] \notin {"absent", "deleted"}

\* DecideProposal's WHERE clause.
Undecided(p) == status[p] = "pending"

\* DecideProposal: won moves the row, lost is ErrAlreadyDecided, and an error
\* leaves open whether the row was moved.
Decide(r, s) ==
  /\ Undecided(of[r])
  /\ status' = [status EXCEPT ![of[r]] = s]

-----------------------------------------------------------------------------
(***************************************************************************)
(* decideProposal.                                                         *)
(***************************************************************************)

\* The proposal is read and must still be pending.
Read(r) ==
  /\ phase[r] = "idle"
  /\ status[of[r]] \notin {"absent", "deleted"}
  /\ IF status[of[r]] = "pending" THEN Goto(r, "read") ELSE End(r, "conflict")
  /\ UNCHANGED <<status, of, want, gone, outside, gates, crashes, faults>>

Discard(r) ==
  /\ phase[r] = "read" /\ want[r] = "discard"
  /\ \/ Decide(r, "discarded") /\ Works(r) /\ End(r, "discarded")
     \* Losing the race is answered as a failure, unlike when applying.
     \/ ~Undecided(of[r]) /\ Works(r) /\ End(r, "error") /\ UNCHANGED status
     \/ UNCHANGED status /\ Fails(r) /\ End(r, "error")
     \/ Decide(r, "discarded") /\ Fault /\ r \notin gone /\ End(r, "error")
  /\ UNCHANGED <<of, want, gone, outside, gates, crashes>>

Lookup(r) ==
  /\ phase[r] = "read" /\ want[r] = "apply"
  /\ Goto(r, IF available THEN "found" ELSE "unavailable")
  /\ UNCHANGED <<status, of, want, gone, outside, gates, crashes, faults>>

\* What DecideProposal returns is ignored here.
Unavailable(r) ==
  /\ phase[r] = "unavailable"
  /\ \/ Decide(r, "failed") /\ Works(r)
     \/ ~Undecided(of[r]) /\ Works(r) /\ UNCHANGED status
     \/ Fails(r) /\ UNCHANGED status
  /\ End(r, "unavailable")
  /\ UNCHANGED <<of, want, gone, outside, gates, crashes>>

\* mayUse before the claim: a refusal leaves the row as it was.
Look(r, g, from, to) ==
  /\ phase[r] = from
  /\ \/ g \in open /\ Works(r) /\ Goto(r, to)
     \/ g \notin open /\ Works(r) /\ End(r, "refused")
     \/ Fails(r) /\ End(r, "error")
  /\ UNCHANGED <<status, of, want, gone, outside, gates, crashes>>

Claim(r) ==
  /\ phase[r] = "allowed"
  /\ \/ Decide(r, "applied") /\ Works(r) /\ Goto(r, "claimed")
     \/ ~Undecided(of[r]) /\ Works(r) /\ End(r, "conflict") /\ UNCHANGED status
     \/ UNCHANGED status /\ Fails(r) /\ End(r, "error")
     \* Committed, its answer lost: the row says applied, nobody applies it.
     \/ Decide(r, "applied") /\ Fault /\ r \notin gone /\ End(r, "error")
  /\ UNCHANGED <<of, want, gone, outside, gates, crashes>>

-----------------------------------------------------------------------------
(***************************************************************************)
(* performTool, the plugin, and FailProposal.                              *)
(***************************************************************************)

\* Mutant: performTool trusts the look taken before the claim.
LookAgainNever(r, g, from, to) ==
  /\ phase[r] = from
  /\ Goto(r, to)
  /\ UNCHANGED <<status, of, want, gone, outside, gates, crashes, faults>>

\* mayUse after the claim: a refusal is a failure of the change.
LookAgain(r, g, from, to) ==
  /\ phase[r] = from
  /\ \/ g \in open /\ Works(r) /\ Goto(r, to)
     \/ g \notin open /\ Works(r) /\ Goto(r, "failing")
     \/ Fails(r) /\ Goto(r, "failing")
  /\ UNCHANGED <<status, of, want, gone, outside, gates, crashes>>

\* askPlugin sends the request, unless its context is already cancelled.
Ask(r) ==
  /\ phase[r] = "cleared"
  /\ IF r \in gone
     THEN Goto(r, "failing") /\ UNCHANGED inflight
     ELSE Goto(r, "asking") /\ inflight' = inflight \cup {r}
  /\ UNCHANGED <<status, of, want, gone, changes, gates, crashes, faults>>

\* The plugin makes the change or does not, and its answer arrives or does not;
\* the handler may long have given up.
Plugin(r) ==
  /\ r \in inflight
  /\ inflight' = inflight \ {r}
  /\ \/ /\ changes' = [changes EXCEPT ![of[r]] = @ + 1]
        /\ phase' = [phase EXCEPT ![r] = IF @ = "asking" THEN "answered" ELSE @]
     \/ /\ UNCHANGED changes
        /\ phase' = [phase EXCEPT ![r] = IF @ = "asking" THEN "failing" ELSE @]
     \/ /\ changes' = [changes EXCEPT ![of[r]] = @ + 1]
        /\ UNCHANGED phase
  /\ UNCHANGED <<status, of, want, answer, gone, gates, crashes, faults>>

\* Mutant: no answer is taken for success.
NoAnswerIsSuccess(r) ==
  /\ phase[r] = "asking"
  /\ Goto(r, "answered")
  /\ UNCHANGED <<status, of, want, gone, outside, gates, crashes, faults>>

\* Thirty seconds without an answer, or the client is gone.
NoAnswer(r) ==
  /\ phase[r] = "asking"
  /\ Goto(r, "failing")
  /\ UNCHANGED <<status, of, want, gone, outside, gates, crashes, faults>>

Answered(r) ==
  /\ phase[r] = "answered"
  /\ End(r, "applied")
  /\ UNCHANGED <<status, of, want, gone, outside, gates, crashes, faults>>

\* Mutant: what failed may be pressed again.
FailProposalRetryable(r) ==
  /\ phase[r] = "failing"
  /\ \/ Works(r) /\ status' = [status EXCEPT ![of[r]] = IF @ = "applied" THEN "pending" ELSE @]
     \/ Fails(r) /\ UNCHANGED status
  /\ End(r, "failed")
  /\ UNCHANGED <<of, want, gone, outside, gates, crashes>>

\* FailProposal moves only an applied row; its own failure is only logged.
FailProposal(r) ==
  /\ phase[r] = "failing"
  /\ \/ Works(r) /\ status' = [status EXCEPT ![of[r]] = IF @ = "applied" THEN "failed" ELSE @]
     \/ Fails(r) /\ UNCHANGED status
  /\ End(r, "failed")
  /\ UNCHANGED <<of, want, gone, outside, gates, crashes>>

-----------------------------------------------------------------------------
(***************************************************************************)
(* Everybody else.                                                         *)
(***************************************************************************)

\* The browser is closed or the connection drops: r.Context() is cancelled.
Leave(r) ==
  /\ phase[r] \in Active
  /\ r \notin gone
  /\ Cardinality(gone) < MaxLeaves
  /\ gone' = gone \cup {r}
  /\ UNCHANGED <<status, phase, of, want, answer, outside, gates, crashes, faults>>

\* The process dies with its handlers.  What was sent to a plugin, which is a
\* process of its own, may still be done.
Crash ==
  /\ crashes < MaxCrashes
  /\ crashes' = crashes + 1
  /\ phase' = [r \in Requests |-> IF phase[r] \in Active THEN "over" ELSE phase[r]]
  /\ answer' = [r \in Requests |-> IF phase[r] \in Active THEN "lost" ELSE answer[r]]
  /\ UNCHANGED <<status, of, want, gone, outside, gates, faults>>

Toggle ==
  /\ toggles < MaxToggles
  /\ toggles' = toggles + 1
  /\ UNCHANGED <<status, handlers, outside, crashes, faults>>

\* The requests that will still look at gate g before they ask the plugin.
WillLook(g) ==
  {r \in Requests :
     \/ phase[r] \in Before \cup {"idle", "claimed"}
     \/ phase[r] = "stillOn" /\ g = "approved"}

\* An administrator switches the plugin's writes off, or takes an approval back.
Shut(g) ==
  /\ g \in open
  /\ open' = open \ {g}
  /\ stopped' = stopped \cup (WillLook(g) \X {g})
  /\ UNCHANGED available
  /\ Toggle

Reopen(g) ==
  /\ g \notin open
  /\ open' = open \cup {g}
  /\ stopped' = {s \in stopped : s[2] # g}
  /\ UNCHANGED available
  /\ Toggle

\* A refresh of the registry finds the tool gone, unready, or back.
Refresh ==
  /\ available' = ~available
  /\ UNCHANGED <<open, stopped>>
  /\ Toggle

-----------------------------------------------------------------------------

Handler(r) ==
  \/ Read(r) \/ Discard(r) \/ Lookup(r) \/ Unavailable(r)
  \/ Look(r, "writes", "found", "writesOn")
  \/ Look(r, "approved", "writesOn", "allowed")
  \/ Claim(r)
  \/ LookAgain(r, "writes", "claimed", "stillOn")
  \/ LookAgain(r, "approved", "stillOn", "cleared")
  \/ Ask(r) \/ NoAnswer(r) \/ Answered(r) \/ FailProposal(r)

Next ==
  \/ \E p \in Changes : Propose(p) \/ DeleteConversation(p)
  \/ \E r \in Requests : Handler(r) \/ Plugin(r) \/ Leave(r)
  \/ \E g \in Gates : Shut(g) \/ Reopen(g)
  \/ Refresh
  \/ Crash

Spec == Init /\ [][Next]_vars

-----------------------------------------------------------------------------
(***************************************************************************)
(* Safety.                                                                 *)
(***************************************************************************)

\* "A model call can never change a connected system; only a person's approval
\* can": nothing is changed for a row nobody applied, or somebody discarded,
\* whatever was pressed at the same time (0014_proposals.sql, DecideProposal).
OnlyApprovedChanges ==
  \A p \in Changes : status[p] \in {"absent", "pending", "discarded"} => changes[p] = 0

\* What a person was told is so: applied means the change was made once and the
\* row says so, discarded means it was never made and never will be, and
\* "already decided" is not said of a change that still waits.
AnswersAreTrue ==
  \A r \in Requests :
    /\ answer[r] = "applied" => changes[of[r]] = 1 /\ status[of[r]] \in {"applied", "deleted"}
    /\ answer[r] = "discarded" => changes[of[r]] = 0 /\ status[of[r]] \in {"discarded", "deleted"}
    /\ answer[r] = "conflict" => status[of[r]] # "pending"

\* A refusal leaves the change retryable: a row that left pending was moved by
\* some request that was not refused (decideProposal: "checking after would
\* leave a refused change recorded as applied and unretryable").
RefusalDecidesNothing ==
  \A p \in Changes : status[p] \in {"applied", "discarded", "failed"} =>
    \E r \in Requests :
      /\ of[r] = p
      /\ \/ phase[r] \in Holding \cup After
         \/ answer[r] \in {"applied", "failed", "discarded", "unavailable", "error", "lost"}

\* A gate that was shut before a request last looked at it, and has stayed shut,
\* stops the change, even when the change had already been claimed (mayUse,
\* called again by performTool).
KillSwitchHolds == \A s \in stopped : s[1] \notin inflight

\* Nobody is still working on p.
Settled(p) == \A r \in Requests : of[r] = p => phase[r] \notin Holding \cup After

\* "A row that says a change happened when it did not is worse than no row at
\* all" (decideProposal): once nobody works on it, applied means changed.
AppliedMeansChanged ==
  \A p \in Changes : status[p] = "applied" /\ Settled(p) => changes[p] = 1

\* The same as long as no client went away, no statement failed and the process
\* did not die; refusals, silent plugins and races are all allowed.
RecordIsTrueUndisturbed == gone = {} /\ crashes = 0 /\ faults = 0 => AppliedMeansChanged

\* Proposals implement the abstract promise: a proposal is changed once in its
\* whole life, whoever presses what, however late the plugin is.
PromiseState ==
  [p \in Changes |->
     IF status[p] \in {"absent", "pending"} THEN "open"
     ELSE IF status[p] = "applied" THEN "claimed" ELSE "closed"]

\* A ticket is with the claimant, then in the plugin's hands.
Holder(r) == phase[r] \in Holding \/ r \in inflight
Tickets == {of[r] : r \in {q \in Requests : Holder(q)}}

Promise == INSTANCE OneChangePerClaim WITH
  Work <- Changes,
  Once <- Changes,
  state <- PromiseState,
  tickets <- Tickets,
  changes <- changes

ImplementsOneChangePerClaim == Promise!Spec

\* What holds of a proposal in every state: only what was approved is changed, a
\* refusal decides nothing, and the record is so unless something went wrong.
ProposalsAreKept ==
  /\ TypeOK
  /\ OnlyApprovedChanges
  /\ RefusalDecidesNothing
  /\ RecordIsTrueUndisturbed

=============================================================================
