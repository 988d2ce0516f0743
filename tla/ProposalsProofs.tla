--------------------------- MODULE ProposalsProofs ---------------------------
(***************************************************************************)
(* What the run of Proposals checks on one change and three requests,      *)
(* proved for any changes, any requests and any bounds.                    *)
(***************************************************************************)
EXTENDS Proposals, TLAPS

-----------------------------------------------------------------------------
(***************************************************************************)
(* Type correctness.                                                       *)
(***************************************************************************)

\* The types at the start.
LEMMA InitTypeOK == Init => TypeOK
BY DEF Init, TypeOK, Statuses, Active, Before, Holding, After, Answers, Gates

\* The steps of decideProposal and performTool keep the types.
LEMMA HandlerTypeOK ==
  ASSUME TypeOK, NEW r \in Requests, Handler(r)
  PROVE  TypeOK'
<1> USE DEF TypeOK, Statuses, Active, Before, Holding, After, Answers, handlers, gates,
            outside, Goto, End, Works, Fails, Fault, Decide
<1>1. CASE Read(r) \/ Lookup(r) \/ NoAnswer(r) \/ Answered(r)
  BY <1>1 DEF Read, Lookup, NoAnswer, Answered
<1>2. CASE Discard(r)
  BY <1>2 DEF Discard
<1>3. CASE Unavailable(r)
  BY <1>3 DEF Unavailable
<1>4. CASE \/ Look(r, "writes", "found", "writesOn")
           \/ Look(r, "approved", "writesOn", "allowed")
  BY <1>4 DEF Look
<1>5. CASE Claim(r)
  BY <1>5 DEF Claim
<1>6. CASE \/ LookAgain(r, "writes", "claimed", "stillOn")
           \/ LookAgain(r, "approved", "stillOn", "cleared")
  BY <1>6 DEF LookAgain
<1>7. CASE Ask(r)
  BY <1>7 DEF Ask
<1>8. CASE FailProposal(r)
  BY <1>8 DEF FailProposal
<1>9. QED
  BY <1>1, <1>2, <1>3, <1>4, <1>5, <1>6, <1>7, <1>8 DEF Handler

\* Every step keeps the types.
LEMMA NextTypeOK == TypeOK /\ [Next]_vars => TypeOK'
<1> SUFFICES ASSUME TypeOK, [Next]_vars PROVE TypeOK'
  OBVIOUS
<1> USE DEF TypeOK, handlers, gates, outside
<1>1. ASSUME NEW p \in Changes, Propose(p) \/ DeleteConversation(p)
      PROVE  TypeOK'
  BY <1>1 DEF Propose, DeleteConversation, Statuses
<1>2. ASSUME NEW r \in Requests, Plugin(r) \/ Leave(r)
      PROVE  TypeOK'
  BY <1>2 DEF Plugin, Leave, Active, Before, Holding, After
<1>3. ASSUME NEW g \in Gates, Shut(g) \/ Reopen(g)
      PROVE  TypeOK'
  BY <1>3 DEF Shut, Reopen, Toggle, WillLook
<1>4. CASE Refresh
  BY <1>4 DEF Refresh, Toggle
<1>5. CASE Crash
  BY <1>5 DEF Crash, Answers
<1>6. CASE UNCHANGED vars
  BY <1>6 DEF vars
<1>7. QED
  BY <1>1, <1>2, <1>3, <1>4, <1>5, <1>6, HandlerTypeOK DEF Next

\* Every variable has its type in every state: no status outside the table's
\* CHECK constraint is ever written.
THEOREM TypeCorrect == Spec => []TypeOK
BY InitTypeOK, NextTypeOK, PTL DEF Spec

-----------------------------------------------------------------------------
(***************************************************************************)
(* The inductive invariant.  The claim makes one request the only one that *)
(* can change anything for its proposal; everything else is where that     *)
(* request is.                                                             *)
(***************************************************************************)

\* r won the claim, and its work is under way or was reported done.
Took(r) == phase[r] \in Holding \cup After \/ r \in inflight \/ answer[r] = "applied"

\* A request is in the plugin's hands only after it asked, and is answered when
\* it is over; and it was made about a row there was.
Stages ==
  \A r \in Requests :
    /\ phase[r] # "idle" => status[of[r]] # "absent"
    /\ phase[r] \in Before \cup Holding \cup {"idle", "answered"} => r \notin inflight
    /\ phase[r] # "over" => answer[r] = "none"
    /\ answer[r] = "applied" => r \notin inflight

\* One claimant to a proposal, and none for one that is not decided, or was
\* decided otherwise.
OneClaimant ==
  /\ \A r \in Requests : Took(r) => status[of[r]] \in {"applied", "failed", "deleted"}
  /\ \A r, q \in Requests : Took(r) /\ Took(q) /\ of[r] = of[q] => r = q
  /\ \A r, q \in Requests : answer[q] = "discarded" /\ of[r] = of[q] => ~Took(r)
  /\ \A r \in Requests :
       phase[r] \in Holding \cup After \/ answer[r] = "applied" =>
         status[of[r]] \in {"applied", "deleted"}

\* Where the one change is: not made before the plugin has the request, made
\* when the plugin's answer says so.
ChangeSoFar ==
  /\ \A p \in Changes : status[p] \in {"absent", "pending", "discarded"} => changes[p] = 0
  /\ \A r \in Requests :
       /\ phase[r] \in Holding \/ r \in inflight => changes[of[r]] = 0
       /\ phase[r] = "answered" \/ answer[r] = "applied" => changes[of[r]] = 1
       /\ answer[r] = "discarded" =>
            changes[of[r]] = 0 /\ status[of[r]] \in {"discarded", "deleted"}
       /\ answer[r] = "conflict" => status[of[r]] \notin {"absent", "pending"}

\* A gate shut before the last look has been shut ever since, and the request is
\* still on its way to that look, was refused there, or ended before it.
GateKept ==
  \A t \in stopped :
    /\ t[1] \in Requests /\ t[2] \in Gates \ open
    /\ \/ phase[t[1]] \in Before \cup {"idle", "claimed"}
       \/ phase[t[1]] = "stillOn" /\ t[2] = "approved"
       \/ phase[t[1]] \in {"failing", "over"} /\ t[1] \notin inflight

\* While nothing was disturbed, an applied row has its claimant, at work or done.
ClaimantKnown ==
  gone = {} /\ crashes = 0 /\ faults = 0 =>
    \A p \in Changes : status[p] = "applied" =>
      \E r \in Requests : of[r] = p /\ (phase[r] \in Holding \cup After \/ answer[r] = "applied")

IInv ==
  TypeOK /\ Stages /\ OneClaimant /\ ChangeSoFar /\ GateKept /\ ClaimantKnown
    /\ RefusalDecidesNothing

\* The inductive invariant at the start.
LEMMA InitIInv == Init => IInv
<1> SUFFICES ASSUME Init PROVE IInv
  OBVIOUS
<1>1. TypeOK
  BY InitTypeOK
<1>2. Stages /\ GateKept /\ ClaimantKnown /\ RefusalDecidesNothing
  BY DEF Init, Stages, GateKept, ClaimantKnown, RefusalDecidesNothing
<1>3. OneClaimant /\ ChangeSoFar
  BY DEF Init, OneClaimant, ChangeSoFar, Took, Holding, After
<1>4. QED
  BY <1>1, <1>2, <1>3 DEF IInv

\* A request stays in the phases its wish allows.
LEMMA NextStages ==
  ASSUME IInv, [Next]_vars
  PROVE  Stages'
<1> USE DEF IInv, TypeOK, Stages, OneClaimant, ChangeSoFar, Took, Before, Holding, After,
            Active, handlers, gates, outside, Goto, End, Works, Fails, Fault, Decide, Undecided
<1>1. ASSUME NEW r \in Requests,
             Read(r) \/ Lookup(r) \/ Answered(r) \/ NoAnswer(r)
      PROVE  Stages'
  BY <1>1 DEF Read, Lookup, Answered, NoAnswer
<1>2. ASSUME NEW r \in Requests,
             Discard(r)
      PROVE  Stages'
  BY <1>2 DEF Discard
<1>3. ASSUME NEW r \in Requests,
             Unavailable(r)
      PROVE  Stages'
  BY <1>3 DEF Unavailable
<1>4. ASSUME NEW r \in Requests,
             \/ Look(r, "writes", "found", "writesOn")
             \/ Look(r, "approved", "writesOn", "allowed")
      PROVE  Stages'
  BY <1>4 DEF Look
<1>5. ASSUME NEW r \in Requests,
             Claim(r)
      PROVE  Stages'
  BY <1>5 DEF Claim
<1>6. ASSUME NEW r \in Requests,
             \/ LookAgain(r, "writes", "claimed", "stillOn")
             \/ LookAgain(r, "approved", "stillOn", "cleared")
      PROVE  Stages'
  BY <1>6 DEF LookAgain
<1>7. ASSUME NEW r \in Requests,
             Ask(r)
      PROVE  Stages'
  BY <1>7 DEF Ask
<1>8. ASSUME NEW r \in Requests,
             Plugin(r)
      PROVE  Stages'
  BY <1>8 DEF Plugin
<1>9. ASSUME NEW r \in Requests,
             FailProposal(r)
      PROVE  Stages'
  BY <1>9 DEF FailProposal
<1>10. ASSUME NEW p \in Changes, Propose(p) \/ DeleteConversation(p)
      PROVE  Stages'
  BY <1>10 DEF Propose, DeleteConversation
<1>11. ASSUME NEW g \in Gates, Shut(g) \/ Reopen(g)
      PROVE  Stages'
  BY <1>11 DEF Shut, Reopen, Toggle, WillLook
<1>12. ASSUME NEW r \in Requests, Leave(r)
      PROVE  Stages'
  BY <1>12 DEF Leave
<1>13. CASE Refresh \/ Crash
  BY <1>13 DEF Refresh, Crash, Toggle
<1>14. CASE UNCHANGED vars
  BY <1>14 DEF vars
<1>15. QED
  BY <1>1, <1>2, <1>3, <1>4, <1>5, <1>6, <1>7, <1>8, <1>9, <1>10, <1>11, <1>12,
     <1>13, <1>14
     DEF Next, Handler

\* DecideProposal's condition lets one request at most past the claim.
LEMMA NextOneClaimant ==
  ASSUME IInv, [Next]_vars
  PROVE  OneClaimant'
<1> USE DEF IInv, TypeOK, Stages, OneClaimant, ChangeSoFar, Took, Before, Holding, After,
            Active, handlers, gates, outside, Goto, End, Works, Fails, Fault, Decide, Undecided
<1>1. ASSUME NEW r \in Requests,
             Read(r) \/ Lookup(r) \/ Answered(r) \/ NoAnswer(r)
      PROVE  OneClaimant'
  BY <1>1 DEF Read, Lookup, Answered, NoAnswer
<1>2. ASSUME NEW r \in Requests,
             Discard(r)
      PROVE  OneClaimant'
  BY <1>2 DEF Discard
<1>3. ASSUME NEW r \in Requests,
             Unavailable(r)
      PROVE  OneClaimant'
  BY <1>3 DEF Unavailable
<1>4. ASSUME NEW r \in Requests,
             \/ Look(r, "writes", "found", "writesOn")
             \/ Look(r, "approved", "writesOn", "allowed")
      PROVE  OneClaimant'
  BY <1>4 DEF Look
\* The claim finds a pending row, which nobody has claimed.
<1>5. ASSUME NEW r \in Requests,
             Claim(r)
      PROVE  OneClaimant'
  BY <1>5 DEF Claim
<1>6. ASSUME NEW r \in Requests,
             \/ LookAgain(r, "writes", "claimed", "stillOn")
             \/ LookAgain(r, "approved", "stillOn", "cleared")
      PROVE  OneClaimant'
  BY <1>6 DEF LookAgain
<1>7. ASSUME NEW r \in Requests,
             Ask(r)
      PROVE  OneClaimant'
  BY <1>7 DEF Ask
<1>8. ASSUME NEW r \in Requests,
             Plugin(r)
      PROVE  OneClaimant'
  BY <1>8 DEF Plugin
\* Only the claimant is failing, so nobody else's row is moved.
<1>9. ASSUME NEW r \in Requests,
             FailProposal(r)
      PROVE  OneClaimant'
  BY <1>9 DEF FailProposal
<1>10. ASSUME NEW p \in Changes, Propose(p) \/ DeleteConversation(p)
      PROVE  OneClaimant'
  BY <1>10 DEF Propose, DeleteConversation
<1>11. ASSUME NEW g \in Gates, Shut(g) \/ Reopen(g)
      PROVE  OneClaimant'
  BY <1>11 DEF Shut, Reopen, Toggle, WillLook
<1>12. ASSUME NEW r \in Requests, Leave(r)
      PROVE  OneClaimant'
  BY <1>12 DEF Leave
<1>13. CASE Refresh \/ Crash
  BY <1>13 DEF Refresh, Crash, Toggle
<1>14. CASE UNCHANGED vars
  BY <1>14 DEF vars
<1>15. QED
  BY <1>1, <1>2, <1>3, <1>4, <1>5, <1>6, <1>7, <1>8, <1>9, <1>10, <1>11, <1>12,
     <1>13, <1>14
     DEF Next, Handler

\* What a row's status says of the changes made survives every step.
LEMMA NextChangeSoFar ==
  ASSUME IInv, [Next]_vars
  PROVE  ChangeSoFar'
<1> USE DEF IInv, TypeOK, Stages, OneClaimant, ChangeSoFar, Took, Before, Holding, After,
            Active, handlers, gates, outside, Goto, End, Works, Fails, Fault, Decide, Undecided
<1>1. ASSUME NEW r \in Requests,
             Read(r) \/ Lookup(r) \/ Answered(r) \/ NoAnswer(r)
      PROVE  ChangeSoFar'
  BY <1>1 DEF Read, Lookup, Answered, NoAnswer
<1>2. ASSUME NEW r \in Requests,
             Discard(r)
      PROVE  ChangeSoFar'
  BY <1>2 DEF Discard
<1>3. ASSUME NEW r \in Requests,
             Unavailable(r)
      PROVE  ChangeSoFar'
  BY <1>3 DEF Unavailable
<1>4. ASSUME NEW r \in Requests,
             \/ Look(r, "writes", "found", "writesOn")
             \/ Look(r, "approved", "writesOn", "allowed")
      PROVE  ChangeSoFar'
  BY <1>4 DEF Look
<1>5. ASSUME NEW r \in Requests,
             Claim(r)
      PROVE  ChangeSoFar'
  BY <1>5 DEF Claim
<1>6. ASSUME NEW r \in Requests,
             \/ LookAgain(r, "writes", "claimed", "stillOn")
             \/ LookAgain(r, "approved", "stillOn", "cleared")
      PROVE  ChangeSoFar'
  BY <1>6 DEF LookAgain
<1>7. ASSUME NEW r \in Requests,
             Ask(r)
      PROVE  ChangeSoFar'
  BY <1>7 DEF Ask
\* The plugin makes the claimant's change, of which there is none yet.
<1>8. ASSUME NEW r \in Requests,
             Plugin(r)
      PROVE  ChangeSoFar'
  BY <1>8 DEF Plugin
<1>9. ASSUME NEW r \in Requests,
             FailProposal(r)
      PROVE  ChangeSoFar'
  BY <1>9 DEF FailProposal
<1>10. ASSUME NEW p \in Changes, Propose(p) \/ DeleteConversation(p)
      PROVE  ChangeSoFar'
  BY <1>10 DEF Propose, DeleteConversation
<1>11. ASSUME NEW g \in Gates, Shut(g) \/ Reopen(g)
      PROVE  ChangeSoFar'
  BY <1>11 DEF Shut, Reopen, Toggle, WillLook
<1>12. ASSUME NEW r \in Requests, Leave(r)
      PROVE  ChangeSoFar'
  BY <1>12 DEF Leave
<1>13. CASE Refresh \/ Crash
  BY <1>13 DEF Refresh, Crash, Toggle
<1>14. CASE UNCHANGED vars
  BY <1>14 DEF vars
<1>15. QED
  BY <1>1, <1>2, <1>3, <1>4, <1>5, <1>6, <1>7, <1>8, <1>9, <1>10, <1>11, <1>12,
     <1>13, <1>14
     DEF Next, Handler

\* A gate that was shut before a request's last look stays in its way.
LEMMA NextGateKept ==
  ASSUME IInv, [Next]_vars
  PROVE  GateKept'
<1> USE DEF IInv, TypeOK, Stages, OneClaimant, ChangeSoFar, Took, Before, Holding, After,
            Active, handlers, gates, outside, Goto, End, Works, Fails, Fault, Decide, Undecided,
            GateKept, Gates
<1>1. ASSUME NEW r \in Requests,
             Read(r) \/ Lookup(r) \/ Answered(r) \/ NoAnswer(r)
      PROVE  GateKept'
  BY <1>1 DEF Read, Lookup, Answered, NoAnswer
<1>2. ASSUME NEW r \in Requests,
             Discard(r)
      PROVE  GateKept'
  BY <1>2 DEF Discard
<1>3. ASSUME NEW r \in Requests,
             Unavailable(r)
      PROVE  GateKept'
  BY <1>3 DEF Unavailable
<1>4. ASSUME NEW r \in Requests,
             \/ Look(r, "writes", "found", "writesOn")
             \/ Look(r, "approved", "writesOn", "allowed")
      PROVE  GateKept'
  BY <1>4 DEF Look
<1>5. ASSUME NEW r \in Requests,
             Claim(r)
      PROVE  GateKept'
  BY <1>5 DEF Claim
<1>6. ASSUME NEW r \in Requests,
             \/ LookAgain(r, "writes", "claimed", "stillOn")
             \/ LookAgain(r, "approved", "stillOn", "cleared")
      PROVE  GateKept'
  BY <1>6 DEF LookAgain
<1>7. ASSUME NEW r \in Requests,
             Ask(r)
      PROVE  GateKept'
  BY <1>7 DEF Ask
<1>8. ASSUME NEW r \in Requests,
             Plugin(r)
      PROVE  GateKept'
  BY <1>8 DEF Plugin
<1>9. ASSUME NEW r \in Requests,
             FailProposal(r)
      PROVE  GateKept'
  BY <1>9 DEF FailProposal
<1>10. ASSUME NEW p \in Changes, Propose(p) \/ DeleteConversation(p)
      PROVE  GateKept'
  BY <1>10 DEF Propose, DeleteConversation
\* Shutting a gate catches those who still have to look at it.
<1>11. ASSUME NEW g \in Gates, Shut(g) \/ Reopen(g)
      PROVE  GateKept'
  BY <1>11 DEF Shut, Reopen, Toggle, WillLook
<1>12. ASSUME NEW r \in Requests, Leave(r)
      PROVE  GateKept'
  BY <1>12 DEF Leave
<1>13. CASE Refresh \/ Crash
  BY <1>13 DEF Refresh, Crash, Toggle
<1>14. CASE UNCHANGED vars
  BY <1>14 DEF vars
<1>15. QED
  BY <1>1, <1>2, <1>3, <1>4, <1>5, <1>6, <1>7, <1>8, <1>9, <1>10, <1>11, <1>12,
     <1>13, <1>14
     DEF Next, Handler

\* While nothing is disturbed, an applied row keeps a request that claimed it.
LEMMA NextClaimantKnown ==
  ASSUME IInv, [Next]_vars
  PROVE  ClaimantKnown'
<1> USE DEF IInv, TypeOK, Stages, OneClaimant, ChangeSoFar, Took, Before, Holding, After,
            Active, handlers, gates, outside, Goto, End, Works, Fails, Fault, Decide, Undecided,
            ClaimantKnown
<1>1. ASSUME NEW r \in Requests,
             Read(r) \/ Lookup(r) \/ Answered(r) \/ NoAnswer(r)
      PROVE  ClaimantKnown'
  BY <1>1 DEF Read, Lookup, Answered, NoAnswer
<1>2. ASSUME NEW r \in Requests,
             Discard(r)
      PROVE  ClaimantKnown'
  BY <1>2 DEF Discard
<1>3. ASSUME NEW r \in Requests,
             Unavailable(r)
      PROVE  ClaimantKnown'
  BY <1>3 DEF Unavailable
<1>4. ASSUME NEW r \in Requests,
             \/ Look(r, "writes", "found", "writesOn")
             \/ Look(r, "approved", "writesOn", "allowed")
      PROVE  ClaimantKnown'
  BY <1>4 DEF Look
<1>5. ASSUME NEW r \in Requests,
             Claim(r)
      PROVE  ClaimantKnown'
  BY <1>5 DEF Claim
<1>6. ASSUME NEW r \in Requests,
             \/ LookAgain(r, "writes", "claimed", "stillOn")
             \/ LookAgain(r, "approved", "stillOn", "cleared")
      PROVE  ClaimantKnown'
  BY <1>6 DEF LookAgain
<1>7. ASSUME NEW r \in Requests,
             Ask(r)
      PROVE  ClaimantKnown'
  BY <1>7 DEF Ask
<1>8. ASSUME NEW r \in Requests,
             Plugin(r)
      PROVE  ClaimantKnown'
  BY <1>8 DEF Plugin
<1>9. ASSUME NEW r \in Requests,
             FailProposal(r)
      PROVE  ClaimantKnown'
  BY <1>9 DEF FailProposal
<1>10. ASSUME NEW p \in Changes, Propose(p) \/ DeleteConversation(p)
      PROVE  ClaimantKnown'
  BY <1>10 DEF Propose, DeleteConversation
<1>11. ASSUME NEW g \in Gates, Shut(g) \/ Reopen(g)
      PROVE  ClaimantKnown'
  BY <1>11 DEF Shut, Reopen, Toggle, WillLook
<1>12. ASSUME NEW r \in Requests, Leave(r)
      PROVE  ClaimantKnown'
  BY <1>12 DEF Leave
<1>13. CASE Refresh \/ Crash
  BY <1>13 DEF Refresh, Crash, Toggle
<1>14. CASE UNCHANGED vars
  BY <1>14 DEF vars
<1>15. QED
  BY <1>1, <1>2, <1>3, <1>4, <1>5, <1>6, <1>7, <1>8, <1>9, <1>10, <1>11, <1>12,
     <1>13, <1>14
     DEF Next, Handler

\* No later step turns a refusal into a decision.
LEMMA NextRefusalDecidesNothing ==
  ASSUME IInv, [Next]_vars
  PROVE  RefusalDecidesNothing'
<1> USE DEF IInv, TypeOK, Stages, OneClaimant, ChangeSoFar, Took, Before, Holding, After,
            Active, handlers, gates, outside, Goto, End, Works, Fails, Fault, Decide, Undecided,
            RefusalDecidesNothing
<1>1. ASSUME NEW r \in Requests,
             Read(r) \/ Lookup(r) \/ Answered(r) \/ NoAnswer(r)
      PROVE  RefusalDecidesNothing'
  BY <1>1 DEF Read, Lookup, Answered, NoAnswer
<1>2. ASSUME NEW r \in Requests,
             Discard(r)
      PROVE  RefusalDecidesNothing'
  BY <1>2 DEF Discard
<1>3. ASSUME NEW r \in Requests,
             Unavailable(r)
      PROVE  RefusalDecidesNothing'
  BY <1>3 DEF Unavailable
<1>4. ASSUME NEW r \in Requests,
             \/ Look(r, "writes", "found", "writesOn")
             \/ Look(r, "approved", "writesOn", "allowed")
      PROVE  RefusalDecidesNothing'
  BY <1>4 DEF Look
<1>5. ASSUME NEW r \in Requests,
             Claim(r)
      PROVE  RefusalDecidesNothing'
  BY <1>5 DEF Claim
<1>6. ASSUME NEW r \in Requests,
             \/ LookAgain(r, "writes", "claimed", "stillOn")
             \/ LookAgain(r, "approved", "stillOn", "cleared")
      PROVE  RefusalDecidesNothing'
  BY <1>6 DEF LookAgain
<1>7. ASSUME NEW r \in Requests,
             Ask(r)
      PROVE  RefusalDecidesNothing'
  BY <1>7 DEF Ask
<1>8. ASSUME NEW r \in Requests,
             Plugin(r)
      PROVE  RefusalDecidesNothing'
  BY <1>8 DEF Plugin
<1>9. ASSUME NEW r \in Requests,
             FailProposal(r)
      PROVE  RefusalDecidesNothing'
  BY <1>9 DEF FailProposal
<1>10. ASSUME NEW p \in Changes, Propose(p) \/ DeleteConversation(p)
      PROVE  RefusalDecidesNothing'
  BY <1>10 DEF Propose, DeleteConversation
<1>11. ASSUME NEW g \in Gates, Shut(g) \/ Reopen(g)
      PROVE  RefusalDecidesNothing'
  BY <1>11 DEF Shut, Reopen, Toggle, WillLook
<1>12. ASSUME NEW r \in Requests, Leave(r)
      PROVE  RefusalDecidesNothing'
  BY <1>12 DEF Leave
<1>13. CASE Refresh \/ Crash
  BY <1>13 DEF Refresh, Crash, Toggle
<1>14. CASE UNCHANGED vars
  BY <1>14 DEF vars
<1>15. QED
  BY <1>1, <1>2, <1>3, <1>4, <1>5, <1>6, <1>7, <1>8, <1>9, <1>10, <1>11, <1>12,
     <1>13, <1>14
     DEF Next, Handler

\* The parts together survive every step.
LEMMA NextIInv == IInv /\ [Next]_vars => IInv'
BY NextTypeOK, NextStages, NextOneClaimant, NextChangeSoFar, NextGateKept, NextClaimantKnown,
   NextRefusalDecidesNothing DEF IInv

\* The inductive invariant holds of every behaviour.
THEOREM Inductive == Spec => []IInv
BY InitIInv, NextIInv, PTL DEF Spec

-----------------------------------------------------------------------------
(***************************************************************************)
(* The safety properties.                                                  *)
(***************************************************************************)

\* Nothing is changed for a proposal nobody applied, or somebody discarded.
THEOREM OnlyApproved == Spec => []OnlyApprovedChanges
<1>1. IInv => OnlyApprovedChanges
  BY DEF IInv, ChangeSoFar, OnlyApprovedChanges
<1>2. QED
  BY <1>1, Inductive, PTL

\* What a person was told about a change is so, and stays so.
THEOREM AnswersTrue == Spec => []AnswersAreTrue
<1>1. IInv => AnswersAreTrue
  BY DEF IInv, OneClaimant, ChangeSoFar, AnswersAreTrue
<1>2. QED
  BY <1>1, Inductive, PTL

\* A request a gate refused has decided nothing.
THEOREM RefusalRetryable == Spec => []RefusalDecidesNothing
<1>1. IInv => RefusalDecidesNothing
  BY DEF IInv
<1>2. QED
  BY <1>1, Inductive, PTL

\* A gate shut before its last look stops a change, claimed or not.
THEOREM KillSwitch == Spec => []KillSwitchHolds
<1>1. IInv => KillSwitchHolds
  BY DEF IInv, TypeOK, Stages, GateKept, KillSwitchHolds, Before, Holding
<1>2. QED
  BY <1>1, Inductive, PTL

\* With no client gone, no failed statement and no crash, applied means changed.
THEOREM RecordTrue == Spec => []RecordIsTrueUndisturbed
<1>1. IInv => RecordIsTrueUndisturbed
  BY DEF IInv, ClaimantKnown, ChangeSoFar, RecordIsTrueUndisturbed, AppliedMeansChanged, Settled
<1>2. QED
  BY <1>1, Inductive, PTL

-----------------------------------------------------------------------------
(***************************************************************************)
(* Proposals implement OneChangePerClaim: the ticket is with the claimant, *)
(* then with the request in the plugin's hands.                            *)
(***************************************************************************)

\* The initial states map to the promise's initial states.
LEMMA InitImplements == Init => Promise!Init
BY DEF Init, Promise!Init, PromiseState, Tickets, Holder, Holding

\* A step that leaves the mapped state alone is a stutter of the promise.
LEMMA Stutter ==
  ASSUME PromiseState' = PromiseState, Tickets' = Tickets, changes' = changes
  PROVE  UNCHANGED Promise!vars
BY DEF Promise!vars

\* A step that moves one row out of an open or claimed status, and hands out or
\* spends no ticket, is a Close, a Settle or a stutter.
LEMMA MoveRow ==
  ASSUME TypeOK, NEW p \in Changes, NEW st,
         status' = [status EXCEPT ![p] = st],
         Tickets' = Tickets, changes' = changes,
         \/ status[p] \in {"absent", "pending"} /\ st \in {"pending", "discarded", "failed"}
         \/ status[p] = "applied" /\ st = "failed"
         \/ st = "deleted"
  PROVE  [Promise!Next]_(Promise!vars)
<1>1. PromiseState' = [PromiseState EXCEPT ![p] = PromiseState'[p]]
  BY DEF TypeOK, PromiseState
<1>2. PromiseState' = [w \in Changes |-> IF w \in {p} THEN PromiseState'[p] ELSE PromiseState[w]]
  BY DEF TypeOK, PromiseState
<1>3. CASE PromiseState'[p] = PromiseState[p]
  <2>1. PromiseState' = PromiseState
    BY <1>1, <1>3 DEF PromiseState
  <2>2. QED
    BY <2>1, Stutter
<1>4. CASE PromiseState[p] = "open" /\ PromiseState'[p] = "closed"
  <2>1. Promise!Close(p)
    BY <1>1, <1>4 DEF Promise!Close
  <2>2. QED
    BY <2>1 DEF Promise!Next
<1>5. CASE PromiseState[p] = "claimed" /\ PromiseState'[p] = "closed"
  <2>1. Promise!Settle({p})
    BY <1>2, <1>5 DEF Promise!Settle
  <2>2. QED
    BY <2>1 DEF Promise!Next
<1>6. QED
  BY <1>3, <1>4, <1>5 DEF PromiseState, TypeOK, Statuses

\* A step after which the same requests hold tickets.
LEMMA SameTickets ==
  ASSUME of' = of, \A q \in Requests : Holder(q)' <=> Holder(q)
  PROVE  Tickets' = Tickets
BY DEF Tickets

\* A step in which one holder lets go, without moving a row.
LEMMA LetGo ==
  ASSUME IInv, NEW r \in Requests, Holder(r), ~Holder(r)', of' = of, status' = status,
         \A q \in Requests : q # r => (Holder(q)' <=> Holder(q)),
         changes' = changes \/ changes' = [changes EXCEPT ![of[r]] = @ + 1]
  PROVE  [Promise!Next]_(Promise!vars)
<1>1. of[r] \in Changes
  BY DEF IInv, TypeOK
<1>2. \A q \in Requests : Holder(q) /\ of[q] = of[r] => q = r
  BY DEF IInv, OneClaimant, Took, Holder
<1>3. Tickets' = Tickets \ {of[r]} /\ of[r] \in Tickets
  BY <1>2 DEF Tickets
<1>4. PromiseState' = PromiseState
  BY DEF PromiseState
<1>5. CASE changes' = changes
  <2>1. Promise!GiveUp({of[r]})
    BY <1>3, <1>4, <1>5 DEF Promise!GiveUp
  <2>2. QED
    BY <1>1, <2>1 DEF Promise!Next
<1>6. CASE changes' = [changes EXCEPT ![of[r]] = @ + 1]
  <2>1. Promise!Change(of[r])
    BY <1>3, <1>4, <1>6 DEF Promise!Change
  <2>2. QED
    BY <1>1, <2>1 DEF Promise!Next
<1>7. QED
  BY <1>5, <1>6

\* The claim of a proposal is the promise's claim, or a stutter when it fails.
LEMMA ClaimImplements ==
  ASSUME IInv, NEW r \in Requests, Claim(r)
  PROVE  [Promise!Next]_(Promise!vars)
<1> USE DEF IInv, TypeOK, Goto, End, Works, Fails, Fault, outside
<1> DEFINE p == of[r]
<1>1. p \in Changes /\ of' = of /\ changes' = changes /\ inflight' = inflight /\ ~Holder(r)
  BY DEF Claim, Holder, Holding, Stages, Before
<1>2. CASE status' = status /\ phase' = [phase EXCEPT ![r] = "over"]
  <2>1. PromiseState' = PromiseState
    BY <1>2 DEF PromiseState
  <2>2. \A q \in Requests : Holder(q)' <=> Holder(q)
    BY <1>1, <1>2 DEF Holder, Holding
  <2>3. QED
    BY <1>1, <2>1, <2>2, SameTickets, Stutter
<1>3. CASE /\ status[p] = "pending" /\ status' = [status EXCEPT ![p] = "applied"]
           /\ phase' = [phase EXCEPT ![r] = "claimed"] \/ phase' = [phase EXCEPT ![r] = "over"]
  <2>1. PromiseState[p] = "open" /\ PromiseState' = [PromiseState EXCEPT ![p] = "claimed"]
    BY <1>1, <1>3 DEF PromiseState
  <2>2. Tickets' = Tickets \/ Tickets' = Tickets \cup {p}
    <3>1. \A q \in Requests : q # r => (Holder(q)' <=> Holder(q))
      BY <1>1, <1>3 DEF Holder
    <3>2. CASE Holder(r)'
      BY <1>1, <3>1, <3>2 DEF Tickets
    <3>3. CASE ~Holder(r)'
      BY <1>1, <3>1, <3>3, SameTickets
    <3>4. QED
      BY <3>2, <3>3
  <2>3. Promise!Claim(p)
    BY <1>1, <2>1, <2>2 DEF Promise!Claim
  <2>4. QED
    BY <1>1, <2>3 DEF Promise!Next
<1>4. QED
  BY <1>2, <1>3 DEF Claim, Decide, Undecided

\* A step that moves neither a row nor a ticket, nor changes anything.
LEMMA NothingMoves ==
  ASSUME status' = status, of' = of, changes' = changes,
         \A q \in Requests : Holder(q)' <=> Holder(q)
  PROVE  [Promise!Next]_(Promise!vars)
<1>1. PromiseState' = PromiseState
  BY DEF PromiseState
<1>2. QED
  BY <1>1, SameTickets, Stutter

\* The steps of a handler before its claim, the claim itself left aside.
LEMMA BeforeImplements ==
  ASSUME IInv, NEW r \in Requests,
         \/ Read(r) \/ Discard(r) \/ Lookup(r) \/ Unavailable(r)
         \/ Look(r, "writes", "found", "writesOn")
         \/ Look(r, "approved", "writesOn", "allowed")
  PROVE  [Promise!Next]_(Promise!vars)
<1> USE DEF IInv, TypeOK, Goto, End, Works, Fails, Fault, outside
<1>1. of' = of /\ changes' = changes /\ \A q \in Requests : Holder(q)' <=> Holder(q)
  BY DEF Read, Discard, Lookup, Unavailable, Look, Holder, Holding
<1>2. CASE status' = status
  BY <1>1, <1>2, NothingMoves
<1>3. CASE \E s \in {"discarded", "failed"} : Decide(r, s)
  BY <1>1, <1>3, SameTickets, MoveRow DEF Decide, Undecided
<1>4. QED
  BY <1>2, <1>3 DEF Read, Discard, Lookup, Unavailable, Look

\* The steps of a handler after its claim.
LEMMA AfterImplements ==
  ASSUME IInv, NEW r \in Requests,
         \/ LookAgain(r, "writes", "claimed", "stillOn")
         \/ LookAgain(r, "approved", "stillOn", "cleared")
         \/ Ask(r) \/ NoAnswer(r) \/ Answered(r) \/ FailProposal(r)
  PROVE  [Promise!Next]_(Promise!vars)
<1> USE DEF IInv, TypeOK, Goto, End, Works, Fails, Fault, outside
<1>1. of' = of /\ changes' = changes
  BY DEF LookAgain, Ask, NoAnswer, Answered, FailProposal
<1>2. \A q \in Requests : q # r => (Holder(q)' <=> Holder(q))
  BY DEF LookAgain, Ask, NoAnswer, Answered, FailProposal, Holder
<1>3. CASE FailProposal(r)
  <2>1. \A q \in Requests : Holder(q)' <=> Holder(q)
    BY <1>3 DEF FailProposal, Holder, Holding
  <2>2. CASE status' = status
    BY <1>1, <2>1, <2>2, NothingMoves
  <2>3. CASE status[of[r]] = "applied" /\ status' = [status EXCEPT ![of[r]] = "failed"]
    BY <1>1, <2>1, <2>3, SameTickets, MoveRow
  <2>4. QED
    BY <1>3, <2>2, <2>3 DEF FailProposal
<1>4. CASE LookAgain(r, "writes", "claimed", "stillOn") \/ LookAgain(r, "approved", "stillOn", "cleared") \/ Ask(r)
  <2>1. status' = status /\ Holder(r)
    BY <1>4 DEF LookAgain, Ask, Holder, Holding
  <2>2. CASE Holder(r)'
    BY <1>1, <1>2, <2>1, <2>2, NothingMoves
  <2>3. CASE ~Holder(r)'
    BY <1>1, <1>2, <2>1, <2>3, LetGo
  <2>4. QED
    BY <2>2, <2>3
<1>5. CASE NoAnswer(r) \/ Answered(r)
  <2>1. status' = status /\ (Holder(r)' <=> Holder(r))
    BY <1>5 DEF NoAnswer, Answered, Holder, Holding
  <2>2. QED
    BY <1>1, <1>2, <2>1, NothingMoves
<1>6. QED
  BY <1>3, <1>4, <1>5

\* The plugin spends the ticket, by a change or without one.
LEMMA PluginImplements ==
  ASSUME IInv, NEW r \in Requests, Plugin(r)
  PROVE  [Promise!Next]_(Promise!vars)
<1> USE DEF IInv, TypeOK
<1>1. of' = of /\ status' = status /\ Holder(r)
  BY DEF Plugin, Holder
<1>2. \A q \in Requests : q # r => (Holder(q)' <=> Holder(q))
  BY DEF Plugin, Holder
<1>3. ~Holder(r)'
  BY DEF Plugin, Holder, Stages, Holding, Before
<1>4. changes' = changes \/ changes' = [changes EXCEPT ![of[r]] = @ + 1]
  BY DEF Plugin
<1>5. QED
  BY <1>1, <1>2, <1>3, <1>4, LetGo

\* The tickets of the handlers that die are given up; the plugin keeps its own.
LEMMA CrashImplements ==
  ASSUME IInv, Crash
  PROVE  [Promise!Next]_(Promise!vars)
<1>1. of' = of /\ status' = status /\ changes' = changes
  BY DEF Crash, outside
<1>2. \A q \in Requests : Holder(q)' => Holder(q)
  BY DEF IInv, TypeOK, Crash, outside, Holder, Holding, Active
<1>3. Tickets' \subseteq Tickets /\ Tickets \subseteq Changes
  BY <1>1, <1>2 DEF Tickets, IInv, TypeOK
<1>4. PromiseState' = PromiseState
  BY <1>1 DEF PromiseState
<1>5. Promise!GiveUp(Tickets \ Tickets')
  BY <1>1, <1>3, <1>4 DEF Promise!GiveUp
<1>6. Tickets \ Tickets' \in SUBSET Changes
  BY <1>3
<1>7. QED
  BY <1>5, <1>6 DEF Promise!Next

\* Every step of the handlers is a step of the promise, or a stutter.
LEMMA StepImplements == IInv /\ [Next]_vars => [Promise!Next]_(Promise!vars)
<1> SUFFICES ASSUME IInv, [Next]_vars PROVE [Promise!Next]_(Promise!vars)
  OBVIOUS
<1>1. ASSUME NEW p \in Changes, Propose(p) \/ DeleteConversation(p)
      PROVE  [Promise!Next]_(Promise!vars)
  <2>1. /\ of' = of /\ changes' = changes
        /\ \A q \in Requests : Holder(q)' <=> Holder(q)
    BY <1>1 DEF Propose, DeleteConversation, handlers, outside, Holder
  <2>2. QED
    BY <1>1, <2>1, SameTickets, MoveRow DEF Propose, DeleteConversation, IInv
<1>2. ASSUME NEW r \in Requests, Handler(r)
      PROVE  [Promise!Next]_(Promise!vars)
  BY <1>2, BeforeImplements, ClaimImplements, AfterImplements DEF Handler
<1>3. ASSUME NEW r \in Requests, Plugin(r)
      PROVE  [Promise!Next]_(Promise!vars)
  BY <1>3, PluginImplements
<1>4. CASE Crash
  BY <1>4, CrashImplements
<1>5. CASE \/ \E r \in Requests : Leave(r)
           \/ \E g \in Gates : Shut(g) \/ Reopen(g)
           \/ Refresh
           \/ UNCHANGED vars
  <2>1. /\ status' = status /\ of' = of /\ changes' = changes
        /\ phase' = phase /\ inflight' = inflight
    BY <1>5 DEF Leave, Shut, Reopen, Refresh, Toggle, vars, handlers, outside
  <2>2. QED
    BY <2>1, NothingMoves DEF Holder
<1>6. QED
  BY <1>1, <1>2, <1>3, <1>4, <1>5 DEF Next

\* A proposal is changed at most once in its whole life, whoever presses what,
\* however late the plugin: every behaviour of the handlers is one of the
\* abstract promise.
THEOREM Implements == Spec => ImplementsOneChangePerClaim
<1>1. QED
  BY InitImplements, StepImplements, Inductive, PTL DEF Spec, Promise!Spec, ImplementsOneChangePerClaim

-----------------------------------------------------------------------------
\* The safety of proposals as a whole, the invariant of the runs.
THEOREM ProposalsKept == Spec => []ProposalsAreKept
<1>1. TypeOK /\ OnlyApprovedChanges /\ RefusalDecidesNothing /\ RecordIsTrueUndisturbed
      => ProposalsAreKept
  BY DEF ProposalsAreKept
<1>2. QED
  BY <1>1, TypeCorrect, OnlyApproved, RefusalRetryable, RecordTrue, PTL

=============================================================================
