------------------------- MODULE JobSchedulerProofs -------------------------
(***************************************************************************)
(* What the runs of JobScheduler check on one job of each kind, proved for *)
(* any set of jobs, any number of crashes and failed requests, and any     *)
(* MaxDeliver.                                                             *)
(***************************************************************************)
EXTENDS JobScheduler, TLAPS

-----------------------------------------------------------------------------
(***************************************************************************)
(* Type correctness.                                                       *)
(***************************************************************************)

\* The types at the start.
LEMMA InitTypeOK == Init => TypeOK
BY DEF Init, TypeOK, Statuses, Results, Outcomes

\* Every step of a request handler keeps the types.
LEMMA RequestsTypeOK ==
  ASSUME TypeOK, NEW j \in Jobs, Requests(j)
  PROVE  TypeOK'
<1> USE DEF TypeOK, Statuses, Results, Outcomes, row, stream, consumer, requests,
            startup, outside, Fault, NoFault
<1>1. CASE CreateJob(j)
  BY <1>1 DEF CreateJob
<1>2. CASE ArmCreated(j)
  BY <1>2 DEF ArmCreated
<1>3. CASE DeleteUnarmed(j)
  BY <1>3 DEF DeleteUnarmed
<1>4. CASE CancelRead(j)
  BY <1>4 DEF CancelRead
<1>5. CASE PurgeTimer(j)
  BY <1>5 DEF PurgeTimer
<1>6. CASE PurgeFiring(j)
  BY <1>6 DEF PurgeFiring
<1>7. CASE CancelRow(j)
  BY <1>7 DEF CancelRow
<1>8. CASE CancelFails(j)
  BY <1>8 DEF CancelFails
<1>9. QED
  BY <1>1, <1>2, <1>3, <1>4, <1>5, <1>6, <1>7, <1>8 DEF Requests

\* So does every step of the NATS server and of the clock.
LEMMA ServerTypeOK ==
  ASSUME TypeOK, NEW j \in Jobs, Server(j)
  PROVE  TypeOK'
<1> USE DEF TypeOK, row, stream, consumer, requests, startup, outside
<1>1. CASE TimerFires(j)
  BY <1>1 DEF TimerFires
<1>2. CASE Deliver(j)
  BY <1>2 DEF Deliver
<1>3. CASE TimePasses(j)
  BY <1>3 DEF TimePasses
<1>4. QED
  BY <1>1, <1>2, <1>3 DEF Server

\* So does every step of the consumer's callback.
LEMMA FireTypeOK ==
  ASSUME TypeOK, NEW m \in inbox, Fire(m)
  PROVE  TypeOK'
<1> USE DEF TypeOK, Statuses, Outcomes, row, stream, consumer, requests,
            startup, outside, Fault, Take
<1>1. m.job \in Jobs /\ m.seq \in Nat
  OBVIOUS
<1>2. CASE FireClaimed(m)
  BY <1>1, <1>2 DEF FireClaimed
<1>3. CASE FireRefused(m)
  BY <1>1, <1>3 DEF FireRefused
<1>4. CASE FireFails(m)
  BY <1>1, <1>4 DEF FireFails
<1>5. QED
  BY <1>2, <1>3, <1>4 DEF Fire

\* The steps of handleFired and RunJob keep the types.
LEMMA HandlerTypeOK ==
  ASSUME TypeOK, NEW j \in Jobs, Handler(j)
  PROVE  TypeOK'
<1> USE DEF TypeOK, Statuses, Results, Outcomes, row, stream, consumer, requests,
            startup, outside, Fault, NoFault
<1>1. CASE RunJob(j)
  BY <1>1 DEF RunJob, MakeChange
<1>2. CASE FinishJob(j)
  BY <1>2 DEF FinishJob, Finished
<1>3. CASE Ack(j)
  BY <1>3 DEF Ack
<1>4. QED
  BY <1>1, <1>2, <1>3 DEF Handler

\* So do the sweep, the death and the start of the process.
LEMMA ProcessTypeOK ==
  ASSUME TypeOK,
         (\E S \in SUBSET Jobs : Sweep(S)) \/ Crash \/ StreamLost \/ Reconcile
  PROVE  TypeOK'
<1> USE DEF TypeOK, Statuses, Results, Outcomes, row, stream, consumer, requests,
            startup, outside, Fault, NoFault
<1>1. ASSUME NEW S \in SUBSET Jobs, Sweep(S) \/ ReconcileSweep(S)
      PROVE  TypeOK'
  BY <1>1 DEF Sweep, ReconcileSweep, SweepRows
<1>2. CASE Crash
  BY <1>2 DEF Crash
<1>3. CASE StreamLost
  BY <1>3 DEF StreamLost
<1>4. CASE Restart
  BY <1>4 DEF Restart, OneShot
<1>5. CASE ReconcileList \/ ReconcileDone
  BY <1>5 DEF ReconcileList, PendingJobs, ReconcileDone
<1>6. ASSUME NEW j \in Jobs, ReconcileMiss(j) \/ ReconcileArm(j)
      PROVE  TypeOK'
  BY <1>6 DEF ReconcileMiss, MissJob, ReconcileArm
<1>7. QED
  BY <1>1, <1>2, <1>3, <1>4, <1>5, <1>6 DEF Reconcile

\* Every step keeps the types.
LEMMA NextTypeOK == TypeOK /\ [Next]_vars => TypeOK'
<1> SUFFICES ASSUME TypeOK, [Next]_vars PROVE TypeOK'
  OBVIOUS
<1>1. CASE Next
  BY <1>1, RequestsTypeOK, ServerTypeOK, FireTypeOK, HandlerTypeOK, ProcessTypeOK DEF Next
<1>2. CASE UNCHANGED vars
  BY <1>2 DEF TypeOK, vars, row, stream, consumer, requests, startup, outside
<1>3. QED
  BY <1>1, <1>2

\* Every variable has its type in every state: no status outside the table's
\* CHECK constraint is ever written.
THEOREM TypeCorrect == Spec => []TypeOK
BY InitTypeOK, NextTypeOK, PTL DEF Spec

-----------------------------------------------------------------------------
(***************************************************************************)
(* The inductive invariant.  None of the safety properties is inductive    *)
(* alone: that a firing makes its first change when it makes one rests on  *)
(* lastSeq growing with every claim; that a one-shot is changed once, on   *)
(* no row going back to scheduled, and so on where its change can be.      *)
(***************************************************************************)

\* A job nobody has asked for has no row: CreateJob never meets one.
NoRowBeforeCreate == \A j \in Jobs : create[j] = "none" => status[j] = "absent"

\* The claim fences: whoever performs j was the last to claim it, and every
\* change made so far was made by a firing no later than the last claim.
ClaimFences ==
  \A j \in Jobs :
    /\ changedBy[j] <= lastSeq[j]
    /\ work[j] = "run" =>
         status[j] \in {"running", "deleted"} /\ lastSeq[j] = held[j] /\ changedBy[j] < held[j]

\* A successful cancellation found the row scheduled, so nobody performs it
\* and no later claim can succeed.
CancelledStays ==
  \A j \in Jobs : cancel[j] = "ok" => status[j] \in {"cancelled", "deleted"} /\ work[j] # "run"

\* Where the change of a one-shot can be.  Before the claim there is none;
\* from the claim on it is with the performer, until the row says which.
OnceSoFar(j) ==
  /\ changes[j] \in {0, 1}
  /\ status[j] \in {"absent", "scheduled"} => changes[j] = 0 /\ work[j] \in {"none", "ack"}
  /\ work[j] \in {"run", "refused"} => changes[j] = 0
  /\ work[j] = "answered" => changes[j] = 1
  /\ work[j] \in Outcomes =>
       \/ status[j] \in {"running", "deleted"}
       \/ status[j] = "failed" /\ result[j] = "interrupted"
  /\ status[j] = "done" => changes[j] = 1
  /\ status[j] = "cancelled" => changes[j] = 0
  /\ status[j] = "failed" /\ result[j] \in {"refused", "missed"} => changes[j] = 0

OnceInv == \A j \in OneShot : OnceSoFar(j)

IInv == TypeOK /\ NoRowBeforeCreate /\ ClaimFences /\ CancelledStays /\ OnceInv

\* The inductive invariant at the start.
LEMMA InitIInv == Init => IInv
<1> SUFFICES ASSUME Init PROVE IInv
  OBVIOUS
<1>1. TypeOK
  BY InitTypeOK
<1>2. NoRowBeforeCreate /\ ClaimFences /\ CancelledStays
  BY DEF Init, NoRowBeforeCreate, ClaimFences, CancelledStays
<1>3. OnceInv
  BY DEF Init, OnceInv, OnceSoFar, OneShot, Outcomes
<1>4. QED
  BY <1>1, <1>2, <1>3 DEF IInv

\* Only CreateJob makes a row, so nothing claims one before.
LEMMA NextNoRowBeforeCreate ==
  ASSUME IInv, [Next]_vars
  PROVE  NoRowBeforeCreate'
<1> USE DEF IInv, TypeOK, NoRowBeforeCreate, row, stream, consumer, requests, startup,
            outside, Fault, NoFault
<1>1. ASSUME NEW j \in Jobs, Requests(j)
      PROVE  NoRowBeforeCreate'
  BY <1>1 DEF Requests, CreateJob, ArmCreated, DeleteUnarmed, CancelRead, PurgeTimer,
              PurgeFiring, CancelRow, CancelFails
<1>2. ASSUME NEW j \in Jobs, Server(j) \/ Handler(j)
      PROVE  NoRowBeforeCreate'
  BY <1>2 DEF Server, TimerFires, Deliver, TimePasses, Handler, RunJob, FinishJob, Ack
<1>3. ASSUME NEW m \in inbox, Fire(m)
      PROVE  NoRowBeforeCreate'
  BY <1>3 DEF Fire, FireClaimed, FireRefused, FireFails, Take, Claimable
<1>4. ASSUME NEW S \in SUBSET Jobs, Sweep(S) \/ ReconcileSweep(S)
      PROVE  NoRowBeforeCreate'
  BY <1>4 DEF Sweep, ReconcileSweep, SweepRows
<1>5. ASSUME NEW j \in Jobs, ReconcileMiss(j) \/ ReconcileArm(j)
      PROVE  NoRowBeforeCreate'
  BY <1>5 DEF ReconcileMiss, MissJob, ReconcileArm
<1>6. CASE Crash \/ StreamLost \/ Restart \/ ReconcileList \/ ReconcileDone
  BY <1>6 DEF Crash, StreamLost, Restart, ReconcileList, ReconcileDone
<1>7. CASE UNCHANGED vars
  BY <1>7 DEF vars
<1>8. QED
  BY <1>1, <1>2, <1>3, <1>4, <1>5, <1>6, <1>7 DEF Next, Reconcile

\* StartJob raises lastSeq, so what has been performed stays fenced off.
LEMMA NextClaimFences ==
  ASSUME IInv, [Next]_vars
  PROVE  ClaimFences'
<1> USE DEF IInv, TypeOK, NoRowBeforeCreate, ClaimFences, row, stream, consumer, requests,
            startup, outside, Fault, NoFault
<1>1. ASSUME NEW j \in Jobs, Requests(j)
      PROVE  ClaimFences'
  BY <1>1 DEF Requests, CreateJob, ArmCreated, DeleteUnarmed, CancelRead, PurgeTimer,
              PurgeFiring, CancelRow, CancelFails
<1>2. ASSUME NEW j \in Jobs, Server(j)
      PROVE  ClaimFences'
  BY <1>2 DEF Server, TimerFires, Deliver, TimePasses
\* Only the claimed firing changes anything, and it is the one held.
<1>3. ASSUME NEW j \in Jobs, RunJob(j)
      PROVE  ClaimFences'
  BY <1>3 DEF RunJob, MakeChange, Outcomes
<1>4. ASSUME NEW j \in Jobs, FinishJob(j) \/ Ack(j)
      PROVE  ClaimFences'
  BY <1>4 DEF FinishJob, Ack, Outcomes
\* A claim raises lastSeq past every firing that changed anything before.
<1>5. ASSUME NEW m \in inbox, Fire(m)
      PROVE  ClaimFences'
  BY <1>5 DEF Fire, FireClaimed, FireRefused, FireFails, Take, Claimable
<1>6. ASSUME NEW S \in SUBSET Jobs, Sweep(S) \/ ReconcileSweep(S)
      PROVE  ClaimFences'
  BY <1>6 DEF Sweep, ReconcileSweep, SweepRows
<1>7. ASSUME NEW j \in Jobs, ReconcileMiss(j) \/ ReconcileArm(j)
      PROVE  ClaimFences'
  BY <1>7 DEF ReconcileMiss, MissJob, ReconcileArm
<1>8. CASE Crash \/ StreamLost \/ Restart \/ ReconcileList \/ ReconcileDone
  BY <1>8 DEF Crash, StreamLost, Restart, ReconcileList, ReconcileDone
<1>9. CASE UNCHANGED vars
  BY <1>9 DEF vars
<1>10. QED
  BY <1>1, <1>2, <1>3, <1>4, <1>5, <1>6, <1>7, <1>8, <1>9 DEF Next, Handler, Reconcile

\* CancelJob moves a scheduled row, and nothing claims a row it has moved.
LEMMA NextCancelledStays ==
  ASSUME IInv, [Next]_vars
  PROVE  CancelledStays'
<1> USE DEF IInv, TypeOK, NoRowBeforeCreate, ClaimFences, CancelledStays, row, stream,
            consumer, requests, startup, outside, Fault, NoFault
<1>1. ASSUME NEW j \in Jobs, CreateJob(j) \/ ArmCreated(j) \/ DeleteUnarmed(j)
      PROVE  CancelledStays'
  BY <1>1 DEF CreateJob, ArmCreated, DeleteUnarmed
\* Cancelling: a scheduled row has no performer.
<1>2. ASSUME NEW j \in Jobs,
             CancelRead(j) \/ PurgeTimer(j) \/ PurgeFiring(j) \/ CancelRow(j) \/ CancelFails(j)
      PROVE  CancelledStays'
  BY <1>2 DEF CancelRead, PurgeTimer, PurgeFiring, CancelRow, CancelFails
<1>3. ASSUME NEW j \in Jobs, Server(j)
      PROVE  CancelledStays'
  BY <1>3 DEF Server, TimerFires, Deliver, TimePasses
<1>4. ASSUME NEW j \in Jobs, Handler(j)
      PROVE  CancelledStays'
  BY <1>4 DEF Handler, RunJob, FinishJob, Ack, Outcomes
\* A claim needs a scheduled row, and a cancelled one is never that again.
<1>5. ASSUME NEW m \in inbox, Fire(m)
      PROVE  CancelledStays'
  BY <1>5 DEF Fire, FireClaimed, FireRefused, FireFails, Take, Claimable
<1>6. ASSUME NEW S \in SUBSET Jobs, Sweep(S) \/ ReconcileSweep(S)
      PROVE  CancelledStays'
  BY <1>6 DEF Sweep, ReconcileSweep, SweepRows
<1>7. ASSUME NEW j \in Jobs, ReconcileMiss(j) \/ ReconcileArm(j)
      PROVE  CancelledStays'
  BY <1>7 DEF ReconcileMiss, MissJob, ReconcileArm
<1>8. CASE Crash \/ StreamLost \/ Restart \/ ReconcileList \/ ReconcileDone
  BY <1>8 DEF Crash, StreamLost, Restart, ReconcileList, ReconcileDone
<1>9. CASE UNCHANGED vars
  BY <1>9 DEF vars
<1>10. QED
  BY <1>1, <1>2, <1>3, <1>4, <1>5, <1>6, <1>7, <1>8, <1>9 DEF Next, Requests, Reconcile

\* What each status says of the change made so far survives every step.
LEMMA NextOnceInv ==
  ASSUME IInv, [Next]_vars
  PROVE  OnceInv'
<1> USE DEF IInv, TypeOK, NoRowBeforeCreate, ClaimFences, OnceInv, OnceSoFar, OneShot,
            Statuses, Results, Outcomes, row, stream, consumer, requests, startup,
            outside, Fault, NoFault
<1>1. ASSUME NEW j \in Jobs, CreateJob(j) \/ ArmCreated(j) \/ DeleteUnarmed(j)
      PROVE  OnceInv'
  BY <1>1 DEF CreateJob, ArmCreated, DeleteUnarmed
\* Cancelling closes a scheduled row, for which nothing was changed yet.
<1>2. ASSUME NEW j \in Jobs,
             CancelRead(j) \/ PurgeTimer(j) \/ PurgeFiring(j) \/ CancelRow(j) \/ CancelFails(j)
      PROVE  OnceInv'
  BY <1>2 DEF CancelRead, PurgeTimer, PurgeFiring, CancelRow, CancelFails
<1>3. ASSUME NEW j \in Jobs, Server(j)
      PROVE  OnceInv'
  BY <1>3 DEF Server, TimerFires, Deliver, TimePasses
\* The one change, by a performer that has made none.
<1>4. ASSUME NEW j \in Jobs, RunJob(j)
      PROVE  OnceInv'
  BY <1>4 DEF RunJob, MakeChange
\* The row takes over what the performer knew, or keeps "interrupted".
<1>5. ASSUME NEW j \in Jobs, FinishJob(j)
      PROVE  OnceInv'
  BY <1>5 DEF FinishJob, Finished
<1>6. ASSUME NEW j \in Jobs, Ack(j)
      PROVE  OnceInv'
  BY <1>6 DEF Ack
<1>7. ASSUME NEW m \in inbox, Fire(m)
      PROVE  OnceInv'
  BY <1>7 DEF Fire, FireClaimed, FireRefused, FireFails, Take, Claimable
<1>8. ASSUME NEW S \in SUBSET Jobs, Sweep(S) \/ ReconcileSweep(S)
      PROVE  OnceInv'
  BY <1>8 DEF Sweep, ReconcileSweep, SweepRows
<1>9. ASSUME NEW j \in Jobs, ReconcileMiss(j) \/ ReconcileArm(j)
      PROVE  OnceInv'
  BY <1>9 DEF ReconcileMiss, MissJob, ReconcileArm
<1>10. CASE Crash \/ StreamLost \/ Restart \/ ReconcileList \/ ReconcileDone
  BY <1>10 DEF Crash, StreamLost, Restart, ReconcileList, ReconcileDone
<1>11. CASE UNCHANGED vars
  BY <1>11 DEF vars
<1>12. QED
  BY <1>1, <1>2, <1>3, <1>4, <1>5, <1>6, <1>7, <1>8, <1>9, <1>10, <1>11
     DEF Next, Requests, Handler, Reconcile

\* The four parts together survive every step.
LEMMA NextIInv == IInv /\ [Next]_vars => IInv'
BY NextTypeOK, NextNoRowBeforeCreate, NextClaimFences, NextCancelledStays, NextOnceInv DEF IInv

\* The inductive invariant holds of every behaviour.
THEOREM Inductive == Spec => []IInv
BY InitIInv, NextIInv, PTL DEF Spec

-----------------------------------------------------------------------------
(***************************************************************************)
(* The safety properties.                                                  *)
(***************************************************************************)

\* The firing being performed is the one its row was claimed for, whatever the
\* sweep, cancelJob, MissJob or a redelivery did meanwhile.
THEOREM RunnerOwns == Spec => []RunnerOwnsRow
<1>1. IInv => RunnerOwnsRow
  BY DEF IInv, ClaimFences, RunnerOwnsRow
<1>2. QED
  BY <1>1, Inductive, PTL

\* No firing makes a second change, however often it is delivered.
THEOREM FiringOnce == Spec => []FiringChangesOnce
<1>1. IInv => FiringChangesOnce
  BY DEF IInv, ClaimFences, FiringChangesOnce
<1>2. QED
  BY <1>1, Inductive, PTL

\* Work scheduled once is done at most once in the life of its row.
THEOREM OneShotOnce == Spec => []OneShotChangesOnce
<1>1. IInv => OneShotChangesOnce
  BY DEF IInv, OnceInv, OnceSoFar, OneShotChangesOnce
<1>2. QED
  BY <1>1, Inductive, PTL

\* What a finished one-shot's row says is what happened.
THEOREM RecordTruthful == Spec => []RecordIsTruthful
<1>1. IInv => RecordIsTruthful
  BY DEF IInv, OnceInv, OnceSoFar, RecordIsTruthful
<1>2. QED
  BY <1>1, Inductive, PTL

\* Only the one inside RunJob changes anything.
LEMMA OnlyRunChanges ==
  ASSUME IInv, [Next]_vars, NEW k \in Jobs, work[k] # "run"
  PROVE  changes'[k] = changes[k]
<1> USE DEF IInv, TypeOK, outside, requests, startup, row, stream, consumer
<1>1. ASSUME NEW j \in Jobs, RunJob(j)
      PROVE  changes'[k] = changes[k]
  BY <1>1 DEF RunJob, MakeChange
<1>2. ASSUME NEW j \in Jobs, Requests(j) \/ Server(j) \/ FinishJob(j) \/ Ack(j)
      PROVE  UNCHANGED changes
  BY <1>2 DEF Requests, CreateJob, ArmCreated, DeleteUnarmed, CancelRead, PurgeTimer,
              PurgeFiring, CancelRow, CancelFails, Server, TimerFires, Deliver, TimePasses,
              FinishJob, Ack
<1>3. ASSUME NEW m \in inbox, Fire(m)
      PROVE  UNCHANGED changes
  BY <1>3 DEF Fire, FireClaimed, FireRefused, FireFails
<1>4. ASSUME (\E S \in SUBSET Jobs : Sweep(S)) \/ Crash \/ StreamLost \/ Reconcile
      PROVE  UNCHANGED changes
  BY <1>4 DEF Sweep, Crash, StreamLost, Reconcile, Restart, ReconcileSweep, ReconcileList,
              ReconcileMiss, MissJob, ReconcileArm, ReconcileDone
<1>5. CASE UNCHANGED vars
  BY <1>5 DEF vars
<1>6. QED
  BY <1>1, <1>2, <1>3, <1>4, <1>5 DEF Next, Handler

\* Once a cancellation was answered with success the job changes nothing more.
THEOREM CancelHolds == Spec => NoChangeAfterCancel
<1>1. IInv /\ [Next]_vars => [\A j \in Jobs : cancel[j] = "ok" => changes'[j] = changes[j]]_vars
  BY OnlyRunChanges DEF IInv, CancelledStays
<1>2. QED
  BY <1>1, Inductive, PTL DEF Spec, NoChangeAfterCancel

\* Every statement that moves a row, but for DeleteJob, asks for a status that
\* is not final; and CreateJob meets no row at all.
LEMMA StepOfHistory ==
  ASSUME IInv, [Next]_vars, NEW k \in Jobs, status[k] \in Terminal
  PROVE  /\ status'[k] \in {status[k], "deleted"}
         /\ status'[k] = status[k] => result'[k] = result[k]
<1> DEFINE Kept == /\ status'[k] \in {status[k], "deleted"}
                   /\ status'[k] = status[k] => result'[k] = result[k]
<1> USE DEF IInv, TypeOK, NoRowBeforeCreate, Terminal, Statuses, Results, row, stream,
            consumer, requests, startup, outside
<1>1. ASSUME NEW j \in Jobs, Requests(j)
      PROVE  Kept
  BY <1>1 DEF Requests, CreateJob, ArmCreated, DeleteUnarmed, CancelRead, PurgeTimer,
              PurgeFiring, CancelRow, CancelFails
<1>2. ASSUME NEW j \in Jobs, Server(j) \/ Handler(j)
      PROVE  Kept
  BY <1>2 DEF Server, TimerFires, Deliver, TimePasses, Handler, RunJob, FinishJob, Ack
<1>3. ASSUME NEW m \in inbox, Fire(m)
      PROVE  Kept
  BY <1>3 DEF Fire, FireClaimed, FireRefused, FireFails, Claimable
<1>4. ASSUME NEW S \in SUBSET Jobs, Sweep(S) \/ ReconcileSweep(S)
      PROVE  Kept
  BY <1>4 DEF Sweep, ReconcileSweep, SweepRows
<1>5. ASSUME NEW j \in Jobs, ReconcileMiss(j) \/ ReconcileArm(j)
      PROVE  Kept
  BY <1>5 DEF ReconcileMiss, MissJob, ReconcileArm
<1>6. CASE Crash \/ StreamLost \/ Restart \/ ReconcileList \/ ReconcileDone \/ UNCHANGED vars
  BY <1>6 DEF Crash, StreamLost, Restart, ReconcileList, ReconcileDone, vars
<1>7. QED
  BY <1>1, <1>2, <1>3, <1>4, <1>5, <1>6 DEF Next, Reconcile

\* A row that reached its end is never moved again, but for DeleteJob.
THEOREM HistoryStays == Spec => HistoryIsFinal
<1>1. IInv /\ [Next]_vars =>
        [\A j \in Jobs : status[j] \in Terminal =>
           status'[j] \in {status[j], "deleted"}
             /\ (status'[j] = status[j] => result'[j] = result[j])]_vars
  BY StepOfHistory
<1>2. QED
  BY <1>1, Inductive, PTL DEF Spec, HistoryIsFinal

-----------------------------------------------------------------------------
(***************************************************************************)
(* The scheduler implements OneChangePerClaim.  The abstract state is the  *)
(* row's status with the end states made one, the ticket is a performer    *)
(* inside RunJob; everything else the scheduler does is a stutter.         *)
(***************************************************************************)

Tickets == {j \in Jobs : work[j] = "run"}

\* The initial states map to the promise's initial states.
LEMMA InitImplements == Init => Promise!Init
BY DEF Init, Promise!Init, PromiseState

\* A step that changes neither what rows mean nor who may change something.
LEMMA Stutter ==
  ASSUME PromiseState' = PromiseState, Tickets' = Tickets, changes' = changes
  PROVE  UNCHANGED Promise!vars
BY DEF Promise!vars, Tickets

\* A step that moves one row, and hands out or spends no ticket, is a Close, a
\* Settle, a Reopen or a stutter.
LEMMA MoveRow ==
  ASSUME TypeOK, NEW j \in Jobs, NEW st,
         status' = [status EXCEPT ![j] = st],
         Tickets' = Tickets, changes' = changes,
         \/ status[j] = "absent" /\ st = "scheduled"
         \/ status[j] = "scheduled" /\ st \in {"cancelled", "failed"}
         \/ status[j] = "running" /\ st \in {"done", "failed"}
         \/ status[j] = "running" /\ st = "scheduled" /\ j \in Repeating
         \/ st = "deleted"
  PROVE  [Promise!Next]_(Promise!vars)
<1>1. PromiseState' = [PromiseState EXCEPT ![j] = PromiseState'[j]]
  BY DEF TypeOK, PromiseState
<1>2. PromiseState' = [w \in Jobs |-> IF w \in {j} THEN PromiseState'[j] ELSE PromiseState[w]]
  BY DEF TypeOK, PromiseState
<1>3. CASE PromiseState'[j] = PromiseState[j]
  <2>1. PromiseState' = PromiseState
    BY <1>1, <1>3 DEF PromiseState
  <2>2. QED
    BY <2>1, Stutter
<1>4. CASE PromiseState[j] = "open" /\ PromiseState'[j] = "closed"
  <2>1. Promise!Close(j)
    BY <1>1, <1>4 DEF Promise!Close, Tickets
  <2>2. QED
    BY <2>1 DEF Promise!Next
<1>5. CASE PromiseState[j] = "claimed" /\ PromiseState'[j] = "closed"
  <2>1. Promise!Settle({j})
    BY <1>2, <1>5 DEF Promise!Settle, Tickets
  <2>2. QED
    BY <2>1 DEF Promise!Next
<1>6. CASE PromiseState[j] = "claimed" /\ PromiseState'[j] = "open" /\ j \in Repeating
  <2>1. Promise!Reopen(j)
    BY <1>1, <1>6 DEF Promise!Reopen, Tickets, OneShot
  <2>2. QED
    BY <2>1 DEF Promise!Next
<1>7. QED
  BY <1>3, <1>4, <1>5, <1>6 DEF PromiseState, TypeOK, Statuses

\* A sweep settles every row it closes.
LEMMA SweepSettles ==
  ASSUME NEW S \in SUBSET Jobs, SweepRows(S), Tickets' = Tickets, changes' = changes
  PROVE  [Promise!Next]_(Promise!vars)
<1>1. Promise!Settle(S)
  BY DEF SweepRows, Promise!Settle, PromiseState, Tickets
<1>2. QED
  BY <1>1 DEF Promise!Next

\* The consumer claims: a ticket for the handler, or, when the answer of a
\* committed claim is lost, a claim without one.
LEMMA FireImplements ==
  ASSUME IInv, NEW m \in inbox, Fire(m)
  PROVE  [Promise!Next]_(Promise!vars)
<1> DEFINE j == m.job
<1> USE DEF IInv, TypeOK, Take, row, stream, consumer, requests, startup, outside
<1>1. j \in Jobs
  OBVIOUS
<1>2. CASE FireClaimed(m)
  <2>1. Tickets' = Tickets \cup {j}
    BY <1>1, <1>2 DEF FireClaimed, Tickets
  <2>2. PromiseState[j] = "open" /\ PromiseState' = [PromiseState EXCEPT ![j] = "claimed"]
    BY <1>1, <1>2 DEF FireClaimed, Claimable, PromiseState
  <2>3. Promise!Claim(j)
    BY <1>2, <2>1, <2>2 DEF FireClaimed, Promise!Claim, Tickets
  <2>4. QED
    BY <1>1, <2>3 DEF Promise!Next
<1>3. CASE FireRefused(m)
  <2>1. PromiseState' = PromiseState /\ Tickets' = Tickets /\ changes' = changes
    BY <1>1, <1>3 DEF FireRefused, PromiseState, Tickets
  <2>2. QED
    BY <2>1, Stutter
<1>4. CASE FireFails(m)
  <2>1. Tickets' = Tickets /\ changes' = changes
    BY <1>4 DEF FireFails, Tickets
  <2>2. CASE UNCHANGED status
    <3>1. PromiseState' = PromiseState
      BY <2>2 DEF PromiseState
    <3>2. QED
      BY <2>1, <3>1, Stutter
  <2>3. CASE Claimable(m.job, m.seq) /\ status' = [status EXCEPT ![m.job] = "running"]
    <3>1. PromiseState[j] = "open" /\ PromiseState' = [PromiseState EXCEPT ![j] = "claimed"]
      BY <1>1, <2>3 DEF Claimable, PromiseState
    <3>2. Promise!Claim(j)
      BY <2>1, <3>1 DEF Promise!Claim, Tickets
    <3>3. QED
      BY <1>1, <3>2 DEF Promise!Next
  <2>4. QED
    BY <1>4, <2>2, <2>3 DEF FireFails
<1>5. QED
  BY <1>2, <1>3, <1>4 DEF Fire

\* RunJob spends the ticket, on a change or on none; FinishJob moves the row.
LEMMA HandlerImplements ==
  ASSUME IInv, NEW j \in Jobs, Handler(j)
  PROVE  [Promise!Next]_(Promise!vars)
<1> USE DEF IInv, TypeOK, row, stream, consumer, requests, startup, outside
<1>1. CASE RunJob(j)
  <2>1. PromiseState' = PromiseState /\ Tickets' = Tickets \ {j} /\ j \in Tickets
    BY <1>1 DEF RunJob, MakeChange, PromiseState, Tickets, Outcomes
  <2>2. CASE changes' = changes
    <3>1. Promise!GiveUp({j})
      BY <2>1, <2>2 DEF Promise!GiveUp, Tickets
    <3>2. QED
      BY <3>1 DEF Promise!Next
  <2>3. CASE MakeChange(j)
    <3>1. Promise!Change(j)
      BY <2>1, <2>3 DEF MakeChange, Promise!Change, Tickets
    <3>2. QED
      BY <3>1 DEF Promise!Next
  <2>4. QED
    BY <1>1, <2>2, <2>3 DEF RunJob
<1>2. CASE FinishJob(j)
  <2>1. Tickets' = Tickets /\ changes' = changes
    BY <1>2 DEF FinishJob, Tickets, Outcomes
  <2>2. CASE status' = status
    <3>1. PromiseState' = PromiseState
      BY <2>2 DEF PromiseState
    <3>2. QED
      BY <2>1, <3>1, Stutter
  <2>3. CASE /\ status[j] = "running"
             /\ status' = [status EXCEPT ![j] = Finished(j, work[j])]
    <3>1. \/ Finished(j, work[j]) \in {"done", "failed"}
          \/ Finished(j, work[j]) = "scheduled" /\ j \in Repeating
      BY DEF Finished
    <3>2. QED
      BY <2>1, <2>3, <3>1, MoveRow
  <2>4. QED
    BY <1>2, <2>2, <2>3 DEF FinishJob
<1>3. CASE Ack(j)
  <2>1. PromiseState' = PromiseState /\ Tickets' = Tickets /\ changes' = changes
    BY <1>3 DEF Ack, PromiseState, Tickets
  <2>2. QED
    BY <2>1, Stutter
<1>4. QED
  BY <1>1, <1>2, <1>3 DEF Handler

\* Requests only ever create, close or delete a row.
LEMMA RequestsImplement ==
  ASSUME IInv, NEW j \in Jobs, Requests(j)
  PROVE  [Promise!Next]_(Promise!vars)
<1> USE DEF IInv, TypeOK, row, stream, consumer, requests, startup, outside
<1>1. Tickets' = Tickets /\ changes' = changes
  BY DEF Requests, CreateJob, ArmCreated, DeleteUnarmed, CancelRead, PurgeTimer,
         PurgeFiring, CancelRow, CancelFails, Tickets
<1>2. CASE status' = status
  <2>1. PromiseState' = PromiseState
    BY <1>2 DEF PromiseState
  <2>2. QED
    BY <1>1, <2>1, Stutter
<1>3. CASE CreateJob(j)
  <2>1. status[j] = "absent" /\ status' = [status EXCEPT ![j] = "scheduled"]
    BY <1>3 DEF CreateJob, NoRowBeforeCreate
  <2>2. QED
    BY <1>1, <2>1, MoveRow
<1>4. CASE DeleteUnarmed(j) /\ status' = [status EXCEPT ![j] = "deleted"]
  BY <1>1, <1>4, MoveRow
<1>5. CASE status[j] = "scheduled" /\ status' = [status EXCEPT ![j] = "cancelled"]
  BY <1>1, <1>5, MoveRow
<1>6. QED
  BY <1>2, <1>3, <1>4, <1>5
     DEF Requests, ArmCreated, DeleteUnarmed, CancelRead, PurgeTimer, PurgeFiring,
         CancelRow, CancelFails

\* The sweep settles, MissJob closes, a crash gives every ticket up.
LEMMA ProcessImplements ==
  ASSUME IInv, (\E S \in SUBSET Jobs : Sweep(S)) \/ Crash \/ StreamLost \/ Reconcile
  PROVE  [Promise!Next]_(Promise!vars)
<1> USE DEF IInv, TypeOK, row, stream, consumer, requests, startup, outside
<1>1. ASSUME NEW S \in SUBSET Jobs, Sweep(S) \/ ReconcileSweep(S)
      PROVE  [Promise!Next]_(Promise!vars)
  <2>1. SweepRows(S) /\ Tickets' = Tickets /\ changes' = changes
    BY <1>1 DEF Sweep, ReconcileSweep, Tickets
  <2>2. QED
    BY <2>1, SweepSettles
<1>2. CASE Crash
  <2>1. PromiseState' = PromiseState /\ Tickets' = {} /\ changes' = changes
    BY <1>2 DEF Crash, PromiseState, Tickets
  <2>2. Promise!GiveUp(Jobs)
    BY <2>1 DEF Promise!GiveUp, Tickets
  <2>3. QED
    BY <2>2 DEF Promise!Next
<1>3. CASE StreamLost \/ Restart \/ ReconcileList \/ ReconcileDone
  <2>1. PromiseState' = PromiseState /\ Tickets' = Tickets /\ changes' = changes
    BY <1>3 DEF StreamLost, Restart, ReconcileList, ReconcileDone, PromiseState, Tickets
  <2>2. QED
    BY <2>1, Stutter
<1>4. ASSUME NEW j \in Jobs, ReconcileMiss(j) \/ ReconcileArm(j)
      PROVE  [Promise!Next]_(Promise!vars)
  <2>1. Tickets' = Tickets /\ changes' = changes
    BY <1>4 DEF ReconcileMiss, MissJob, ReconcileArm, Tickets
  <2>2. CASE status' = status
    <3>1. PromiseState' = PromiseState
      BY <2>2 DEF PromiseState
    <3>2. QED
      BY <2>1, <3>1, Stutter
  <2>3. CASE status[j] = "scheduled" /\ status' = [status EXCEPT ![j] = "failed"]
    BY <2>1, <2>3, MoveRow
  <2>4. QED
    BY <1>4, <2>2, <2>3 DEF ReconcileMiss, MissJob, ReconcileArm
<1>5. QED
  BY <1>1, <1>2, <1>3, <1>4 DEF Reconcile

\* Every step of the scheduler is a step of the promise, or a stutter.
LEMMA StepImplements ==
  ASSUME IInv, [Next]_vars
  PROVE  [Promise!Next]_(Promise!vars)
<1>1. ASSUME NEW j \in Jobs, Server(j)
      PROVE  [Promise!Next]_(Promise!vars)
  <2>1. PromiseState' = PromiseState /\ Tickets' = Tickets /\ changes' = changes
    BY <1>1 DEF Server, TimerFires, Deliver, TimePasses, row, consumer, outside,
                PromiseState, Tickets
  <2>2. QED
    BY <2>1, Stutter
<1>2. CASE UNCHANGED vars
  <2>1. PromiseState' = PromiseState /\ Tickets' = Tickets /\ changes' = changes
    BY <1>2 DEF vars, row, consumer, outside, PromiseState, Tickets
  <2>2. QED
    BY <2>1, Stutter
<1>3. QED
  BY <1>1, <1>2, FireImplements, HandlerImplements, RequestsImplement, ProcessImplements
     DEF Next

\* Every behaviour of the scheduler is one OneChangePerClaim allows.
THEOREM Implements == Spec => ImplementsOneChangePerClaim
<1>1. IInv /\ [Next]_vars => [Promise!Next]_(Promise!vars)
  BY StepImplements
<1>2. QED
  BY <1>1, InitImplements, Inductive, PTL DEF Spec, Promise!Spec, ImplementsOneChangePerClaim

-----------------------------------------------------------------------------
\* The safety of scheduled work as a whole, the invariant of the runs.
THEOREM JobsKept == Spec => []JobsAreKept
<1>1. TypeOK /\ RunnerOwnsRow /\ FiringChangesOnce /\ OneShotChangesOnce /\ RecordIsTruthful
      => JobsAreKept
  BY DEF JobsAreKept
<1>2. QED
  BY <1>1, TypeCorrect, RunnerOwns, FiringOnce, OneShotOnce, RecordTruthful, PTL

-----------------------------------------------------------------------------
(***************************************************************************)
(* While no request fails, for any number of crashes: what is scheduled    *)
(* will fire.  PromiseKept is not inductive: it holds because Reconcile    *)
(* has something to do for every row when the process comes back, because  *)
(* nothing is handled meanwhile, and because no firing is spent (refused,  *)
(* acknowledged or replaced) that is ahead of the row's last claim.        *)
(***************************************************************************)

\* Handlers, pulled firings and unfinished requests end with the process.
DownIsQuiet ==
  boot # "up" =>
    /\ inbox = {}
    /\ \A j \in Jobs :
         /\ work[j] = "none"
         /\ create[j] \notin {"inserted", "unarmed"}
         /\ cancel[j] \notin {"read", "timerPurged", "disarmed"}

\* No firing and no claim is ahead of the stream.
SeqBounds ==
  /\ \A j \in Jobs : firing[j] <= seq /\ lastSeq[j] <= seq
  /\ \A m \in inbox : m.seq <= seq

\* Nothing is under way for a job whose Arm has not succeeded, a refused one is
\* deleted, and Reconcile re-arms no job of either kind.
UnarmedIsStill ==
  /\ \A j \in Jobs :
       /\ create[j] \in {"none", "inserted", "unarmed", "refused"} =>
            j \notin armed /\ firing[j] = 0 /\ work[j] = "none" /\ \A m \in inbox : m.job # j
       /\ create[j] = "refused" => status[j] = "deleted"
  /\ \A j \in todo : create[j] \in {"created", "abandoned"}

\* A repeating job nobody cancels keeps its timer while anything else is going on for it.
RepeatingStaysArmed ==
  \A j \in Repeating :
    /\ cancel[j] = "none"
    /\ \/ firing[j] # 0 \/ work[j] # "none" \/ status[j] = "running"
       \/ \E m \in inbox : m.job = j
    => j \in armed

\* What is about to be acknowledged of a one-shot still to come is an old firing.
AckedIsOld ==
  \A j \in OneShot : work[j] = "ack" /\ status[j] = "scheduled" => held[j] <= lastSeq[j]

\* PromiseKept, and what Reconcile has still to do for it.
PromiseOrTodo ==
  boot \in {"arming", "up"} => \A j \in Jobs :
    status[j] = "scheduled" /\ create[j] \notin {"inserted", "unarmed"} /\ cancel[j] = "none"
      => WillFire(j) \/ (boot = "arming" /\ j \in todo)

PromiseInv ==
  /\ DownIsQuiet
  /\ SeqBounds
  /\ UnarmedIsStill
  /\ RepeatingStaysArmed
  /\ AckedIsOld
  /\ PromiseOrTodo

\* Reconcile has seen to a row whose moment had passed before anything is served.
OversleptInv ==
  \A j \in overslept :
    /\ j \in OneShot
    /\ clock[j] = "late"
    /\ status[j] # "absent"
    /\ work[j] # "run"
    /\ status[j] = "scheduled" =>
         boot \in {"down", "sweeping", "listing"} \/ (boot = "arming" /\ j \in todo)

\* A request cannot fail where none is allowed to.
LEMMA NothingFails ==
  ASSUME MaxFaults = 0, TypeOK
  PROVE  ~Fault
BY DEF TypeOK, Fault

\* The parts at the start.
LEMMA InitPromiseInv == Init => PromiseInv /\ OversleptInv
<1> SUFFICES ASSUME Init PROVE PromiseInv /\ OversleptInv
  OBVIOUS
<1> USE DEF Init
<1>1. DownIsQuiet /\ SeqBounds /\ UnarmedIsStill
  BY DEF DownIsQuiet, SeqBounds, UnarmedIsStill
<1>2. RepeatingStaysArmed /\ AckedIsOld
  BY JobsAssumption DEF RepeatingStaysArmed, AckedIsOld, OneShot
<1>3. PromiseOrTodo /\ OversleptInv
  BY DEF PromiseOrTodo, OversleptInv
<1>4. QED
  BY <1>1, <1>2, <1>3 DEF PromiseInv

\* Only a process that serves starts a request, pulls a firing or claims one.
LEMMA NextDownIsQuiet ==
  ASSUME IInv, DownIsQuiet, [Next]_vars
  PROVE  DownIsQuiet'
<1> USE DEF IInv, TypeOK, DownIsQuiet, row, stream, consumer, requests, startup, outside
<1>1. ASSUME NEW j \in Jobs, CreateJob(j) \/ ArmCreated(j) \/ DeleteUnarmed(j)
      PROVE  DownIsQuiet'
  BY <1>1 DEF CreateJob, ArmCreated, DeleteUnarmed
<1>2. ASSUME NEW j \in Jobs,
             CancelRead(j) \/ PurgeTimer(j) \/ PurgeFiring(j) \/ CancelRow(j) \/ CancelFails(j)
      PROVE  DownIsQuiet'
  BY <1>2 DEF CancelRead, PurgeTimer, PurgeFiring, CancelRow, CancelFails
<1>3. ASSUME NEW j \in Jobs, Server(j)
      PROVE  DownIsQuiet'
  BY <1>3 DEF Server, TimerFires, Deliver, TimePasses
<1>4. ASSUME NEW j \in Jobs, Handler(j)
      PROVE  DownIsQuiet'
  BY <1>4 DEF Handler, RunJob, FinishJob, Ack, Outcomes
<1>5. ASSUME NEW m \in inbox, Fire(m)
      PROVE  DownIsQuiet'
  BY <1>5 DEF Fire, FireClaimed, FireRefused, FireFails, Take
<1>6. ASSUME NEW S \in SUBSET Jobs, Sweep(S) \/ ReconcileSweep(S)
      PROVE  DownIsQuiet'
  BY <1>6 DEF Sweep, ReconcileSweep, SweepRows
<1>7. ASSUME NEW j \in Jobs, ReconcileMiss(j) \/ ReconcileArm(j)
      PROVE  DownIsQuiet'
  BY <1>7 DEF ReconcileMiss, MissJob, ReconcileArm
<1>8. CASE Crash
  BY <1>8 DEF Crash
<1>9. CASE StreamLost \/ Restart \/ ReconcileList \/ ReconcileDone
  BY <1>9 DEF StreamLost, Restart, ReconcileList, ReconcileDone
<1>10. CASE UNCHANGED vars
  BY <1>10 DEF vars
<1>11. QED
  BY <1>1, <1>2, <1>3, <1>4, <1>5, <1>6, <1>7, <1>8, <1>9, <1>10
     DEF Next, Requests, Reconcile

\* The stream numbers its messages upwards, as long as it is not lost.
LEMMA NextSeqBounds ==
  ASSUME MaxFaults = 0, IInv, SeqBounds, [Next]_vars
  PROVE  SeqBounds'
<1> USE DEF IInv, TypeOK, SeqBounds, row, stream, consumer, requests, startup, outside
<1>1. ASSUME NEW j \in Jobs, Requests(j)
      PROVE  SeqBounds'
  BY <1>1 DEF Requests, CreateJob, ArmCreated, DeleteUnarmed, CancelRead, PurgeTimer,
              PurgeFiring, CancelRow, CancelFails
<1>2. ASSUME NEW j \in Jobs, TimerFires(j)
      PROVE  SeqBounds'
  <2>1. seq' = seq + 1 /\ inbox' = inbox /\ lastSeq' = lastSeq
        /\ firing' = [firing EXCEPT ![j] = seq']
    BY <1>2 DEF TimerFires
  <2>2. \A k \in Jobs : firing'[k] <= seq' /\ lastSeq'[k] <= seq'
    BY <2>1
  <2>3. \A m \in inbox : m.seq \in Nat
    OBVIOUS
  <2>4. QED
    BY <2>1, <2>2, <2>3
<1>3. ASSUME NEW j \in Jobs, Deliver(j) \/ TimePasses(j)
      PROVE  SeqBounds'
  BY <1>3 DEF Deliver, TimePasses
<1>4. ASSUME NEW j \in Jobs, Handler(j)
      PROVE  SeqBounds'
  BY <1>4 DEF Handler, RunJob, FinishJob, Ack
<1>5. ASSUME NEW m \in inbox, Fire(m)
      PROVE  SeqBounds'
  BY <1>5 DEF Fire, FireClaimed, FireRefused, FireFails, Take, Claimable
<1>6. ASSUME NEW S \in SUBSET Jobs, Sweep(S) \/ ReconcileSweep(S)
      PROVE  SeqBounds'
  BY <1>6 DEF Sweep, ReconcileSweep, SweepRows
<1>7. ASSUME NEW j \in Jobs, ReconcileMiss(j) \/ ReconcileArm(j)
      PROVE  SeqBounds'
  BY <1>7 DEF ReconcileMiss, ReconcileArm
<1>8. CASE Crash \/ Restart \/ ReconcileList \/ ReconcileDone
  BY <1>8 DEF Crash, Restart, ReconcileList, ReconcileDone
<1>9. CASE StreamLost
  BY <1>9, NothingFails DEF StreamLost
<1>10. CASE UNCHANGED vars
  BY <1>10 DEF vars
<1>11. QED
  BY <1>1, <1>2, <1>3, <1>4, <1>5, <1>6, <1>7, <1>8, <1>9, <1>10 DEF Next, Server, Reconcile

\* Nothing is put in the stream for a job before its Arm.
LEMMA NextUnarmedIsStill ==
  ASSUME MaxFaults = 0, IInv, DownIsQuiet, UnarmedIsStill, [Next]_vars
  PROVE  UnarmedIsStill'
<1> USE DEF IInv, TypeOK, UnarmedIsStill, row, stream, consumer, requests, startup, outside
<1>1. ASSUME NEW j \in Jobs, CreateJob(j) \/ ArmCreated(j) \/ DeleteUnarmed(j)
      PROVE  UnarmedIsStill'
  BY <1>1, NothingFails DEF CreateJob, ArmCreated, DeleteUnarmed
<1>2. ASSUME NEW j \in Jobs,
             CancelRead(j) \/ PurgeTimer(j) \/ PurgeFiring(j) \/ CancelRow(j) \/ CancelFails(j)
      PROVE  UnarmedIsStill'
  BY <1>2 DEF CancelRead, PurgeTimer, PurgeFiring, CancelRow, CancelFails
<1>3. ASSUME NEW j \in Jobs, Server(j)
      PROVE  UnarmedIsStill'
  BY <1>3 DEF Server, TimerFires, Deliver, TimePasses
<1>4. ASSUME NEW j \in Jobs, Handler(j)
      PROVE  UnarmedIsStill'
  BY <1>4 DEF Handler, RunJob, FinishJob, Ack, Outcomes
<1>5. ASSUME NEW m \in inbox, Fire(m)
      PROVE  UnarmedIsStill'
  BY <1>5 DEF Fire, FireClaimed, FireRefused, FireFails, Take, Claimable
<1>6. ASSUME NEW S \in SUBSET Jobs, Sweep(S) \/ ReconcileSweep(S)
      PROVE  UnarmedIsStill'
  BY <1>6 DEF Sweep, ReconcileSweep, SweepRows
<1>7. ASSUME NEW j \in Jobs, ReconcileMiss(j) \/ ReconcileArm(j)
      PROVE  UnarmedIsStill'
  BY <1>7 DEF ReconcileMiss, MissJob, ReconcileArm
<1>8. CASE Crash
  BY <1>8 DEF Crash
\* What is pending was asked for, armed or left behind by a crash.
<1>9. CASE ReconcileList
  <2>1. \A j \in PendingJobs : create[j] \in {"created", "abandoned"}
    <3> SUFFICES ASSUME NEW j \in PendingJobs PROVE create[j] \in {"created", "abandoned"}
      OBVIOUS
    <3>1. j \in Jobs /\ status[j] = "scheduled" /\ create[j] # "none" /\ create[j] # "refused"
      BY DEF PendingJobs, NoRowBeforeCreate
    <3>2. create[j] \notin {"inserted", "unarmed"}
      BY <1>9, <3>1 DEF ReconcileList, DownIsQuiet
    <3>3. QED
      BY <3>1, <3>2
  <2>2. QED
    BY <1>9, <2>1 DEF ReconcileList
<1>10. CASE StreamLost \/ Restart \/ ReconcileDone
  BY <1>10, NothingFails DEF StreamLost, Restart, ReconcileDone
<1>11. CASE UNCHANGED vars
  BY <1>11 DEF vars
<1>12. QED
  BY <1>1, <1>2, <1>3, <1>4, <1>5, <1>6, <1>7, <1>8, <1>9, <1>10, <1>11
     DEF Next, Requests, Reconcile

\* A cron timer stays when it fires, and only a cancellation purges it.
LEMMA NextRepeatingStaysArmed ==
  ASSUME MaxFaults = 0, IInv, UnarmedIsStill, RepeatingStaysArmed, [Next]_vars
  PROVE  RepeatingStaysArmed'
<1> USE JobsAssumption DEF IInv, TypeOK, RepeatingStaysArmed, row, stream, consumer, requests,
        startup, outside
<1>1. ASSUME NEW j \in Jobs, CreateJob(j) \/ ArmCreated(j) \/ DeleteUnarmed(j)
      PROVE  RepeatingStaysArmed'
  BY <1>1 DEF CreateJob, ArmCreated, DeleteUnarmed
<1>2. ASSUME NEW j \in Jobs,
             CancelRead(j) \/ PurgeTimer(j) \/ PurgeFiring(j) \/ CancelRow(j) \/ CancelFails(j)
      PROVE  RepeatingStaysArmed'
  BY <1>2 DEF CancelRead, PurgeTimer, PurgeFiring, CancelRow, CancelFails
<1>3. ASSUME NEW j \in Jobs, Server(j)
      PROVE  RepeatingStaysArmed'
  BY <1>3 DEF Server, TimerFires, Deliver, TimePasses
<1>4. ASSUME NEW j \in Jobs, Handler(j)
      PROVE  RepeatingStaysArmed'
  BY <1>4 DEF Handler, RunJob, FinishJob, Ack, Outcomes, Finished
<1>5. ASSUME NEW m \in inbox, Fire(m)
      PROVE  RepeatingStaysArmed'
  BY <1>5 DEF Fire, FireClaimed, FireRefused, FireFails, Take, Claimable
<1>6. ASSUME NEW S \in SUBSET Jobs, Sweep(S) \/ ReconcileSweep(S)
      PROVE  RepeatingStaysArmed'
  BY <1>6 DEF Sweep, ReconcileSweep, SweepRows
<1>7. ASSUME NEW j \in Jobs, ReconcileMiss(j) \/ ReconcileArm(j)
      PROVE  RepeatingStaysArmed'
  BY <1>7 DEF ReconcileMiss, MissJob, ReconcileArm
<1>8. CASE Crash
  BY <1>8 DEF Crash
<1>9. CASE StreamLost \/ Restart \/ ReconcileList \/ ReconcileDone
  BY <1>9, NothingFails DEF StreamLost, Restart, ReconcileList, ReconcileDone
<1>10. CASE UNCHANGED vars
  BY <1>10 DEF vars
<1>11. QED
  BY <1>1, <1>2, <1>3, <1>4, <1>5, <1>6, <1>7, <1>8, <1>9, <1>10
     DEF Next, Requests, Reconcile

\* A one-shot's row is not claimable only when the firing is an old one, and a
\* row that was claimed is not scheduled again.
LEMMA NextAckedIsOld ==
  ASSUME IInv, UnarmedIsStill, AckedIsOld, [Next]_vars
  PROVE  AckedIsOld'
<1> USE DEF IInv, TypeOK, AckedIsOld, row, stream, consumer, requests, startup, outside
<1>1. ASSUME NEW j \in Jobs, CreateJob(j) \/ ArmCreated(j) \/ DeleteUnarmed(j)
      PROVE  AckedIsOld'
  BY <1>1 DEF CreateJob, ArmCreated, DeleteUnarmed, UnarmedIsStill, OneShot
<1>2. ASSUME NEW j \in Jobs,
             CancelRead(j) \/ PurgeTimer(j) \/ PurgeFiring(j) \/ CancelRow(j) \/ CancelFails(j)
      PROVE  AckedIsOld'
  BY <1>2 DEF CancelRead, PurgeTimer, PurgeFiring, CancelRow, CancelFails, OneShot
<1>3. ASSUME NEW j \in Jobs, Server(j)
      PROVE  AckedIsOld'
  BY <1>3 DEF Server, TimerFires, Deliver, TimePasses
<1>4. ASSUME NEW j \in Jobs, Handler(j)
      PROVE  AckedIsOld'
  BY <1>4 DEF Handler, RunJob, FinishJob, Ack, Outcomes, Finished, OneShot, OnceInv, OnceSoFar
<1>5. ASSUME NEW m \in inbox, Fire(m)
      PROVE  AckedIsOld'
  BY <1>5 DEF Fire, FireClaimed, FireRefused, FireFails, Take, Claimable, OneShot
<1>6. ASSUME NEW S \in SUBSET Jobs, Sweep(S) \/ ReconcileSweep(S)
      PROVE  AckedIsOld'
  BY <1>6 DEF Sweep, ReconcileSweep, SweepRows, OneShot
<1>7. ASSUME NEW j \in Jobs, ReconcileMiss(j) \/ ReconcileArm(j)
      PROVE  AckedIsOld'
  BY <1>7 DEF ReconcileMiss, MissJob, ReconcileArm, OneShot
<1>8. CASE Crash
  BY <1>8 DEF Crash, OneShot
<1>9. CASE StreamLost \/ Restart \/ ReconcileList \/ ReconcileDone
  BY <1>9 DEF StreamLost, Restart, ReconcileList, ReconcileDone
<1>10. CASE UNCHANGED vars
  BY <1>10 DEF vars
<1>11. QED
  BY <1>1, <1>2, <1>3, <1>4, <1>5, <1>6, <1>7, <1>8, <1>9, <1>10
     DEF Next, Requests, Reconcile

\* A timer that fires leaves a firing ahead of every claim; one that is delivered
\* for the last time is in the inbox.
LEMMA ServerPromise ==
  ASSUME MaxDeliver > 0, IInv, PromiseInv, NEW j \in Jobs, Server(j)
  PROVE  PromiseOrTodo'
<1> USE DEF IInv, TypeOK, PromiseInv, PromiseOrTodo, row, stream, consumer, requests,
            startup, outside
<1>1. CASE TimerFires(j)
  <2> SUFFICES ASSUME boot \in {"arming", "up"}, NEW k \in Jobs,
                      status[k] = "scheduled", create[k] \notin {"inserted", "unarmed"},
                      cancel[k] = "none"
               PROVE  WillFire(k)' \/ (boot = "arming" /\ k \in todo)
    BY <1>1 DEF TimerFires
  <2>1. CASE k = j
    <3>1. firing'[j] = seq + 1 /\ lastSeq'[j] = lastSeq[j] /\ deliveries'[j] = 0
      BY <1>1 DEF TimerFires
    <3>2. lastSeq[j] <= seq /\ lastSeq[j] \in Nat /\ seq \in Nat
      BY DEF SeqBounds
    <3>3. firing'[j] > lastSeq'[j] /\ deliveries'[j] < MaxDeliver
      BY <3>1, <3>2, BoundsAssumption
    <3>4. QED
      BY <2>1, <3>3 DEF WillFire
  <2>2. CASE k # j
    <3>1. WillFire(k) => WillFire(k)'
      BY <1>1, <2>2 DEF TimerFires, WillFire
    <3>2. QED
      BY <3>1
  <2>3. QED
    BY <2>1, <2>2
<1>2. CASE Deliver(j)
  <2>1. ASSUME NEW k \in Jobs, WillFire(k) PROVE WillFire(k)'
    <3>1. CASE k \in armed \/ \E m \in inbox : m.job = k /\ m.seq > lastSeq[k]
      BY <1>2, <3>1 DEF Deliver, WillFire
    <3>2. CASE firing[k] > lastSeq[k] /\ deliveries[k] < MaxDeliver /\ k = j
      <4>1. [job |-> j, seq |-> firing[j]] \in inbox' /\ lastSeq' = lastSeq
        BY <1>2 DEF Deliver
      <4>2. QED
        BY <3>2, <4>1 DEF WillFire
    <3>3. CASE firing[k] > lastSeq[k] /\ deliveries[k] < MaxDeliver /\ k # j
      BY <1>2, <3>3 DEF Deliver, WillFire
    <3>4. QED
      BY <2>1, <3>1, <3>2, <3>3 DEF WillFire
  <2>2. QED
    BY <1>2, <2>1 DEF Deliver
<1>3. CASE TimePasses(j)
  BY <1>3 DEF TimePasses, WillFire
<1>4. QED
  BY <1>1, <1>2, <1>3 DEF Server

\* Taking a firing from the inbox either claims its row or spends an old firing.
LEMMA FirePromise ==
  ASSUME MaxFaults = 0, IInv, PromiseInv, NEW m \in inbox, Fire(m)
  PROVE  PromiseOrTodo'
<1> USE DEF IInv, TypeOK, PromiseInv, PromiseOrTodo, row, stream, consumer, requests,
            startup, outside
<1>1. CASE FireClaimed(m)
  <2>1. ASSUME NEW k \in Jobs, status'[k] = "scheduled", WillFire(k) PROVE WillFire(k)'
    <3>1. k # m.job /\ status[k] = "scheduled" /\ lastSeq'[k] = lastSeq[k]
      BY <1>1, <2>1 DEF FireClaimed
    <3>2. QED
      BY <1>1, <2>1, <3>1 DEF FireClaimed, Take, WillFire
  <2>2. \A k \in Jobs : status'[k] = "scheduled" => status[k] = "scheduled"
    BY <1>1 DEF FireClaimed
  <2>3. QED
    BY <1>1, <2>1, <2>2 DEF FireClaimed
<1>2. CASE FireRefused(m)
  <2>1. ASSUME NEW k \in Jobs, status[k] = "scheduled", WillFire(k) PROVE WillFire(k)'
    <3>1. \A n \in inbox : n.job = k /\ n.seq > lastSeq[k] => n # m
      BY <1>2, <2>1 DEF FireRefused, Claimable
    <3>2. QED
      BY <1>2, <2>1, <3>1 DEF FireRefused, Take, WillFire
  <2>2. QED
    BY <1>2, <2>1 DEF FireRefused
<1>3. CASE FireFails(m)
  BY <1>3, NothingFails DEF FireFails
<1>4. QED
  BY <1>1, <1>2, <1>3 DEF Fire

\* A repeating job goes back to scheduled with its timer armed, and the firing an
\* acknowledgement takes away is one the row no longer needs.
LEMMA HandlerPromise ==
  ASSUME IInv, PromiseInv, NEW j \in Jobs, Handler(j)
  PROVE  PromiseOrTodo'
<1> USE DEF IInv, TypeOK, PromiseInv, PromiseOrTodo, row, stream, consumer, requests,
            startup, outside
<1>1. CASE RunJob(j)
  BY <1>1 DEF RunJob, WillFire
<1>2. CASE FinishJob(j)
  <2>1. \A k \in Jobs : WillFire(k) => WillFire(k)'
    BY <1>2 DEF FinishJob, WillFire
  <2>2. \A k \in Jobs : status'[k] = "scheduled" =>
          status[k] = "scheduled" \/ (k \in Repeating /\ status[k] = "running")
    BY <1>2 DEF FinishJob, Finished
  <2>3. \A k \in Repeating : status[k] = "running" /\ cancel[k] = "none" => WillFire(k)
    BY DEF RepeatingStaysArmed, WillFire
  <2>4. UNCHANGED <<create, cancel, boot, todo>>
    BY <1>2 DEF FinishJob
  <2>5. QED
    BY <2>1, <2>2, <2>3, <2>4
<1>3. CASE Ack(j)
  <2>1. ASSUME NEW k \in Jobs, status[k] = "scheduled", cancel[k] = "none", WillFire(k)
        PROVE  WillFire(k)'
    <3>1. CASE k \in armed \/ \E m \in inbox : m.job = k /\ m.seq > lastSeq[k]
      BY <1>3, <3>1 DEF Ack, WillFire
    <3>2. CASE firing[k] > lastSeq[k] /\ deliveries[k] < MaxDeliver /\ k # j
      BY <1>3, <3>2 DEF Ack, WillFire
    <3>3. CASE firing[k] > lastSeq[k] /\ deliveries[k] < MaxDeliver /\ k = j
      <4>1. CASE j \in Repeating
        BY <1>3, <2>1, <3>3, <4>1 DEF Ack, RepeatingStaysArmed, WillFire
      <4>2. CASE j \notin Repeating
        <5>1. held[j] <= lastSeq[j]
          BY <1>3, <2>1, <3>3, <4>2 DEF Ack, AckedIsOld, OneShot
        <5>2. firing[j] # held[j]
          BY <3>3, <5>1
        <5>3. QED
          BY <1>3, <3>3, <5>2 DEF Ack, WillFire
      <4>3. QED
        BY <4>1, <4>2
    <3>4. QED
      BY <2>1, <3>1, <3>2, <3>3 DEF WillFire
  <2>2. UNCHANGED <<status, create, cancel, boot, todo>>
    BY <1>3 DEF Ack
  <2>3. QED
    BY <2>1, <2>2
<1>4. QED
  BY <1>1, <1>2, <1>3 DEF Handler

\* A job is created armed, and is disarmed only by its cancellation.
LEMMA RequestsPromise ==
  ASSUME MaxFaults = 0, IInv, PromiseInv, NEW j \in Jobs, Requests(j)
  PROVE  PromiseOrTodo'
<1> USE NothingFails DEF IInv, TypeOK, PromiseInv, PromiseOrTodo, row, stream, consumer,
        requests, startup, outside
<1>1. CASE CreateJob(j)
  BY <1>1 DEF CreateJob, WillFire
<1>2. CASE ArmCreated(j)
  BY <1>2 DEF ArmCreated, WillFire
<1>3. CASE DeleteUnarmed(j)
  BY <1>3 DEF DeleteUnarmed, WillFire
<1>4. CASE CancelRead(j)
  BY <1>4 DEF CancelRead, WillFire
<1>5. CASE PurgeTimer(j)
  BY <1>5 DEF PurgeTimer, WillFire
<1>6. CASE PurgeFiring(j)
  BY <1>6 DEF PurgeFiring, WillFire
<1>7. CASE CancelRow(j)
  BY <1>7 DEF CancelRow, WillFire
<1>8. CASE CancelFails(j)
  BY <1>8 DEF CancelFails
<1>9. QED
  BY <1>1, <1>2, <1>3, <1>4, <1>5, <1>6, <1>7, <1>8 DEF Requests

\* Reconcile lists every scheduled row, and drops one from its list only when it
\* is armed or closed as missed.
LEMMA ProcessPromise ==
  ASSUME MaxFaults = 0, IInv, PromiseInv,
         (\E S \in SUBSET Jobs : Sweep(S)) \/ Crash \/ StreamLost \/ Reconcile
  PROVE  PromiseOrTodo'
<1> USE NothingFails DEF IInv, TypeOK, PromiseInv, PromiseOrTodo, row, stream, consumer,
        requests, startup, outside
<1>1. ASSUME NEW S \in SUBSET Jobs, Sweep(S) \/ ReconcileSweep(S)
      PROVE  PromiseOrTodo'
  BY <1>1 DEF Sweep, ReconcileSweep, SweepRows, WillFire
<1>2. CASE Crash \/ StreamLost \/ Restart
  BY <1>2 DEF Crash, StreamLost, Restart
<1>3. CASE ReconcileList
  BY <1>3 DEF ReconcileList, PendingJobs
<1>4. ASSUME NEW j \in Jobs, ReconcileMiss(j)
      PROVE  PromiseOrTodo'
  BY <1>4 DEF ReconcileMiss, MissJob, WillFire
<1>5. ASSUME NEW j \in Jobs, ReconcileArm(j)
      PROVE  PromiseOrTodo'
  BY <1>5 DEF ReconcileArm, WillFire
<1>6. CASE ReconcileDone
  BY <1>6 DEF ReconcileDone, WillFire
<1>7. QED
  BY <1>1, <1>2, <1>3, <1>4, <1>5, <1>6 DEF Reconcile

\* The parts together survive every step.
LEMMA NextPromiseInv ==
  ASSUME MaxFaults = 0, MaxDeliver > 0, IInv, PromiseInv, [Next]_vars
  PROVE  PromiseInv'
<1>1. DownIsQuiet' /\ SeqBounds' /\ UnarmedIsStill' /\ RepeatingStaysArmed' /\ AckedIsOld'
  BY NextDownIsQuiet, NextSeqBounds, NextUnarmedIsStill, NextRepeatingStaysArmed,
     NextAckedIsOld DEF PromiseInv
<1>2. CASE Next
  <2>1. PromiseOrTodo'
    BY <1>2, ServerPromise, FirePromise, HandlerPromise, RequestsPromise, ProcessPromise
       DEF Next
  <2>2. QED
    BY <1>1, <2>1 DEF PromiseInv
<1>3. CASE UNCHANGED vars
  <2>1. PromiseOrTodo'
    BY <1>3 DEF PromiseInv, PromiseOrTodo, WillFire, vars, row, stream, consumer, requests,
                startup
  <2>2. QED
    BY <1>1, <2>1 DEF PromiseInv
<1>4. QED
  BY <1>2, <1>3

\* "A job nothing will ever fire is worse than no job": while no request fails,
\* every scheduled row nobody cancels has something that will fire it, however
\* often the process dies and wherever, and however few deliveries a firing gets.
THEOREM PromiseHolds ==
  ASSUME MaxFaults = 0, MaxDeliver > 0
  PROVE  Spec => []PromiseKept
<1>1. PromiseInv => PromiseKept
  BY DEF PromiseInv, PromiseOrTodo, PromiseKept
<1>2. IInv /\ PromiseInv /\ [Next]_vars => PromiseInv'
  BY NextPromiseInv
<1>3. QED
  BY <1>1, <1>2, InitPromiseInv, Inductive, PTL DEF Spec

-----------------------------------------------------------------------------
\* A row that overslept is closed by the Reconcile that met it, before anything
\* is pulled from the stream.
LEMMA NextOversleptInv ==
  ASSUME MaxFaults = 0, IInv, DownIsQuiet, OversleptInv, [Next]_vars
  PROVE  OversleptInv'
<1> USE DEF IInv, TypeOK, OversleptInv, OneShot, row, stream, consumer, requests, startup,
            outside
<1>1. ASSUME NEW j \in Jobs, CreateJob(j) \/ ArmCreated(j) \/ DeleteUnarmed(j)
      PROVE  OversleptInv'
  BY <1>1 DEF CreateJob, ArmCreated, DeleteUnarmed, NoRowBeforeCreate
<1>2. ASSUME NEW j \in Jobs,
             CancelRead(j) \/ PurgeTimer(j) \/ PurgeFiring(j) \/ CancelRow(j) \/ CancelFails(j)
      PROVE  OversleptInv'
  BY <1>2 DEF CancelRead, PurgeTimer, PurgeFiring, CancelRow, CancelFails
<1>3. ASSUME NEW j \in Jobs, Server(j)
      PROVE  OversleptInv'
  BY <1>3 DEF Server, TimerFires, Deliver, TimePasses
<1>4. ASSUME NEW j \in Jobs, Handler(j)
      PROVE  OversleptInv'
  BY <1>4 DEF Handler, RunJob, FinishJob, Ack, Outcomes, Finished
<1>5. ASSUME NEW m \in inbox, Fire(m)
      PROVE  OversleptInv'
  BY <1>5, NothingFails DEF Fire, FireClaimed, FireRefused, FireFails, Take, Claimable,
                            DownIsQuiet
<1>6. ASSUME NEW S \in SUBSET Jobs, Sweep(S) \/ ReconcileSweep(S)
      PROVE  OversleptInv'
  BY <1>6 DEF Sweep, ReconcileSweep, SweepRows
<1>7. ASSUME NEW j \in Jobs, ReconcileMiss(j) \/ ReconcileArm(j)
      PROVE  OversleptInv'
  BY <1>7, NothingFails DEF ReconcileMiss, MissJob, ReconcileArm, Overdue
<1>8. CASE Crash
  BY <1>8 DEF Crash
<1>9. CASE Restart
  BY <1>9 DEF Restart, DownIsQuiet
<1>10. CASE ReconcileList
  BY <1>10, NothingFails DEF ReconcileList, PendingJobs
<1>11. CASE ReconcileDone \/ StreamLost
  BY <1>11, NothingFails DEF ReconcileDone, StreamLost
<1>12. CASE UNCHANGED vars
  BY <1>12 DEF vars
<1>13. QED
  BY <1>1, <1>2, <1>3, <1>4, <1>5, <1>6, <1>7, <1>8, <1>9, <1>10, <1>11, <1>12
     DEF Next, Requests, Reconcile

\* Work whose moment had passed beyond the grace when the process came back is
\* not performed late, while no request fails: Reconcile marks it missed before
\* Run pulls the first firing, even one that was already in the stream.
THEOREM LateIsMissed ==
  ASSUME MaxFaults = 0, MaxDeliver > 0
  PROVE  Spec => LateWorkIsMissed
<1>1. IInv /\ PromiseInv /\ [Next]_vars => PromiseInv'
  BY NextPromiseInv
<1>2. IInv /\ PromiseInv /\ OversleptInv /\ [Next]_vars => OversleptInv'
  BY NextOversleptInv DEF PromiseInv
<1>3. IInv /\ OversleptInv /\ [Next]_vars => [\A j \in overslept : changes'[j] = changes[j]]_vars
  BY OnlyRunChanges DEF OversleptInv, OneShot
<1>4. QED
  BY <1>1, <1>2, <1>3, InitPromiseInv, Inductive, PTL DEF Spec, LateWorkIsMissed

=============================================================================
