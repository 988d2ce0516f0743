---------------------------- MODULE JobScheduler ----------------------------
(***************************************************************************)
(* Deferred work: the row in Postgres is the intent and the record, the    *)
(* timer is a message in the JetStream stream AZIR_JOBS, and one consumer  *)
(* turns firings into tool calls.  internal/scheduler/scheduler.go,        *)
(* internal/store/jobs.go and internal/api/jobs.go.                        *)
(*                                                                         *)
(* One action per database statement or NATS request, because a crash, a   *)
(* failed request or another handler may come between any two of them.     *)
(*                                                                         *)
(* Data is abstracted to what the handlers tell apart.  Of the clock: has  *)
(* a one-shot's moment come, and is it more than graceAfterMiss ago.  Of   *)
(* the far end: did it answer, refuse or stay silent, and did the change   *)
(* land.  Messages carry only the job and their stream sequence.           *)
(***************************************************************************)
EXTENDS Naturals, FiniteSets

CONSTANTS
  Jobs,         \* ids of the jobs somebody may schedule
  Repeating,    \* those with a cron expression in "repeats"; the rest happen once
  MaxDeliver,   \* ConsumerConfig.MaxDeliver, 3 in the code
  MaxJobs,      \* bound: how many jobs are ever created
  MaxSeq,       \* bound: repeating timers stop firing at this stream sequence
  MaxCrashes,   \* bound: how often the process dies
  MaxFaults     \* bound: how many database or NATS requests fail

ASSUME JobsAssumption == Repeating \subseteq Jobs
ASSUME BoundsAssumption == {MaxDeliver, MaxJobs, MaxSeq, MaxCrashes, MaxFaults} \subseteq Nat

VARIABLES
  status, result, lastSeq,          \* scheduled_jobs, one row per job
  armed, firing, deliveries, seq,   \* the stream AZIR_JOBS and its consumer
  inbox, work, held,                \* firings pulled, and the one being handled
  create, cancel,                   \* the requests in progress, or how they ended
  boot, todo, overslept,            \* startup: where main is, and Reconcile's list
  clock,                            \* one-shots: has the moment come, has it passed
  changes,                          \* how often the outside system was changed
  changedBy,                        \* the firing that last did so
  crashes, faults                   \* spent of MaxCrashes and MaxFaults

row == <<status, result, lastSeq>>
stream == <<armed, firing, deliveries, seq>>
consumer == <<inbox, work, held>>
requests == <<create, cancel>>
startup == <<boot, todo, overslept>>
outside == <<changes, changedBy>>
vars == <<row, stream, consumer, requests, startup, clock, outside, crashes, faults>>

OneShot == Jobs \ Repeating

\* "absent" is no row yet, "deleted" is a row DeleteJob took away.
Statuses == {"absent", "scheduled", "running", "done", "failed", "cancelled", "deleted"}
Terminal == {"done", "failed", "cancelled"}
Results == {"none", "answered", "refused", "noAnswer", "interrupted", "missed", "cancelled"}

\* What RunJob came back with, before FinishJob has recorded it.
Outcomes == {"answered", "refused", "noAnswer"}

TypeOK ==
  /\ status \in [Jobs -> Statuses]
  /\ result \in [Jobs -> Results]
  /\ lastSeq \in [Jobs -> Nat]
  /\ armed \subseteq Jobs
  /\ firing \in [Jobs -> Nat]
  /\ deliveries \in [Jobs -> Nat]
  /\ seq \in Nat
  /\ inbox \subseteq [job : Jobs, seq : Nat]
  /\ work \in [Jobs -> {"none", "run", "ack"} \cup Outcomes]
  /\ held \in [Jobs -> Nat]
  /\ create \in [Jobs -> {"none", "inserted", "unarmed", "created", "refused", "abandoned"}]
  /\ cancel \in [Jobs -> {"none", "read", "timerPurged", "disarmed",
                          "ok", "conflict", "error"}]
  /\ boot \in {"down", "sweeping", "listing", "arming", "up"}
  /\ todo \subseteq Jobs
  /\ overslept \subseteq Jobs
  /\ clock \in [Jobs -> {"early", "due", "late"}]
  /\ changes \in [Jobs -> Nat]
  /\ changedBy \in [Jobs -> Nat]
  /\ crashes \in Nat
  /\ faults \in Nat

Init ==
  /\ status = [j \in Jobs |-> "absent"]
  /\ result = [j \in Jobs |-> "none"]
  /\ lastSeq = [j \in Jobs |-> 0]
  /\ armed = {}
  /\ firing = [j \in Jobs |-> 0]
  /\ deliveries = [j \in Jobs |-> 0]
  /\ seq = 0
  /\ inbox = {}
  /\ work = [j \in Jobs |-> "none"]
  /\ held = [j \in Jobs |-> 0]
  /\ create = [j \in Jobs |-> "none"]
  /\ cancel = [j \in Jobs |-> "none"]
  /\ boot = "up"
  /\ todo = {}
  /\ overslept = {}
  /\ clock = [j \in Jobs |-> "early"]
  /\ changes = [j \in Jobs |-> 0]
  /\ changedBy = [j \in Jobs |-> 0]
  /\ crashes = 0
  /\ faults = 0

\* One database or NATS request fails.
Fault ==
  /\ faults < MaxFaults
  /\ faults' = faults + 1

NoFault == UNCHANGED faults

-----------------------------------------------------------------------------
(***************************************************************************)
(* createJob: insert the row, arm the timer, take the row back if that     *)
(* failed.  The gates before the insert refuse without touching anything.  *)
(***************************************************************************)

\* checkWhen leaves a minute of slack, so the moment may already have come.
CreateJob(j) ==
  /\ boot = "up"
  /\ create[j] = "none"
  /\ Cardinality({k \in Jobs : create[k] # "none"}) < MaxJobs
  /\ \/ create' = [create EXCEPT ![j] = "inserted"] /\ NoFault
     \* Committed, but the answer was lost: the request ends without arming.
     \/ create' = [create EXCEPT ![j] = "abandoned"] /\ Fault
  /\ status' = [status EXCEPT ![j] = "scheduled"]
  /\ \E c \in {"early", "due"} : clock' = [clock EXCEPT ![j] = c]
  /\ UNCHANGED <<result, lastSeq, stream, consumer, cancel, startup, outside, crashes>>

\* Arm: one message per job on azir.job.at.<id>; publishing again replaces it.
ArmCreated(j) ==
  /\ create[j] = "inserted"
  /\ \/ /\ armed' = armed \cup {j}
        /\ create' = [create EXCEPT ![j] = "created"]
        /\ NoFault
     \* The server rejects the cron expression or the zone.
     \/ /\ create' = [create EXCEPT ![j] = "unarmed"]
        /\ UNCHANGED armed
        /\ NoFault
     \* The message was stored, its acknowledgement was lost.
     \/ /\ armed' = armed \cup {j}
        /\ create' = [create EXCEPT ![j] = "unarmed"]
        /\ Fault
  /\ UNCHANGED <<row, firing, deliveries, seq, consumer, cancel, startup,
                 clock, outside, crashes>>

\* DeleteJob has no condition on the status; its own failure is only logged.
DeleteUnarmed(j) ==
  /\ create[j] = "unarmed"
  /\ create' = [create EXCEPT ![j] = "refused"]
  /\ \/ status' = [status EXCEPT ![j] = "deleted"] /\ NoFault
     \/ UNCHANGED status /\ Fault
  /\ UNCHANGED <<result, lastSeq, stream, consumer, cancel, startup,
                 clock, outside, crashes>>

-----------------------------------------------------------------------------
(***************************************************************************)
(* cancelJob: read the row, purge the timer, purge the firing, then mark   *)
(* the row cancelled if it is still scheduled.                             *)
(***************************************************************************)

CancelRead(j) ==
  /\ boot = "up"
  /\ cancel[j] = "none"
  /\ status[j] \notin {"absent", "deleted"}
  /\ cancel' = [cancel EXCEPT ![j] = "read"]
  /\ UNCHANGED <<row, stream, consumer, create, startup, clock, outside, crashes, faults>>

\* Disarm, first purge: azir.job.at.<id>.
PurgeTimer(j) ==
  /\ cancel[j] = "read"
  /\ armed' = armed \ {j}
  /\ cancel' = [cancel EXCEPT ![j] = "timerPurged"]
  /\ UNCHANGED <<row, firing, deliveries, seq, consumer, create, startup,
                 clock, outside, crashes, faults>>

\* Disarm, second purge: azir.job.run.<id>.  Copies already pulled stay.
PurgeFiring(j) ==
  /\ cancel[j] = "timerPurged"
  /\ firing' = [firing EXCEPT ![j] = 0]
  /\ deliveries' = [deliveries EXCEPT ![j] = 0]
  /\ cancel' = [cancel EXCEPT ![j] = "disarmed"]
  /\ UNCHANGED <<row, armed, seq, consumer, create, startup,
                 clock, outside, crashes, faults>>

\* Mutant: a running job may be cancelled too.
CancelRowEvenRunning(j) ==
  /\ cancel[j] = "disarmed"
  /\ status[j] \in {"scheduled", "running"}
  /\ status' = [status EXCEPT ![j] = "cancelled"]
  /\ result' = [result EXCEPT ![j] = "cancelled"]
  /\ cancel' = [cancel EXCEPT ![j] = "ok"]
  /\ UNCHANGED <<lastSeq, stream, consumer, create, startup, clock, outside, crashes, faults>>

CancelRow(j) ==
  /\ cancel[j] = "disarmed"
  /\ \/ /\ status[j] = "scheduled"
        /\ status' = [status EXCEPT ![j] = "cancelled"]
        /\ result' = [result EXCEPT ![j] = "cancelled"]
        /\ \/ cancel' = [cancel EXCEPT ![j] = "ok"] /\ NoFault
           \/ cancel' = [cancel EXCEPT ![j] = "error"] /\ Fault
     \/ /\ status[j] # "scheduled"
        /\ cancel' = [cancel EXCEPT ![j] = "conflict"]
        /\ UNCHANGED <<status, result>>
        /\ NoFault
  /\ UNCHANGED <<lastSeq, stream, consumer, create, startup, clock, outside, crashes>>

\* Any of those requests fails, undone, and the handler answers an error.
CancelFails(j) ==
  /\ cancel[j] \in {"read", "timerPurged", "disarmed"}
  /\ cancel' = [cancel EXCEPT ![j] = "error"]
  /\ Fault
  /\ UNCHANGED <<row, stream, consumer, create, startup, clock, outside, crashes>>

-----------------------------------------------------------------------------
(***************************************************************************)
(* The NATS server: a timer whose moment has come is republished on        *)
(* azir.job.run.<id>, and outstanding firings are delivered until they are *)
(* acknowledged or MaxDeliver is reached.                                  *)
(***************************************************************************)

\* A one-shot schedule purges itself, a cron one stays.  One message per
\* subject: a new firing replaces the one nobody has taken.
TimerFires(j) ==
  /\ j \in armed
  /\ IF j \in Repeating THEN seq < MaxSeq ELSE clock[j] # "early"
  /\ seq' = seq + 1
  /\ firing' = [firing EXCEPT ![j] = seq']
  /\ deliveries' = [deliveries EXCEPT ![j] = 0]
  /\ armed' = IF j \in Repeating THEN armed ELSE armed \ {j}
  /\ UNCHANGED <<row, consumer, requests, startup, clock, outside, crashes, faults>>

\* A first delivery, one after a Nak, or one after AckWait.
Deliver(j) ==
  /\ boot = "up"
  /\ firing[j] # 0
  /\ deliveries[j] < MaxDeliver
  /\ inbox' = inbox \cup {[job |-> j, seq |-> firing[j]]}
  /\ deliveries' = [deliveries EXCEPT ![j] = @ + 1]
  /\ UNCHANGED <<row, armed, firing, seq, work, held, requests, startup,
                 clock, outside, crashes, faults>>

-----------------------------------------------------------------------------
(***************************************************************************)
(* fire: the consumer's callback, which handles one message at a time.     *)
(***************************************************************************)

Take(m) ==
  /\ m \in inbox
  /\ \A j \in Jobs : work[j] = "none"
  /\ inbox' = inbox \ {m}

\* ClaimJob's WHERE clause.
Claimable(j, s) == status[j] = "scheduled" /\ lastSeq[j] < s

FireClaimed(m) ==
  /\ Take(m)
  /\ Claimable(m.job, m.seq)
  /\ status' = [status EXCEPT ![m.job] = "running"]
  /\ lastSeq' = [lastSeq EXCEPT ![m.job] = m.seq]
  /\ work' = [work EXCEPT ![m.job] = "run"]
  /\ held' = [held EXCEPT ![m.job] = m.seq]
  /\ UNCHANGED <<result, stream, requests, startup, clock, outside, crashes, faults>>

FireRefused(m) ==
  /\ Take(m)
  /\ ~Claimable(m.job, m.seq)
  /\ work' = [work EXCEPT ![m.job] = "ack"]
  /\ held' = [held EXCEPT ![m.job] = m.seq]
  /\ UNCHANGED <<row, stream, requests, startup, clock, outside, crashes, faults>>

\* ClaimJob returns an error, having committed or not; the message is Nak'd.
FireFails(m) ==
  /\ Take(m)
  /\ Fault
  /\ \/ UNCHANGED <<status, lastSeq>>
     \/ /\ Claimable(m.job, m.seq)
        /\ status' = [status EXCEPT ![m.job] = "running"]
        /\ lastSeq' = [lastSeq EXCEPT ![m.job] = m.seq]
  /\ UNCHANGED <<result, stream, work, held, requests, startup, clock, outside, crashes>>

MakeChange(j) ==
  /\ changes' = [changes EXCEPT ![j] = @ + 1]
  /\ changedBy' = [changedBy EXCEPT ![j] = held[j]]

\* Mutant: a call that got no answer is tried again at once.
RunJobRetries(j) ==
  /\ work[j] = "run"
  /\ \/ work' = [work EXCEPT ![j] = "answered"] /\ MakeChange(j)
     \/ UNCHANGED work /\ MakeChange(j)
  /\ UNCHANGED <<row, stream, inbox, held, requests, startup, clock, crashes, faults>>

\* RunJob: the standing gates, then the tool call.  Refused means a gate or
\* the plugin said no; no answer means the change may or may not have landed.
RunJob(j) ==
  /\ work[j] = "run"
  /\ \/ work' = [work EXCEPT ![j] = "refused"] /\ UNCHANGED outside
     \/ work' = [work EXCEPT ![j] = "answered"] /\ MakeChange(j)
     \/ /\ work' = [work EXCEPT ![j] = "noAnswer"]
        /\ UNCHANGED outside \/ MakeChange(j)
  /\ UNCHANGED <<row, stream, inbox, held, requests, startup, clock, crashes, faults>>

\* The status FinishJob's CASE chooses.
Finished(j, outcome) ==
  IF outcome # "answered" THEN "failed"
  ELSE IF j \in Repeating THEN "scheduled" ELSE "done"

\* Mutant: FinishJob without its status = 'running'.
FinishJobAnyStatus(j) ==
  /\ work[j] \in Outcomes
  /\ work' = [work EXCEPT ![j] = "ack"]
  /\ status' = [status EXCEPT ![j] = Finished(j, work[j])]
  /\ result' = [result EXCEPT ![j] = work[j]]
  /\ UNCHANGED <<lastSeq, stream, inbox, held, requests, startup, clock, outside, crashes, faults>>

\* FinishJob moves only a running row; its failure is only logged.
FinishJob(j) ==
  /\ work[j] \in Outcomes
  /\ work' = [work EXCEPT ![j] = "ack"]
  /\ \/ /\ status[j] = "running"
        /\ status' = [status EXCEPT ![j] = Finished(j, work[j])]
        /\ result' = [result EXCEPT ![j] = work[j]]
        /\ NoFault
     \/ /\ status[j] # "running"
        /\ UNCHANGED <<status, result>>
        /\ NoFault
     \/ /\ Fault
        /\ UNCHANGED <<status, result>>
  /\ UNCHANGED <<lastSeq, stream, inbox, held, requests, startup, clock, outside, crashes>>

\* Acknowledging a firing that was purged or replaced meanwhile does nothing.
Ack(j) ==
  /\ work[j] = "ack"
  /\ work' = [work EXCEPT ![j] = "none"]
  /\ held' = [held EXCEPT ![j] = 0]
  /\ firing' = [firing EXCEPT ![j] = IF @ = held[j] THEN 0 ELSE @]
  /\ UNCHANGED <<row, armed, deliveries, seq, inbox, requests, startup,
                 clock, outside, crashes, faults>>

-----------------------------------------------------------------------------
(***************************************************************************)
(* Sweep, crashes and Reconcile.                                           *)
(***************************************************************************)

\* Mutant: stuckAfter shorter than RunJob's own timeout.
SweepRowsEarly(S) ==
  /\ \A j \in S : status[j] = "running"
  /\ status' = [j \in Jobs |-> IF j \in S THEN "failed" ELSE status[j]]
  /\ result' = [j \in Jobs |-> IF j \in S THEN "interrupted" ELSE result[j]]
  /\ UNCHANGED lastSeq

\* SweepStuckJobs closes rows running for longer than stuckAfter (15 min).
\* RunJob itself is cut off after 90 s, so a row that old is not in RunJob;
\* it may still be waiting for FinishJob.
SweepRows(S) ==
  /\ \A j \in S : status[j] = "running" /\ work[j] # "run"
  /\ status' = [j \in Jobs |-> IF j \in S THEN "failed" ELSE status[j]]
  /\ result' = [j \in Jobs |-> IF j \in S THEN "interrupted" ELSE result[j]]
  /\ UNCHANGED lastSeq

Sweep(S) ==
  /\ boot = "up"
  /\ S # {}
  /\ SweepRows(S)
  /\ UNCHANGED <<stream, consumer, requests, startup, clock, outside, crashes, faults>>

\* The process dies, or is stopped: handlers and pulled copies are gone, the
\* database and the stream stay.
Crash ==
  /\ boot # "down"
  /\ crashes < MaxCrashes
  /\ crashes' = crashes + 1
  /\ boot' = "down"
  /\ todo' = {}
  /\ inbox' = {}
  /\ work' = [j \in Jobs |-> "none"]
  /\ held' = [j \in Jobs |-> 0]
  /\ create' = [j \in Jobs |->
       IF create[j] \in {"inserted", "unarmed"} THEN "abandoned" ELSE create[j]]
  /\ cancel' = [j \in Jobs |->
       IF cancel[j] \in {"read", "timerPurged", "disarmed"} THEN "error" ELSE cancel[j]]
  /\ UNCHANGED <<row, stream, overslept, clock, outside, faults>>

\* The stream's files are gone when the process comes back.
StreamLost ==
  /\ boot = "down"
  /\ Fault
  /\ armed' = {}
  /\ firing' = [j \in Jobs |-> 0]
  /\ deliveries' = [j \in Jobs |-> 0]
  /\ seq' = 0
  /\ UNCHANGED <<row, consumer, requests, startup, clock, outside, crashes>>

\* main reaches Reconcile, before Run and before anything is served.
\* overslept remembers whose moment had meaningfully passed by then.
Restart ==
  /\ boot = "down"
  /\ boot' = "sweeping"
  /\ overslept' = {j \in OneShot : status[j] = "scheduled" /\ clock[j] = "late"}
  /\ UNCHANGED <<row, stream, consumer, requests, todo, clock, outside, crashes, faults>>

ReconcileSweep(S) ==
  /\ boot = "sweeping"
  /\ boot' = "listing"
  /\ SweepRows(S)
  /\ UNCHANGED <<stream, consumer, requests, todo, overslept, clock, outside, crashes, faults>>

PendingJobs == {j \in Jobs : status[j] = "scheduled"}

\* When PendingJobs fails Reconcile returns, main logs it and carries on.
ReconcileList ==
  /\ boot = "listing"
  /\ \/ /\ todo' = PendingJobs
        /\ boot' = "arming"
        /\ NoFault
     \/ /\ boot' = "up"
        /\ UNCHANGED todo
        /\ Fault
  /\ UNCHANGED <<row, stream, consumer, requests, overslept, clock, outside, crashes>>

\* Mutant: no grace, everything pending is armed again.
OverdueNever(j) == FALSE

Overdue(j) == j \in OneShot /\ clock[j] = "late"

MissJob(j) ==
  /\ status' = [status EXCEPT ![j] = IF @ = "scheduled" THEN "failed" ELSE @]
  /\ result' = [result EXCEPT ![j] = IF status[j] = "scheduled" THEN "missed" ELSE @]

ReconcileMiss(j) ==
  /\ boot = "arming"
  /\ j \in todo
  /\ Overdue(j)
  /\ todo' = todo \ {j}
  /\ \/ MissJob(j) /\ NoFault
     \/ /\ UNCHANGED <<status, result>>
        /\ Fault
  /\ UNCHANGED <<lastSeq, stream, consumer, requests, boot, overslept,
                 clock, outside, crashes>>

\* Mutant: a moment that has already come is not armed again.
ReconcileArmFuture(j) ==
  /\ boot = "arming"
  /\ j \in todo
  /\ ~Overdue(j)
  /\ todo' = todo \ {j}
  /\ armed' = IF clock[j] = "early" THEN armed \cup {j} ELSE armed
  /\ UNCHANGED <<row, firing, deliveries, seq, consumer, requests, boot, overslept,
                 clock, outside, crashes, faults>>

\* Mutant: only one-shots are armed again.
ReconcileArmOnce(j) ==
  /\ boot = "arming"
  /\ j \in todo
  /\ ~Overdue(j)
  /\ todo' = todo \ {j}
  /\ armed' = IF j \in OneShot THEN armed \cup {j} ELSE armed
  /\ UNCHANGED <<row, firing, deliveries, seq, consumer, requests, boot, overslept,
                 clock, outside, crashes, faults>>

\* Overdue within the grace is armed for five seconds from now: still due.
\* Where the server refuses again what it refused createJob, that is a failed request.
ReconcileArm(j) ==
  /\ boot = "arming"
  /\ j \in todo
  /\ ~Overdue(j)
  /\ todo' = todo \ {j}
  /\ \/ armed' = armed \cup {j} /\ NoFault
     \/ UNCHANGED armed /\ Fault
  /\ UNCHANGED <<row, firing, deliveries, seq, consumer, requests, boot, overslept,
                 clock, outside, crashes>>

ReconcileDone ==
  /\ boot = "arming"
  /\ todo = {}
  /\ boot' = "up"
  /\ UNCHANGED <<row, stream, consumer, requests, todo, overslept,
                 clock, outside, crashes, faults>>

\* A created one-shot's moment comes, and later passes beyond the grace.
TimePasses(j) ==
  /\ j \in OneShot
  /\ status[j] # "absent"
  /\ \/ clock[j] = "early" /\ clock' = [clock EXCEPT ![j] = "due"]
     \/ clock[j] = "due" /\ clock' = [clock EXCEPT ![j] = "late"]
  /\ UNCHANGED <<row, stream, consumer, requests, startup, outside, crashes, faults>>

-----------------------------------------------------------------------------

Requests(j) ==
  \/ CreateJob(j) \/ ArmCreated(j) \/ DeleteUnarmed(j)
  \/ CancelRead(j) \/ PurgeTimer(j) \/ PurgeFiring(j) \/ CancelRow(j) \/ CancelFails(j)

Server(j) == TimerFires(j) \/ Deliver(j) \/ TimePasses(j)

Fire(m) == FireClaimed(m) \/ FireRefused(m) \/ FireFails(m)

Handler(j) == RunJob(j) \/ FinishJob(j) \/ Ack(j)

Reconcile ==
  \/ Restart \/ ReconcileList \/ ReconcileDone
  \/ \E S \in SUBSET Jobs : ReconcileSweep(S)
  \/ \E j \in Jobs : ReconcileMiss(j) \/ ReconcileArm(j)

Next ==
  \/ \E j \in Jobs : Requests(j) \/ Server(j) \/ Handler(j)
  \/ \E m \in inbox : Fire(m)
  \/ \E S \in SUBSET Jobs : Sweep(S)
  \/ Crash \/ StreamLost
  \/ Reconcile

Spec == Init /\ [][Next]_vars

(***************************************************************************)
(* The program's own steps go on happening: the NATS server fires and      *)
(* delivers, the consumer and the sweep run, a request that was started    *)
(* comes to its end, a dead process is restarted (compose.yaml, restart:   *)
(* unless-stopped).  Nobody has to create or cancel anything, and nothing  *)
(* has to fail.                                                            *)
(***************************************************************************)
Fairness ==
  /\ \A j \in Jobs :
       /\ WF_vars(ArmCreated(j) \/ DeleteUnarmed(j))
       /\ WF_vars(PurgeTimer(j) \/ PurgeFiring(j) \/ CancelRow(j))
       /\ WF_vars(TimerFires(j))
       /\ WF_vars(Deliver(j))
       /\ WF_vars(TimePasses(j))
       /\ WF_vars(Handler(j))
       /\ WF_vars(Sweep({j}))
  /\ WF_vars(\E m \in inbox : Fire(m))
  /\ WF_vars(Reconcile)

FairSpec == Spec /\ Fairness

-----------------------------------------------------------------------------
(***************************************************************************)
(* Safety, whatever fails.                                                 *)
(***************************************************************************)

\* The firing being performed owns its row: it is the firing the row was
\* claimed for, and the row is still running (or was deleted under it by a
\* createJob whose Arm was reported lost).  ClaimJob, against the sweep,
\* cancelJob, MissJob and redelivery.
RunnerOwnsRow ==
  \A j \in Jobs : work[j] = "run" =>
    /\ status[j] \in {"running", "deleted"}
    /\ lastSeq[j] = held[j]

\* "A redelivered firing must not make a second change": a firing that is
\* being performed has not made one before (store/jobs.go, ClaimJob).
FiringChangesOnce ==
  \A j \in Jobs : work[j] = "run" => changedBy[j] < held[j]

\* Work scheduled once is done once at most, across redelivery, re-arming by
\* Reconcile, a lost stream, crashes and failed statements.
OneShotChangesOnce == \A j \in OneShot : changes[j] <= 1

\* What a finished one-shot's row says is what happened: done means changed;
\* refused, missed and cancelled mean not changed.  "Interrupted" and "no
\* answer" claim nothing (store/jobs.go, FinishJob, MissJob, SweepStuckJobs).
RecordIsTruthful ==
  \A j \in OneShot :
    /\ status[j] = "done" => changes[j] = 1
    /\ status[j] = "cancelled" => changes[j] = 0
    /\ status[j] = "failed" /\ result[j] \in {"refused", "missed"} => changes[j] = 0

\* Once a cancellation was answered with success the job changes nothing more,
\* though its timer or a pulled firing may still be on the way (cancelJob).
NoChangeAfterCancel ==
  [][\A j \in Jobs : cancel[j] = "ok" => changes'[j] = changes[j]]_vars

\* A row that reached done, failed or cancelled is never moved again, by a
\* late FinishJob, a MissJob from an old list or a second sweep; only the
\* unconditional DeleteJob can take it away.
HistoryIsFinal ==
  [][\A j \in Jobs : status[j] \in Terminal =>
       status'[j] \in {status[j], "deleted"} /\ (status'[j] = status[j] => result'[j] = result[j])]_vars

\* The scheduler implements the abstract promise: a claim is good for one
\* change at most.  The tickets are the handlers inside RunJob.
PromiseState ==
  [j \in Jobs |->
     IF status[j] \in {"absent", "scheduled"} THEN "open"
     ELSE IF status[j] = "running" THEN "claimed" ELSE "closed"]

Promise == INSTANCE OneChangePerClaim WITH
  Work <- Jobs,
  Once <- OneShot,
  state <- PromiseState,
  tickets <- {j \in Jobs : work[j] = "run"},
  changes <- changes

ImplementsOneChangePerClaim == Promise!Spec

-----------------------------------------------------------------------------
(***************************************************************************)
(* While no request fails (crashes allowed).                               *)
(***************************************************************************)

\* Something that is still on its way will set job j running.
WillFire(j) ==
  \/ j \in armed
  \/ firing[j] > lastSeq[j] /\ deliveries[j] < MaxDeliver
  \/ \E m \in inbox : m.job = j /\ m.seq > lastSeq[j]

\* "A job nothing will ever fire is worse than no job - it is a promise on a
\* screen": once it is serving, every scheduled row that is neither being
\* created nor was ever cancelled has something that will fire it.
PromiseKept ==
  boot = "up" => \A j \in Jobs :
    status[j] = "scheduled" /\ create[j] \notin {"inserted", "unarmed"} /\ cancel[j] = "none"
      => WillFire(j)

\* The same for a job whose cancellation was refused with a conflict: it was
\* not cancelled, so what it promises must still happen.
RefusedCancelKeepsPromise ==
  boot = "up" => \A j \in Jobs :
    status[j] = "scheduled" /\ cancel[j] = "conflict" => WillFire(j)

\* "A repeating job returns to scheduled after every run and only leaves on
\* cancellation" (store/jobs.go, job states): it is never done, nor failed.
RepeatingOnlyEndsByCancel == \A j \in Repeating : status[j] \notin {"done", "failed"}

\* Work whose moment had passed beyond the grace when the process came back
\* is not performed late (Reconcile; main.go: "marked missed rather than
\* firing hours late").
LateWorkIsMissed ==
  [][\A j \in overslept : changes'[j] = changes[j]]_vars

\* A scheduled one-shot comes to an end, and a running row does not stay so.
OneShotSettles ==
  \A j \in OneShot :
    status[j] = "scheduled" ~> status[j] \in Terminal \cup {"deleted"}

RunningSettles == \A j \in Jobs : status[j] = "running" ~> status[j] # "running"

\* What holds of the rows and of what was done for them, in every state: the rows
\* tell the truth, and nothing is done for a row twice or by two at once.
JobsAreKept ==
  /\ TypeOK
  /\ RunnerOwnsRow
  /\ FiringChangesOnce
  /\ OneShotChangesOnce
  /\ RecordIsTruthful

\* Work that is due is not left hanging: what is to happen once is over in the end,
\* and a row that is running does not stay so.
WorkSettles == OneShotSettles /\ RunningSettles

=============================================================================
