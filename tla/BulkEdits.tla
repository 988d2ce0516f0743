------------------------------ MODULE BulkEdits ------------------------------
(***************************************************************************)
(* One uploaded sheet, from its comparison to its decision: planBulk,      *)
(* applyBulk and cancelBulk of internal/api/bulk.go, setOptions and        *)
(* applyRow of internal/api/phone.go, and the row in bulk_edits            *)
(* (internal/store/bulk.go).                                               *)
(*                                                                         *)
(* Unlike a proposal or a job, a sheet is not claimed before its changes   *)
(* go out: the decision is recorded after the last of them.  So requests   *)
(* that overlap are where this can go wrong, and they are modelled call by *)
(* call: the row is read, the rows are written one at a time, the          *)
(* write-only fields and the options in one call each, then the row is     *)
(* decided.                                                                *)
(*                                                                         *)
(* A row of the sheet is its extension, and differs or not in all the      *)
(* sheet sets of it; creating and removing an extension are core changes.  *)
(* What the comparison finds is left open: the phone system is read        *)
(* through a cache and changed by others, so any rows may differ.  The     *)
(* gates of performTool only make a call fail, and are in Proposals.       *)
(***************************************************************************)
EXTENDS Naturals, FiniteSets

CONSTANTS
  Extensions,    \* the rows of the sheet
  CoreRows,      \* those with something to write one at a time
  OptionRows,    \* those with something to write in a batch
  WholeRows,     \* those that create or remove their extension
  Requests,      \* requests to compare, apply or cancel it
  MaxCrashes,    \* bound: how often the process dies
  MaxFaults,     \* bound: how many statements fail or lose their answer
  MaxLeaves      \* bound: how many clients go away

ASSUME RowsAssumption ==
  /\ CoreRows \subseteq Extensions
  /\ OptionRows \subseteq Extensions
  /\ WholeRows \subseteq CoreRows \ OptionRows
ASSUME BoundsAssumption == {MaxCrashes, MaxFaults, MaxLeaves} \subseteq Nat

VARIABLES
  status, plan, outcome,      \* bulk_edits; outcome: the rows recorded as ok
  phase, want, answer, gone,  \* the requests
  found,                      \* the rows planBulk's comparison found different
  rows, skip, secret,         \* what an apply read and was sent
  todo, ok, problem,          \* rows left in this phase; what it will report
  landed,                     \* landed[c]: <<row, what>> request c really wrote
  overlapped,                 \* two requests have been active at once
  crashes, faults             \* spent of the bounds

edit == <<status, plan, outcome>>
request == <<phase, want, answer, gone>>
sent == <<found, rows, skip, secret>>
progress == <<todo, ok, problem>>
vars == <<edit, request, sent, progress, landed, overlapped, crashes, faults>>

\* "expired": SweepBulkEdits took the row.
Statuses == {"draft", "planned", "applied", "cancelled", "expired"}
Active == {"comparing", "rows", "secrets", "options"}
Answers == {"none", "planned", "applied", "cancelled", "conflict",
            "badRequest", "badGateway", "error", "lost"}

\* What is written of a row: one at a time, in a batch, or as a secret.
Parts == {"core", "options", "pin"}

TypeOK ==
  /\ status \in Statuses
  /\ plan \subseteq Extensions
  /\ outcome \subseteq Extensions
  /\ phase \in [Requests -> Active \cup {"idle", "over"}]
  /\ want \in [Requests -> {"plan", "apply", "cancel"}]
  /\ answer \in [Requests -> Answers]
  /\ gone \subseteq Requests
  /\ found \in [Requests -> SUBSET Extensions]
  /\ rows \in [Requests -> SUBSET Extensions]
  /\ skip \in [Requests -> SUBSET Extensions]
  /\ secret \in [Requests -> {"none", "refused", "pin"}]
  /\ todo \in [Requests -> SUBSET Extensions]
  /\ ok \in [Requests -> SUBSET Extensions]
  /\ problem \in [Requests -> SUBSET Extensions]
  /\ landed \in [Requests -> SUBSET (Extensions \X Parts)]
  /\ overlapped \in BOOLEAN
  /\ crashes \in Nat /\ faults \in Nat

Init ==
  /\ status = "draft"
  /\ plan = {} /\ outcome = {}
  /\ phase = [c \in Requests |-> "idle"]
  /\ want \in [Requests -> {"plan", "apply", "cancel"}]
  /\ answer = [c \in Requests |-> "none"]
  /\ gone = {}
  /\ found = [c \in Requests |-> {}]
  /\ rows = [c \in Requests |-> {}]
  /\ skip = [c \in Requests |-> {}]
  /\ secret = [c \in Requests |-> "none"]
  /\ todo = [c \in Requests |-> {}]
  /\ ok = [c \in Requests |-> {}]
  /\ problem = [c \in Requests |-> {}]
  /\ landed = [c \in Requests |-> {}]
  /\ overlapped = FALSE
  /\ crashes = 0 /\ faults = 0

Fault ==
  /\ faults < MaxFaults
  /\ faults' = faults + 1

\* The next statement of a request goes through, or fails without effect: at
\* once when the client is gone, since the request's context is cancelled.
Works(c) == c \notin gone /\ UNCHANGED faults
Fails(c) == (c \in gone /\ UNCHANGED faults) \/ (c \notin gone /\ Fault)

Goto(c, p) ==
  /\ phase' = [phase EXCEPT ![c] = p]
  /\ UNCHANGED answer

End(c, a) ==
  /\ phase' = [phase EXCEPT ![c] = "over"]
  /\ answer' = [answer EXCEPT ![c] = a]

\* Bookkeeping for the properties: a request begins while another is active.
Begin == overlapped' = (overlapped \/ \E d \in Requests : phase[d] \in Active)

-----------------------------------------------------------------------------
(***************************************************************************)
(* planBulk: read the phone system, compare, save.                         *)
(***************************************************************************)

Compare(c) ==
  /\ phase[c] = "idle" /\ want[c] = "plan"
  /\ status # "expired"
  /\ \/ /\ \E S \in SUBSET (CoreRows \cup OptionRows) : found' = [found EXCEPT ![c] = S]
        /\ Goto(c, "comparing")
        /\ Begin
     \/ /\ End(c, "badGateway")                \* the phone system cannot be read
        /\ UNCHANGED <<found, overlapped>>
  /\ UNCHANGED <<edit, want, gone, rows, skip, secret, progress, landed, crashes, faults>>

\* Mutant: an applied sheet may be compared again.
PlannableAgain == status # "expired"

\* SaveBulkPlan's WHERE clause.
Plannable == status \in {"draft", "planned"}

SavePlan(c) ==
  /\ phase[c] = "comparing"
  /\ \/ /\ Plannable
        /\ status' = "planned" /\ plan' = found[c]
        /\ \/ Works(c) /\ End(c, "planned")
           \/ c \notin gone /\ Fault /\ End(c, "error")
     \/ /\ ~Plannable
        /\ UNCHANGED <<status, plan>>
        /\ Works(c) /\ End(c, "conflict")
     \/ /\ UNCHANGED <<status, plan>>
        /\ Fails(c) /\ End(c, "error")
  /\ UNCHANGED <<outcome, want, gone, sent, progress, landed, overlapped, crashes>>

-----------------------------------------------------------------------------
(***************************************************************************)
(* applyBulk.                                                              *)
(***************************************************************************)

\* Mutant: the status is left to FinishBulkEdit to check.
ReadyAlways == status # "expired"

\* applyBulk's own check, long before FinishBulkEdit's.
Ready == status = "planned"

\* The edit is read with its plan; the person typed "apply", may have unticked
\* rows, and may send write-only fields.
Apply(c) ==
  /\ phase[c] = "idle" /\ want[c] = "apply"
  /\ status # "expired"
  /\ \/ /\ Ready
        /\ rows' = [rows EXCEPT ![c] = plan]
        /\ \E S \in SUBSET Extensions :
             /\ skip' = [skip EXCEPT ![c] = S]
             /\ todo' = [todo EXCEPT ![c] = (plan \cap CoreRows) \ S]
        /\ \E k \in {"none", "refused", "pin"} : secret' = [secret EXCEPT ![c] = k]
        /\ Goto(c, "rows")
        /\ Begin
     \/ /\ \/ ~Ready /\ End(c, "conflict")
           \/ Ready /\ End(c, "badRequest")       \* not confirmed
        /\ UNCHANGED <<rows, skip, todo, secret, overlapped>>
  /\ UNCHANGED <<edit, want, gone, found, ok, problem, landed, crashes, faults>>

\* How a row's own call is reported.
RowSaid(c, e, well) ==
  /\ ok' = IF well THEN [ok EXCEPT ![c] = @ \cup {e}] ELSE ok
  /\ problem' = IF well THEN problem ELSE [problem EXCEPT ![c] = @ \cup {e}]

\* removeRow, createRow and applyRow: one call for one row.  It is written and
\* said so, or it is reported as a problem, written or not.  What the phone
\* system refuses of a row to create or remove it says inside an answer that
\* succeeds, and neither removeRow nor createRow looks there.
ApplyRow(c, e) ==
  /\ phase[c] = "rows"
  /\ e \in todo[c]
  /\ todo' = [todo EXCEPT ![c] = @ \ {e}]
  /\ \/ /\ c \notin gone
        /\ landed' = [landed EXCEPT ![c] = @ \cup {<<e, "core">>}]
        /\ \E well \in BOOLEAN : RowSaid(c, e, well)
     \/ /\ RowSaid(c, e, FALSE)
        /\ UNCHANGED landed
     \/ /\ c \notin gone /\ e \in WholeRows
        /\ RowSaid(c, e, TRUE)
        /\ UNCHANGED landed
  /\ UNCHANGED <<edit, request, sent, overlapped, crashes, faults>>

\* A row whose core change failed is not batched.
RowsDone(c) ==
  /\ phase[c] = "rows"
  /\ todo[c] = {}
  /\ todo' = [todo EXCEPT ![c] = ((rows[c] \cap OptionRows) \ skip[c]) \ problem[c]]
  /\ Goto(c, "secrets")
  /\ UNCHANGED <<edit, want, gone, sent, ok, problem, landed, overlapped, crashes, faults>>

\* Mutant: unticked rows get the secrets too.
SecretRowsAll(c) == Extensions

\* Whom the write-only fields are for: every row but the unticked ones, whether
\* or not anything else about it changes.
SecretRows(c) == Extensions \ (skip[c] \cup WholeRows)

\* How the answers for the secrets are merged into the report.
SecretsSaid(c, failed) ==
  /\ ok' = [ok EXCEPT ![c] = (@ \cup (SecretRows(c) \ problem[c])) \ failed]
  /\ problem' = [problem EXCEPT ![c] = @ \cup failed]

\* The write-only fields.  One that is not a secret, or an answer that cannot be
\* read, ends the request there and then: the rows are written, nothing is recorded.
Secrets(c) ==
  /\ phase[c] = "secrets"
  /\ \/ /\ secret[c] = "none" \/ (secret[c] = "pin" /\ SecretRows(c) = {})
        /\ Goto(c, "options")
        /\ UNCHANGED <<ok, problem, landed>>
     \/ /\ secret[c] = "refused"
        /\ End(c, "badRequest")
        /\ UNCHANGED <<ok, problem, landed>>
     \/ /\ secret[c] = "pin"
        /\ \E S \in SUBSET SecretRows(c) :
             /\ c \in gone => S = {}
             /\ landed' = [landed EXCEPT ![c] = @ \cup (S \X {"pin"})]
             /\ \/ End(c, "badGateway") /\ UNCHANGED <<ok, problem>>
                \/ \E failed \in SUBSET SecretRows(c) :
                     /\ SecretRows(c) \ failed \subseteq S
                     /\ SecretsSaid(c, failed)
                     /\ Goto(c, "options")
  /\ UNCHANGED <<edit, want, gone, sent, todo, overlapped, crashes, faults>>

\* How the answers for the options are merged: the last word on ok, though an
\* earlier problem stays noted.
OptionsSaid(c, group, failed) ==
  /\ ok' = [ok EXCEPT ![c] = (@ \cup group) \ failed]
  /\ problem' = [problem EXCEPT ![c] = @ \cup failed]

\* setOptions for a group of rows that set the same options: each row's own
\* answer, or one error for all of them.
Options(c) ==
  /\ phase[c] = "options"
  /\ \E group \in (SUBSET todo[c]) \ {{}} :
       /\ \E S, failed \in SUBSET group :
            /\ c \in gone => S = {}
            /\ group \ failed \subseteq S
            /\ landed' = [landed EXCEPT ![c] = @ \cup (S \X {"options"})]
            /\ OptionsSaid(c, group, failed)
       /\ todo' = [todo EXCEPT ![c] = @ \ group]
  /\ UNCHANGED <<edit, request, sent, overlapped, crashes, faults>>

-----------------------------------------------------------------------------
(***************************************************************************)
(* FinishBulkEdit, for an apply and for a cancellation.                    *)
(***************************************************************************)

\* Mutant: the status is not part of the condition.
UndecidedAny == status # "expired"

\* FinishBulkEdit's WHERE clause.
Undecided == status = "planned"

\* failure: what the handler answers when the statement fails.
FinishBulkEdit(c, s, o, failure) ==
  \/ /\ Undecided
     /\ status' = s /\ outcome' = o
     /\ \/ Works(c) /\ End(c, s)
        \/ c \notin gone /\ Fault /\ End(c, failure)
  \/ /\ ~Undecided
     /\ UNCHANGED <<status, outcome>>
     /\ Works(c) /\ End(c, "conflict")
  \/ /\ UNCHANGED <<status, outcome>>
     /\ Fails(c) /\ End(c, failure)

Decide(c) ==
  /\ phase[c] = "options"
  /\ todo[c] = {}
  /\ FinishBulkEdit(c, "applied", ok[c], "error")
  /\ UNCHANGED <<plan, want, gone, sent, progress, landed, overlapped, crashes>>

\* cancelBulk: whatever fails, the person is told the sheet was already decided.
Cancel(c) ==
  /\ phase[c] = "idle" /\ want[c] = "cancel"
  /\ status # "expired"
  /\ FinishBulkEdit(c, "cancelled", {}, "conflict")
  /\ Begin
  /\ UNCHANGED <<plan, want, gone, sent, progress, landed, crashes>>

-----------------------------------------------------------------------------

\* The client goes away: what the request calls from now on fails.
Leave(c) ==
  /\ phase[c] \in Active
  /\ c \notin gone
  /\ Cardinality(gone) < MaxLeaves
  /\ gone' = gone \cup {c}
  /\ UNCHANGED <<edit, phase, want, answer, sent, progress, landed, overlapped, crashes, faults>>

\* SweepBulkEdits, days later: nobody is still at it.
Expire ==
  /\ status # "expired"
  /\ \A c \in Requests : phase[c] \notin Active
  /\ status' = "expired"
  /\ UNCHANGED <<plan, outcome, request, sent, progress, landed, overlapped, crashes, faults>>

Crash ==
  /\ crashes < MaxCrashes
  /\ crashes' = crashes + 1
  /\ phase' = [c \in Requests |-> IF phase[c] \in Active THEN "over" ELSE phase[c]]
  /\ answer' = [c \in Requests |-> IF phase[c] \in Active THEN "lost" ELSE answer[c]]
  /\ UNCHANGED <<edit, want, gone, sent, progress, landed, overlapped, faults>>

Next ==
  \/ \E c \in Requests :
       \/ Compare(c) \/ SavePlan(c)
       \/ Apply(c) \/ RowsDone(c) \/ Secrets(c) \/ Options(c) \/ Decide(c)
       \/ Cancel(c)
       \/ Leave(c)
       \/ \E e \in Extensions : ApplyRow(c, e)
  \/ Expire
  \/ Crash

Spec == Init /\ [][Next]_vars

-----------------------------------------------------------------------------

\* "Once and only once" (FinishBulkEdit): a decided sheet keeps its decision,
\* its plan and its recorded outcome, whatever comes late, until it expires.
DecisionIsFinal ==
  [][(status \in {"applied", "cancelled"}) =>
       /\ status' \in {status, "expired"}
       /\ plan' = plan
       /\ outcome' = outcome]_vars

\* Of everybody who pressed Apply or Cancel one at most is told it is done, and
\* then the sheet says the same: its decision, and for an apply its report.
OneIsTold ==
  /\ \A c, d \in Requests :
       answer[c] \in {"applied", "cancelled"} /\ answer[d] \in {"applied", "cancelled"} => c = d
  /\ \A c \in Requests : answer[c] \in {"applied", "cancelled"} =>
       /\ status \in {answer[c], "expired"}
       /\ answer[c] = "applied" => outcome = ok[c]

\* A row somebody unticked is left alone by everything their click does, the
\* secrets and the batches included.
LeftAlone == \A c \in Requests, p \in Parts, e \in Extensions :
  e \in skip[c] => <<e, p>> \notin landed[c]

\* A row reported ok had its changes written: what the plan said of it has
\* landed, whatever failed in between.  Not so for a row that creates or removes
\* its extension, see OkMeansDone.
OkMeansWritten ==
  \A c \in Requests : answer[c] = "applied" =>
    \A e \in ok[c] \cap rows[c] :
      /\ e \in CoreRows \ WholeRows => <<e, "core">> \in landed[c]
      /\ e \in OptionRows => <<e, "options">> \in landed[c]

\* Every row of the plan is reported: ok, with its problem, or left alone.
EveryRowIsReported ==
  \A c \in Requests : answer[c] = "applied" =>
    rows[c] \subseteq ok[c] \cup problem[c] \cup skip[c]

\* The requests that have written something other than a secret to row e.
Writers(e) == {c \in Requests : \E p \in {"core", "options"} : <<e, p>> \in landed[c]}

\* No request is still writing, and none ended without recording what it did.
Undisturbed ==
  /\ ~overlapped
  /\ gone = {} /\ crashes = 0 /\ faults = 0
  /\ \A c \in Requests :
       landed[c] # {} => answer[c] \notin {"badRequest", "badGateway"}

\* As long as requests do not overlap and none is cut short, a sheet is written
\* once, and a cancelled or discarded one not at all.
WrittenOnceUndisturbed ==
  Undisturbed =>
    /\ \A e \in Extensions : Cardinality(Writers(e)) <= 1
    /\ status = "cancelled" => \A e \in Extensions : Writers(e) = {}

\* "Two clicks on Apply, or a retried request, would otherwise both find a
\* planned edit and both go through" (FinishBulkEdit): no row is written by two.
WrittenOnce == \A e \in Extensions : Cardinality(Writers(e)) <= 1

\* "Reporting them one by one is also what lets a half-finished batch say exactly
\* which numbers exist now" (createRow): a row that creates or removes its
\* extension and is reported ok did so.
OkMeansDone ==
  \A c \in Requests : answer[c] = "applied" =>
    \A e \in ok[c] \cap rows[c] \cap WholeRows : <<e, "core">> \in landed[c]

\* "Reported per extension like everything else" (applyBulk, the secrets): a row
\* the secret was meant for and that is reported ok has it set.
OkMeansPinSet ==
  \A c \in Requests : answer[c] = "applied" /\ secret[c] = "pin" =>
    \A e \in ok[c] \cap SecretRows(c) : <<e, "pin">> \in landed[c]

\* What holds of a sheet in every state: what was unticked is left alone, every row
\* is reported, and what is reported done was written.
SheetIsKept ==
  /\ TypeOK
  /\ LeftAlone
  /\ OkMeansWritten
  /\ EveryRowIsReported

=============================================================================
