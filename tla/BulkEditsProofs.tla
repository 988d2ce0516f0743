--------------------------- MODULE BulkEditsProofs ---------------------------
(***************************************************************************)
(* Theorems about BulkEdits, for any sheet, requests and bounds: the       *)
(* decision is final and told once, unticked rows are left alone, the      *)
(* report of an applied sheet is true of every row, and a row is written   *)
(* once while nobody disturbs it.                                          *)
(***************************************************************************)
EXTENDS BulkEdits, FiniteSetTheorems, TLAPS

\* The types at the start.
LEMMA InitTypeOK == Init => TypeOK
<1> SUFFICES ASSUME Init PROVE TypeOK
  OBVIOUS
<1>1. overlapped \in BOOLEAN
  BY Zenon DEF Init
<1>2. QED
  BY <1>1 DEF Init, TypeOK, Statuses, Active, Answers, Parts

\* Comparing and saving keep the types.
LEMMA PlanTypeOK ==
  ASSUME TypeOK, NEW c \in Requests, Compare(c) \/ SavePlan(c)
  PROVE  TypeOK'
<1> USE RowsAssumption DEF TypeOK, Statuses, Active, Answers, Parts, edit, sent, progress,
            Goto, End, Begin, Fault, Works, Fails
<1>1. CASE Compare(c)
  <2>1. overlapped' \in BOOLEAN
    BY <1>1, Zenon DEF Compare
  <2>2. QED
    BY <1>1, <2>1 DEF Compare
<1>2. CASE SavePlan(c)
  BY <1>2 DEF SavePlan
<1>3. QED
  BY <1>1, <1>2

\* So do the calls of an apply.
LEMMA ApplyTypeOK ==
  ASSUME TypeOK, NEW c \in Requests,
         Apply(c) \/ RowsDone(c) \/ Secrets(c) \/ Options(c)
           \/ \E e \in Extensions : ApplyRow(c, e)
  PROVE  TypeOK'
<1> USE RowsAssumption DEF TypeOK, Statuses, Active, Answers, Parts, edit, request, sent,
            Goto, End, Begin
<1>1. CASE Apply(c)
  <2>1. overlapped' \in BOOLEAN
    BY <1>1, Zenon DEF Apply
  <2>2. QED
    BY <1>1, <2>1 DEF Apply
<1>2. CASE RowsDone(c)
  BY <1>2 DEF RowsDone
<1>3. CASE Secrets(c)
  BY <1>3 DEF Secrets, SecretRows, SecretsSaid
<1>4. CASE Options(c)
  BY <1>4 DEF Options, OptionsSaid
<1>5. ASSUME NEW e \in Extensions, ApplyRow(c, e)
      PROVE  TypeOK'
  BY <1>5 DEF ApplyRow, RowSaid
<1>6. QED
  BY <1>1, <1>2, <1>3, <1>4, <1>5

\* So do the decisions, and what happens to a request from outside.
LEMMA EndTypeOK ==
  ASSUME TypeOK,
         \/ \E c \in Requests : Decide(c) \/ Cancel(c) \/ Leave(c)
         \/ Expire \/ Crash
  PROVE  TypeOK'
<1> USE DEF TypeOK, Statuses, Active, Answers, Parts, edit, request, sent, progress,
            FinishBulkEdit, Goto, End, Begin, Fault, Works, Fails
<1>1. ASSUME NEW c \in Requests, Decide(c)
      PROVE  TypeOK'
  BY <1>1 DEF Decide
<1>2. ASSUME NEW c \in Requests, Cancel(c)
      PROVE  TypeOK'
  BY <1>2 DEF Cancel
<1>3. ASSUME NEW c \in Requests, Leave(c)
      PROVE  TypeOK'
  BY <1>3 DEF Leave
<1>4. CASE Expire
  BY <1>4 DEF Expire
<1>5. CASE Crash
  BY <1>5 DEF Crash
<1>6. QED
  BY <1>1, <1>2, <1>3, <1>4, <1>5

\* Every step keeps the types.
LEMMA NextTypeOK == TypeOK /\ [Next]_vars => TypeOK'
<1> SUFFICES ASSUME TypeOK, [Next]_vars PROVE TypeOK'
  OBVIOUS
<1>1. CASE Next
  BY <1>1, PlanTypeOK, ApplyTypeOK, EndTypeOK DEF Next
<1>2. CASE UNCHANGED vars
  BY <1>2 DEF TypeOK, vars, edit, request, sent, progress
<1>3. QED
  BY <1>1, <1>2

\* Every variable has its type in every state: no status outside the table's
\* CHECK constraint is ever written.
THEOREM TypeCorrect == Spec => []TypeOK
BY InitTypeOK, NextTypeOK, PTL DEF Spec

-----------------------------------------------------------------------------

\* The conditions of SaveBulkPlan and FinishBulkEdit, whatever order late
\* requests come in: a decided sheet keeps its decision, plan and outcome.
THEOREM DecisionStays == Spec => DecisionIsFinal
<1> DEFINE Kept == (status \in {"applied", "cancelled"}) =>
             /\ status' \in {status, "expired"}
             /\ plan' = plan
             /\ outcome' = outcome
<1>1. Next => Kept
  <2> SUFFICES ASSUME Next PROVE Kept
    OBVIOUS
  <2> USE DEF edit
  <2>1. ASSUME NEW c \in Requests,
               Compare(c) \/ Apply(c) \/ RowsDone(c) \/ Secrets(c) \/ Options(c) \/ Leave(c)
                 \/ \E e \in Extensions : ApplyRow(c, e)
        PROVE  Kept
    BY <2>1 DEF Compare, Apply, RowsDone, Secrets, Options, Leave, ApplyRow
  <2>2. ASSUME NEW c \in Requests, SavePlan(c)
        PROVE  Kept
    BY <2>2 DEF SavePlan, Plannable
  <2>3. ASSUME NEW c \in Requests, Decide(c) \/ Cancel(c)
        PROVE  Kept
    BY <2>3 DEF Decide, Cancel, FinishBulkEdit, Undecided
  <2>4. CASE Expire \/ Crash
    BY <2>4 DEF Expire, Crash
  <2>5. QED
    BY <2>1, <2>2, <2>3, <2>4 DEF Next
<1>2. [Next]_vars => [Kept]_vars
  BY <1>1
<1>3. QED
  BY <1>2, PTL DEF Spec, DecisionIsFinal

-----------------------------------------------------------------------------
(***************************************************************************)
(* What a request in each phase has written and noted of each row.         *)
(***************************************************************************)

\* Going row by row: a row is still to do, noted ok or noted a problem, and
\* one noted ok was written.
RowsSoFar(c) ==
  /\ todo[c] \subseteq rows[c] \cap CoreRows
  /\ ok[c] \subseteq (rows[c] \cap CoreRows) \ skip[c]
  /\ ok[c] \cap (todo[c] \cup problem[c]) = {}
  /\ todo[c] \cap problem[c] = {}
  /\ (rows[c] \cap CoreRows) \ skip[c] \subseteq todo[c] \cup ok[c] \cup problem[c]
  /\ \A e \in ok[c] \ WholeRows : <<e, "core">> \in landed[c]

\* Then whatever is ok or still to be batched had its core change written, and
\* whatever is ok has its options written or still to be.
BatchesSoFar(c) ==
  /\ todo[c] \subseteq rows[c] \cap OptionRows
  /\ rows[c] \ skip[c] \subseteq todo[c] \cup ok[c] \cup problem[c]
  /\ \A e \in (todo[c] \cup ok[c]) \cap rows[c] \cap (CoreRows \ WholeRows) : <<e, "core">> \in landed[c]
  /\ \A e \in ok[c] \cap rows[c] \cap OptionRows : e \in todo[c] \/ <<e, "options">> \in landed[c]

\* Before the secrets the same can be said of every row that is no problem.
NoSecretYet(c) ==
  /\ (rows[c] \cap OptionRows) \ skip[c] \subseteq todo[c] \cup problem[c]
  /\ \A e \in (rows[c] \cap (CoreRows \ WholeRows)) \ skip[c] : e \in problem[c] \/ <<e, "core">> \in landed[c]

\* The report of a request that was told its sheet is applied.
ReportTrue(c) ==
  /\ rows[c] \subseteq ok[c] \cup problem[c] \cup skip[c]
  /\ \A e \in ok[c] \cap rows[c] :
       /\ e \in CoreRows \ WholeRows => <<e, "core">> \in landed[c]
       /\ e \in OptionRows => <<e, "options">> \in landed[c]

Sound(c) ==
  /\ found[c] \cup rows[c] \subseteq CoreRows \cup OptionRows
  /\ todo[c] \cap skip[c] = {}
  /\ \A e \in skip[c], p \in Parts : <<e, p>> \notin landed[c]
  /\ phase[c] # "over" => answer[c] = "none"
  /\ phase[c] \in {"idle", "comparing"} => ok[c] = {} /\ problem[c] = {} /\ landed[c] = {}
  /\ phase[c] = "rows" => RowsSoFar(c)
  /\ phase[c] \in {"secrets", "options"} => BatchesSoFar(c)
  /\ phase[c] = "secrets" => NoSecretYet(c)
  /\ answer[c] = "applied" => ReportTrue(c)

IInv == TypeOK /\ plan \subseteq CoreRows \cup OptionRows /\ \A c \in Requests : Sound(c)

\* Nothing is written or noted at the start, so all of it is sound.
LEMMA InitIInv == Init => IInv
<1> SUFFICES ASSUME Init PROVE IInv
  OBVIOUS
<1>1. TypeOK
  BY InitTypeOK
<1>2. ASSUME NEW c \in Requests PROVE Sound(c)
  BY DEF Init, Sound
<1>3. QED
  BY <1>1, <1>2 DEF IInv, Init

\* What request c has written and noted does not depend on the others.
LEMMA Elsewhere ==
  ASSUME NEW d, Sound(d),
         phase'[d] = phase[d], answer'[d] = answer[d], found'[d] = found[d],
         rows'[d] = rows[d], skip'[d] = skip[d], todo'[d] = todo[d],
         ok'[d] = ok[d], problem'[d] = problem[d], landed'[d] = landed[d]
  PROVE  Sound(d)'
BY DEF Sound, RowsSoFar, BatchesSoFar, NoSecretYet, ReportTrue

\* A request that ends without being told its sheet is applied owes no report.
LEMMA EndsUnapplied ==
  ASSUME NEW c, Sound(c),
         phase'[c] = "over", answer'[c] # "applied",
         found'[c] = found[c], rows'[c] = rows[c], skip'[c] = skip[c], todo'[c] = todo[c],
         \A e \in skip[c], p \in Parts : <<e, p>> \notin landed'[c]
  PROVE  Sound(c)'
BY DEF Sound

\* Comparing finds rows of the sheet, and saving makes them the plan.
LEMMA PlanSound ==
  ASSUME IInv, NEW c \in Requests, Compare(c) \/ SavePlan(c)
  PROVE  plan' \subseteq CoreRows \cup OptionRows /\ \A d \in Requests : Sound(d)'
<1>0. TypeOK /\ plan \subseteq CoreRows \cup OptionRows /\ \A d \in Requests : Sound(d)
  BY DEF IInv
<1>1. plan' \subseteq CoreRows \cup OptionRows
  BY <1>0 DEF Compare, SavePlan, edit, Sound, TypeOK
<1>2. ASSUME NEW d \in Requests, d # c PROVE Sound(d)'
  BY <1>0, <1>2, Elsewhere DEF Compare, SavePlan, Goto, End, sent, progress, TypeOK
<1>3. Sound(c)'
  BY <1>0
     DEF Compare, SavePlan, Goto, End, sent, progress, Sound, RowsSoFar, BatchesSoFar, NoSecretYet, ReportTrue, TypeOK
<1>4. QED
  BY <1>1, <1>2, <1>3

\* The plan an apply starts from, and its rows one by one.
LEMMA RowsSound ==
  ASSUME IInv, NEW c \in Requests,
         Apply(c) \/ RowsDone(c) \/ \E e \in Extensions : ApplyRow(c, e)
  PROVE  plan' \subseteq CoreRows \cup OptionRows /\ \A d \in Requests : Sound(d)'
<1>0. TypeOK /\ plan \subseteq CoreRows \cup OptionRows /\ \A d \in Requests : Sound(d)
  BY DEF IInv
<1>1. TypeOK /\ plan \subseteq CoreRows \cup OptionRows
  BY <1>0
<1>2. Sound(c)
  BY <1>0
<1>3. plan' \subseteq CoreRows \cup OptionRows
  BY <1>1 DEF Apply, RowsDone, ApplyRow, edit
<1>4. ASSUME NEW d \in Requests, d # c PROVE Sound(d)'
  BY <1>0, <1>4, Elsewhere
     DEF Apply, RowsDone, ApplyRow, RowSaid, Goto, End, request, sent, TypeOK
<1>5. ASSUME Apply(c) PROVE Sound(c)'
  <2>1. CASE Ready /\ Goto(c, "rows")
    <3>1. /\ phase'[c] = "rows" /\ answer'[c] = answer[c] /\ found'[c] = found[c]
          /\ rows'[c] = plan
          /\ todo'[c] = (plan \cap CoreRows) \ skip'[c]
          /\ ok'[c] = ok[c] /\ problem'[c] = problem[c] /\ landed'[c] = landed[c]
      BY <1>1, <1>5, <2>1 DEF Apply, Goto, End, TypeOK
    <3>2. /\ found[c] \subseteq CoreRows \cup OptionRows
          /\ answer[c] = "none" /\ ok[c] = {} /\ problem[c] = {} /\ landed[c] = {}
      BY <1>2, <1>5 DEF Apply, Sound
    <3>3. QED
      BY <1>1, <3>1, <3>2 DEF Sound, RowsSoFar
  <2>2. CASE /\ End(c, "conflict") \/ End(c, "badRequest")
             /\ UNCHANGED <<rows, skip, todo, secret, overlapped>>
    <3>1. phase'[c] = "over" /\ answer'[c] # "applied"
      BY <1>1, <2>2 DEF End, TypeOK
    <3>2. found' = found /\ landed' = landed
      BY <1>5 DEF Apply
    <3>3. \A e \in skip[c], p \in Parts : <<e, p>> \notin landed'[c]
      BY <1>2, <3>2 DEF Sound
    <3>4. QED
      BY <1>2, <2>2, <3>1, <3>2, <3>3, EndsUnapplied
  <2>3. QED
    BY <1>5, <2>1, <2>2 DEF Apply
<1>6. ASSUME RowsDone(c) PROVE Sound(c)'
  <2>1. phase[c] = "rows" /\ todo[c] = {} /\ RowsSoFar(c)
    BY <1>2, <1>6 DEF RowsDone, Sound
  <2>2. /\ todo'[c] = ((rows[c] \cap OptionRows) \ skip[c]) \ problem[c]
        /\ UNCHANGED <<found, rows, skip, ok, problem, landed>>
        /\ phase'[c] = "secrets" /\ answer'[c] = answer[c]
    BY <1>1, <1>6 DEF RowsDone, Goto, sent, TypeOK
  <2>3. BatchesSoFar(c)'
    BY <1>2, <2>1, <2>2 DEF Sound, RowsSoFar, BatchesSoFar
  <2>4. NoSecretYet(c)'
    BY <2>1, <2>2 DEF RowsSoFar, NoSecretYet
  <2>5. QED
    BY <1>2, <2>1, <2>2, <2>3, <2>4 DEF Sound
<1>7. ASSUME NEW e \in Extensions, ApplyRow(c, e)
      PROVE  Sound(c)'
  <2>1. phase[c] = "rows" /\ e \in todo[c] /\ RowsSoFar(c)
    BY <1>2, <1>7 DEF ApplyRow, Sound
  <2>2. /\ todo'[c] = todo[c] \ {e}
        /\ landed[c] \subseteq landed'[c]
        /\ \/ /\ ok'[c] = ok[c] \cup {e} /\ problem'[c] = problem[c]
              /\ e \in WholeRows \/ <<e, "core">> \in landed'[c]
           \/ ok'[c] = ok[c] /\ problem'[c] = problem[c] \cup {e}
        /\ UNCHANGED <<phase, answer, found, rows, skip>>
    BY <1>1, <1>7 DEF ApplyRow, RowSaid, request, sent, TypeOK
  <2>3. RowsSoFar(c)'
    BY <1>2, <2>1, <2>2 DEF RowsSoFar, Sound
  <2>4. \A x \in skip'[c], p \in Parts : <<x, p>> \notin landed'[c]
    <3>1. landed'[c] \subseteq landed[c] \cup {<<e, "core">>}
      BY <1>1, <1>7, ZenonT(60) DEF ApplyRow, TypeOK
    <3>2. e \notin skip[c]
      BY <1>2, <2>1 DEF Sound
    <3>3. QED
      BY <1>2, <2>2, <3>1, <3>2 DEF Sound
  <2>5. QED
    BY <1>2, <2>1, <2>2, <2>3, <2>4 DEF Sound
<1>8. Sound(c)'
  BY <1>5, <1>6, <1>7
<1>9. QED
  BY <1>3, <1>4, <1>8

\* The secrets and the batches of options.
LEMMA BatchesSound ==
  ASSUME IInv, NEW c \in Requests, Secrets(c) \/ Options(c)
  PROVE  plan' \subseteq CoreRows \cup OptionRows /\ \A d \in Requests : Sound(d)'
<1>0. TypeOK /\ plan \subseteq CoreRows \cup OptionRows /\ \A d \in Requests : Sound(d)
  BY DEF IInv
<1>1. TypeOK /\ plan \subseteq CoreRows \cup OptionRows
  BY <1>0
<1>2. Sound(c)
  BY <1>0
<1>3. plan' \subseteq CoreRows \cup OptionRows
  BY <1>1 DEF Secrets, Options, edit
<1>4. ASSUME NEW d \in Requests, d # c PROVE Sound(d)'
  BY <1>0, <1>4, Elsewhere
     DEF Secrets, SecretsSaid, Options, OptionsSaid, Goto, End, request, sent, TypeOK
<1>5. ASSUME Secrets(c) PROVE Sound(c)'
  <2>1. phase[c] = "secrets" /\ answer[c] = "none" /\ BatchesSoFar(c) /\ NoSecretYet(c)
    BY <1>2, <1>5 DEF Secrets, Sound
  <2>2. UNCHANGED <<found, rows, skip, todo>>
    BY <1>5 DEF Secrets, sent
  <2>3. CASE UNCHANGED <<ok, problem, landed>> /\ Goto(c, "options")
    <3>1. phase'[c] = "options" /\ answer'[c] = answer[c]
      BY <1>1, <2>3 DEF Goto, TypeOK
    <3>2. BatchesSoFar(c)'
      BY <2>1, <2>2, <2>3 DEF BatchesSoFar
    <3>3. QED
      BY <1>2, <2>1, <2>2, <2>3, <3>1, <3>2 DEF Sound
  <2>4. CASE UNCHANGED <<ok, problem, landed>> /\ End(c, "badRequest")
    <3>1. phase'[c] = "over" /\ answer'[c] # "applied"
      BY <1>1, <2>4 DEF End, TypeOK
    <3>2. \A e \in skip[c], p \in Parts : <<e, p>> \notin landed'[c]
      BY <1>2, <2>4 DEF Sound
    <3>3. QED
      BY <1>2, <2>2, <3>1, <3>2, EndsUnapplied
  <2>5. ASSUME NEW S \in SUBSET SecretRows(c),
               landed' = [landed EXCEPT ![c] = @ \cup (S \X {"pin"})],
               \/ End(c, "badGateway")
               \/ \E failed \in SUBSET SecretRows(c) :
                    SecretsSaid(c, failed) /\ Goto(c, "options")
        PROVE  Sound(c)'
    <3>1. landed'[c] = landed[c] \cup (S \X {"pin"})
      BY <1>1, <2>5 DEF TypeOK
    <3>2. /\ landed[c] \subseteq landed'[c]
          /\ \A x \in skip'[c], p \in Parts : <<x, p>> \notin landed'[c]
      BY <1>2, <2>2, <2>5, <3>1 DEF SecretRows, Sound
    <3>3. CASE End(c, "badGateway")
      <4>1. phase'[c] = "over" /\ answer'[c] # "applied"
        BY <1>1, <3>3 DEF End, TypeOK
      <4>2. QED
        BY <1>2, <2>2, <3>2, <4>1, EndsUnapplied
    <3>4. ASSUME NEW failed \in SUBSET SecretRows(c), SecretsSaid(c, failed), Goto(c, "options")
          PROVE  Sound(c)'
      <4>1. /\ ok'[c] = (ok[c] \cup ((Extensions \ (skip[c] \cup WholeRows)) \ problem[c])) \ failed
            /\ problem'[c] = problem[c] \cup failed
            /\ phase'[c] = "options" /\ answer'[c] = answer[c]
        BY <1>1, <3>4 DEF SecretsSaid, SecretRows, Goto, TypeOK
      <4>2. BatchesSoFar(c)'
        BY <2>1, <2>2, <3>2, <4>1 DEF BatchesSoFar, NoSecretYet
      <4>3. QED
        BY <1>2, <2>1, <2>2, <3>2, <4>1, <4>2 DEF Sound
    <3>5. QED
      BY <2>5, <3>3, <3>4
  <2>6. QED
    BY <1>5, <2>3, <2>4, <2>5 DEF Secrets
<1>6. ASSUME Options(c) PROVE Sound(c)'
  <2>1. phase[c] = "options" /\ answer[c] = "none" /\ BatchesSoFar(c)
    BY <1>2, <1>6 DEF Options, Sound
  <2>2. UNCHANGED <<phase, answer, found, rows, skip>>
    BY <1>6 DEF Options, request, sent
  <2>3. PICK group, S, failed \in SUBSET todo[c] :
          /\ S \subseteq group /\ failed \subseteq group
          /\ group \ failed \subseteq S
          /\ landed' = [landed EXCEPT ![c] = @ \cup (S \X {"options"})]
          /\ ok' = [ok EXCEPT ![c] = (@ \cup group) \ failed]
          /\ problem' = [problem EXCEPT ![c] = @ \cup failed]
          /\ todo' = [todo EXCEPT ![c] = @ \ group]
    BY <1>6 DEF Options, OptionsSaid
  <2>4. /\ landed'[c] = landed[c] \cup (S \X {"options"})
        /\ ok'[c] = (ok[c] \cup group) \ failed
        /\ problem'[c] = problem[c] \cup failed
        /\ todo'[c] = todo[c] \ group
    BY <1>1, <2>3 DEF TypeOK
  <2>5. /\ \A x \in skip'[c], p \in Parts : <<x, p>> \notin landed'[c]
        /\ todo'[c] \cap skip'[c] = {}
    BY <1>2, <2>2, <2>3, <2>4 DEF Sound
  <2>6. BatchesSoFar(c)'
    BY <2>1, <2>2, <2>3, <2>4 DEF BatchesSoFar
  <2>7. QED
    BY <1>2, <2>1, <2>2, <2>5, <2>6 DEF Sound
<1>7. QED
  BY <1>3, <1>4, <1>5, <1>6

\* Decisions, expiry, leaving clients and crashes write and note nothing.
LEMMA EndSound ==
  ASSUME IInv,
         \/ \E c \in Requests : Decide(c) \/ Cancel(c) \/ Leave(c)
         \/ Expire \/ Crash
  PROVE  plan' \subseteq CoreRows \cup OptionRows /\ \A d \in Requests : Sound(d)'
<1>0. TypeOK /\ plan \subseteq CoreRows \cup OptionRows /\ \A d \in Requests : Sound(d)
  BY DEF IInv
<1>1. plan' \subseteq CoreRows \cup OptionRows
  BY <1>0 DEF Decide, Cancel, Leave, Expire, Crash, edit
<1>2. ASSUME NEW c \in Requests, Decide(c)
      PROVE  \A d \in Requests : Sound(d)'
  <2>1. ASSUME NEW d \in Requests, d # c PROVE Sound(d)'
    BY <1>0, <1>2, <2>1, Elsewhere DEF Decide, FinishBulkEdit, End, sent, progress, TypeOK
  <2>2. Sound(c) /\ BatchesSoFar(c) /\ todo[c] = {}
    BY <1>0, <1>2 DEF Decide, Sound
  <2>3. UNCHANGED <<found, rows, skip, todo, ok, problem, landed>> /\ phase'[c] = "over"
    BY <1>0, <1>2 DEF Decide, FinishBulkEdit, End, sent, progress, TypeOK
  <2>4. ReportTrue(c)'
    BY <2>2, <2>3 DEF BatchesSoFar, ReportTrue
  <2>5. Sound(c)'
    BY <2>2, <2>3, <2>4 DEF Sound
  <2>6. QED
    BY <2>1, <2>5
<1>3. ASSUME NEW c \in Requests, Cancel(c)
      PROVE  \A d \in Requests : Sound(d)'
  <2>1. ASSUME NEW d \in Requests, d # c PROVE Sound(d)'
    BY <1>0, <1>3, <2>1, Elsewhere DEF Cancel, FinishBulkEdit, End, sent, progress, TypeOK
  <2>2. /\ UNCHANGED <<found, rows, skip, todo, ok, problem, landed>>
        /\ phase'[c] = "over" /\ answer'[c] # "applied"
    BY <1>0, <1>3 DEF Cancel, FinishBulkEdit, End, sent, progress, TypeOK
  <2>3. Sound(c)'
    BY <1>0, <2>2 DEF Sound
  <2>4. QED
    BY <2>1, <2>3
<1>4. ASSUME NEW c \in Requests, Leave(c)
      PROVE  \A d \in Requests : Sound(d)'
  BY <1>0, <1>4, Elsewhere DEF Leave, sent, progress
<1>5. CASE Expire
  BY <1>0, <1>5, Elsewhere DEF Expire, request, sent, progress
<1>6. ASSUME Crash PROVE \A d \in Requests : Sound(d)'
  <2>1. UNCHANGED <<found, rows, skip, todo, ok, problem, landed>>
    BY <1>6 DEF Crash, sent, progress
  <2>2. ASSUME NEW d \in Requests, phase[d] \notin Active PROVE Sound(d)'
    <3>1. phase'[d] = phase[d] /\ answer'[d] = answer[d]
      BY <1>6, <2>2 DEF Crash
    <3>2. QED
      BY <1>0, <2>1, <3>1, Elsewhere
  <2>3. ASSUME NEW d \in Requests, phase[d] \in Active PROVE Sound(d)'
    <3>1. phase'[d] = "over" /\ answer'[d] # "applied"
      BY <1>6, <2>3 DEF Crash
    <3>2. QED
      BY <1>0, <2>1, <3>1 DEF Sound
  <2>4. QED
    BY <2>2, <2>3
<1>7. QED
  BY <1>1, <1>2, <1>3, <1>4, <1>5, <1>6

\* Every step of planBulk, applyBulk, cancelBulk and of what happens to them
\* keeps every request sound.
LEMMA NextIInv == IInv /\ [Next]_vars => IInv'
<1> SUFFICES ASSUME IInv, [Next]_vars PROVE IInv'
  OBVIOUS
<1>1. TypeOK'
  BY NextTypeOK DEF IInv
<1>2. CASE Next
  BY <1>1, <1>2, PlanSound, RowsSound, BatchesSound, EndSound DEF Next, IInv
<1>3. CASE UNCHANGED vars
  BY <1>1, <1>3, Elsewhere DEF IInv, vars, edit, request, sent, progress
<1>4. QED
  BY <1>2, <1>3

\* The inductive invariant holds of every behaviour.
THEOREM Invariant == Spec => []IInv
BY InitIInv, NextIInv, PTL DEF Spec

\* The skip list of applyBulk: a row somebody unticked is written by none of
\* the rounds of calls their click leads to.
THEOREM UntickedLeftAlone == Spec => []LeftAlone
<1>1. IInv => LeftAlone
  BY DEF IInv, Sound, LeftAlone
<1>2. QED
  BY <1>1, Invariant, PTL

\* The report of applyBulk: a row that is reported ok had the changes of the
\* plan written, whatever failed before or after them.
THEOREM OkIsWritten == Spec => []OkMeansWritten
<1>1. IInv => OkMeansWritten
  BY DEF IInv, Sound, ReportTrue, OkMeansWritten
<1>2. QED
  BY <1>1, Invariant, PTL

\* "Every row is attempted and every row is reported" (applyBulk).
THEOREM EveryRowReported == Spec => []EveryRowIsReported
<1>1. IInv => EveryRowIsReported
  BY DEF IInv, Sound, ReportTrue, EveryRowIsReported
<1>2. QED
  BY <1>1, Invariant, PTL

-----------------------------------------------------------------------------

\* With the types, being told once is inductive as soon as one knows that an
\* answer ends a request.
ToldOnce == OneIsTold /\ \A c \in Requests : phase[c] # "over" => answer[c] = "none"

\* Every step keeps it: success is answered only where FinishBulkEdit found
\* the row undecided.
LEMMA NextToldOnce == TypeOK /\ ToldOnce /\ [Next]_vars => ToldOnce'
<1> SUFFICES ASSUME TypeOK, ToldOnce, [Next]_vars PROVE ToldOnce'
  OBVIOUS
<1> USE DEF ToldOnce, OneIsTold, TypeOK
<1>1. ASSUME NEW c \in Requests, Compare(c) \/ SavePlan(c)
      PROVE  ToldOnce'
  BY <1>1 DEF Compare, SavePlan, Plannable, Goto, End, edit, sent, progress
<1>2. ASSUME NEW c \in Requests, Apply(c) \/ RowsDone(c) \/ Secrets(c)
      PROVE  ToldOnce'
  BY <1>2 DEF Apply, RowsDone, Secrets, SecretsSaid, Goto, End, edit
<1>3. ASSUME NEW c \in Requests, Options(c) \/ \E e \in Extensions : ApplyRow(c, e)
      PROVE  ToldOnce'
  BY <1>3 DEF Options, OptionsSaid, ApplyRow, RowSaid, edit, request
<1>4. ASSUME NEW c \in Requests, Decide(c) \/ Cancel(c)
      PROVE  ToldOnce'
  BY <1>4 DEF Decide, Cancel, FinishBulkEdit, Undecided, End, sent, progress
<1>5. ASSUME NEW c \in Requests, Leave(c)
      PROVE  ToldOnce'
  BY <1>5 DEF Leave, edit, progress
<1>6. CASE Expire \/ Crash
  BY <1>6 DEF Expire, Crash, Active, edit, request, progress
<1>7. CASE UNCHANGED vars
  BY <1>7 DEF vars, edit, request, progress
<1>8. QED
  BY <1>1, <1>2, <1>3, <1>4, <1>5, <1>6, <1>7 DEF Next

\* FinishBulkEdit decides the race: of everybody who pressed Apply or Cancel
\* one at most is told so, and the row keeps that decision and that report.
THEOREM ToldOnceOnly == Spec => []OneIsTold
<1>1. Init => ToldOnce
  BY DEF Init, ToldOnce, OneIsTold
<1>2. ToldOnce => OneIsTold
  BY DEF ToldOnce
<1>3. QED
  BY <1>1, <1>2, InitTypeOK, NextTypeOK, NextToldOnce, PTL DEF Spec

-----------------------------------------------------------------------------
\* The safety of a sheet as a whole, the invariant of the runs.
THEOREM SheetKept == Spec => []SheetIsKept
<1>1. TypeOK /\ LeftAlone /\ OkMeansWritten /\ EveryRowIsReported => SheetIsKept
  BY DEF SheetIsKept
<1>2. QED
  BY <1>1, TypeCorrect, UntickedLeftAlone, OkIsWritten, EveryRowReported, PTL

-----------------------------------------------------------------------------
(***************************************************************************)
(* A sheet nobody disturbs is written once.  Nothing in the code stands in *)
(* the way of a second writer but the status, and that is written last: so *)
(* the argument is about who is at it, and from when on.                   *)
(***************************************************************************)

\* The phases in which a request may write.
Writing == {"rows", "secrets", "options"}

\* One request at a time is at it; while it may write the sheet is planned;
\* what was written is being written or was decided; and one request wrote it.
AtItAlone ==
  /\ \A c, d \in Requests : phase[c] \in Active /\ phase[d] \in Active => c = d
  /\ \A c \in Requests : phase[c] \in Writing => status = "planned"
  /\ \A c \in Requests : landed[c] # {} =>
       phase[c] \in Writing \/ status \in {"applied", "expired"}
  /\ \A c, d \in Requests : landed[c] # {} /\ landed[d] # {} => c = d

Alone == Undisturbed => AtItAlone

\* A request that ended does and learns nothing more.
LEMMA OverStays ==
  ASSUME TypeOK, Next, NEW d \in Requests, phase[d] = "over"
  PROVE  phase'[d] = "over" /\ answer'[d] = answer[d] /\ landed'[d] = landed[d]
<1> DEFINE Stays == phase'[d] = "over" /\ answer'[d] = answer[d] /\ landed'[d] = landed[d]
<1>1. ASSUME NEW c \in Requests,
             Compare(c) \/ SavePlan(c) \/ Apply(c) \/ RowsDone(c) \/ Leave(c)
      PROVE  Stays
  BY <1>1 DEF Compare, SavePlan, Apply, RowsDone, Leave, Goto, End, TypeOK
<1>2. ASSUME NEW c \in Requests,
             Secrets(c) \/ Options(c) \/ \E e \in Extensions : ApplyRow(c, e)
      PROVE  Stays
  BY <1>2 DEF Secrets, Options, ApplyRow, Goto, End, request, TypeOK
<1>3. ASSUME NEW c \in Requests, Decide(c) \/ Cancel(c)
      PROVE  Stays
  BY <1>3 DEF Decide, Cancel, FinishBulkEdit, End, TypeOK
<1>4. CASE Expire \/ Crash
  BY <1>4 DEF Expire, Crash, request, Active
<1>5. QED
  BY <1>1, <1>2, <1>3, <1>4 DEF Next

\* What disturbs a sheet is never taken back.
LEMMA StaysDisturbed ==
  ASSUME IInv, Next, Undisturbed'
  PROVE  Undisturbed
<1>0. TypeOK /\ \A c \in Requests : Sound(c)
  BY DEF IInv
<1>1. gone \subseteq gone' /\ crashes <= crashes' /\ faults <= faults'
  <2>1. ASSUME NEW c \in Requests,
               Compare(c) \/ Apply(c) \/ RowsDone(c) \/ Secrets(c) \/ Options(c) \/ Leave(c)
                 \/ \E e \in Extensions : ApplyRow(c, e)
        PROVE  gone \subseteq gone' /\ crashes = crashes' /\ faults = faults'
    BY <2>1 DEF Compare, Apply, RowsDone, Secrets, Options, Leave, ApplyRow, request
  <2>2. ASSUME NEW c \in Requests, SavePlan(c) \/ Decide(c) \/ Cancel(c)
        PROVE  gone = gone' /\ crashes = crashes' /\ faults <= faults'
    BY <1>0, <2>2 DEF SavePlan, Decide, Cancel, FinishBulkEdit, Works, Fails, Fault, TypeOK
  <2>3. CASE Expire \/ Crash
    BY <1>0, <2>3 DEF Expire, Crash, request, TypeOK
  <2>4. QED
    BY <1>0, <2>1, <2>2, <2>3 DEF Next, TypeOK
<1>2. ~overlapped
  <2>1. ~overlapped'
    BY DEF Undisturbed
  <2>2. ASSUME NEW c \in Requests, Compare(c) \/ Apply(c) \/ Cancel(c)
        PROVE  ~overlapped
    BY <2>1, <2>2, Zenon DEF Compare, Apply, Cancel, Begin
  <2>3. ASSUME NEW c \in Requests,
               SavePlan(c) \/ RowsDone(c) \/ Secrets(c) \/ Options(c) \/ Decide(c) \/ Leave(c)
                 \/ \E e \in Extensions : ApplyRow(c, e)
        PROVE  ~overlapped
    BY <2>1, <2>3, Zenon DEF SavePlan, RowsDone, Secrets, Options, Decide, Leave, ApplyRow
  <2>4. CASE Expire \/ Crash
    BY <2>1, <2>4, Zenon DEF Expire, Crash
  <2>5. QED
    BY <2>2, <2>3, <2>4 DEF Next
<1>3. ASSUME NEW c \in Requests, landed[c] # {}
      PROVE  answer[c] \notin {"badRequest", "badGateway"}
  <2>1. CASE phase[c] = "over"
    <3>1. answer'[c] = answer[c] /\ landed'[c] = landed[c]
      BY <1>0, <2>1, OverStays
    <3>2. QED
      BY <1>3, <3>1 DEF Undisturbed
  <2>2. CASE phase[c] # "over"
    BY <1>0, <2>2 DEF Sound
  <2>3. QED
    BY <2>1, <2>2
<1>4. QED
  BY <1>0, <1>1, <1>2, <1>3 DEF Undisturbed, TypeOK

\* A request that begins undisturbed finds nobody at it.
LEMMA BeginsAlone ==
  ASSUME Begin, ~overlapped'
  PROVE  \A d \in Requests : phase[d] \notin Active
BY Zenon DEF Begin

\* Comparing, and saving what was found.
LEMMA PlanAlone ==
  ASSUME TypeOK, AtItAlone, Undisturbed',
         NEW c \in Requests, Compare(c) \/ SavePlan(c)
  PROVE  AtItAlone'
<1>0. ~overlapped'
  BY DEF Undisturbed
<1>1. ASSUME Compare(c) PROVE AtItAlone'
  <2>1. UNCHANGED <<status, landed>> /\ phase[c] = "idle"
    BY <1>1 DEF Compare, edit
  <2>2. ASSUME Goto(c, "comparing"), Begin PROVE AtItAlone'
    <3>1. \A d \in Requests : phase[d] \notin Active
      BY <1>0, <2>2, BeginsAlone
    <3>2. \A d \in Requests : phase'[d] = IF d = c THEN "comparing" ELSE phase[d]
      BY <2>2 DEF Goto, TypeOK
    <3>3. QED
      BY <2>1, <3>1, <3>2 DEF AtItAlone, Active, Writing
  <2>3. ASSUME End(c, "badGateway") PROVE AtItAlone'
    <3>1. \A d \in Requests : phase'[d] = IF d = c THEN "over" ELSE phase[d]
      BY <2>3 DEF End, TypeOK
    <3>2. QED
      BY <2>1, <3>1 DEF AtItAlone, Active, Writing
  <2>4. QED
    BY <1>1, <2>2, <2>3 DEF Compare
<1>2. ASSUME SavePlan(c) PROVE AtItAlone'
  <2>1. phase[c] = "comparing" /\ landed' = landed
    BY <1>2 DEF SavePlan
  <2>2. \A d \in Requests : phase'[d] = IF d = c THEN "over" ELSE phase[d]
    BY <1>2 DEF SavePlan, End, TypeOK
  <2>3. status' = status \/ (status \in {"draft", "planned"} /\ status' = "planned")
    BY <1>2 DEF SavePlan, Plannable
  <2>4. QED
    BY <2>1, <2>2, <2>3 DEF AtItAlone, Active, Writing
<1>3. QED
  BY <1>1, <1>2

\* An apply that begins finds the sheet planned, so nothing has been written.
LEMMA ApplyAlone ==
  ASSUME TypeOK, AtItAlone, Undisturbed', NEW c \in Requests, Apply(c)
  PROVE  AtItAlone'
<1>1. ~overlapped' /\ UNCHANGED <<status, landed>> /\ phase[c] = "idle"
  BY DEF Undisturbed, Apply, edit
<1>2. ASSUME Ready, Goto(c, "rows"), Begin PROVE AtItAlone'
  <2>1. \A d \in Requests : phase[d] \notin Active
    BY <1>1, <1>2, BeginsAlone
  <2>2. \A d \in Requests : phase'[d] = IF d = c THEN "rows" ELSE phase[d]
    BY <1>2 DEF Goto, TypeOK
  <2>3. QED
    BY <1>1, <1>2, <2>1, <2>2 DEF AtItAlone, Active, Writing, Ready
<1>3. ASSUME End(c, "conflict") \/ End(c, "badRequest") PROVE AtItAlone'
  <2>1. \A d \in Requests : phase'[d] = IF d = c THEN "over" ELSE phase[d]
    BY <1>3 DEF End, TypeOK
  <2>2. QED
    BY <1>1, <2>1 DEF AtItAlone, Active, Writing
<1>4. QED
  BY <1>2, <1>3 DEF Apply

\* The one request that writes goes on writing, or ends without a report when
\* it wrote nothing.
LEMMA WritesAlone ==
  ASSUME TypeOK, AtItAlone, Undisturbed', NEW c \in Requests,
         RowsDone(c) \/ Secrets(c) \/ Options(c) \/ \E e \in Extensions : ApplyRow(c, e)
  PROVE  AtItAlone'
<1>1. status' = status /\ phase[c] \in Writing
  BY DEF RowsDone, Secrets, Options, ApplyRow, edit, Writing
<1>2. /\ \A d \in Requests : d # c => landed'[d] = landed[d] /\ phase'[d] = phase[d]
      /\ phase'[c] \in Writing \/ landed'[c] = {}
      /\ phase'[c] \in Writing \cup {"over"}
  <2>1. ASSUME RowsDone(c)
        PROVE  /\ \A d \in Requests : d # c => landed'[d] = landed[d] /\ phase'[d] = phase[d]
               /\ phase'[c] \in Writing
    BY <2>1 DEF RowsDone, Goto, Writing, TypeOK
  <2>2. ASSUME Options(c) \/ \E e \in Extensions : ApplyRow(c, e)
        PROVE  /\ \A d \in Requests : d # c => landed'[d] = landed[d] /\ phase'[d] = phase[d]
               /\ phase'[c] \in Writing
    BY <2>2 DEF Options, ApplyRow, request, Writing, TypeOK
  <2>3. ASSUME Secrets(c)
        PROVE  /\ \A d \in Requests : d # c => landed'[d] = landed[d] /\ phase'[d] = phase[d]
               /\ \/ phase'[c] \in Writing
                  \/ phase'[c] = "over" /\ answer'[c] \in {"badRequest", "badGateway"}
    BY <2>3 DEF Secrets, Goto, End, Writing, TypeOK
  <2>4. answer'[c] \in {"badRequest", "badGateway"} => landed'[c] = {}
    BY DEF Undisturbed
  <2>5. QED
    BY <2>1, <2>2, <2>3, <2>4
<1>3. status = "planned"
  BY <1>1 DEF AtItAlone
<1>4. \A d \in Requests : phase[d] \in Active => d = c
  BY <1>1 DEF AtItAlone, Active, Writing
<1>5. \A d \in Requests : d # c => landed[d] = {}
  BY <1>3, <1>4 DEF AtItAlone, Active, Writing
<1>6. QED
  BY <1>1, <1>2, <1>3, <1>4, <1>5 DEF AtItAlone, Active, Writing

\* The decision comes from the one request at it, or from one that finds
\* nobody at it; and nobody is at it when the sheet expires.
LEMMA DecidesAlone ==
  ASSUME TypeOK, AtItAlone, Undisturbed',
         (\E c \in Requests : Decide(c) \/ Cancel(c) \/ Leave(c)) \/ Expire \/ Crash
  PROVE  AtItAlone'
<1>0. ~overlapped' /\ gone' = {} /\ crashes' = 0 /\ faults' = 0
  BY DEF Undisturbed
<1>1. ASSUME NEW c \in Requests, Decide(c) PROVE AtItAlone'
  <2>1. phase[c] \in Writing /\ landed' = landed
    BY <1>1 DEF Decide, Writing
  <2>2. \A d \in Requests : phase'[d] = IF d = c THEN "over" ELSE phase[d]
    BY <1>1 DEF Decide, FinishBulkEdit, End, TypeOK
  <2>3. status = "planned"
    BY <2>1 DEF AtItAlone
  <2>4. ~Fails(c)
    BY <1>0, <1>1 DEF Fails, Fault, Decide, TypeOK
  <2>5. status' = "applied"
    BY <1>1, <2>3, <2>4 DEF Decide, FinishBulkEdit, Undecided
  <2>6. QED
    BY <2>1, <2>2, <2>3, <2>5 DEF AtItAlone, Active, Writing
<1>2. ASSUME NEW c \in Requests, Cancel(c) PROVE AtItAlone'
  <2>1. phase[c] = "idle" /\ landed' = landed
    BY <1>2 DEF Cancel
  <2>2. \A d \in Requests : phase'[d] = IF d = c THEN "over" ELSE phase[d]
    BY <1>2 DEF Cancel, FinishBulkEdit, End, TypeOK
  <2>3. \A d \in Requests : phase[d] \notin Active
    BY <1>0, <1>2, BeginsAlone DEF Cancel
  <2>4. status' = status \/ status = "planned"
    BY <1>2 DEF Cancel, FinishBulkEdit, Undecided
  <2>5. QED
    BY <2>1, <2>2, <2>3, <2>4 DEF AtItAlone, Active, Writing
<1>3. ASSUME NEW c \in Requests, Leave(c) PROVE AtItAlone'
  BY <1>3 DEF Leave, edit, AtItAlone
<1>4. CASE Expire
  BY <1>4 DEF Expire, request, AtItAlone, Active, Writing
<1>5. CASE Crash
  BY <1>0, <1>5 DEF Crash, TypeOK
<1>6. QED
  BY <1>1, <1>2, <1>3, <1>4, <1>5

\* Every step keeps it.
LEMMA NextAlone == IInv /\ Alone /\ [Next]_vars => Alone'
<1> SUFFICES ASSUME IInv, Alone, [Next]_vars, Undisturbed' PROVE AtItAlone'
  BY DEF Alone
<1>1. CASE Next
  <2>1. TypeOK /\ AtItAlone
    BY <1>1, StaysDisturbed DEF Alone, IInv
  <2>2. QED
    BY <1>1, <2>1, PlanAlone, ApplyAlone, WritesAlone, DecidesAlone DEF Next
<1>2. CASE UNCHANGED vars
  <2>1. Undisturbed
    BY <1>2 DEF Undisturbed, vars, edit, request
  <2>2. QED
    BY <1>2, <2>1 DEF Alone, AtItAlone, vars, edit, request
<1>3. QED
  BY <1>1, <1>2

\* The sheet's promise while nobody disturbs it (applyBulk, cancelBulk): as long
\* as requests do not overlap and none is cut short, no row is written by two
\* of them, and a cancelled or discarded sheet by none.
THEOREM WrittenOnceAlone == Spec => []WrittenOnceUndisturbed
<1>1. Init => Alone
  BY DEF Init, Alone, AtItAlone, Active, Writing
<1>2. Alone => WrittenOnceUndisturbed
  <2> SUFFICES ASSUME AtItAlone
               PROVE  /\ \A e \in Extensions : Cardinality(Writers(e)) <= 1
                      /\ status = "cancelled" => \A e \in Extensions : Writers(e) = {}
    BY DEF Alone, WrittenOnceUndisturbed
  <2>1. ASSUME NEW e \in Extensions PROVE Cardinality(Writers(e)) <= 1
    <3>1. CASE Writers(e) = {}
      BY <3>1, FS_EmptySet
    <3>2. CASE Writers(e) # {}
      <4>1. PICK c : c \in Writers(e)
        BY <3>2
      <4>2. Writers(e) = {c}
        BY <4>1 DEF Writers, AtItAlone
      <4>3. Cardinality({c}) = 1
        BY FS_Singleton
      <4>4. QED
        BY <4>2, <4>3
    <3>3. QED
      BY <3>1, <3>2
  <2>2. ASSUME status = "cancelled", NEW e \in Extensions PROVE Writers(e) = {}
    BY <2>2 DEF Writers, AtItAlone, Writing
  <2>3. QED
    BY <2>1, <2>2
<1>3. QED
  BY <1>1, <1>2, InitIInv, NextIInv, NextAlone, PTL DEF Spec

=============================================================================
