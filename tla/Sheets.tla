------------------------------- MODULE Sheets -------------------------------
(***************************************************************************)
(* From a sheet, or from extensions ticked on a screen, to a plan, and     *)
(* from an applied plan to the sheet that undoes it (internal/bulk/plan.go *)
(* Build, Choose and disambiguate; createRow and revertBulk of             *)
(* internal/api/phone.go).  BulkEdits has the races around one plan; here  *)
(* a plan is built, saved and applied undisturbed, but between the steps   *)
(* somebody may be at the phone system's own console.                      *)
(*                                                                         *)
(* A value is a tuple: a word, and the extensions put into an address.     *)
(***************************************************************************)
EXTENDS Integers, Sequences, FiniteSets

CONSTANTS
  TopNumber,    \* extension numbers are 1 .. TopNumber
  Uploads,      \* the sheets: sequences of <<number, name, email>>, number 0 for blank
  Picks,        \* addresses set on the screen: [number -> address]
  Starts,       \* phone systems to start from: sequences of <<name, email>>, or << >>
  MaxMeddling   \* bound: changes at the console, rows that fail

Blank == <<"">>
Unasked == <<"unasked">>
Columns == {"name", "email"}    \* no two extensions may share an email address
Extensions == 1 .. TopNumber

ASSUME NumbersAssumption == TopNumber \in Nat \ {0} /\ MaxMeddling \in Nat

IsValue(v, most) == Len(v) \in 1 .. most /\ v = [i \in 1 .. Len(v) |-> v[i]]

\* What somebody types has at most one extension in it, and no phone system has
\* the value that stands for "not asked".
ASSUME ValuesAssumption ==
  /\ \A sheet \in Uploads :
       /\ Len(sheet) \in Nat /\ DOMAIN sheet = 1 .. Len(sheet)
       /\ \A k \in DOMAIN sheet :
            sheet[k][1] \in Nat /\ IsValue(sheet[k][2], 2) /\ IsValue(sheet[k][3], 2)
  /\ \A want \in Picks : DOMAIN want = Extensions /\ \A n \in Extensions : IsValue(want[n], 2)
  /\ \A s \in Starts, n \in Extensions : s[n] # << >> =>
       \A i \in 1 .. 2 : IsValue(s[n][i], 2) /\ s[n][i] # Unasked

VARIABLES
  there, has,    \* the phone system: extensions, and has[n][f]
  edit,          \* how far the edit and its undo are
  picked,        \* the plan comes from the screen
  rows, left,    \* the plan under way, and which of its rows are still to be done
  went, made,    \* rows that went through: changed, created
  planned,       \* the plan that was applied first
  ours,          \* extensions the sheet really made
  origin,        \* the phone system before the sheet was applied
  console        \* <<n, f>> the console changed since the plan was built

sheetVars == <<there, has, edit, picked, rows, left, went, made, planned, ours, origin, console>>

Cells(name, email) == [f \in Columns |-> IF f = "name" THEN name ELSE email]

EditStages == {"free", "planned", "applying", "applied", "undoPlanned", "undoing", "undone", "nothing"}

SheetsTypeOK ==
  /\ there \subseteq Extensions
  /\ \A n \in Extensions, f \in Columns : Len(has[n][f]) \in 1 .. 3
  /\ edit \in EditStages /\ picked \in BOOLEAN /\ left \subseteq DOMAIN rows
  /\ went \subseteq Extensions /\ made \subseteq Extensions /\ ours \subseteq Extensions
  /\ \A k \in DOMAIN rows : rows[k].kind \in {"change", "create", "remove", "same", "problem"}
  /\ Cardinality(console) <= MaxMeddling * 2

SheetsInit ==
  /\ \E s \in Starts : /\ there = {n \in Extensions : s[n] # << >>}
                      /\ has = [n \in Extensions |-> IF s[n] = << >> THEN Cells(Blank, Blank)
                                                    ELSE Cells(s[n][1], s[n][2])]
  /\ edit = "free" /\ picked = FALSE /\ rows = << >> /\ left = {} /\ went = {} /\ made = {}
  /\ planned = << >> /\ ours = {} /\ console = {} /\ origin = [there |-> {}, has |-> has]

-----------------------------------------------------------------------------
(***************************************************************************)
(* The plans.  A row: the extension, what kind it is, what it sets.        *)
(***************************************************************************)

PlanRow(n, kind, sets) == [ext |-> n, kind |-> kind, sets |-> sets]

\* Mutant: an empty cell is a value.
FilledAlways(cell) == TRUE

\* compare: "an empty cell means leave it alone".
Filled(cell) == cell # Blank

Differences(n, cells) ==
  LET changed == {f \in Columns : cells[f] # Unasked /\ Filled(cells[f]) /\ cells[f] # has[n][f]}
  IN [f \in changed |-> [before |-> has[n][f], after |-> cells[f]]]

ChangeRow(n, changes) == PlanRow(n, IF DOMAIN changes = {} THEN "same" ELSE "change", changes)

Highest == IF there = {} THEN 0 ELSE CHOOSE n \in there : \A m \in there : m <= n

\* How many rows before k are new and without a number: the k'th one's number
\* comes after the highest that exists and theirs.
Blanks(sheet, k) == Cardinality({j \in 1 .. k - 1 : sheet[j][1] = 0})

Newcomer(n, cells) ==
  IF cells.name = Blank THEN PlanRow(n, "problem", << >>) ELSE PlanRow(n, "create", << >>)

\* Build, one row.
BuiltRow(sheet, k, create) ==
  LET n == sheet[k][1]  cells == Cells(sheet[k][2], sheet[k][3]) IN
  IF n = 0 /\ create THEN Newcomer(Highest + Blanks(sheet, k) + 1, cells)
  ELSE IF n = 0 \/ \E j \in 1 .. k - 1 : sheet[j][1] = n THEN PlanRow(n, "problem", << >>)
  ELSE IF n \in there THEN ChangeRow(n, Differences(n, cells))
  ELSE IF create THEN Newcomer(n, cells) ELSE PlanRow(n, "problem", << >>)

Build(sheet, create) == [k \in DOMAIN sheet |-> BuiltRow(sheet, k, create)]

\* tag: the extension put into an address, once.
Tag(v, n) == IF Len(v) > 1 /\ v[Len(v)] = n THEN v ELSE Append(v, n)

Asking(want, v) == Cardinality({n \in Extensions : want[n] = v})

AskedByOthers(want, v) == Asking(want, v) >= 2

\* disambiguate, one extension: its wanted address, told apart where another
\* extension holds it or asks for it too; an address is the last one's to take it.
TellApart(want, before, n) ==
  LET v == want[n]
      holders == {t[2] : t \in {u \in before.taken : u[1] = v}}
  IN IF v \in {Unasked, Blank} \/ n \in holders THEN before
     ELSE IF holders = {} /\ ~AskedByOthers(want, v)
          THEN [taken |-> before.taken \cup {<<v, n>>}, out |-> before.out]
          ELSE [taken |-> {u \in before.taken : u[1] # Tag(v, n)} \cup {<<Tag(v, n), n>>},
                out |-> [before.out EXCEPT ![n] = Tag(v, n)]]

Untold(want) == [taken |-> {<<has[m]["email"], m>> : m \in {e \in there : has[e]["email"] # Blank}},
                 out |-> want]

\* All of them, by extension.
ToldApart(want) ==
  LET Step[n \in 0 .. TopNumber] ==
        IF n = 0 THEN Untold(want) ELSE TellApart(want, Step[n - 1], n)
  IN Step[TopNumber].out

Collides(n, v) == v # Blank /\ \E m \in there \ {n} : has[m]["email"] = v

\* Choose, one extension: what was set is set, an empty value clears.
ChosenRow(n, email) ==
  LET changed == {f \in {"email"} : email # has[n][f]} IN
  IF n \notin there \/ Collides(n, email) THEN PlanRow(n, "problem", << >>)
  ELSE ChangeRow(n, [f \in changed |-> [before |-> has[n][f], after |-> email]])

Choose(want) ==
  LET chosen == {n \in Extensions : want[n] # Unasked}
      Nth(k) == CHOOSE n \in chosen : Cardinality({m \in chosen : m <= n}) = k
  IN [k \in 1 .. Cardinality(chosen) |-> ChosenRow(Nth(k), ToldApart(want)[Nth(k)])]

\* Rows that would do something; the technician unticks the rest.
Actionable(plan) == {k \in DOMAIN plan : plan[k].kind \in {"change", "create", "remove"}}

StagePlan(plan, screen) ==
  /\ edit = "free" /\ Actionable(plan) # {}
  /\ \A k \in DOMAIN plan : plan[k].ext <= TopNumber    \* bound
  /\ edit' = "planned" /\ rows' = plan /\ picked' = screen
  /\ UNCHANGED <<there, has, left, went, made, planned, ours, origin, console>>

PlanSheet == \E sheet \in Uploads, create \in BOOLEAN : StagePlan(Build(sheet, create), FALSE)
PlanPicks == \E want \in Picks : StagePlan(Choose(want), TRUE)

-----------------------------------------------------------------------------
(***************************************************************************)
(* Applying a plan, the first or its undo, row by row.                     *)
(***************************************************************************)

Apply ==
  /\ edit \in {"planned", "undoPlanned"}
  /\ left' \in {t \in SUBSET Actionable(rows) : t # {}}
  /\ IF edit = "planned"
     THEN edit' = "applying" /\ planned' = rows /\ origin' = [there |-> there, has |-> has]
     ELSE edit' = "undoing" /\ UNCHANGED <<planned, origin>>
  /\ UNCHANGED <<there, has, picked, rows, went, made, ours, console>>

\* What a row does to the phone system: a value it may not take twice refuses
\* the row, making what is there and removing what is not change nothing.
Refuses(row) ==
  /\ row.kind = "change"
  /\ \/ row.ext \notin there
     \/ "email" \in DOMAIN row.sets /\ Collides(row.ext, row.sets["email"].after)

Does(row) ==
  CASE row.kind = "change" ->
         /\ has' = [has EXCEPT ![row.ext] = [f \in Columns |->
                      IF f \in DOMAIN row.sets THEN row.sets[f].after ELSE @[f]]]
         /\ UNCHANGED <<there, ours>>
    [] row.kind = "create" ->
         IF row.ext \in there THEN UNCHANGED <<there, has, ours>>
         ELSE /\ there' = there \cup {row.ext} /\ ours' = ours \cup {row.ext}
              /\ has' = [has EXCEPT ![row.ext] = [f \in Columns |-> Blank]]
    [] row.kind = "remove" -> there' = there \ {row.ext} /\ ours' = ours \ {row.ext} /\ UNCHANGED has

\* The results inside an answer are not read: a creation that made nothing is
\* reported as made.
ApplyOne ==
  /\ edit \in {"applying", "undoing"} /\ left # {}
  /\ LET k == CHOOSE j \in left : \A i \in left : j <= i  row == rows[k] IN
       /\ left' = left \ {k}
       /\ IF Refuses(row) THEN UNCHANGED <<there, has, ours, went, made>>
          ELSE /\ Does(row)
               /\ went' = IF row.kind = "change" /\ edit = "applying" THEN went \cup {row.ext} ELSE went
               /\ made' = IF row.kind = "create" THEN made \cup {row.ext} ELSE made
  /\ UNCHANGED <<edit, picked, rows, planned, origin, console>>

\* A row whose request fails.
FailOne ==
  /\ edit \in {"applying", "undoing"} /\ left # {} /\ Cardinality(console) < MaxMeddling
  /\ LET k == CHOOSE j \in left : \A i \in left : j <= i IN
       /\ left' = left \ {k}
       /\ console' = console \cup {<<rows[k].ext, "failed">>}
  /\ UNCHANGED <<there, has, edit, picked, rows, went, made, planned, ours, origin>>

Finish ==
  /\ edit \in {"applying", "undoing"} /\ left = {}
  /\ edit' = IF edit = "applying" THEN "applied" ELSE "undone"
  /\ UNCHANGED <<there, has, picked, rows, left, went, made, planned, ours, origin, console>>

\* Mutant: what the sheet tried is taken back, not what it did.
PutBackAll(row) == row.kind = "change"

PutBack(row) == row.kind = "change" /\ row.ext \in went

\* revertBulk: the old values of the rows that went through as a sheet, and the
\* extensions this made as removals.
UndoCells(row) == [f \in Columns |-> IF f \in DOMAIN row.sets THEN row.sets[f].before ELSE Blank]

UndoRows ==
  LET Undone(row) ==
        CASE PutBack(row) ->
               IF row.ext \in there THEN ChangeRow(row.ext, Differences(row.ext, UndoCells(row)))
               ELSE PlanRow(row.ext, "problem", << >>)
          [] row.kind = "create" /\ row.ext \in made /\ row.ext \in there ->
               PlanRow(row.ext, "remove", << >>)
          [] OTHER -> PlanRow(row.ext, "same", << >>)
  IN [k \in DOMAIN planned |-> Undone(planned[k])]

Revert ==
  /\ edit = "applied"
  /\ IF Actionable(UndoRows) = {} THEN edit' = "nothing" /\ UNCHANGED rows
     ELSE edit' = "undoPlanned" /\ rows' = UndoRows
  /\ UNCHANGED <<there, has, picked, left, went, made, planned, ours, origin, console>>

\* Somebody at the console: another value, an extension made or taken away.
Meddle ==
  /\ edit # "free" /\ Cardinality(console) < MaxMeddling
  /\ \E n \in Extensions, f \in Columns :
       /\ console' = console \cup {<<n, f>>}
       /\ \/ n \in there /\ f = "name" /\ has' = [has EXCEPT ![n][f] = <<"console">>] /\ UNCHANGED there
          \/ n \in there /\ f = "email" /\ there' = there \ {n} /\ UNCHANGED has
          \/ n \notin there /\ there' = there \cup {n}
             /\ has' = [has EXCEPT ![n] = [g \in Columns |-> IF g = "name" THEN <<"console">> ELSE Blank]]
  /\ ours' = ours \cap there'
  /\ UNCHANGED <<edit, picked, rows, left, went, made, planned, origin>>

SheetsNext == PlanSheet \/ PlanPicks \/ Apply \/ ApplyOne \/ FailOne \/ Finish \/ Revert \/ Meddle

SheetsSpec == SheetsInit /\ [][SheetsNext]_sheetVars

-----------------------------------------------------------------------------

\* "Each gets its own number" (Build): no two rows of a plan make one extension.
EachGetsItsOwnNumber ==
  \A j, k \in DOMAIN rows :
    (j # k /\ rows[j].kind = "create" /\ rows[k].kind = "create") => rows[j].ext # rows[k].ext

\* "Refuse to edit a bulk edit that would set one value on several extensions"
\* (Spec.Unique), "each extension gets its own address" (disambiguate): a batch
\* set on the screen stages no address twice, nor one that somebody else holds.
\* Excepted is an address somebody typed with another extension's number in it:
\* it is compared with the batch before that extension's own is made.
StagedFor(k) == IF rows[k].kind = "change" /\ "email" \in DOMAIN rows[k].sets
                THEN {rows[k].sets["email"].after} \ {Blank} ELSE {}
TypedTagged(k, v) == Len(v) > 1 /\ v[Len(v)] # rows[k].ext
StagedOnce ==
  \A k \in DOMAIN rows, v \in UNION {StagedFor(j) : j \in DOMAIN rows} :
    (v \in StagedFor(k) /\ ~TypedTagged(k, v))
      => \A j \in DOMAIN rows \ {k} : v \in StagedFor(j) => TypedTagged(j, v)

UniqueStaysUnique ==
  (edit = "planned" /\ picked) =>
    /\ StagedOnce
    /\ \A k \in DOMAIN rows : \A v \in StagedFor(k) : ~Collides(rows[k].ext, v)

\* "Undoing is a sheet whose after is the old before": when an edit and its
\* undo were applied, every row of them, and nobody else was there, each
\* extension is what it was; values that were empty excepted, which no sheet
\* can put back (see UndoPutsBackAll).
AllWent(plan) == \A k \in Actionable(plan) : plan[k].kind = "change" => plan[k].ext \in went
PutBackUndisturbed(excepted) ==
  (edit \in {"undone", "nothing"} /\ console = {} /\ AllWent(planned)
     /\ (edit = "undone" => Actionable(UndoRows) = {}))
    => \A n \in origin.there : n \in there /\
         \A f \in Columns : has[n][f] = origin.has[n][f] \/ origin.has[n][f] \in excepted

UndoPutsBack == PutBackUndisturbed({Blank})
UndoPutsBackAll == PutBackUndisturbed({})

\* "A field this sheet never touched is simply absent", "Only the rows that
\* actually went through": the undo changes no value but those the sheet
\* changed, and removes only what the sheet made, unless the console made it first.
UndoTouchesOnlyTheSheet ==
  [][edit = "undoing" /\ ~Meddle =>
       \A n \in there :
         /\ \A f \in Columns : has'[n][f] # has[n][f] =>
              n \in went /\ \E k \in DOMAIN planned : planned[k].ext = n /\ f \in DOMAIN planned[k].sets
         /\ n \notin there' => n \in ours \/ <<n, "name">> \in console \/ <<n, "email">> \in console]_sheetVars

\* The same without the exception: "Extensions this created are removed".
UndoRemovesItsOwn ==
  [][edit = "undoing" /\ ~Meddle => there \ there' \subseteq ours]_sheetVars

\* An undo puts back what was there; what has to be unique stays so.
SheetsKeepTheirWord == SheetsTypeOK /\ UndoPutsBack /\ UniqueStaysUnique

=============================================================================
