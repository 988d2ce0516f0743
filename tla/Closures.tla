------------------------------ MODULE Closures ------------------------------
(***************************************************************************)
(* When a phone system is closed: adding and removing a closure            *)
(* (internal/api/schedule.go, cmd/plugin-3cx/schedule.go).                 *)
(*                                                                         *)
(* The phone system does not mind two closures on one day, so the tool     *)
(* reads what is scheduled, compares days of the year and years, and only  *)
(* then adds.  Calls of one tool wait for each other; somebody may be at   *)
(* the console meanwhile.  A year is cut down to a few days.               *)
(***************************************************************************)
EXTENDS Integers, FiniteSets

CONSTANTS
  Planners,      \* technicians with one change each
  Names,         \* of closures
  YearLength,    \* days in a year
  LastYear,      \* years are 1 .. LastYear, 0 on a closure that repeats
  MaxHitches     \* bound: requests that go wrong, closures made at the console

ASSUME CalendarAssumption ==
  {YearLength, LastYear} \subseteq Nat \ {0} /\ MaxHitches \in Nat /\ Names # {}

VARIABLES
  schedule,      \* the closures the phone system has
  plan,          \* plan[p]: [at, wanted]
  hitches

closureVars == <<schedule, plan, hitches>>

DaysOfYear == 1 .. YearLength

\* A span of days, from a year to a year; made: by whom.  A closure without a
\* year repeats, and one with no second year is of one.
Closures == [name : Names, year : 0 .. LastYear, day : DaysOfYear,
             yearEnd : 0 .. LastYear, dayEnd : DaysOfYear, made : {"there", "tool", "console"}]

\* A day of a year, counted from the first day of year one.
Ordinal(y, d) == (y - 1) * YearLength + d

\* addSchedule takes the years off one that is to repeat, and else writes the two
\* dates as they were given: without a year, or the wrong way round.
Wanted == {c \in Closures : c.made = "tool"}

ClosuresTypeOK ==
  /\ schedule \subseteq Closures
  /\ \A p \in Planners :
       /\ plan[p].at \in {"idle", "queued", "checked", "added", "refused", "failed", "removed"}
       /\ plan[p].wanted \in Closures
  /\ hitches \in 0 .. MaxHitches

ClosuresInit ==
  /\ schedule \in {{[c EXCEPT !.made = "there"]} : c \in Wanted} \cup {{}}
  /\ plan = [p \in Planners |-> [at |-> "idle", wanted |-> CHOOSE c \in Wanted : TRUE]]
  /\ hitches = 0

Hitch == hitches < MaxHitches /\ hitches' = hitches + 1

-----------------------------------------------------------------------------

Repeating(c) == c.year = 0
YearEnd(c) == IF c.yearEnd = 0 THEN c.year ELSE c.yearEnd

\* Mutant: the two ends are compared as they stand.
DaysUnsplit(c) == c.day .. c.dayEnd

\* daysOf: days of the year, a span across new year as the two it is.
DaysOf(c) == IF c.day <= c.dayEnd THEN c.day .. c.dayEnd
             ELSE (c.day .. YearLength) \cup (1 .. c.dayEnd)

SameYears(a, b) ==
  \/ Repeating(a) \/ Repeating(b)
  \/ a.year <= YearEnd(b) /\ b.year <= YearEnd(a)

Overlap(a, b) == SameYears(a, b) /\ DaysOf(a) \cap DaysOf(b) # {}

\* conflicts, over the closures of every department.
Conflicts(wanted) ==
  \E have \in schedule : have.name = wanted.name \/ Overlap(wanted, have)

Enter(p, at) == plan' = [plan EXCEPT ![p].at = at]

AskClosure(p, c) ==
  /\ plan[p].at = "idle"
  /\ plan' = [plan EXCEPT ![p] = [at |-> "queued", wanted |-> c]]
  /\ UNCHANGED <<schedule, hitches>>

\* Sign in, read the closures, compare.
CheckClosure(p) ==
  /\ plan[p].at = "queued"
  /\ \A q \in Planners : plan[q].at # "checked"
  /\ \/ Enter(p, IF Conflicts(plan[p].wanted) THEN "refused" ELSE "checked") /\ UNCHANGED hitches
     \/ Enter(p, "failed") /\ Hitch
  /\ UNCHANGED schedule

\* groupFor, and the write: made, refused, or made without the answer arriving.
PostClosure(p) ==
  /\ plan[p].at = "checked"
  /\ \/ Enter(p, "added") /\ schedule' = schedule \cup {plan[p].wanted} /\ UNCHANGED hitches
     \/ Enter(p, "failed") /\ Hitch /\ UNCHANGED schedule
     \/ Enter(p, "failed") /\ Hitch /\ schedule' = schedule \cup {plan[p].wanted}
     \/ /\ \E c \in schedule : c.name = plan[p].wanted.name
        /\ Enter(p, "failed") /\ UNCHANGED <<schedule, hitches>>

\* By id, and one at a time.
RemoveClosure(p, c) ==
  /\ plan[p].at = "idle" /\ c \in schedule
  /\ \/ Enter(p, "removed") /\ schedule' = schedule \ {c} /\ UNCHANGED hitches
     \/ Enter(p, "failed") /\ Hitch /\ schedule' \in {schedule, schedule \ {c}}

\* Asking again after a refusal or a failure.
AskAgain(p) ==
  /\ plan[p].at \in {"refused", "failed"}
  /\ Hitch /\ Enter(p, "queued")
  /\ UNCHANGED schedule

\* The console makes any closure whose name is free.
ConsoleClosure ==
  /\ Hitch
  /\ \E c \in Wanted : /\ \A have \in schedule : have.name # c.name
                       /\ schedule' = schedule \cup {[c EXCEPT !.made = "console"]}
  /\ UNCHANGED plan

ClosuresNext ==
  \/ \E p \in Planners : \/ \E c \in Wanted : AskClosure(p, c)
                         \/ CheckClosure(p) \/ PostClosure(p) \/ AskAgain(p)
                         \/ \E c \in schedule : RemoveClosure(p, c)
  \/ ConsoleClosure

ClosuresSpec == ClosuresInit /\ [][ClosuresNext]_closureVars

-----------------------------------------------------------------------------

\* The days a closure is on.
On(c, y, d) ==
  IF Repeating(c) THEN IF c.day <= c.dayEnd THEN c.day <= d /\ d <= c.dayEnd
                       ELSE c.day <= d \/ d <= c.dayEnd
  ELSE Ordinal(c.year, c.day) <= Ordinal(y, d) /\ Ordinal(y, d) <= Ordinal(YearEnd(c), c.dayEnd)

Meet(a, b) == \E y \in 1 .. LastYear, d \in DaysOfYear : On(a, y, d) /\ On(b, y, d)

\* daysOf loses the middle of a closure of more than a year.
Overlong(c) == ~Repeating(c) /\ Ordinal(YearEnd(c), c.dayEnd) >= Ordinal(c.year, c.day) + YearLength

\* "Dates must not overlap": no closure the tool added is on a day another one
\* it could have read is on, whatever failed or lost its answer; closures of
\* more than a year excepted.
NoTwoOnOneDay ==
  \A a, b \in schedule :
    (a # b /\ a.made = "tool" /\ b.made # "console" /\ ~Overlong(a) /\ ~Overlong(b)) => ~Meet(a, b)

ClosuresAreKept == ClosuresTypeOK /\ NoTwoOnOneDay

\* "Two dated closures in different years share a date and not a day": nobody is
\* refused a closure whose name is free and whose days are.
RefusedForAReason ==
  [][\A p \in Planners :
       (plan[p].at = "queued" /\ plan'[p].at = "refused") =>
         \E have \in schedule : have.name = plan[p].wanted.name \/ Meet(plan[p].wanted, have)]_closureVars

=============================================================================
