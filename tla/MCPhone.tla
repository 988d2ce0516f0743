------------------------------ MODULE MCPhone ------------------------------
(***************************************************************************)
(* The phone modules on small instances, a part at a time: single forms,   *)
(* numbers for a trunk, closures, sheets and their undo, and diagnostic    *)
(* captures.  The parts share no state in the code beyond the phone        *)
(* system, and of that each its own objects; what shares more (a plan and  *)
(* its gates) is in BulkEdits and Proposals.  Captures are looked at twice: *)
(* how long they are kept, and whose they are.                             *)
(***************************************************************************)
EXTENDS PhoneForms, Trunks, Closures, Sheets, Captures, TLC

VARIABLE part

mcVars == <<part, formVars, trunkVars, closureVars, sheetVars, captureVars>>

\* Fields written as they are, fields of one object, one that has to come before
\* the other, one the tool reads back, and the key layout.  Of two forms one is
\* about a department or sets no field.
MCForms == {{}, {"name", "settings", "interface"}, {"department", "role"}, {"available"}, {"away"}, {"role"},
             {"keys"}}

\* A number without an extension and one with; a number twice, and one that is
\* to ring what cannot.
MCFiles ==
  LET d == CHOOSE x \in Dids : TRUE   e == CHOOSE x \in Dids \ {d} : TRUE
      a == CHOOSE x \in Desks : TRUE  b == CHOOSE x \in Desks \ {a} : TRUE
      p == CHOOSE x \in Spots : TRUE
  IN {<<<<d, "blank">>, <<e, a>>>>, <<<<d, p>>, <<d, a>>, <<d, b>>>>}

\* Two rows: a blank number, one that exists, one that does not, one twice.
MCUploads == {<<<<a, <<x>>, <<e>>>>, <<b, <<"y">>, Blank>>>> :
                a \in 0 .. 2, b \in {0, 2, 3}, x \in {"x", ""}, e \in {"", "a", "b"}}
MCPicks == [Extensions -> {Unasked, <<"a">>, <<"a", 2>>, Blank}]
MCStarts == {<< <<<<"x">>, <<"a">>>>, <<>>, <<>>, <<>> >>,
             << <<<<"x">>, <<"a">>>>, <<<<"x">>, Blank>>, <<>>, <<>> >>,
             << <<>>, <<<<"x">>, <<"b">>>>, <<<<"x">>, <<"a">>>>, <<>> >>}

One(S) == CHOOSE x \in S : TRUE

\* Without one of its years, or ending before it begins.
Odd(c) ==
  \/ (c.year = 0) # (c.yearEnd = 0)
  \/ c.year > 0 /\ Ordinal(c.yearEnd, c.dayEnd) < Ordinal(c.year, c.day)

\* Who is alike begins in one order; nobody asks for a closure of more than a
\* year, which the property leaves out, and one planner at most for an odd one,
\* while nothing goes wrong; what the console adds is a single day.
InOrder ==
  /\ (\E c \in Technicians : stage'[c] # "idle") => stage'[One(Technicians)] # "idle"
  /\ (\E i \in Importers : import'[i].at # "idle") => import'[One(Importers)].at # "idle"
  /\ (\E p \in Planners : plan'[p].at # "idle") => plan'[One(Planners)].at # "idle"
  /\ schedule = {} /\ (\A p \in Planners : plan[p].at = "idle") =>
       \A c \in schedule' \cup {plan'[One(Planners)].wanted} : c.name = One(Names)
  /\ \A p \in Planners : plan[p].at = "idle" /\ plan'[p].at = "queued" =>
       LET c == plan'[p].wanted
       IN ~Overlong(c) /\ (Odd(c) => p # One(Planners) /\ c.name # One(Names) /\ c.year <= 1 /\ c.day = YearLength /\ c.yearEnd <= 1)
  /\ \A c \in schedule' \ schedule : c.made = "console" => c.year = c.yearEnd /\ c.day = c.dayEnd
  /\ (\E p \in Planners : Odd(plan'[p].wanted) /\ plan'[p].at # "idle") => hitches' = 0

\* A part that is not looked at starts in one state.
MCInit ==
  /\ part \in {"forms", "trunks", "closures", "sheets", "kept", "whose"}
  /\ part # "forms" => /\ exists = {} /\ user = [n \in Numbers |-> SetUp(1, TRUE)]
                       /\ kind = [c \in Technicians |-> "remove"] /\ asked = [c \in Technicians |-> {}]
                       /\ about = [c \in Technicians |-> Numbers]
  /\ part = "forms" => user \in [Numbers -> {SetUp(0, FALSE), SetUp(2, TRUE)}]
  /\ FormsInit
  /\ \A c \in Technicians :
       /\ kind[c] = "remove" => asked[c] = {}
       /\ kind[c] = "create" => asked[c] = {} \/ asked[c] \cap {"name", "department"} # {}
  /\ \E c \in Technicians : asked[c] \subseteq Membership
  /\ \A n \in Numbers \ exists : user[n]["second"] # "none" \/ part # "forms"
  /\ part # "trunks" => carries = [t \in Trunks |-> {}]
  /\ TrunksInit
  /\ \A t \in Trunks : carries[t] \subseteq Dids \ {CHOOSE d \in Dids : TRUE}
  /\ part # "closures" => schedule = {}
  /\ ClosuresInit
  /\ \A c \in schedule : c.name = One(Names) /\ c.year = 0 /\ c.day > c.dayEnd /\ ~Odd(c)
  /\ part # "sheets" => there = {1}
  /\ SheetsInit
  /\ part # "whose" => reaches = [c \in Clients |-> CHOOSE a \in Addresses : TRUE]
  /\ CapturesInit

\* How long: captures nobody is asked about.
KeptPart ==
  /\ CapturesNext /\ UNCHANGED <<inquiry, reaches, clients>>
  /\ \A k \in Takings : taking'[k].at # "asking" /\ taking'[k].owner = Nobody

\* Whose: no time passes.
WhosePart == CapturesNext /\ UNCHANGED <<clock, retention, core>>

\* Of two imports one comes from a screen, and the second has no longer a file than
\* the first; lists are read before either, and what is kept is of interest until
\* the screen was made.
TrunksPart ==
  /\ TrunksNext
  /\ Cardinality({i \in Importers : import'[i].screen}) <= 1
  /\ (\A i \in Importers : import'[i].at # "idle") => \E i \in Importers : import'[i].screen
  /\ ListTrunks => \A i \in Importers : import[i].at = "idle"
  /\ (\A i \in Importers : import'[i].at # "idle" /\ ~import'[i].screen) => listKept' = {}
  /\ (\E i \in Importers : import'[i].screen) => UNCHANGED listKept
  /\ \A i \in Importers : import'[i].at # "idle" => Len(import'[i].sheet) <= Len(import'[One(Importers)].sheet)

MCNext ==
  /\ UNCHANGED part
  /\ \/ part = "forms" /\ FormsNext /\ UNCHANGED <<trunkVars, closureVars, sheetVars, captureVars>>
     \/ part = "trunks" /\ TrunksPart /\ UNCHANGED <<formVars, closureVars, sheetVars, captureVars>>
     \/ part = "closures" /\ ClosuresNext /\ UNCHANGED <<formVars, trunkVars, sheetVars, captureVars>>
     \/ part = "sheets" /\ SheetsNext /\ UNCHANGED <<formVars, trunkVars, closureVars, captureVars>>
     \/ part = "kept" /\ KeptPart /\ UNCHANGED <<formVars, trunkVars, closureVars, sheetVars>>
     \/ part = "whose" /\ WhosePart /\ UNCHANGED <<formVars, trunkVars, closureVars, sheetVars>>
  /\ InOrder

MCSpec == MCInit /\ [][MCNext]_mcVars

=============================================================================
