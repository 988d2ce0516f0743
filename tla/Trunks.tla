------------------------------- MODULE Trunks -------------------------------
(***************************************************************************)
(* Numbers for a trunk: the list a carrier sends, compared on a screen     *)
(* (internal/api/dids.go, internal/bulk/dids.go) and imported by the       *)
(* plugin's tool (cmd/plugin-3cx/trunks.go).                               *)
(*                                                                         *)
(* A trunk's numbers are one array that a PATCH replaces, so the tool      *)
(* reads, merges and writes all of it back; then it reads the inbound      *)
(* rules once and gives each row its rule.  The screen compares with the   *)
(* cached list of trunks, and nothing is held between it and the import.   *)
(* Imports wait for each other (one subscription), and somebody may be at  *)
(* the phone system's console.                                             *)
(***************************************************************************)
EXTENDS Naturals, Sequences, FiniteSets

CONSTANTS
  Trunks, Dids,
  Desks,        \* what a DID can ring
  Spots,        \* numbers it cannot: parking, conference rooms, none at all
  Importers,    \* imports: one file or one proposal each
  Files,       \* the files: sequences of <<number, extension or "blank">>
  MaxTroubles   \* bound: requests that go wrong, changes at the console

Ringable == Desks \cup Spots \cup {"blank"}
ASSUME FilesAssumption ==
  Files \subseteq Seq(Dids \X Ringable) /\ {"none", "blank"} \cap Desks = {}
ASSUME TroublesAssumption == MaxTroubles \in Nat

Did(row) == row[1]
To(row) == row[2]

VARIABLES
  carries, rules, lastRule,  \* the phone system; lastRule numbers the rules
  listKept,                  \* the answer of trunks.list in the cache, or {}
  import,                    \* import[i]: how far, and what it read and answered
  changedUnder,              \* imports that have looked at what was changed since
  disturbed, lost,           \* whose calls the console got into; that lost an answer
  troubles

trunkVars == <<carries, rules, lastRule, listKept, import, changedUnder, disturbed, lost, troubles>>

AtWork == {"merging", "reading", "placing"}

\* current: the screen was given the rules as they then were.
NoRule == [id |-> 0, to |-> "none"]
NewImport == [at |-> "idle", trunk |-> CHOOSE t \in Trunks : TRUE, mode |-> "append",
          sheet |-> << >>, rows |-> << >>, current |-> FALSE, screen |-> FALSE,
          carried |-> {}, moving |-> {}, map |-> [d \in Dids |-> NoRule],
          routed |-> {}, failed |-> {}, kept |-> {}]

Targets == Desks \cup {"none"}
Lists == [listed : BOOLEAN, rings : SUBSET (Trunks \X Dids \X Desks)]
TrunksTypeOK ==
  /\ carries \in [Trunks -> SUBSET Dids]
  /\ rules \subseteq [id : 1 .. lastRule, trunk : Trunks, did : Dids, to : Desks]
  /\ lastRule \in Nat /\ troubles \in 0 .. MaxTroubles
  /\ listKept \subseteq Lists /\ Cardinality(listKept) <= 1
  /\ changedUnder \subseteq Importers /\ disturbed \subseteq Importers /\ lost \subseteq Importers
  /\ \A i \in Importers :
       /\ import[i].at \in {"idle", "shown", "queued", "merging", "reading", "placing",
                            "answered", "failed"}
       /\ import[i].mode \in {"append", "replace"} /\ import[i].carried \subseteq Dids
       /\ \A d \in Dids : import[i].map[d] \in [id : 0 .. lastRule, to : Targets]

Numbered(t, there) == {r \in rules : r.trunk = t /\ r.did = there}

\* A phone system as it is found: at most one rule, for a number its trunk carries.
TrunksInit ==
  /\ carries \in [Trunks -> SUBSET Dids]
  /\ \/ rules = {}
     \/ \E t \in Trunks, to \in Desks : \E d \in carries[t] :
          rules = {[id |-> 1, trunk |-> t, did |-> d, to |-> to]}
  /\ lastRule = 1 /\ listKept = {}
  /\ import = [i \in Importers |-> NewImport]
  /\ changedUnder = {} /\ disturbed = {} /\ lost = {} /\ troubles = 0

Trouble == troubles < MaxTroubles /\ troubles' = troubles + 1

\* Things change under every import that has looked, the answered ones too.
ChangeUnder(others) ==
  changedUnder' = changedUnder \cup {i \in others : import[i].at \notin {"idle", "failed"}}

-----------------------------------------------------------------------------
(***************************************************************************)
(* The screen.                                                             *)
(***************************************************************************)

\* ParseDIDs: a number listed twice is imported once, as its first row says.
Parsed(sheet) ==
  LET Repeated(k) == \E j \in 1 .. k - 1 : Did(sheet[j]) = Did(sheet[k])
      Kept == {k \in DOMAIN sheet : ~Repeated(k)}
      Nth(n) == CHOOSE k \in Kept : Cardinality({j \in Kept : j <= k}) = n
  IN [n \in 1 .. Cardinality(Kept) |-> sheet[Nth(n)]]

\* What listTrunks answers; "a phone system that will not list its rules is not a
\* failure here", and that answer is kept like another.
Rings == {<<r.trunk, r.did, r.to>> : r \in rules}
Listed == [listed |-> TRUE, rings |-> Rings]
Unlisted == [listed |-> FALSE, rings |-> {}]

ReadTrunks(list) ==
  \/ list = Listed /\ UNCHANGED troubles
  \/ list = Unlisted /\ Trouble

\* currentTrunks, through the cache: the answer that is kept, within its half hour
\* or, when the phone system does not answer, past it; else a new one, which is
\* kept if it can be.
CurrentTrunks(list) ==
  \/ list \in listKept /\ UNCHANGED <<listKept, troubles>>
  \/ ReadTrunks(list) /\ listKept' \in {listKept, {list}}

\* The trunks are read for somebody else, or an ageing answer is refreshed.
ListTrunks ==
  /\ \E list \in {Listed, Unlisted} : ReadTrunks(list) /\ listKept' = {list}
  /\ UNCHANGED <<carries, rules, lastRule, import, changedUnder, disturbed, lost>>

\* comparePreview's "already_route": rows whose number rings somebody else.
Moving(rows, t, rings) ==
  {k \in DOMAIN rows : To(rows[k]) # "blank"
                         /\ \E q \in rings : q[1] = t /\ q[2] = Did(rows[k]) /\ q[3] # To(rows[k])}

\* previewDIDs.
PreviewDids(i, t, sheet) ==
  LET rows == Parsed(sheet) IN
  /\ import[i].at = "idle"
  /\ \E list \in listKept \cup {Listed, Unlisted} :
       /\ CurrentTrunks(list)
       /\ import' = [import EXCEPT
            ![i].at = "shown", ![i].trunk = t, ![i].sheet = sheet, ![i].rows = rows,
                      ![i].current = (list = Listed), ![i].screen = TRUE,
                      ![i].moving = Moving(rows, t, list.rings)]
  /\ UNCHANGED <<carries, rules, lastRule, changedUnder, disturbed, lost>>

\* importDIDs sends the rows that were on the screen.
ImportDids(i, mode) ==
  /\ import[i].at = "shown"
  /\ import' = [import EXCEPT ![i].at = "queued", ![i].mode = mode]
  /\ UNCHANGED <<carries, rules, lastRule, listKept, changedUnder, disturbed, lost, troubles>>

\* The same tool, proposed by the assistant: the rows as it wrote them.
ProposeDids(i, t, sheet, mode) ==
  /\ import[i].at = "idle"
  /\ import' = [import EXCEPT
       ![i].at = "queued", ![i].trunk = t, ![i].sheet = sheet, ![i].rows = sheet, ![i].mode = mode]
  /\ UNCHANGED <<carries, rules, lastRule, listKept, changedUnder, disturbed, lost, troubles>>

-----------------------------------------------------------------------------
(***************************************************************************)
(* The tool.                                                               *)
(***************************************************************************)

GiveUp(i) == import' = [import EXCEPT ![i].at = "failed"]

\* Sign in, and findTrunk.
FindTrunk(i) ==
  /\ import[i].at = "queued"
  /\ \A j \in Importers : import[j].at \notin AtWork
  /\ \/ /\ import' = [import EXCEPT
             ![i].at = "merging", ![i].carried = carries[import[i].trunk]]
        /\ UNCHANGED troubles
     \/ GiveUp(i) /\ Trouble
  /\ UNCHANGED <<carries, rules, lastRule, listKept, changedUnder, disturbed, lost>>

Named(i) == {Did(import[i].rows[k]) : k \in DOMAIN import[i].rows}

\* Mutant: the array is made from the sheet alone.
MergedSheetOnly(i) == Named(i)

\* mergeDIDs: what was read, and what is missing from it.
Merged(i) == import[i].carried \cup Named(i)

PutNumbers(i) ==
  /\ carries' = [carries EXCEPT ![import[i].trunk] = Merged(i)]
  /\ ChangeUnder(Importers \ {i})

MergeDids(i) ==
  /\ import[i].at = "merging"
  /\ \/ /\ IF Named(i) \subseteq import[i].carried
           THEN UNCHANGED <<carries, changedUnder>> ELSE PutNumbers(i)
        /\ import' = [import EXCEPT ![i].at = "reading"]
        /\ UNCHANGED <<troubles, lost>>
     \/ /\ ~(Named(i) \subseteq import[i].carried)
        /\ GiveUp(i) /\ Trouble
        /\ \/ UNCHANGED <<carries, changedUnder, lost>>
           \/ PutNumbers(i) /\ lost' = lost \cup {i}
  /\ UNCHANGED <<rules, lastRule, listKept, disturbed>>

Placing(i) == {k \in DOMAIN import[i].rows : To(import[i].rows[k]) # "blank"}

\* performTool, once the import has answered: what is kept is forgotten, unless
\* the answer did not arrive, that fails, or an older answer is kept after it.
Forget == listKept' \in {{}, listKept}

\* readPeers and readInboundRules.  Of two rules for one number the last counts;
\* when either cannot be read nothing is assigned.
ReadRules(i) ==
  /\ import[i].at = "reading"
  /\ \/ /\ Placing(i) = {}
        /\ import' = [import EXCEPT ![i].at = "answered"] /\ Forget
        /\ UNCHANGED troubles
     \/ /\ Placing(i) # {}
        /\ \E read \in [Dids -> {[id |-> r.id, to |-> r.to] : r \in rules} \cup {NoRule}] :
             /\ \A d \in Dids :
                  IF Numbered(import[i].trunk, d) = {} THEN read[d] = NoRule
                  ELSE \E r \in Numbered(import[i].trunk, d) : read[d] = [id |-> r.id, to |-> r.to]
             /\ import' = [import EXCEPT ![i].at = "placing", ![i].map = read]
        /\ UNCHANGED <<listKept, troubles>>
     \/ /\ Placing(i) # {} /\ Trouble /\ Forget
        /\ import' = [import EXCEPT ![i].at = "answered",
                        ![i].failed = {Did(import[i].rows[k]) : k \in Placing(i)}]
  /\ UNCHANGED <<carries, rules, lastRule, changedUnder, disturbed, lost>>

\* What a row becomes in the answer, and what the map then holds for its number.
Row(i, outcome, entry) ==
  LET b == import[i]
      d == Did(Head(b.rows))
      Adding(list, S) == IF outcome = list THEN S \cup {d} ELSE S
  IN import' = [import EXCEPT ![i] =
       [b EXCEPT !.rows = Tail(b.rows), !.map = [b.map EXCEPT ![d] = entry],
          !.routed = Adding("routed", b.routed), !.failed = Adding("failed", b.failed), !.kept = Adding("kept", b.kept)]]

\* Mutant: a row that made a rule leaves the map as it was.
TakenNever(i, to) == import[i].map[Did(Head(import[i].rows))]

\* "Recorded as taken": under no id.
Taken(i, to) == [id |-> 0, to |-> to]

\* canTakeACall, and a number the phone system does not have.
Unfit(to) == to \in Spots

Repoints(mode) == mode = "replace"

CreateRule(i, row) ==
  /\ lastRule' = lastRule + 1
  /\ rules' = rules \cup {[id |-> lastRule', trunk |-> import[i].trunk, did |-> Did(row), to |-> To(row)]}
  /\ ChangeUnder(Importers \ {i})

RepointRule(i, row, id) ==
  /\ rules' = {IF r.id = id THEN [r EXCEPT !.to = To(row)] ELSE r : r \in rules}
  /\ ChangeUnder(Importers \ {i})
  /\ UNCHANGED lastRule

RulesUntouched == UNCHANGED <<rules, lastRule, changedUnder>>

\* routeDIDs, one row.
RouteDid(i) ==
  LET row == Head(import[i].rows)
      was == import[i].map[Did(row)]
      there == \E r \in rules : r.id = was.id
  IN
  /\ import[i].at = "placing" /\ import[i].rows # << >>
  /\ \/ To(row) = "blank" /\ Row(i, "kept", was) /\ RulesUntouched /\ UNCHANGED <<troubles, lost>>
     \/ Unfit(To(row)) /\ Row(i, "failed", was) /\ RulesUntouched /\ UNCHANGED <<troubles, lost>>
     \/ /\ To(row) \in Desks /\ was # NoRule
        /\ was.to = To(row) \/ ~Repoints(import[i].mode)
        /\ Row(i, "kept", was) /\ RulesUntouched /\ UNCHANGED <<troubles, lost>>
     \/ /\ To(row) \in Desks /\ was # NoRule /\ was.to # To(row) /\ Repoints(import[i].mode)
        /\ \/ there /\ RepointRule(i, row, was.id) /\ UNCHANGED <<troubles, lost>>
              /\ Row(i, "routed", [id |-> was.id, to |-> To(row)])
           \/ ~there /\ Row(i, "failed", was) /\ RulesUntouched /\ UNCHANGED <<troubles, lost>>
           \/ Trouble /\ Row(i, "failed", was) /\ RulesUntouched /\ UNCHANGED lost
           \/ there /\ Trouble /\ Row(i, "failed", was)
              /\ RepointRule(i, row, was.id) /\ lost' = lost \cup {i}
     \/ /\ To(row) \in Desks /\ was = NoRule
        /\ \/ CreateRule(i, row) /\ Row(i, "routed", Taken(i, To(row))) /\ UNCHANGED <<troubles, lost>>
           \/ Trouble /\ Row(i, "failed", was) /\ RulesUntouched /\ UNCHANGED lost
           \/ Trouble /\ Row(i, "failed", was) /\ CreateRule(i, row) /\ lost' = lost \cup {i}
  /\ UNCHANGED <<carries, listKept, disturbed>>

AnswerImport(i) ==
  /\ import[i].at = "placing" /\ import[i].rows = << >>
  /\ import' = [import EXCEPT ![i].at = "answered"] /\ Forget
  /\ UNCHANGED <<carries, rules, lastRule, changedUnder, disturbed, lost, troubles>>

\* Somebody at the console: a number added or taken away with its rule, a rule
\* made or pointed elsewhere.
ConsoleTrunks ==
  /\ Trouble
  /\ ChangeUnder(Importers)
  /\ disturbed' = disturbed \cup {i \in Importers : import[i].at \in AtWork}
  /\ \E t \in Trunks, d \in Dids, to \in Desks :
       \/ /\ d \notin carries[t]
          /\ carries' = [carries EXCEPT ![t] = @ \cup {d}] /\ UNCHANGED <<rules, lastRule>>
       \/ /\ d \in carries[t]
          /\ carries' = [carries EXCEPT ![t] = @ \ {d}]
          /\ rules' = rules \ Numbered(t, d) /\ UNCHANGED lastRule
       \/ /\ Numbered(t, d) = {} /\ d \in carries[t] /\ lastRule' = lastRule + 1
          /\ rules' = rules \cup {[id |-> lastRule', trunk |-> t, did |-> d, to |-> to]}
          /\ UNCHANGED carries
       \/ \E r \in Numbered(t, d) :
            rules' = (rules \ {r}) \cup {[r EXCEPT !.to = to]} /\ UNCHANGED <<carries, lastRule>>
  /\ UNCHANGED <<import, listKept, lost>>

TrunksNext ==
  \/ \E i \in Importers, t \in Trunks, sheet \in Files :
       \/ PreviewDids(i, t, sheet)
       \/ \E mode \in {"append", "replace"} : ProposeDids(i, t, sheet, mode)
  \/ \E i \in Importers :
       \/ \E mode \in {"append", "replace"} : ImportDids(i, mode)
       \/ FindTrunk(i) \/ MergeDids(i) \/ ReadRules(i) \/ RouteDid(i) \/ AnswerImport(i)
  \/ ListTrunks \/ ConsoleTrunks

TrunksSpec == TrunksInit /\ [][TrunksNext]_trunkVars

-----------------------------------------------------------------------------

\* "Neither mode ever removes a number from a trunk": only the console does, or
\* an import at work while it did.
NumbersStay ==
  [][\A t \in Trunks : \/ carries[t] \subseteq carries'[t]
                       \/ ConsoleTrunks
                       \/ \E i \in disturbed : import[i].at = "merging"]_trunkVars

\* "So a sheet naming the same number twice in two rows cannot produce two rules
\* for it": nor can a file imported again, or two of them, unless a rule was
\* made whose answer was lost or the console got into an import at work.
OneRulePerNumberUndisturbed ==
  (lost = {} /\ disturbed = {})
    => \A t \in Trunks, d \in Dids : Cardinality(Numbered(t, d)) <= 1

\* "A rule on the phone system is moved by the import only": a rule an import
\* points elsewhere was among those its screen said were ringing somebody else,
\* and replacing was chosen; unless things changed since, or its screen was not
\* given the rules as they were: it "compared against what the phone system says
\* right now" only where no older answer was kept and the rules could be listed.
MovedAsShown ==
  [][\A r \in rules, q \in rules' :
       r.id = q.id /\ r.to # q.to =>
         \/ ConsoleTrunks
         \/ \E i \in Importers :
              /\ import[i].at = "placing" /\ import[i].mode = "replace"
              /\ (import[i].current /\ i \notin changedUnder) =>
                   \E k \in import[i].moving : Parsed(import[i].sheet)[k] =
                                                 <<r.did, q.to>>]_trunkVars

\* "The numbers go on before any rule does": an import that answered has put its
\* numbers on the trunk, and what it says it routed rings where the sheet says;
\* whatever went wrong on the way.
AnsweredIsDone ==
  \A i \in Importers :
    (import[i].at = "answered" /\ i \notin changedUnder) =>
      /\ \A k \in DOMAIN import[i].sheet : Did(import[i].sheet[k]) \in carries[import[i].trunk]
      /\ \A d \in import[i].routed :
           \E r \in Numbered(import[i].trunk, d), k \in DOMAIN import[i].sheet :
             import[i].sheet[k] = <<d, r.to>>

\* An inbound number rings in one place, unless two imports met; what an import
\* says it did was done.
TrunksKeepTheirWord == TrunksTypeOK /\ OneRulePerNumberUndisturbed /\ AnsweredIsDone

\* No import takes a number off a trunk, or moves one otherwise than it showed.
NumbersMoveAsShown == NumbersStay /\ MovedAsShown

=============================================================================
