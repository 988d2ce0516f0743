------------------------------ MODULE Listings ------------------------------
(***************************************************************************)
(* Lists of extensions that are read a page at a time, and what is done    *)
(* with them.  The plugin: extension settings, the numbers and their ids,  *)
(* ring groups, and one change to several extensions                       *)
(* (cmd/plugin-3cx/extensions.go, ringgroups.go, main.go).  Core: the      *)
(* table, what was selected of it by writing numbers down, and the plain   *)
(* list it would rather have than nothing (internal/api/phone.go,          *)
(* extensions.go).  Meanwhile the phone system's own console adds and      *)
(* removes extensions.                                                     *)
(***************************************************************************)
EXTENDS Naturals, Sequences, FiniteSets, Functions

CONSTANTS
  LastNumber,     \* numbers an extension can have: 1 to this
  PageSize,       \* rows of one answer
  MaxRead,        \* maxExtensions: how far paging goes
  MaxRows,        \* bulk.MaxRows: what one selection may cover
  Readers,        \* calls that read, each made once
  Requests,       \* what is asked: a kind, and numbers
  MaxEdits,       \* bound: what the console does
  MaxGaps         \* bound: requests that are refused or not answered

ASSUME ListingsAssumption ==
  /\ {LastNumber, PageSize, MaxRead, MaxRows} \subseteq Nat \ {0}
  /\ {MaxEdits, MaxGaps} \subseteq Nat
  \* A range to select has two ends, a ring group its number.
  /\ \A q \in Requests :
       /\ q[1] \in {"select", "group", "ungroup", "bulk"} /\ q[2] \in Seq(Nat)
       /\ q[1] = "select" => Len(q[2]) = 2
       /\ q[1] \in {"group", "ungroup"} => q[2] # <<>>

VARIABLES
  extension,      \* the id behind each number, 0 where there is none
  ids,            \* ids given out
  groups,         \* ring groups: number and members' ids
  approved,       \* whether core may call the settings tool
  reading,        \* where each call is, and what it read
  stayed,         \* numbers that were there from its first request on
  gone,           \* keys of rows that were taken away meanwhile
  result,         \* what each call did and what it answered
  edits, gaps

listVars == <<extension, ids, groups, approved, reading, stayed, gone, result, edits, gaps>>
siteVars == <<extension, ids, groups>>
callVars == <<reading, stayed, gone, result>>

ListKinds == {"none", "select", "group", "ungroup", "bulk"}
Places == {"idle", "reading", "falling back", "read", "finding", "writing", "over"}
NoReading == [kind |-> "none", asked |-> <<>>, todo |-> <<>>, at |-> "idle", skip |-> 0,
              got |-> {}, whole |-> FALSE, id |-> 0]
NoResult == [done |-> {}, changed |-> {}, failed |-> {}, missing |-> {}, lost |-> FALSE]

Rows == 1 .. LastNumber
There == {n \in Rows : extension[n] # 0}

ListingsTypeOK ==
  /\ extension \in [Rows -> 0 .. ids] /\ approved \in BOOLEAN
  /\ \A g \in groups : g.number \in Nat /\ g.members \subseteq 1 .. ids
  /\ \A r \in Readers :
       /\ reading[r].kind \in ListKinds /\ reading[r].at \in Places
       /\ reading[r].skip \in 0 .. MaxRead /\ reading[r].whole \in BOOLEAN /\ reading[r].id \in 0 .. ids
       /\ \A e \in reading[r].got : e[1] \in Rows /\ e[2] \in 1 .. ids
  /\ stayed \in [Readers -> SUBSET Rows] /\ gone \in [Readers -> SUBSET (Rows \X (1 .. ids))]
  /\ \A r \in Readers : DOMAIN result[r] = DOMAIN NoResult
  /\ edits \in 0 .. MaxEdits /\ gaps \in 0 .. MaxGaps

ListingsInit ==
  /\ \E S \in SUBSET Rows : extension = [n \in Rows |-> IF n \in S THEN n ELSE 0]
  /\ ids = LastNumber /\ groups = {} /\ approved \in BOOLEAN
  /\ reading = [r \in Readers |-> NoReading]
  /\ stayed = [r \in Readers |-> {}] /\ gone = [r \in Readers |-> {}]
  /\ result = [r \in Readers |-> NoResult]
  /\ edits = 0 /\ gaps = 0

-----------------------------------------------------------------------------
\* One page.

\* The settings come in the order of their numbers, the ids as the phone system
\* keeps them, in the order they were made.
Key(kind, e) == IF kind = "select" THEN e[1] ELSE e[2]
Entries == {<<n, extension[n]>> : n \in There}
Rank(kind, e) == Cardinality({f \in Entries : Key(kind, f) < Key(kind, e)})
Page(kind, skip) == {e \in Entries : Rank(kind, e) \in skip .. skip + PageSize - 1}

Begin(r, kind, asked) ==
  /\ reading[r].at = "idle"
  /\ reading' = [reading EXCEPT ![r] = [NoReading EXCEPT !.kind = kind, !.asked = asked,
                    !.todo = asked, !.at = IF kind = "bulk" THEN "finding" ELSE "reading"]]
  /\ stayed' = [stayed EXCEPT ![r] = There] /\ gone' = [gone EXCEPT ![r] = {}]
  /\ UNCHANGED <<siteVars, approved, result, edits, gaps>>

\* Mutant: one that is empty or full of what fits.
LastPageWhenFull(page) == Cardinality(page) <= PageSize
\* The page that is the last: one that is not full.
LastPage(page) == Cardinality(page) < PageSize

\* The loop ends on a last page, or at the ceiling, which only the settings own
\* up to.
ReadPage(r) ==
  /\ reading[r].at = "reading" /\ reading[r].kind # "ungroup"
  /\ reading[r].kind = "select" => approved
  /\ LET b == reading[r]
         page == Page(b.kind, b.skip)
         next == b.skip + PageSize
         got == b.got \cup page
     IN  reading' = [reading EXCEPT ![r] =
           IF LastPage(page) THEN [b EXCEPT !.got = got, !.at = "read", !.whole = TRUE]
           ELSE IF next >= MaxRead THEN [b EXCEPT !.got = got, !.at = "read"]
           ELSE [b EXCEPT !.got = got, !.skip = next]]
  /\ UNCHANGED <<siteVars, approved, stayed, gone, result, edits, gaps>>

-----------------------------------------------------------------------------
\* Core's list of extensions.

\* phoneNow without the settings: they are not approved, or a page of them was
\* refused.
NoSettings(r) ==
  /\ reading[r].at = "reading" /\ reading[r].kind = "select"
  /\ \/ ~approved /\ UNCHANGED gaps
     \/ approved /\ gaps < MaxGaps /\ gaps' = gaps + 1
  /\ reading' = [reading EXCEPT ![r].at = "falling back"]
  /\ UNCHANGED <<siteVars, approved, stayed, gone, result, edits>>

\* currentExtensions asks for the settings first, which is phoneNow again; it
\* would read the plain list when that gave up.
FallBack(r) ==
  /\ reading[r].at = "falling back"
  /\ reading' = [reading EXCEPT ![r].at = "reading", ![r].skip = 0, ![r].got = {}]
  /\ stayed' = [stayed EXCEPT ![r] = There] /\ gone' = [gone EXCEPT ![r] = {}]
  /\ UNCHANGED <<siteVars, approved, result, edits, gaps>>

\* parseSelection: a range runs low to high whichever way round it was typed.
Span(range) == IF range[1] <= range[2] THEN range[1] .. range[2] ELSE range[2] .. range[1]

TooMany(range) == Cardinality(Span(range)) > MaxRows

Numbers(got) == {e[1] : e \in got}

\* extensionNumbers: what was asked for, and which of it is not there.
Select(r) ==
  /\ reading[r].at = "read" /\ reading[r].kind = "select"
  /\ reading' = [reading EXCEPT ![r].at = "over"]
  /\ LET want == Span(reading[r].asked) IN
     result' = IF TooMany(reading[r].asked) THEN result
               ELSE [result EXCEPT ![r].changed = want \cap Numbers(reading[r].got),
                                   ![r].missing = want \ Numbers(reading[r].got)]
  /\ UNCHANGED <<siteVars, approved, stayed, gone, edits, gaps>>

-----------------------------------------------------------------------------
\* Ring groups.

Ends(r, outcome) ==
  /\ reading' = [reading EXCEPT ![r].at = "over"]
  /\ result' = [result EXCEPT ![r] = outcome]

\* A request that is refused, or not answered, ends a call of this kind.
Fails(r) ==
  /\ reading[r].at \in {"reading", "read"} /\ reading[r].kind \in {"group", "ungroup"}
  /\ gaps < MaxGaps /\ gaps' = gaps + 1
  /\ Ends(r, [NoResult EXCEPT !.failed = Range(reading[r].asked)])
  /\ UNCHANGED <<siteVars, approved, stayed, gone, edits>>

\* createRingGroup: its number, then its members.  A member that is not there
\* is named, and nothing is made.
Members(r) == Range(Tail(reading[r].asked))
Unknown(r) == Members(r) \ Numbers(reading[r].got)

CreateGroup(r) ==
  /\ reading[r].at = "read" /\ reading[r].kind = "group"
  /\ LET number == Head(reading[r].asked)
         members == {e[2] : e \in {f \in reading[r].got : f[1] \in Members(r)}}
     IN  \/ /\ Unknown(r) # {}
            /\ Ends(r, [NoResult EXCEPT !.missing = Unknown(r)])
            /\ UNCHANGED <<groups, gaps>>
         \/ /\ Unknown(r) = {}                    \* the phone system takes them
            /\ members \subseteq {extension[n] : n \in Rows}
            /\ \A g \in groups : g.number # number
            /\ groups' = groups \cup {[number |-> number, members |-> members]}
            /\ \/ Ends(r, [NoResult EXCEPT !.done = Members(r), !.changed = {number}]) /\ UNCHANGED gaps
               \/ /\ gaps < MaxGaps /\ gaps' = gaps + 1
                  /\ Ends(r, [NoResult EXCEPT !.done = Members(r), !.failed = {number}, !.lost = TRUE])
         \/ /\ Unknown(r) = {}                    \* or does not
            /\ \/ ~(members \subseteq {extension[n] : n \in Rows})
               \/ \E g \in groups : g.number = number
            /\ Ends(r, [NoResult EXCEPT !.failed = {number}])
            /\ UNCHANGED <<groups, gaps>>
  /\ UNCHANGED <<extension, ids, approved, stayed, gone, edits>>

\* deleteRingGroup: looked for among those of one page.
OnFirstPage(S) == \E F \in SUBSET groups : Cardinality(F) <= PageSize /\ S \in F
RemoveGroup(r) ==
  /\ reading[r].at = "reading" /\ reading[r].kind = "ungroup"
  /\ LET number == Head(reading[r].asked)
         named == {g \in groups : g.number = number /\ OnFirstPage(g)}
     IN  IF named = {} THEN Ends(r, [NoResult EXCEPT !.missing = {number}]) /\ UNCHANGED groups
         ELSE groups' = groups \ named /\ Ends(r, [NoResult EXCEPT !.done = {number}, !.changed = {number}])
  /\ UNCHANGED <<extension, ids, approved, stayed, gone, edits, gaps>>

-----------------------------------------------------------------------------
\* bulkUpdateExtensions: each number is looked up and changed on its own, and
\* every one is attempted.

Rest(r) == [reading EXCEPT ![r].todo = Tail(reading[r].todo), ![r].at = "finding", ![r].id = 0]

\* findExtension.
FindExtension(r) ==
  /\ reading[r].at = "finding" /\ reading[r].todo # <<>>
  /\ LET n == Head(reading[r].todo) IN
     \/ /\ n \in There
        /\ reading' = [reading EXCEPT ![r].at = "writing", ![r].id = extension[n]]
        /\ UNCHANGED <<result, gaps>>
     \/ /\ result' = [result EXCEPT ![r].failed = @ \cup {n}]
        /\ reading' = Rest(r)
        /\ \/ n \notin There /\ UNCHANGED gaps
           \/ n \in There /\ gaps < MaxGaps /\ gaps' = gaps + 1
  /\ UNCHANGED <<siteVars, approved, stayed, gone, edits>>

\* pbx.patch: taken, refused, or taken and not answered.
PatchExtension(r) ==
  /\ reading[r].at = "writing"
  /\ LET n == Head(reading[r].todo)
         there == n \in There /\ extension[n] = reading[r].id
     IN  \/ /\ there /\ UNCHANGED gaps
            /\ result' = [result EXCEPT ![r].done = @ \cup {n}, ![r].changed = @ \cup {n}]
         \/ /\ result' = [result EXCEPT ![r].failed = @ \cup {n}]
            /\ \/ ~there /\ UNCHANGED gaps
               \/ there /\ gaps < MaxGaps /\ gaps' = gaps + 1
         \/ /\ there /\ gaps < MaxGaps /\ gaps' = gaps + 1
            /\ result' = [result EXCEPT ![r].done = @ \cup {n}, ![r].failed = @ \cup {n}, ![r].lost = TRUE]
  /\ reading' = Rest(r)
  /\ UNCHANGED <<siteVars, approved, stayed, gone, edits>>

BulkDone(r) ==
  /\ reading[r].at = "finding" /\ reading[r].todo = <<>>
  /\ reading' = [reading EXCEPT ![r].at = "over"]
  /\ UNCHANGED <<siteVars, approved, stayed, gone, result, edits, gaps>>

-----------------------------------------------------------------------------
\* The console.

AddRow(n) ==
  /\ edits < MaxEdits /\ edits' = edits + 1
  /\ extension[n] = 0
  /\ extension' = [extension EXCEPT ![n] = ids + 1] /\ ids' = ids + 1
  /\ UNCHANGED <<groups, approved, callVars, gaps>>

RemoveRow(n) ==
  /\ edits < MaxEdits /\ edits' = edits + 1
  /\ extension[n] # 0
  /\ extension' = [extension EXCEPT ![n] = 0]
  /\ stayed' = [r \in Readers |-> stayed[r] \ {n}]
  /\ gone' = [r \in Readers |-> gone[r] \cup {<<n, extension[n]>>}]
  /\ UNCHANGED <<ids, groups, approved, reading, result, gaps>>

\* A call reads, and then does what it was made for.
ReadStep(r) == ReadPage(r) \/ NoSettings(r) \/ FallBack(r) \/ Select(r)
WriteStep(r) ==
  \/ Fails(r) \/ CreateGroup(r) \/ RemoveGroup(r)
  \/ FindExtension(r) \/ PatchExtension(r) \/ BulkDone(r)

ListingsNext ==
  \/ \E r \in Readers : ReadStep(r) \/ WriteStep(r)
  \/ \E r \in Readers, q \in Requests : Begin(r, q[1], q[2])
  \/ \E n \in Rows : AddRow(n) \/ RemoveRow(n)

ListingsSpec ==
  ListingsInit /\ [][ListingsNext]_listVars /\ \A r \in Readers : WF_listVars(ReadStep(r))

-----------------------------------------------------------------------------

\* What a reader has seen of a kind of list, up to the ceiling.
Skipped(r, n) ==
  \/ n \notin stayed[r]
  \/ \E e \in gone[r] : Key(reading[r].kind, e) < Key(reading[r].kind, <<n, extension[n]>>)
  \/ ~reading[r].whole

\* "Numbers that are not on the phone system come back named": every number of
\* the ranges is selected or missing, and none is called missing that was there
\* all the time, unless a row before it was taken away between two pages, which
\* moves the rest up, or the list was cut, which it says.
MissingIsMissingUndisturbed ==
  \A r \in Readers :
    /\ \A n \in result[r].missing \cap Rows :
         reading[r].kind \in {"select", "group"} => Skipped(r, n)
    /\ reading[r].kind = "select" /\ reading[r].at = "over" /\ ~TooMany(reading[r].asked) =>
         /\ result[r].changed \cap result[r].missing = {}
         /\ \A n \in 1 .. reading[r].asked[1] + reading[r].asked[2] :
              (\E a, b \in Range(reading[r].asked) : a <= n /\ n <= b)
                => n \in result[r].changed \cup result[r].missing

\* "A typo names a number that is not there rather than quietly creating an
\* empty group": a group that is made has everybody in it who was asked for.
GroupsAreWhole ==
  \A r \in Readers : reading[r].kind = "group" /\ result[r].changed # {} =>
    Members(r) \subseteq Numbers(reading[r].got) /\ result[r].missing = {}

\* "Every one is attempted and the answer says exactly what happened to each":
\* unless a request was done and not answered, what is named as changed is what
\* was changed, and nothing asked for goes unmentioned.
EachIsTold ==
  \A r \in Readers : reading[r].kind = "bulk" =>
    /\ result[r].changed \subseteq result[r].done
    /\ result[r].done \ result[r].changed # {} => result[r].lost
    /\ reading[r].at = "over" => Range(reading[r].asked) = result[r].changed \cup result[r].failed

\* "Falling back to the plain extension list when the settings capability is not
\* available": a list that is asked for is read, one way or the other.
ReadsEnd ==
  \A r \in Readers : reading[r].at = "reading" /\ reading[r].kind = "select" ~> reading[r].at = "over"

\* A list is whole, or nobody takes it for whole: what is said to be missing is, a
\* ring group has everybody it was to have, and each of many is told of.
ListsAreWhole == ListingsTypeOK /\ MissingIsMissingUndisturbed /\ GroupsAreWhole /\ EachIsTold

=============================================================================
