------------------------------- MODULE Recall -------------------------------
(***************************************************************************)
(* The index of past tickets: backfill, indexOne, reindexRecent and        *)
(* reindexSoon of internal/api/recall.go and webhooks.go over              *)
(* internal/store/recall.go, and the clearing of both its tables           *)
(* (store/data.go).  The helpdesk lists tickets by recency; a              *)
(* ticket's n-th state stands for its updated_at and its thread both.      *)
(* One action per request to the helpdesk and per statement.               *)
(***************************************************************************)
EXTENDS Naturals, Sequences, FiniteSets, SequencesExt

CONSTANTS
  Tickets,      \* tickets of the helpdesk
  Backfills,    \* presses of the backfill button
  PageSize,     \* tickets on a page of the backfill
  RecentSize,   \* tickets on the page a reindexing reads
  MaxMoves,     \* bound: how often a ticket changes
  MaxMishaps    \* bound: requests and statements that fail, restarts and clearings

ASSUME RecallBounds ==
  /\ IsFiniteSet(Tickets) /\ "reindexing" \notin Backfills
  /\ {PageSize, RecentSize} \subseteq Nat \ {0} /\ {MaxMoves, MaxMishaps} \subseteq Nat

VARIABLES
  tickets,      \* the helpdesk's list, latest change first
  state,        \* which state each ticket is in
  memory,       \* ticket_memory: closed_at and thread, 0 where there is none
  progress,     \* recall_progress
  pass,         \* the work each backfill, and the reindexing, has in hand
  running, again, starting,  \* the coalescer, and goroutines not yet at it
  nudged,       \* the state of each recent ticket at the last delivery
  moved,        \* tickets that changed since the beginning
  missed,       \* tickets some request or statement about which failed
  astride,      \* tickets that changed while a backfill had them in hand
  emptied,      \* the index was cleared while a backfill ran
  mishaps       \* spent of the bound

work == <<progress, pass, running, again, starting>>
history == <<nudged, moved, missed, astride, emptied>>
recallVars == <<tickets, state, memory, work, history, mishaps>>

Workers == Backfills \cup {"reindexing"}
States == 0 .. MaxMoves + 1
Items == [id : Tickets, at : States]
NotKept == [at |-> 0, thread |-> 0]
Resting == [at |-> "idle", page |-> 0, todo |-> <<>>, seen |-> {}, short |-> FALSE, thread |-> 0]

Finished == [Resting EXCEPT !.at = "over"]

RecallTypeOK ==
  /\ ToSet(tickets) \subseteq Tickets
  /\ state \in [Tickets -> States]
  /\ memory \in [Tickets -> [at : States, thread : States]]
  /\ progress \in [page : Nat, complete : BOOLEAN]
  /\ \A w \in Workers :
       /\ pass[w].at \in {"idle", "listing", "comparing", "ticket", "thread", "paged", "over"}
       /\ ToSet(pass[w].todo) \cup pass[w].seen \subseteq Items
  /\ {running, again} \subseteq BOOLEAN /\ starting \in Nat
  /\ nudged \in [Tickets -> States]
  /\ moved \cup missed \cup astride \subseteq Tickets /\ emptied \in BOOLEAN

\* Some tickets are there already, nothing is indexed.
RecallInit ==
  /\ tickets \in SetToSeqs(Tickets)
  /\ state = [t \in Tickets |-> 1]
  /\ memory = [t \in Tickets |-> NotKept]
  /\ progress = [page |-> 0, complete |-> FALSE]
  /\ pass = [w \in Workers |-> Resting]
  /\ running = FALSE /\ again = FALSE /\ starting = 0
  /\ nudged = [t \in Tickets |-> 0]
  /\ moved = {} /\ missed = {} /\ astride = {} /\ emptied = FALSE
  /\ mishaps = 0

Mishap ==
  /\ mishaps < MaxMishaps
  /\ mishaps' = mishaps + 1

Listed(s) == [i \in DOMAIN s |-> [id |-> s[i], at |-> state[s[i]]]]
Part(from, to) == SubSeq(tickets, from, IF to < Len(tickets) THEN to ELSE Len(tickets))
FirstPage == Part(1, RecentSize)

\* The tickets a worker has in hand.
InHand(w) == {i.id : i \in ToSet(pass[w].todo)}

\* One worker goes on.
GoesOn(w, to) == pass' = [pass EXCEPT ![w] = to]

-----------------------------------------------------------------------------
(***************************************************************************)
(* The helpdesk, and what tells of it.                                     *)
(***************************************************************************)

\* Somebody works on a ticket: it changes and comes first.
Move(t) ==
  /\ state[t] <= MaxMoves
  /\ \E k \in DOMAIN tickets :
       /\ tickets[k] = t
       /\ tickets' = [i \in DOMAIN tickets |-> IF i = 1 THEN t ELSE tickets[IF i <= k THEN i - 1 ELSE i]]
  /\ state' = [state EXCEPT ![t] = @ + 1]
  /\ moved' = moved \cup {t}
  /\ astride' = astride \cup {u \in {t} : \E b \in Backfills : u \in InHand(b)}
  /\ UNCHANGED <<memory, work, nudged, missed, emptied, mishaps>>

\* A delivery about tickets ends in go reindexSoon.
Nudge ==
  /\ starting = 0
  /\ starting' = 1
  /\ nudged' = [t \in Tickets |-> IF t \in ToSet(FirstPage) THEN state[t] ELSE 0]
  /\ UNCHANGED <<tickets, state, memory, progress, pass, running, again, moved, missed, astride, emptied, mishaps>>

\* start, when one is already going.
Wanted == TRUE

\* reindexSoon: start, and the first reindexRecent if there is to be one.
ReindexSoon ==
  /\ starting > 0
  /\ starting' = starting - 1
  /\ IF running THEN again' = Wanted /\ UNCHANGED <<running, pass>>
     ELSE /\ running' = TRUE
          /\ GoesOn("reindexing", [Resting EXCEPT !.at = "listing"])
          /\ UNCHANGED again
  /\ UNCHANGED <<tickets, state, memory, progress, history, mishaps>>

\* done: go round again, or release.
Done ==
  IF again THEN /\ again' = FALSE
                /\ GoesOn("reindexing", [Resting EXCEPT !.at = "listing"])
                /\ UNCHANGED running
  ELSE /\ running' = FALSE
       /\ GoesOn("reindexing", Resting)
       /\ UNCHANGED again

-----------------------------------------------------------------------------
(***************************************************************************)
(* reindexRecent.                                                          *)
(***************************************************************************)

\* The recent page; if it cannot be read, the nudge is lost.
ListRecent ==
  /\ pass["reindexing"].at = "listing"
  /\ \/ /\ GoesOn("reindexing", [pass["reindexing"] EXCEPT !.at = "comparing", !.todo = Listed(FirstPage)])
        /\ UNCHANGED <<running, again, missed, mishaps>>
     \/ Mishap /\ Done /\ missed' = Tickets
  /\ UNCHANGED <<tickets, state, memory, progress, starting, nudged, moved, astride, emptied>>

\* LastSeen holds the same moment the page does.
Unchanged(item) == memory[item.id].at = item.at

\* LastSeen, once for the page; without the comparison all of it is indexed.
Compare ==
  /\ pass["reindexing"].at = "comparing"
  /\ \/ /\ GoesOn("reindexing", [pass["reindexing"] EXCEPT !.at = "ticket",
                                 !.seen = {i \in ToSet(pass["reindexing"].todo) : Unchanged(i)}])
        /\ UNCHANGED mishaps
     \/ Mishap /\ GoesOn("reindexing", [pass["reindexing"] EXCEPT !.at = "ticket"])
  /\ UNCHANGED <<tickets, state, memory, progress, running, again, starting, history>>

\* What did not move is left out, whatever became of the row since.
SkipUnchanged ==
  /\ pass["reindexing"].at = "ticket" /\ pass["reindexing"].todo # <<>>
  /\ Head(pass["reindexing"].todo) \in pass["reindexing"].seen
  /\ GoesOn("reindexing", [pass["reindexing"] EXCEPT !.todo = Tail(pass["reindexing"].todo)])
  /\ UNCHANGED <<tickets, state, memory, progress, running, again, starting, history, mishaps>>

EndReindex ==
  /\ pass["reindexing"].at = "ticket" /\ pass["reindexing"].todo = <<>>
  /\ Done
  /\ UNCHANGED <<tickets, state, memory, progress, starting, history, mishaps>>

-----------------------------------------------------------------------------
(***************************************************************************)
(* indexOne, for whichever works.                                          *)
(***************************************************************************)

\* getWorkItem: a thread that cannot be read is an empty one.
ReadThread(w) ==
  /\ pass[w].at = "ticket" /\ pass[w].todo # <<>>
  /\ Head(pass[w].todo) \notin pass[w].seen
  /\ LET t == Head(pass[w].todo).id IN
     \/ /\ GoesOn(w, [pass[w] EXCEPT !.at = "thread", !.thread = state[t]])
        /\ UNCHANGED <<missed, mishaps>>
     \/ /\ Mishap /\ missed' = missed \cup {t}
        /\ GoesOn(w, [pass[w] EXCEPT !.at = "thread", !.thread = 0])
  /\ UNCHANGED <<tickets, state, memory, progress, running, again, starting, nudged, moved, astride, emptied>>

\* Mutant: the row is stamped with the moment it is written.
StampNow(i) == state[i.id]

\* closed_at is the updated_at of the list.
Stamp(i) == i.at

\* RememberTicket: the row is replaced by what this worker read; a row that
\* cannot be written is passed over.
Remember(w) ==
  /\ pass[w].at = "thread"
  /\ LET i == Head(pass[w].todo) IN
     \/ /\ memory' = [memory EXCEPT ![i.id] = [at |-> Stamp(i), thread |-> pass[w].thread]]
        /\ UNCHANGED <<missed, mishaps>>
     \/ Mishap /\ missed' = missed \cup {i.id} /\ UNCHANGED memory
  /\ GoesOn(w, [pass[w] EXCEPT !.at = "ticket", !.todo = Tail(pass[w].todo), !.thread = 0])
  /\ UNCHANGED <<tickets, state, progress, running, again, starting, nudged, moved, astride, emptied>>

-----------------------------------------------------------------------------
(***************************************************************************)
(* backfill.                                                               *)
(***************************************************************************)

\* startBackfill: from where the last one got to, or from the beginning.
\* Nothing keeps two of them apart.
StartBackfill(b, restart) ==
  /\ pass[b].at = "idle"
  /\ restart \/ ~progress.complete
  /\ GoesOn(b, [Resting EXCEPT !.at = "listing", !.page = IF restart THEN 1 ELSE progress.page + 1])
  /\ UNCHANGED <<tickets, state, memory, progress, running, again, starting, history, mishaps>>

\* One page; none is the end, and an error is too.
ListPage(b) ==
  /\ pass[b].at = "listing"
  /\ LET page == Part((pass[b].page - 1) * PageSize + 1, pass[b].page * PageSize) IN
     \/ /\ page # <<>>
        /\ GoesOn(b, [pass[b] EXCEPT !.at = "ticket", !.todo = Listed(page), !.short = Len(page) < PageSize])
        /\ UNCHANGED mishaps
     \/ page = <<>> /\ GoesOn(b, Finished) /\ UNCHANGED mishaps
     \/ Mishap /\ GoesOn(b, Finished)
  /\ UNCHANGED <<tickets, state, memory, progress, running, again, starting, history>>

\* The page's tickets are behind it.
ReadyToRecord(b) == pass[b].at = "ticket" /\ pass[b].todo = <<>>

\* SetBackfillProgress, then the next page, unless this one was the last.
RecordPage(b) ==
  /\ ReadyToRecord(b)
  /\ \/ /\ progress' = [page |-> pass[b].page, complete |-> pass[b].short]
        /\ GoesOn(b, IF pass[b].short THEN Finished
                   ELSE [pass[b] EXCEPT !.at = "listing", !.page = pass[b].page + 1])
        /\ UNCHANGED mishaps
     \/ Mishap /\ GoesOn(b, Finished) /\ UNCHANGED progress
  /\ UNCHANGED <<tickets, state, memory, running, again, starting, history>>

\* The process stops: its goroutines go, the coalescer begins anew.
StopAll ==
  /\ Mishap
  /\ pass' = [w \in Workers |-> IF w = "reindexing" \/ pass[w].at = "idle" THEN Resting ELSE Finished]
  /\ running' = FALSE /\ again' = FALSE /\ starting' = 0
  /\ missed' = IF running \/ starting > 0 THEN Tickets ELSE missed
  /\ UNCHANGED <<tickets, state, memory, progress, nudged, moved, astride, emptied>>

\* ClearWork empties both tables; whatever runs goes on.
EmptyIndex ==
  /\ Mishap
  /\ memory' = [t \in Tickets |-> NotKept] /\ progress' = [page |-> 0, complete |-> FALSE]
  /\ nudged' = [t \in Tickets |-> 0]
  /\ emptied' = (emptied \/ \E b \in Backfills : pass[b].at \notin {"idle", "over"})
  /\ UNCHANGED <<tickets, state, pass, running, again, starting, moved, missed, astride>>

RecallNext ==
  \/ \E t \in Tickets : Move(t)
  \/ Nudge \/ ReindexSoon \/ ListRecent \/ Compare \/ SkipUnchanged \/ EndReindex
  \/ \E w \in Workers : ReadThread(w) \/ Remember(w)
  \/ \E b \in Backfills : \/ \E restart \in BOOLEAN : StartBackfill(b, restart)
                          \/ ListPage(b) \/ RecordPage(b)
  \/ StopAll \/ EmptyIndex

RecallSpec == RecallInit /\ [][RecallNext]_recallVars

-----------------------------------------------------------------------------
(***************************************************************************)
(* Properties.                                                             *)
(***************************************************************************)

\* A row reindexRecent would take for up to date: same moment as the helpdesk.
TakenForCurrent(t) == memory[t].at # 0 /\ memory[t].at = state[t]

\* The index "cannot drift into being a second and disagreeing source of truth"
\* (store/recall.go): what it will not read again, it has right.
IndexAgrees == \A t \in Tickets : TakenForCurrent(t) => memory[t].thread = state[t]

\* It has, unless a request about that ticket failed, however backfills and
\* reindexings of the same ticket overtake each other.
IndexAgreesUndisturbed == \A t \in Tickets \ missed : TakenForCurrent(t) => memory[t].thread = state[t]

\* No delivery is lost to the coalescing: when nothing runs and nothing is
\* about to, every recent ticket that is as it was at the last delivery is
\* indexed so, unless a request failed or a backfill wrote what it had read
\* before the ticket changed.
NoNudgeLost ==
  ~running /\ starting = 0 =>
    \A t \in ToSet(FirstPage) \ (missed \cup astride) :
      nudged[t] = state[t] => memory[t].at = state[t]

\* Clearing takes both, so that recall is not left "convinced it had already done
\* the work, and the memory would never come back" (store/data.go): each ticket
\* of the pages recorded as read is indexed, but for those that moved or failed.
NothingLeftBehind ==
  \A i \in 1 .. Len(tickets) :
    i <= progress.page * PageSize /\ tickets[i] \notin moved \cup missed
    => memory[tickets[i]].at # 0

\* A backfill resumes where nothing is left behind: each ticket of the pages
\* recorded as read is indexed, unless it changed place meanwhile or could not
\* be written, whoever ran the backfills and wherever they were cut off; and
\* unless the index was cleared under one.
NothingLeftBehindUndisturbed == ~emptied => NothingLeftBehind

\* The index of tickets agrees with the helpdesk, no nudge of it is lost, and a
\* backfill leaves nothing behind, unless something is still in hand or went wrong.
RecallIsKept ==
  /\ RecallTypeOK
  /\ IndexAgreesUndisturbed
  /\ NoNudgeLost
  /\ NothingLeftBehindUndisturbed

=============================================================================
