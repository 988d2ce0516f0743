------------------------------ MODULE Histories ------------------------------
(***************************************************************************)
(* What is put together from several pages of the helpdesk's lists, while  *)
(* people go on working there: a ticket's timeline (timeline.go), the open *)
(* tickets (SearchTickets of client.go) and what a customer owes           *)
(* (billing.go).  One action per request.                                  *)
(***************************************************************************)
EXTENDS Integers, FiniteSets, Sifting

CONSTANTS
  PerPage,       \* rows of a page
  MaxScan,       \* maxOpenScan: pages one open-only search reads
  Threads,       \* what is on the ticket at first
  Books,         \* what has been logged at first, on every ticket
  MaxWork,       \* bound: what people do meanwhile
  MaxHour        \* bound: the clock

ASSUME HistoriesAssumption ==
  {PerPage, MaxScan, MaxHour} \subseteq Nat \ {0} /\ MaxWork \in Nat

(***************************************************************************)
(* A message is a technician's or a customer's; its subject says customer  *)
(* or does not, and a technician's name is on it or none.  Any of them may *)
(* come together: the helpdesk puts the name of the key's owner on what    *)
(* comes through its API, and people write subjects.  A timer is for this  *)
(* ticket or another.                                                      *)
(***************************************************************************)
VARIABLES
  thread,        \* the ticket's messages: [at, from]
  booked,        \* the timers of the whole helpdesk, the newest first
  pile,          \* tickets, the one last touched first: [id, done]
  owed,          \* unpaid invoices of everybody, the newest first: ours or not
  zone,          \* hours by which timers are written down elsewhere
  doings, hour,
  view           \* what is being put together, and what it was put together from

deskVars == <<thread, booked, pile, owed, zone, doings, hour, view>>

Origins == [by : {"tech", "customer"}, says : BOOLEAN, named : BOOLEAN]
NoView == [kind |-> "none", at |-> "idle", thread |-> <<>>, entries |-> <<>>, notes |-> {}, logged |-> 0,
           page |-> 0, read |-> 0, items |-> <<>>, pages |-> 0, partial |-> FALSE, were |-> {}, whole |-> TRUE]

\* Messages are there in the order they were written.
ASSUME ThreadsAssumption ==
  /\ \A t \in Threads :
       /\ t \in Seq([at : 0 .. MaxHour, from : Origins])
       /\ \A i, j \in DOMAIN t : i <= j => t[i].at <= t[j].at
  /\ Books \subseteq Seq([ours : BOOLEAN, at : 0 .. MaxHour])

HistoriesTypeOK ==
  /\ \A i \in DOMAIN thread : thread[i].at \in 0 .. MaxHour /\ thread[i].from \in Origins
  /\ \A i \in DOMAIN booked : booked[i].ours \in BOOLEAN /\ booked[i].at \in 0 .. MaxHour
  /\ \A i \in DOMAIN pile : pile[i].done \in BOOLEAN
  /\ owed \in Seq(BOOLEAN) /\ zone \in 0 .. 1 /\ doings \in 0 .. MaxWork /\ hour \in 0 .. MaxHour
  /\ view.kind \in {"none", "timeline", "open", "standing"} /\ view.at \in {"idle", "timers", "page", "over"}
  /\ view.notes \subseteq {"no time", "sides unknown"} /\ view.read \in 0 .. MaxScan

HistoriesInit ==
  /\ thread \in Threads /\ booked \in Books /\ zone \in 0 .. 1
  /\ \E n \in 0 .. PerPage + 1 : \E D \in SUBSET (1 .. n) :
       pile = [i \in 1 .. n |-> [id |-> n + 1 - i, done |-> n + 1 - i \in D]]
  /\ owed \in UNION {[1 .. n -> BOOLEAN] : n \in 0 .. PerPage + 1}
  /\ doings = 0 /\ hour = MaxHour - 1 /\ view = NoView

PageOf(rows, p) == SubSeq(rows, (p - 1) * PerPage + 1, IF p * PerPage < Len(rows) THEN p * PerPage ELSE Len(rows))
TotalPages(rows) == (Len(rows) + PerPage - 1) \div PerPage

-----------------------------------------------------------------------------
\* A ticket's timeline.

\* Mutant: a message with a technician's name on it is a technician's.
FromCustomerByName(m) == ~m.from.named
\* fromCustomer: by the subject, or because nobody's name is on it.
FromCustomer(m) == m.from.says \/ ~m.from.named
Side(m) == IF FromCustomer(m) THEN "customer_message" ELSE "comment"

\* Entries, each with the time as it is written down.
Begun == <<[kind |-> "created", at |-> 0, text |-> 0]>>
OfThread(ms) == [i \in DOMAIN ms |-> [kind |-> Side(ms[i]), at |-> ms[i].at, text |-> ms[i].at]]
OfTimers(ts) == LET ours == Sift(ts, {i \in DOMAIN ts : ts[i].ours})
                IN  [i \in DOMAIN ours |-> [kind |-> "time_logged", at |-> ours[i].at, text |-> ours[i].at + zone]]

\* SliceStable by the text of the times: the one before is as early, and of two
\* as early the one appended first.
Sorted(es) ==
  LET Rank(i) == Cardinality({j \in DOMAIN es : es[j].text < es[i].text \/ (es[j].text = es[i].text /\ j <= i)})
  IN  [r \in DOMAIN es |-> es[CHOOSE i \in DOMAIN es : Rank(i) = r]]

Talk == {"comment", "customer_message"}
\* computeSignals: one pass over the entries.
NoTally == [first |-> -1, trips |-> 0, last |-> "nobody", gap |-> 0, previous |-> -1]
Tally(s, e) ==
  [first |-> IF e.kind = "comment" /\ s.first = -1 THEN e.at ELSE s.first,
   trips |-> IF e.kind \in Talk /\ s.last \notin {"nobody", e.kind} THEN s.trips + 1 ELSE s.trips,
   last |-> IF e.kind \in Talk THEN e.kind ELSE s.last,
   gap |-> IF s.previous # -1 /\ e.at - s.previous > s.gap THEN e.at - s.previous ELSE s.gap,
   previous |-> e.at]
Signals(es) ==
  LET S[n \in 0 .. Len(es)] == IF n = 0 THEN NoTally ELSE Tally(S[n - 1], es[n])
  IN  S[Len(es)]

\* GetTicket
ReadTicket ==
  /\ view.kind = "none"
  /\ view' = [NoView EXCEPT !.kind = "timeline", !.at = "timers", !.thread = thread, !.whole = Len(booked) <= PerPage,
                            !.were = {i \in DOMAIN booked : booked[Len(booked) + 1 - i].ours}]
  /\ UNCHANGED <<thread, booked, pile, owed, zone, doings, hour>>

\* TicketTimers gives the first page of everybody's and keeps the ticket's; a
\* timeline without them is still given.
ReadTimers(answered) ==
  /\ view.kind = "timeline" /\ view.at = "timers"
  /\ LET timers == IF answered THEN OfTimers(PageOf(booked, 1)) ELSE <<>>
         sides == \A i \in DOMAIN view.thread : ~FromCustomer(view.thread[i])
     IN  view' = [view EXCEPT !.at = "over", !.entries = Sorted(Begun \o OfThread(view.thread) \o timers),
                     !.logged = Len(timers), !.whole = @ /\ Len(booked) <= PerPage,
                     !.notes = (IF answered THEN {} ELSE {"no time"})
                               \cup (IF sides /\ view.thread # <<>> THEN {"sides unknown"} ELSE {})]
  /\ UNCHANGED <<thread, booked, pile, owed, zone, doings, hour>>

-----------------------------------------------------------------------------
\* The open tickets.

Open(rows) == Sift(rows, {i \in DOMAIN rows : ~rows[i].done})
OpenIds(rows) == {rows[i].id : i \in {j \in DOMAIN rows : ~rows[j].done}}

\* What is kept of a page.
With(items, page) == items \o Open(page)

\* SearchTickets begins, at the first page or after the one reported.
SearchOpen ==
  /\ \/ view.kind = "none" /\ view' = [NoView EXCEPT !.kind = "open", !.at = "page", !.were = OpenIds(pile)]
     \/ /\ view.kind = "open" /\ view.at = "over" /\ view.page < view.pages
        /\ view' = [view EXCEPT !.at = "page", !.read = 0, !.logged = Len(view.items)]
  /\ UNCHANGED <<thread, booked, pile, owed, zone, doings, hour>>

\* One page; as many as are wanted, the last, or the most one search reads end it.
\* What the searches before found is in items already: logged says how much.
ReadPage ==
  /\ view.kind = "open" /\ view.at = "page"
  /\ LET next == view.page + 1
         rows == PageOf(pile, next)
         items == With(view.items, rows)
         found == Len(items) - view.logged >= PerPage
         last == rows = <<>> \/ next >= TotalPages(pile)
     IN  view' = [view EXCEPT !.page = next, !.read = @ + 1, !.items = items, !.pages = TotalPages(pile),
                     !.were = @ \cap OpenIds(pile),
                     !.at = IF found \/ last \/ view.read + 1 = MaxScan THEN "over" ELSE "page"]
  /\ UNCHANGED <<thread, booked, pile, owed, zone, doings, hour>>

-----------------------------------------------------------------------------
\* What a customer owes.

\* Partial: there are more pages, whoever's.
CutShort(rows) == TotalPages(rows) > 1

\* ListInvoices: the first page of everybody's, and the customer's of it.
Unpaid(rows) == LET page == PageOf(rows, 1) IN Sift(page, {i \in DOMAIN page : page[i]})

\* CustomerStanding
ReadStanding ==
  /\ view.kind = "none"
  /\ view' = [NoView EXCEPT !.kind = "standing", !.at = "over", !.partial = CutShort(owed),
                 !.logged = Len(Unpaid(owed)), !.were = {i \in DOMAIN owed : owed[i]}]
  /\ UNCHANGED <<thread, booked, pile, owed, zone, doings, hour>>

-----------------------------------------------------------------------------
\* Meanwhile, at the helpdesk.

Works == doings < MaxWork /\ doings' = doings + 1 /\ hour' = MaxHour
AddMessage(from) == Works /\ thread' = Append(thread, [at |-> hour', from |-> from]) /\ UNCHANGED <<booked, pile, owed, zone, view>>
Book(ours) == Works /\ booked' = <<[ours |-> ours, at |-> hour']>> \o booked /\ UNCHANGED <<thread, pile, owed, zone, view>>
NewTicket == Works /\ pile' = <<[id |-> Len(pile) + 1, done |-> FALSE]>> \o pile /\ UNCHANGED <<thread, booked, owed, zone, view>>
\* "A helpdesk sorts by recency": the i-th comes to the front, as it is now.
ToFront(i, ticket) == [j \in DOMAIN pile |-> IF j = 1 THEN ticket ELSE IF j <= i THEN pile[j - 1] ELSE pile[j]]
\* Written to, finished or opened again.  A search that is under way may pass it
\* by: it is no longer one of those nobody touched.
Touch(i, done) ==
  /\ Works /\ i \in DOMAIN pile
  /\ pile' = ToFront(i, [pile[i] EXCEPT !.done = done])
  /\ view' = IF view.kind = "open" THEN [view EXCEPT !.were = @ \ {pile[i].id}] ELSE view
  /\ UNCHANGED <<thread, booked, owed, zone>>

HistoriesNext ==
  \/ ReadTicket \/ SearchOpen \/ ReadPage \/ ReadStanding \/ NewTicket
  \/ \E yes \in BOOLEAN : ReadTimers(yes) \/ Book(yes)
  \/ \E from \in Origins : AddMessage(from)
  \/ \E i \in DOMAIN pile, done \in BOOLEAN : Touch(i, done)

HistoriesSpec == HistoriesInit /\ [][HistoriesNext]_deskVars

-----------------------------------------------------------------------------

IsGiven(kind) == view.kind = kind /\ view.at = "over"
TimesIn == Cardinality({i \in DOMAIN view.entries : view.entries[i].kind = "time_logged"})
Messages == Sift(view.entries, {i \in DOMAIN view.entries : view.entries[i].kind \in Talk})
\* A customer's message that nothing marks as theirs, and a technician's that is
\* marked as a customer's.
Filed == \E i \in DOMAIN view.thread : LET o == view.thread[i].from IN o.by = "customer" /\ ~o.says /\ o.named
Taken == \E i \in DOMAIN view.thread : LET o == view.thread[i].from IN o.by = "tech" /\ (o.says \/ ~o.named)
\* Who wrote the messages, whatever they are filed under.
Wrote == [i \in DOMAIN view.thread |-> IF view.thread[i].from.by = "tech" THEN "comment" ELSE "customer_message"]

\* A caller is "never left assuming completeness it does not have": every message
\* of the ticket is in its timeline, and every block of time that was logged when
\* it was asked for, or a note says what is not.
TimelineIsWhole ==
  IsGiven("timeline") =>
    /\ Len(Messages) = Len(view.thread)
    /\ TimesIn = view.logged /\ (TimesIn < Cardinality(view.were) => "no time" \in view.notes)

\* It is, unless the helpdesk has more timers than fit on a page.
TimelineIsWholeUndisturbed == view.whole => TimelineIsWhole

\* And it is in order, and what is counted in it is so, unless times are written
\* down in more zones than one: the longest gap is one and is the longest.  "Which
\* side a message came from is what makes back and forth mean anything": where the
\* marks are right the first answer is our earliest and a round trip is the
\* conversation changing sides as it did; and where no message can be told to be a
\* customer's, "the gap is named", unless one of ours was taken for theirs.
SignalsAreTrueUndisturbed ==
  IsGiven("timeline") /\ zone = 0 =>
    LET s == Signals(view.entries)
        turns == Cardinality({i \in 2 .. Len(Wrote) : Wrote[i] # Wrote[i - 1]})
        ours == {view.thread[i].at : i \in {j \in DOMAIN view.thread : view.thread[j].from.by = "tech"}}
        gaps == {view.entries[i].at - view.entries[i - 1].at : i \in 2 .. Len(view.entries)}
    IN  /\ \A i, j \in DOMAIN view.entries : i <= j => view.entries[i].at <= view.entries[j].at
        /\ \/ Filed \/ Taken
           \/ /\ s.trips = turns
              /\ IF ours = {} THEN s.first = -1 ELSE s.first \in ours /\ \A t \in ours : s.first <= t
        /\ IF gaps = {} THEN s.gap = 0 ELSE s.gap \in gaps /\ \A g \in gaps : g <= s.gap
        /\ \/ "sides unknown" \in view.notes \/ view.thread = <<>> \/ Taken
           \/ \E i \in DOMAIN view.thread : Wrote[i] = "customer_message"

\* "The open ticket from three months ago, the one most worth finding": who reads
\* on to the last page has found every ticket that was open all the time and that
\* nobody touched meanwhile, however many others came to the front.  (One that is
\* touched between two pages can be passed by, and the answer does not say so.)
OpenAreFound ==
  IsGiven("open") /\ view.page >= view.pages => view.were \subseteq {view.items[i].id : i \in DOMAIN view.items}

\* A total is not mistaken for complete.
TotalsSayWhatTheyAre == IsGiven("standing") => view.partial \/ view.logged = Cardinality(view.were)

HistoriesAreKept ==
  /\ HistoriesTypeOK
  /\ TimelineIsWholeUndisturbed
  /\ SignalsAreTrueUndisturbed
  /\ OpenAreFound
  /\ TotalsSayWhatTheyAre

=============================================================================
