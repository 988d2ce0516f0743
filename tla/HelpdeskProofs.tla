--------------------------- MODULE HelpdeskProofs ---------------------------
(***************************************************************************)
(* Theorems about Screens, Syncro and Recall, for any screens, writers,    *)
(* entries, deliveries, tokens, calls, tickets and bounds: what a screen   *)
(* is given shows what was written before it asked, an entry is refreshed  *)
(* once at a time, an address that was given works; a comment is posted    *)
(* once unless an answer to it was lost; a plugin's health is found with   *)
(* the token that is saved; and the index of tickets agrees with the       *)
(* helpdesk, loses no nudge and leaves no ticket behind.                   *)
(***************************************************************************)
EXTENDS Screens, Recall, Syncro, SequenceTheorems, FiniteSetTheorems, TLAPS

(***************************************************************************)
(* The cache.  A row, and whoever has an answer in hand, is as new as the  *)
(* last forgetting or known to be late; a read in hand is due no more than *)
(* what was told, and an answer it holds is as new as what it is due.      *)
(***************************************************************************)

IsRow == [is : BOOLEAN, data : Versions, age : {"fresh", "aging", "old"}, late : BOOLEAN]
IsReader == [at : {"idle", "looking", "asking", "holding", "failed", "mistaken"},
             of : Entries, data : Versions, late : BOOLEAN, by : Paths,
             due : Versions, shown : Versions, answered : BOOLEAN, wrong : BOOLEAN]

SafeRow(x, t) == x.is => x.data >= t \/ x.late
SafeReader(x, t) ==
  /\ x.due <= t
  /\ x.at # "idle" => ~x.answered
  /\ x.at = "holding" => x.data >= x.due /\ (x.data >= t \/ x.late)
  /\ x.answered => x.shown >= x.due \/ x.late
SafeBehind(x, t) == x.at = "holding" => x.data >= t \/ x.late

\* An entry is marked while one goroutine refreshes it.
Marked ==
  /\ \A r \in Readers : behind[r].at # "idle" => behind[r].of \in inflight
  /\ \A r, q \in Readers :
       behind[r].at # "idle" /\ behind[q].at # "idle" /\ behind[r].of = behind[q].of => r = q
  /\ \A e \in inflight : \E r \in Readers : behind[r].at # "idle" /\ behind[r].of = e

ReadersSafe == reader \in [Readers -> IsReader] /\ \A r \in Readers : SafeReader(reader[r], told)
BehindSafe == behind \in [Readers -> Fetches] /\ \A r \in Readers : SafeBehind(behind[r], told)
RowsSafe == entry \in [Entries -> IsRow] /\ \A e \in Entries : SafeRow(entry[e], told)
CountersSafe ==
  /\ world \in Versions /\ told \in Versions /\ told <= world
  /\ inflight \subseteq Entries
  /\ writer \in [Writers -> {"idle", "changed", "forgotten", "over"}]
  /\ cacheFaults \in 0 .. MaxFaults

CacheInv ==
  /\ CountersSafe
  /\ RowsSafe /\ \A e \in Entries : entry[e] \in Rows
  /\ ReadersSafe
  /\ BehindSafe
  /\ Marked

LEMMA VersionsAreNumbers == Versions \subseteq Nat /\ 0 \in Versions /\ 0 \in 0 .. MaxFaults
  BY CacheBounds DEF Versions

LEMMA CacheStart == CacheInit => CacheInv
<1> SUFFICES ASSUME CacheInit PROVE CacheInv
  OBVIOUS
<1>1. PICK e \in Entries :
        /\ reader = [r \in Readers |-> [at |-> "idle", of |-> e, data |-> 0, late |-> FALSE,
                                        by |-> "read", due |-> 0, shown |-> 0,
                                        answered |-> FALSE, wrong |-> FALSE]]
        /\ behind = [r \in Readers |-> Idle(e)]
  BY DEF CacheInit
<1>2. CountersSafe
  BY VersionsAreNumbers DEF CacheInit, CountersSafe
<1>3. RowsSafe /\ \A x \in Entries : entry[x] \in Rows
  BY VersionsAreNumbers DEF CacheInit, RowsSafe, None, IsRow, SafeRow, Rows
<1>4. ReadersSafe
  BY <1>1, VersionsAreNumbers DEF CacheInit, ReadersSafe, IsReader, SafeReader, Paths
<1>5. BehindSafe
  BY <1>1, VersionsAreNumbers DEF CacheInit, BehindSafe, Idle, Fetches, SafeBehind
<1>6. Marked
  BY <1>1 DEF CacheInit, Marked, Idle
<1>7. QED
  BY <1>2, <1>3, <1>4, <1>5, <1>6 DEF CacheInv

\* One reader goes on.
LEMMA ReaderGoesOn ==
  ASSUME CacheInv, NEW r \in Readers, NEW c \in IsReader, SafeReader(c, told),
         reader' = [reader EXCEPT ![r] = c], UNCHANGED told
  PROVE  ReadersSafe'
<1>1. \A q \in Readers : reader'[q] = IF q = r THEN c ELSE reader[q]
  BY DEF CacheInv, ReadersSafe
<1>2. reader' \in [Readers -> IsReader]
  BY DEF CacheInv, ReadersSafe
<1>3. \A q \in Readers : SafeReader(reader'[q], told)
  BY <1>1 DEF CacheInv, ReadersSafe
<1>4. QED
  BY <1>2, <1>3 DEF ReadersSafe

LEMMA OneReader ==
  ASSUME CacheInv, NEW r \in Readers
  PROVE  /\ reader[r] \in IsReader /\ SafeReader(reader[r], told) /\ reader[r].of \in Entries
         /\ reader[r].data \in Versions /\ reader[r].due \in Versions /\ reader[r].late \in BOOLEAN
         /\ entry[reader[r].of] \in IsRow /\ SafeRow(entry[reader[r].of], told)
         /\ behind[r] \in Fetches /\ SafeBehind(behind[r], told) /\ behind[r].of \in Entries
         /\ behind[r].data \in Versions /\ behind[r].late \in BOOLEAN
         /\ told \in Versions /\ world \in Versions /\ told <= world
<1>1. reader[r] \in IsReader /\ SafeReader(reader[r], told) /\ behind[r] \in Fetches /\ SafeBehind(behind[r], told)
  BY DEF CacheInv, ReadersSafe, BehindSafe
<1>2. /\ reader[r].of \in Entries /\ reader[r].data \in Versions /\ reader[r].due \in Versions
      /\ reader[r].late \in BOOLEAN
  BY <1>1 DEF IsReader
<1>3. behind[r].of \in Entries /\ behind[r].data \in Versions /\ behind[r].late \in BOOLEAN
  BY <1>1 DEF Fetches
<1>4. QED
  BY <1>1, <1>2, <1>3 DEF CacheInv, RowsSafe, CountersSafe

\* A caller is answered with a row it may be shown.
LEMMA AnswerIsSafe ==
  ASSUME CacheInv, NEW r \in Readers, reader[r].at # "idle", NEW row \in IsRow,
         row.data >= reader[r].due \/ row.late, Answer(r, row), UNCHANGED told
  PROVE  ReadersSafe'
<1> DEFINE data == row.data
           behindIt == row.late
           c == [reader[r] EXCEPT !.at = "idle", !.answered = TRUE, !.shown = data, !.late = behindIt,
                                  !.data = 0, !.by = "read"]
<1>1. reader' = [reader EXCEPT ![r] = c]
  BY DEF Answer
<1>2. data \in Versions /\ behindIt \in BOOLEAN /\ (data >= reader[r].due \/ behindIt)
  BY DEF IsRow
<1>3. reader[r] \in IsReader /\ SafeReader(reader[r], told)
  BY OneReader
<1> HIDE DEF data, behindIt
<1>4. /\ c \in IsReader /\ c.at = "idle" /\ c.shown = data /\ c.late = behindIt /\ c.due = reader[r].due
  BY <1>2, <1>3, VersionsAreNumbers DEF IsReader, Paths
<1> HIDE DEF c
<1>5. SafeReader(c, told)
  BY <1>2, <1>3, <1>4 DEF SafeReader
<1>6. QED
  BY <1>1, <1>4, <1>5, ReaderGoesOn

\* Within the hard budget.
LEMMA RowAnswers ==
  ASSUME CacheInv, NEW r \in Readers, reader[r].at # "idle", entry[reader[r].of].is,
         Answer(r, entry[reader[r].of]), UNCHANGED told
  PROVE  ReadersSafe'
<1>1. entry[reader[r].of] \in IsRow /\ SafeRow(entry[reader[r].of], told)
  BY OneReader
<1>2. reader[r].due <= told /\ reader[r].due \in Nat /\ told \in Nat /\ entry[reader[r].of].data \in Nat
  BY <1>1, OneReader, VersionsAreNumbers DEF SafeReader, IsRow
<1>3. entry[reader[r].of].data >= reader[r].due \/ entry[reader[r].of].late
  <2>1. entry[reader[r].of].data >= told \/ entry[reader[r].of].late
    BY <1>1 DEF SafeRow
  <2>2. CASE entry[reader[r].of].data >= told
    BY <1>2, <2>2
  <2>3. QED
    BY <2>1, <2>2
<1>4. QED
  BY <1>1, <1>3, AnswerIsSafe

LEMMA AskKeeps ==
  ASSUME CacheInv, NEW r \in Readers, NEW e \in Entries, NEW by \in Paths, Ask(r, e, by) PROVE CacheInv'
<1> DEFINE at == IF by = "refresh" THEN "asking" ELSE "looking"
           c == [reader[r] EXCEPT !.at = at, !.of = e, !.by = by, !.due = told, !.late = FALSE,
                                  !.answered = FALSE, !.wrong = FALSE]
<1>1. reader' = [reader EXCEPT ![r] = c] /\ UNCHANGED <<world, entry, behind, inflight, writer, told, cacheFaults>>
  BY DEF Ask
<1>2. at \in {"asking", "looking"} /\ reader[r] \in IsReader /\ told \in Versions
  BY OneReader
<1> HIDE DEF at
<1>3. c \in IsReader /\ c.at = at /\ c.due = told /\ c.answered = FALSE
  BY <1>2 DEF IsReader
<1> HIDE DEF c
<1>4. SafeReader(c, told)
  BY <1>2, <1>3, VersionsAreNumbers DEF SafeReader
<1>5. ReadersSafe'
  BY <1>1, <1>3, <1>4, ReaderGoesOn
<1>6. QED
  BY <1>1, <1>5 DEF CacheInv, CountersSafe, RowsSafe, BehindSafe, Marked

LEMMA LookFreshKeeps == ASSUME CacheInv, NEW r \in Readers, LookFresh(r) PROVE CacheInv'
<1>1. reader[r].at # "idle" /\ entry[reader[r].of].is /\ Answer(r, entry[reader[r].of])
      /\ UNCHANGED <<world, entry, behind, inflight, writer, told, cacheFaults>>
  BY DEF LookFresh
<1>2. ReadersSafe'
  BY <1>1, RowAnswers
<1>3. QED
  BY <1>1, <1>2 DEF CacheInv, CountersSafe, RowsSafe, BehindSafe, Marked

LEMMA LookAgingKeeps == ASSUME CacheInv, NEW r \in Readers, LookAging(r) PROVE CacheInv'
<1>1. reader[r].at # "idle" /\ entry[reader[r].of].is /\ Answer(r, entry[reader[r].of])
      /\ UNCHANGED <<world, entry, writer, told, cacheFaults>>
  BY DEF LookAging
<1>2. ReadersSafe'
  BY <1>1, RowAnswers
<1> DEFINE e == reader[r].of
<1>3. e \in Entries
  BY OneReader
<1>4. CASE e \in inflight
  <2>1. UNCHANGED <<behind, inflight>>
    BY <1>4 DEF LookAging, Refresh
  <2>2. QED
    BY <1>1, <1>2, <2>1 DEF CacheInv, CountersSafe, RowsSafe, BehindSafe, Marked
<1>5. CASE e \notin inflight
  <2> DEFINE c == [at |-> "asking", of |-> e, data |-> 0, late |-> FALSE]
  <2>1. behind[r].at = "idle" /\ behind' = [behind EXCEPT ![r] = c] /\ inflight' = inflight \cup {e}
    BY <1>5 DEF LookAging, Refresh, Idle
  <2>2. c \in Fetches /\ c.at = "asking" /\ c.of = e
    BY <1>3, VersionsAreNumbers DEF Fetches
  <2> HIDE DEF c, e
  <2>3. behind' \in [Readers -> Fetches] /\ \A q \in Readers : behind'[q] = IF q = r THEN c ELSE behind[q]
    BY <2>1, <2>2 DEF CacheInv, BehindSafe
  <2>4. BehindSafe'
    BY <1>1, <2>2, <2>3 DEF CacheInv, BehindSafe, SafeBehind
  <2>5. Marked'
    BY <1>5, <2>1, <2>2, <2>3 DEF CacheInv, Marked
  <2>6. QED
    BY <1>1, <1>2, <1>3, <2>1, <2>4, <2>5 DEF CacheInv, CountersSafe, RowsSafe
<1>6. QED
  BY <1>4, <1>5

\* One reader goes on, nothing else changes but what failed.
LEMMA ReaderTurns ==
  ASSUME CacheInv, NEW r \in Readers, NEW c \in IsReader, SafeReader(c, told),
         reader' = [reader EXCEPT ![r] = c], cacheFaults' \in 0 .. MaxFaults,
         UNCHANGED <<world, entry, behind, inflight, writer, told>>
  PROVE  CacheInv'
<1>1. ReadersSafe'
  BY ReaderGoesOn
<1>2. QED
  BY <1>1 DEF CacheInv, CountersSafe, RowsSafe, BehindSafe, Marked

LEMMA FaultsStay ==
  ASSUME CacheInv, NoFault \/ CacheFault
  PROVE  cacheFaults' \in 0 .. MaxFaults
  BY CacheBounds DEF CacheInv, CountersSafe, NoFault, CacheFault

LEMMA LookMissKeeps == ASSUME CacheInv, NEW r \in Readers, LookMiss(r) PROVE CacheInv'
<1> DEFINE c == [reader[r] EXCEPT !.at = "asking"]
<1>1. /\ reader' = [reader EXCEPT ![r] = c] /\ UNCHANGED <<world, entry, behind, inflight, writer, told>>
      /\ reader[r].at = "looking" /\ (NoFault \/ CacheFault)
  BY DEF LookMiss
<1>2. reader[r] \in IsReader /\ SafeReader(reader[r], told)
  BY OneReader
<1>3. /\ c \in IsReader /\ c.at = "asking" /\ c.due = reader[r].due /\ c.answered = reader[r].answered
  BY <1>2 DEF IsReader
<1> HIDE DEF c
<1>4. SafeReader(c, told)
  BY <1>1, <1>2, <1>3 DEF SafeReader
<1>5. QED
  BY <1>1, <1>3, <1>4, FaultsStay, ReaderTurns

LEMMA FetchKeeps == ASSUME CacheInv, NEW r \in Readers, Fetch(r) PROVE CacheInv'
<1>1. /\ UNCHANGED <<world, entry, behind, inflight, writer, told>> /\ reader[r].at = "asking"
      /\ (NoFault \/ CacheFault)
  BY DEF Fetch
<1>2. reader[r] \in IsReader /\ SafeReader(reader[r], told) /\ ~reader[r].answered /\ reader[r].due <= told
  BY <1>1, OneReader DEF SafeReader
<1>3. CASE reader' = [reader EXCEPT ![r] = [@ EXCEPT !.at = "holding", !.data = world]]
  <2> DEFINE c == [reader[r] EXCEPT !.at = "holding", !.data = world]
  <2>1. reader' = [reader EXCEPT ![r] = c]
    BY <1>3
  <2>2. world \in Versions /\ told <= world /\ told \in Nat /\ world \in Nat /\ reader[r].due \in Nat
    BY OneReader, VersionsAreNumbers
  <2>3. /\ c \in IsReader /\ c.data = world /\ c.due = reader[r].due /\ c.answered = reader[r].answered
    BY <1>2, <2>2 DEF IsReader
  <2> HIDE DEF c
  <2>4. SafeReader(c, told)
    BY <1>2, <2>2, <2>3 DEF SafeReader
  <2>5. QED
    BY <1>1, <2>1, <2>3, <2>4, FaultsStay, ReaderTurns
<1>4. CASE reader' = [reader EXCEPT ![r].at = "failed"]
  <2> DEFINE c == [reader[r] EXCEPT !.at = "failed"]
  <2>1. reader' = [reader EXCEPT ![r] = c]
    BY <1>4
  <2>2. c \in IsReader /\ c.at = "failed" /\ c.due = reader[r].due /\ c.answered = reader[r].answered
    BY <1>2 DEF IsReader
  <2> HIDE DEF c
  <2>3. SafeReader(c, told)
    BY <1>2, <2>2 DEF SafeReader
  <2>4. QED
    BY <1>1, <2>1, <2>2, <2>3, FaultsStay, ReaderTurns
<1>5. CASE reader' = [reader EXCEPT ![r] =
             [@ EXCEPT !.at = IF reader[r].by = "read" THEN "failed" ELSE "mistaken", !.wrong = TRUE]]
  <2> DEFINE at == IF reader[r].by = "read" THEN "failed" ELSE "mistaken"
             c == [reader[r] EXCEPT !.at = at, !.wrong = TRUE]
  <2>1. reader' = [reader EXCEPT ![r] = c] /\ at \in {"failed", "mistaken"}
    BY <1>5
  <2> HIDE DEF at
  <2>2. c \in IsReader /\ c.at = at /\ c.due = reader[r].due /\ c.answered = reader[r].answered
    BY <1>2, <2>1 DEF IsReader
  <2> HIDE DEF c
  <2>3. SafeReader(c, told)
    BY <1>2, <2>1, <2>2 DEF SafeReader
  <2>4. QED
    BY <1>1, <2>1, <2>2, <2>3, FaultsStay, ReaderTurns
<1>6. QED
  BY <1>3, <1>4, <1>5 DEF Fetch

\* A row is written, as new as what was told or known to be late.
LEMMA RowIsWritten ==
  ASSUME CacheInv, NEW e \in Entries, NEW row \in IsRow \cap Rows, SafeRow(row, told),
         entry' = [entry EXCEPT ![e] = row], UNCHANGED told
  PROVE  RowsSafe' /\ \A x \in Entries : entry'[x] \in Rows
<1>1. entry \in [Entries -> IsRow] /\ \A x \in Entries : SafeRow(entry[x], told) /\ entry[x] \in Rows
  BY DEF CacheInv, RowsSafe
<1>2. entry' \in [Entries -> IsRow] /\ \A x \in Entries : entry'[x] = IF x = e THEN row ELSE entry[x]
  BY <1>1
<1>3. \A x \in Entries : SafeRow(entry'[x], told) /\ entry'[x] \in Rows
  BY <1>1, <1>2
<1>4. QED
  BY <1>2, <1>3 DEF RowsSafe

LEMMA PutKeeps == ASSUME CacheInv, NEW r \in Readers, Put(r) PROVE CacheInv'
<1>1. /\ UNCHANGED <<world, behind, inflight, writer, told>> /\ reader[r].at = "holding" /\ (NoFault \/ CacheFault)
      /\ Answer(r, [Row(reader[r]) EXCEPT !.late = FALSE])
  BY DEF Put
<1>2. reader[r] \in IsReader /\ SafeReader(reader[r], told) /\ reader[r].data \in Versions /\ reader[r].late \in BOOLEAN
  BY OneReader
<1> DEFINE row == Row(reader[r])
           shown == [row EXCEPT !.late = FALSE]
<1>3. row \in IsRow \cap Rows /\ row.data = reader[r].data /\ row.late = reader[r].late
  BY <1>2 DEF Row, IsRow, Rows
<1>4. Answer(r, shown)
  BY <1>1
<1> HIDE DEF row
<1>5. shown \in IsRow /\ shown.data = row.data
  BY <1>3 DEF IsRow
<1> HIDE DEF shown
<1>6. ReadersSafe'
  <2>1. shown.data >= reader[r].due
    BY <1>1, <1>2, <1>3, <1>5 DEF SafeReader
  <2>2. QED
    BY <1>1, <1>4, <1>5, <2>1, AnswerIsSafe
<1>7. RowsSafe' /\ \A x \in Entries : entry'[x] \in Rows
  <2>1. CASE entry' = [entry EXCEPT ![reader[r].of] = Row(reader[r])]
    <3>1. SafeRow(row, told)
      BY <1>1, <1>2, <1>3 DEF SafeReader, SafeRow
    <3>2. QED
      BY <1>1, <1>3, <2>1, <3>1, OneReader, RowIsWritten DEF row
  <2>2. CASE UNCHANGED entry
    BY <1>1, <2>2 DEF CacheInv, RowsSafe
  <2>3. QED
    BY <2>1, <2>2 DEF Put
<1>8. cacheFaults' \in 0 .. MaxFaults
  BY <1>1, FaultsStay
<1>9. QED
  BY <1>1, <1>6, <1>7, <1>8 DEF CacheInv, CountersSafe, BehindSafe, Marked

LEMMA FallBackKeeps == ASSUME CacheInv, NEW r \in Readers, FallBack(r) PROVE CacheInv'
<1>1. /\ UNCHANGED <<world, entry, behind, inflight, writer, told, cacheFaults>> /\ reader[r].at \in {"failed", "mistaken"}
  BY DEF FallBack
<1>2. CASE reader[r].at = "failed" /\ entry[reader[r].of].is
  <2>1. Answer(r, entry[reader[r].of])
    BY <1>2 DEF FallBack
  <2>2. ReadersSafe'
    BY <1>1, <1>2, <2>1, RowAnswers
  <2>3. QED
    BY <1>1, <2>2 DEF CacheInv, CountersSafe, RowsSafe, BehindSafe, Marked
<1>3. CASE ~(reader[r].at = "failed" /\ entry[reader[r].of].is)
  <2> DEFINE c == [reader[r] EXCEPT !.at = "idle", !.data = 0, !.by = "read", !.wrong = FALSE]
  <2>1. reader' = [reader EXCEPT ![r] = c]
    BY <1>3 DEF FallBack
  <2>2. reader[r] \in IsReader /\ SafeReader(reader[r], told) /\ ~reader[r].answered
    BY <1>1, OneReader DEF SafeReader
  <2>3. c \in IsReader /\ c.at = "idle" /\ c.due = reader[r].due /\ c.answered = reader[r].answered
    BY <2>2, VersionsAreNumbers DEF IsReader, Paths
  <2> HIDE DEF c
  <2>4. SafeReader(c, told)
    BY <2>2, <2>3 DEF SafeReader
  <2>5. cacheFaults' \in 0 .. MaxFaults
    BY <1>1 DEF CacheInv, CountersSafe
  <2>6. QED
    BY <1>1, <2>1, <2>3, <2>4, <2>5, ReaderTurns
<1>4. QED
  BY <1>2, <1>3

\* A refresh that ends takes its mark along, and no other.
LEMMA RefreshEnds ==
  ASSUME CacheInv, NEW r \in Readers, behind[r].at # "idle", behind' = [behind EXCEPT ![r] = Idle(@.of)],
         inflight' = inflight \ {behind[r].of}, UNCHANGED told
  PROVE  BehindSafe' /\ Marked'
<1> DEFINE c == [at |-> "idle", of |-> behind[r].of, data |-> 0, late |-> FALSE]
<1>1. c \in Fetches /\ c.at = "idle"
  BY OneReader, VersionsAreNumbers DEF Fetches
<1>2. behind' = [behind EXCEPT ![r] = c]
  BY DEF Idle
<1> HIDE DEF c
<1>3. behind' \in [Readers -> Fetches] /\ \A q \in Readers : behind'[q] = IF q = r THEN c ELSE behind[q]
  BY <1>1, <1>2 DEF CacheInv, BehindSafe
<1>4. BehindSafe'
  BY <1>1, <1>3 DEF CacheInv, BehindSafe, SafeBehind
<1>5. Marked'
  <2>1. \A q \in Readers : behind'[q].at # "idle" => q # r /\ behind'[q] = behind[q]
    BY <1>1, <1>3
  <2>2. \A q \in Readers : behind'[q].at # "idle" => behind'[q].of \in inflight'
    BY <2>1 DEF CacheInv, Marked
  <2>3. ASSUME NEW e \in inflight' PROVE \E q \in Readers : behind'[q].at # "idle" /\ behind'[q].of = e
    <3>1. PICK q \in Readers : behind[q].at # "idle" /\ behind[q].of = e
      BY <2>3 DEF CacheInv, Marked
    <3>2. q # r
      BY <2>3, <3>1
    <3>3. QED
      BY <1>3, <3>1, <3>2
  <2>4. QED
    BY <2>1, <2>2, <2>3 DEF CacheInv, Marked
<1>6. QED
  BY <1>4, <1>5

LEMMA RefreshFetchKeeps == ASSUME CacheInv, NEW r \in Readers, RefreshFetch(r) PROVE CacheInv'
<1>1. UNCHANGED <<world, entry, reader, writer, told>> /\ behind[r].at = "asking" /\ (NoFault \/ CacheFault)
  BY DEF RefreshFetch
<1>2. cacheFaults' \in 0 .. MaxFaults
  BY <1>1, FaultsStay
<1>3. BehindSafe' /\ Marked' /\ inflight' \subseteq Entries
  <2>1. CASE /\ behind' = [behind EXCEPT ![r] = [@ EXCEPT !.at = "holding", !.data = world]]
             /\ UNCHANGED inflight
    <3> DEFINE c == [behind[r] EXCEPT !.at = "holding", !.data = world]
    <3>1. behind' = [behind EXCEPT ![r] = c]
      BY <2>1
    <3>2. behind[r] \in Fetches /\ world \in Versions /\ world \in Nat /\ told \in Nat /\ told <= world
      BY OneReader, VersionsAreNumbers
    <3>3. c \in Fetches /\ c.at = "holding" /\ c.of = behind[r].of /\ c.data = world
      BY <3>2 DEF Fetches
    <3> HIDE DEF c
    <3>4. behind' \in [Readers -> Fetches] /\ \A q \in Readers : behind'[q] = IF q = r THEN c ELSE behind[q]
      BY <3>1, <3>3 DEF CacheInv, BehindSafe
    <3>5. \A q \in Readers : SafeBehind(behind'[q], told)
      BY <3>2, <3>3, <3>4 DEF CacheInv, BehindSafe, SafeBehind
    <3>6. \A q \in Readers : behind'[q].of = behind[q].of /\ (behind'[q].at # "idle" <=> behind[q].at # "idle")
      BY <1>1, <3>3, <3>4
    <3>7. Marked'
      BY <2>1, <3>6 DEF CacheInv, Marked
    <3>8. QED
      BY <1>1, <2>1, <3>4, <3>5, <3>7 DEF CacheInv, CountersSafe, BehindSafe
  <2>2. CASE behind' = [behind EXCEPT ![r] = Idle(@.of)] /\ Unmark(r, TRUE)
    BY <1>1, <2>2, RefreshEnds DEF Unmark, CacheInv, CountersSafe
  <2>3. QED
    BY <2>1, <2>2 DEF RefreshFetch
<1>4. QED
  BY <1>1, <1>2, <1>3 DEF CacheInv, CountersSafe, RowsSafe, ReadersSafe

LEMMA RefreshPutKeeps == ASSUME CacheInv, NEW r \in Readers, RefreshPut(r) PROVE CacheInv'
<1>1. UNCHANGED <<world, reader, writer, told>> /\ behind[r].at = "holding" /\ (NoFault \/ CacheFault)
      /\ behind' = [behind EXCEPT ![r] = Idle(@.of)] /\ inflight' = inflight \ {behind[r].of}
  BY DEF RefreshPut, Unmark
<1>2. cacheFaults' \in 0 .. MaxFaults
  BY <1>1, FaultsStay
<1>3. BehindSafe' /\ Marked'
  BY <1>1, RefreshEnds
<1>4. RowsSafe' /\ \A x \in Entries : entry'[x] \in Rows
  <2>1. CASE entry' = [entry EXCEPT ![behind[r].of] = Row(behind[r])]
    <3> DEFINE row == Row(behind[r])
    <3>1. behind[r] \in Fetches /\ SafeBehind(behind[r], told) /\ behind[r].data \in Versions /\ behind[r].late \in BOOLEAN
      BY OneReader
    <3>2. row \in IsRow \cap Rows /\ row.data = behind[r].data /\ row.late = behind[r].late
      BY <3>1 DEF Row, IsRow, Rows
    <3> HIDE DEF row
    <3>3. SafeRow(row, told)
      BY <1>1, <3>1, <3>2 DEF SafeBehind, SafeRow
    <3>4. QED
      BY <1>1, <2>1, <3>2, <3>3, OneReader, RowIsWritten DEF row
  <2>2. CASE UNCHANGED entry
    BY <1>1, <2>2 DEF CacheInv, RowsSafe
  <2>3. QED
    BY <2>1, <2>2 DEF RefreshPut
<1>5. QED
  BY <1>1, <1>2, <1>3, <1>4 DEF CacheInv, CountersSafe, ReadersSafe

\* Rows are forgotten: what is in hand of them is late.
LEMMA ForgettingIsSafe ==
  ASSUME CacheInv, NEW S \in SUBSET Entries, Forget(S), UNCHANGED <<world, inflight>>,
         \/ UNCHANGED told
         \/ told' = world /\ S = Entries
  PROVE  /\ RowsSafe' /\ \A e \in Entries : entry'[e] \in Rows
         /\ ReadersSafe' /\ BehindSafe' /\ Marked'
         /\ told' \in Versions /\ told' <= world
<1>0. told \in Nat /\ told' \in Nat /\ told <= told' /\ told' \in Versions /\ told' <= world /\ world \in Nat
  BY VersionsAreNumbers DEF CacheInv, CountersSafe
<1>1. RowsSafe' /\ \A e \in Entries : entry'[e] \in Rows
  <2>0. None \in IsRow /\ None \in Rows /\ None.is = FALSE
    BY VersionsAreNumbers DEF None, IsRow, Rows
  <2>1. /\ entry' = [e \in Entries |-> IF e \in S THEN None ELSE entry[e]]
        /\ entry \in [Entries -> IsRow] /\ \A e \in Entries : SafeRow(entry[e], told) /\ entry[e] \in Rows
    BY DEF Forget, CacheInv, RowsSafe
  <2>2. entry' \in [Entries -> IsRow] /\ \A e \in Entries : entry'[e] \in Rows
    BY <2>0, <2>1
  <2>3. ASSUME NEW e \in Entries PROVE SafeRow(entry'[e], told')
    <3>1. CASE e \in S
      BY <2>0, <2>1, <3>1 DEF SafeRow
    <3>2. CASE e \notin S
      BY <2>1, <3>2
    <3>3. QED
      BY <3>1, <3>2
  <2>4. QED
    BY <2>2, <2>3 DEF RowsSafe
<1>2. ReadersSafe'
  <2>1. reader' = [r \in Readers |-> IF reader[r].at = "holding" /\ reader[r].of \in S
                                     THEN [reader[r] EXCEPT !.late = TRUE] ELSE reader[r]]
    BY DEF Forget
  <2>2. ASSUME NEW r \in Readers PROVE reader'[r] \in IsReader /\ SafeReader(reader'[r], told')
    <3>1. reader[r] \in IsReader /\ SafeReader(reader[r], told) /\ reader[r].of \in Entries /\ reader[r].due \in Nat
      BY OneReader, VersionsAreNumbers
    <3>2. CASE reader[r].at = "holding" /\ reader[r].of \in S
      <4> DEFINE c == [reader[r] EXCEPT !.late = TRUE]
      <4>1. reader'[r] = c
        BY <2>1, <3>2
      <4>2. /\ c \in IsReader /\ c.at = reader[r].at /\ c.late = TRUE /\ c.due = reader[r].due
            /\ c.answered = reader[r].answered /\ c.data = reader[r].data
        BY <3>1 DEF IsReader
      <4> HIDE DEF c
      <4>3. c.due <= told'
        BY <1>0, <3>1, <4>2 DEF SafeReader
      <4>4. SafeReader(c, told')
        BY <3>1, <3>2, <4>2, <4>3 DEF SafeReader
      <4>5. QED
        BY <4>1, <4>2, <4>4
    <3>3. CASE ~(reader[r].at = "holding" /\ reader[r].of \in S)
      <4>1. reader'[r] = reader[r]
        BY <2>1, <3>3
      <4>2. reader[r].due <= told'
        BY <1>0, <3>1 DEF SafeReader
      <4>3. told' = told \/ reader[r].at # "holding"
        BY <3>1, <3>3
      <4>4. SafeReader(reader[r], told')
        BY <3>1, <4>2, <4>3 DEF SafeReader
      <4>5. QED
        BY <3>1, <4>1, <4>4
    <3>4. QED
      BY <3>2, <3>3
  <2>3. reader' \in [Readers -> IsReader]
    BY <2>1, <2>2
  <2>4. QED
    BY <2>2, <2>3 DEF ReadersSafe
<1>3. BehindSafe' /\ Marked'
  <2>1. behind' = [r \in Readers |-> IF behind[r].at = "holding" /\ behind[r].of \in S
                                     THEN [behind[r] EXCEPT !.late = TRUE] ELSE behind[r]]
    BY DEF Forget
  <2>2. ASSUME NEW r \in Readers
        PROVE  /\ behind'[r] \in Fetches /\ SafeBehind(behind'[r], told')
               /\ behind'[r].at = behind[r].at /\ behind'[r].of = behind[r].of
    <3>1. behind[r] \in Fetches /\ SafeBehind(behind[r], told) /\ behind[r].of \in Entries
      BY OneReader
    <3>2. CASE behind[r].at = "holding" /\ behind[r].of \in S
      <4> DEFINE c == [behind[r] EXCEPT !.late = TRUE]
      <4>1. behind'[r] = c
        BY <2>1, <3>2
      <4>2. c \in Fetches /\ c.at = behind[r].at /\ c.late = TRUE /\ c.of = behind[r].of
        BY <3>1 DEF Fetches
      <4> HIDE DEF c
      <4>3. SafeBehind(c, told')
        BY <4>2 DEF SafeBehind
      <4>4. QED
        BY <4>1, <4>2, <4>3
    <3>3. CASE ~(behind[r].at = "holding" /\ behind[r].of \in S)
      <4>1. behind'[r] = behind[r] /\ (told' = told \/ behind[r].at # "holding")
        BY <2>1, <3>1, <3>3
      <4>2. QED
        BY <3>1, <4>1 DEF SafeBehind
    <3>4. QED
      BY <3>2, <3>3
  <2>3. behind' \in [Readers -> Fetches]
    BY <2>1, <2>2
  <2>4. Marked'
    BY <2>2 DEF CacheInv, Marked
  <2>5. QED
    BY <2>2, <2>3, <2>4 DEF BehindSafe
<1>4. QED
  BY <1>0, <1>1, <1>2, <1>3

LEMMA AfterChangeKeeps == ASSUME CacheInv, NEW w \in Writers, AfterChange(w) PROVE CacheInv'
<1>1. /\ UNCHANGED <<world, inflight>> /\ writer' = [writer EXCEPT ![w] = "forgotten"] /\ (NoFault \/ CacheFault)
  BY DEF AfterChange
<1>2. cacheFaults' \in 0 .. MaxFaults /\ writer' \in [Writers -> {"idle", "changed", "forgotten", "over"}]
  BY <1>1, FaultsStay DEF CacheInv, CountersSafe
<1>3. CASE Forget(ScopeOfChange) /\ told' = world
  BY <1>1, <1>2, <1>3, ForgettingIsSafe DEF ScopeOfChange, CacheInv, CountersSafe
<1>4. CASE UNCHANGED <<entry, reader, behind, told>>
  BY <1>1, <1>2, <1>4 DEF CacheInv, CountersSafe, RowsSafe, ReadersSafe, BehindSafe, Marked
<1>5. QED
  BY <1>3, <1>4 DEF AfterChange

LEMMA ForgetSomeKeeps == ASSUME CacheInv, NEW S \in SUBSET Entries, ForgetSome(S) PROVE CacheInv'
<1>1. UNCHANGED <<world, inflight, writer, told>> /\ (NoFault \/ CacheFault)
  BY DEF ForgetSome
<1>2. cacheFaults' \in 0 .. MaxFaults
  BY <1>1, FaultsStay
<1>3. CASE Forget(S)
  BY <1>1, <1>2, <1>3, ForgettingIsSafe DEF CacheInv, CountersSafe
<1>4. CASE UNCHANGED <<entry, reader, behind>>
  BY <1>1, <1>2, <1>4 DEF CacheInv, CountersSafe, RowsSafe, ReadersSafe, BehindSafe, Marked
<1>5. QED
  BY <1>3, <1>4 DEF ForgetSome

\* The connected system changes, or a change made here goes on.
LEMMA WorldGoesOn ==
  ASSUME CacheInv,
         \/ Change
         \/ \E w \in Writers : Write(w) \/ Invoke(w) \/ WriteAnswered(w)
  PROVE  CacheInv'
<1>1. UNCHANGED <<entry, reader, behind, inflight, told>>
  BY DEF Change, Write, Invoke, WriteAnswered
<1>2. world' = world \/ (world < MaxChanges /\ world' = world + 1)
  BY DEF Change, Write, Invoke, WriteAnswered
<1>3. world \in Versions /\ told \in Versions /\ told <= world /\ MaxChanges \in Nat
  BY CacheBounds DEF CacheInv, CountersSafe
<1>4. world' \in Versions /\ told <= world'
  BY <1>2, <1>3 DEF Versions
<1>5. NoFault \/ CacheFault
  BY DEF Change, Write, Invoke, WriteAnswered, NoFault
<1>6. cacheFaults' \in 0 .. MaxFaults
  BY <1>5, FaultsStay
<1>7. writer' \in [Writers -> {"idle", "changed", "forgotten", "over"}]
  BY DEF Change, Write, Invoke, WriteAnswered, CacheInv, CountersSafe
<1>8. QED
  BY <1>1, <1>3, <1>4, <1>6, <1>7 DEF CacheInv, CountersSafe, RowsSafe, ReadersSafe, BehindSafe, Marked

LEMMA RowsAge == ASSUME CacheInv, NEW e \in Entries, Age(e) \/ Prune(e) PROVE CacheInv'
<1>1. UNCHANGED <<world, reader, behind, inflight, writer, told, cacheFaults>> /\ entry[e].is
  BY DEF Age, Prune
<1>2. entry[e] \in IsRow /\ entry[e] \in Rows /\ SafeRow(entry[e], told) /\ entry[e] # None
  BY <1>1 DEF CacheInv, RowsSafe, None
<1>3. PICK row \in IsRow \cap Rows : SafeRow(row, told) /\ entry' = [entry EXCEPT ![e] = row]
  <2>1. CASE Age(e)
    <3> DEFINE a == IF entry[e].age = "fresh" THEN "aging" ELSE "old"
               row == [entry[e] EXCEPT !.age = a]
    <3>1. entry' = [entry EXCEPT ![e] = row] /\ a \in {"aging", "old"}
      BY <2>1 DEF Age
    <3> HIDE DEF a
    <3>2. /\ row \in IsRow /\ row.is = entry[e].is /\ row.data = entry[e].data /\ row.late = entry[e].late
      BY <1>2, <3>1 DEF IsRow
    <3>3. row \in Rows
      BY <1>2, <3>1 DEF Rows
    <3> HIDE DEF row
    <3>4. SafeRow(row, told)
      BY <1>2, <3>2 DEF SafeRow
    <3>5. QED
      BY <3>1, <3>2, <3>3, <3>4
  <2>2. CASE Prune(e)
    <3>1. None \in IsRow \cap Rows /\ SafeRow(None, told)
      BY VersionsAreNumbers DEF None, IsRow, Rows, SafeRow
    <3>2. QED
      BY <2>2, <3>1 DEF Prune
  <2>3. QED
    BY <2>1, <2>2
<1>4. RowsSafe' /\ \A x \in Entries : entry'[x] \in Rows
  BY <1>1, <1>3, RowIsWritten
<1>5. QED
  BY <1>1, <1>4 DEF CacheInv, CountersSafe, ReadersSafe, BehindSafe, Marked

LEMMA CacheStays == ASSUME CacheInv, UNCHANGED cacheVars PROVE CacheInv'
  BY DEF cacheVars, CacheInv, CountersSafe, RowsSafe, ReadersSafe, BehindSafe, Marked

LEMMA CacheHolds == ASSUME CacheInv PROVE CacheTypeOK /\ ReadsSeeWritesUndisturbed /\ OneRefreshEach
<1>1. CacheTypeOK
  BY DEF CacheInv, CountersSafe, RowsSafe, ReadersSafe, BehindSafe, CacheTypeOK, IsReader
<1>2. ReadsSeeWritesUndisturbed
  BY DEF CacheInv, ReadersSafe, SafeReader, ReadsSeeWritesUndisturbed, Answered
<1>3. OneRefreshEach
  <2> SUFFICES ASSUME NEW e \in Entries
               PROVE  Cardinality({r \in Readers : behind[r].at # "idle" /\ behind[r].of = e})
                        = IF e \in inflight THEN 1 ELSE 0
    BY DEF OneRefreshEach
  <2> DEFINE on == {r \in Readers : behind[r].at # "idle" /\ behind[r].of = e}
  <2>1. CASE e \in inflight
    <3>1. PICK r \in Readers : behind[r].at # "idle" /\ behind[r].of = e
      BY <2>1 DEF CacheInv, Marked
    <3>2. on = {r}
      BY <3>1 DEF CacheInv, Marked
    <3>3. QED
      BY <2>1, <3>2, FS_Singleton
  <2>2. CASE e \notin inflight
    <3>1. on = {}
      BY <2>2 DEF CacheInv, Marked
    <3>2. QED
      BY <2>2, <3>1, FS_EmptySet
  <2>3. QED
    BY <2>1, <2>2
<1>4. QED
  BY <1>1, <1>2, <1>3

-----------------------------------------------------------------------------
(***************************************************************************)
(* The webhook's address.  Who is about to make the first one crosses      *)
(* everybody that has asked meanwhile.                                     *)
(***************************************************************************)

HookInv ==
  /\ HookTypeOK
  /\ \A a \in Askers : asker[a] = "over" => secret # 0
  /\ \A a, b \in Askers : asker[a] = "missing" /\ a # b /\ asker[b] # "idle" => b \in crossed
  /\ AddressesWork

LEMMA HookStart == ASSUME NEW made \in BOOLEAN, HookInit(made) PROVE HookInv
  BY DEF HookInit, HookInv, HookTypeOK, AddressesWork

\* Somebody starts to ask: everybody under way is crossed with whom they met.
LEMMA CrossIsSafe ==
  ASSUME HookInv, NEW a \in Askers, asker[a] = "idle", Cross(a)
  PROVE  /\ crossed' \subseteq Askers /\ crossed \subseteq crossed'
         /\ \A b \in Askers : asker[b] \in {"missing", "rotating"} => b \in crossed' /\ a \in crossed'
  BY DEF HookInv, HookTypeOK, Cross, Making

LEMMA AskAddressKeeps == ASSUME HookInv, NEW a \in Askers, AskAddress(a) PROVE HookInv'
<1> USE DEF HookInv, HookTypeOK, AddressesWork
<1>1. /\ asker[a] = "idle" /\ Cross(a) /\ UNCHANGED <<secret, issued, delivery>>
  BY DEF AskAddress
<1>2. /\ crossed' \subseteq Askers /\ crossed \subseteq crossed'
      /\ \A b \in Askers : asker[b] \in {"missing", "rotating"} => b \in crossed' /\ a \in crossed'
  BY <1>1, CrossIsSafe
<1>3. CASE Missing
  <2>1. asker' = [asker EXCEPT ![a] = "missing"] /\ UNCHANGED given /\ secret = 0
    BY <1>3 DEF AskAddress, Missing
  <2>2. \A b \in Askers : asker'[b] = IF b = a THEN "missing" ELSE asker[b]
    BY <2>1
  <2>3. \A b, c \in Askers : asker'[b] = "missing" /\ b # c /\ asker'[c] # "idle" => c \in crossed'
    BY <1>1, <1>2, <2>1, <2>2
  <2>4. \A b \in Askers : asker'[b] # "over"
    BY <2>1, <2>2
  <2>5. HookTypeOK'
    BY <1>1, <1>2, <2>1
  <2>6. QED
    BY <2>3, <2>4, <2>5
<1>4. CASE ~Missing
  <2>1. asker' = [asker EXCEPT ![a] = "over"] /\ given' = [given EXCEPT ![a] = secret] /\ secret # 0
    BY <1>4 DEF AskAddress, Missing
  <2>2. \A b \in Askers : /\ asker'[b] = IF b = a THEN "over" ELSE asker[b]
                          /\ given'[b] = IF b = a THEN secret ELSE given[b]
    BY <2>1
  <2>3. \A b, c \in Askers : asker'[b] = "missing" /\ b # c /\ asker'[c] # "idle" => c \in crossed'
    BY <1>1, <1>2, <2>2
  <2>4. \A b \in Askers : asker'[b] = "over" /\ b \notin crossed' => given'[b] = secret'
    BY <1>1, <1>2, <2>2
  <2>5. HookTypeOK'
    BY <1>1, <1>2, <2>1
  <2>6. QED
    BY <1>1, <2>1, <2>3, <2>4, <2>5
<1>5. QED
  BY <1>3, <1>4

LEMMA AskRotationKeeps == ASSUME HookInv, NEW a \in Askers, AskRotation(a) PROVE HookInv'
<1> USE DEF HookInv, HookTypeOK, AddressesWork
<1>1. /\ asker[a] = "idle" /\ Cross(a) /\ UNCHANGED <<secret, issued, given, delivery>>
      /\ asker' = [asker EXCEPT ![a] = "rotating"]
  BY DEF AskRotation
<1>2. /\ crossed' \subseteq Askers /\ crossed \subseteq crossed'
      /\ \A b \in Askers : asker[b] \in {"missing", "rotating"} => b \in crossed' /\ a \in crossed'
  BY <1>1, CrossIsSafe
<1>3. \A b \in Askers : asker'[b] = IF b = a THEN "rotating" ELSE asker[b]
  BY <1>1
<1>4. \A b, c \in Askers : asker'[b] = "missing" /\ b # c /\ asker'[c] # "idle" => c \in crossed'
  BY <1>1, <1>2, <1>3
<1>5. \A b \in Askers : asker'[b] = "over" => secret' # 0 /\ (b \notin crossed' => given'[b] = secret')
  BY <1>1, <1>2, <1>3
<1>6. HookTypeOK'
  BY <1>1, <1>2
<1>7. QED
  BY <1>4, <1>5, <1>6

LEMMA MakeAddressKeeps == ASSUME HookInv, NEW a \in Askers, MakeAddress(a) PROVE HookInv'
<1> USE DEF HookInv, HookTypeOK, AddressesWork
<1> DEFINE made == issued + 1
<1>1. /\ asker[a] \in {"missing", "rotating"} /\ asker' = [asker EXCEPT ![a] = "over"]
      /\ issued' = made /\ secret' = made /\ given' = [given EXCEPT ![a] = made] /\ UNCHANGED delivery
      /\ crossed' = IF asker[a] = "rotating" THEN crossed \cup (Askers \ {a}) ELSE crossed
  BY DEF MakeAddress
<1>2. made \in Nat /\ made # 0
  OBVIOUS
<1> HIDE DEF made
<1>3. \A b \in Askers : /\ asker'[b] = IF b = a THEN "over" ELSE asker[b]
                        /\ given'[b] = IF b = a THEN made ELSE given[b]
  BY <1>1
<1>4. HookTypeOK'
  BY <1>1, <1>2
<1>5. ASSUME NEW b \in Askers, asker[b] # "idle", b # a PROVE b \in crossed'
  BY <1>1, <1>5
<1>6. \A b, c \in Askers : asker'[b] = "missing" /\ b # c /\ asker'[c] # "idle" => c \in crossed'
  <2> SUFFICES ASSUME NEW b \in Askers, NEW c \in Askers, asker'[b] = "missing", b # c, asker'[c] # "idle"
               PROVE  c \in crossed'
    OBVIOUS
  <2>1. b # a /\ asker[b] = "missing"
    BY <1>3
  <2>2. asker[c] # "idle"
    BY <1>1, <1>3
  <2>3. c \in crossed
    BY <2>1, <2>2
  <2>4. QED
    BY <1>1, <2>3
<1>7. \A b \in Askers : asker'[b] = "over" /\ b \notin crossed' => given'[b] = secret'
  BY <1>1, <1>3, <1>5
<1>8. QED
  BY <1>1, <1>2, <1>4, <1>6, <1>7

LEMMA DeliveriesKeep ==
  ASSUME HookInv, UNCHANGED <<secret, issued, asker, given, crossed>>,
         delivery' \in [Deliveries -> {"idle", "allowed", "forgotten", "refused", "over"}]
  PROVE  HookInv'
  BY DEF HookInv, HookTypeOK, AddressesWork

LEMMA HookStays == ASSUME HookInv, UNCHANGED hookVars PROVE HookInv'
  BY DEF hookVars, HookInv, HookTypeOK, AddressesWork

-----------------------------------------------------------------------------
(***************************************************************************)
(* Announcements, and everything together.                                 *)
(***************************************************************************)

LEMMA LiveStart == LiveInit => LiveTypeOK
<1> SUFFICES ASSUME LiveInit PROVE LiveTypeOK
  OBVIOUS
<1>1. recent = {} /\ wire = <<>> /\ wire \in Seq(Topics) /\ listening = {} /\ pushed = {} /\ wants = Browsers
  BY DEF LiveInit
<1>2. drops \in 0 .. MaxDrops
  BY LiveBounds DEF LiveInit
<1>3. queue \in [Browsers -> Seq(Topics)] /\ \A b \in Browsers : Len(queue[b]) <= QueueLimit
  BY LiveBounds DEF LiveInit
<1>4. QED
  BY <1>1, <1>2, <1>3 DEF LiveTypeOK

LEMMA AnnounceKeeps == ASSUME LiveTypeOK, NEW s \in Topics, Announce(s) PROVE LiveTypeOK'
<1>1. recent' \subseteq Topics /\ wire' \in {wire, Append(wire, s)} /\ drops' \in {drops, drops + 1} /\ drops' \in 0 .. MaxDrops
  BY LiveBounds DEF LiveTypeOK, Announce
<1>2. wire' \in Seq(Topics)
  BY <1>1 DEF LiveTypeOK
<1>3. QED
  BY <1>1, <1>2 DEF LiveTypeOK, Announce

LEMMA LiveAloneKeeps == ASSUME LiveTypeOK, LiveAlone PROVE LiveTypeOK'
<1> USE LiveBounds DEF LiveTypeOK
<1>1. ASSUME NEW s \in Topics, WindowEnds(s) \/ AnnounceElsewhere(s) PROVE LiveTypeOK'
  <2>1. CASE WindowEnds(s)
    BY <2>1 DEF WindowEnds
  <2>2. CASE AnnounceElsewhere(s)
    BY <2>2, AnnounceKeeps DEF AnnounceElsewhere
  <2>3. QED
    BY <1>1, <2>1, <2>2
<1>2. CASE Tell
  <2>1. wire # <<>> /\ Head(wire) \in Topics /\ wire' \in Seq(Topics)
    <3>1. wire \in Seq(Topics) /\ wire # <<>> /\ wire' = Tail(wire)
      BY <1>2 DEF Tell
    <3>2. QED
      BY <3>1
  <2>2. ASSUME NEW b \in Browsers PROVE queue'[b] \in Seq(Topics) /\ Len(queue'[b]) <= QueueLimit
    <3>1. PICK q \in Seq(Topics) : q = queue[b] /\ Len(q) <= QueueLimit
      OBVIOUS
    <3>2. queue'[b] = IF b \in listening /\ Len(q) < QueueLimit THEN Append(q, Head(wire)) ELSE q
      BY <1>2, <3>1 DEF Tell
    <3>3. Append(q, Head(wire)) \in Seq(Topics) /\ Len(Append(q, Head(wire))) = Len(q) + 1 /\ Len(q) \in Nat
      BY <2>1, <3>1
    <3>4. QED
      BY <3>1, <3>2, <3>3
  <2>3. queue' \in [Browsers -> Seq(Topics)]
    BY <1>2, <2>2 DEF Tell
  <2>4. QED
    BY <1>2, <2>1, <2>2, <2>3 DEF Tell
<1>3. ASSUME NEW b \in Browsers, Hear(b) \/ Connect(b) \/ Break(b) \/ PushAges(b) \/ Poll(b)
      PROVE  LiveTypeOK'
  <2>1. CASE Hear(b)
    <3>1. PICK q \in Seq(Topics) : q = queue[b] /\ Len(q) <= QueueLimit /\ q # <<>>
      BY <2>1 DEF Hear
    <3>2. Tail(q) \in Seq(Topics) /\ Len(Tail(q)) <= QueueLimit
      BY <3>1
    <3>3. queue' = [queue EXCEPT ![b] = Tail(q)] /\ wants' \subseteq Browsers /\ pushed' \subseteq Browsers
      BY <2>1, <3>1 DEF Hear
    <3>4. queue' \in [Browsers -> Seq(Topics)] /\ \A d \in Browsers : Len(queue'[d]) <= QueueLimit
      BY <3>2, <3>3
    <3>5. QED
      BY <2>1, <3>3, <3>4 DEF Hear
  <2>2. CASE Connect(b)
    BY <2>2 DEF Connect
  <2>3. CASE Break(b)
    <3>1. <<>> \in Seq(Topics) /\ Len(<<>>) <= QueueLimit
      OBVIOUS
    <3>2. queue' \in [Browsers -> Seq(Topics)] /\ \A d \in Browsers : Len(queue'[d]) <= QueueLimit
      BY <2>3, <3>1 DEF Break
    <3>3. QED
      BY <2>3, <3>2 DEF Break
  <2>4. CASE PushAges(b)
    BY <2>4 DEF PushAges
  <2>5. CASE Poll(b)
    BY <2>5 DEF Poll
  <2>6. QED
    BY <1>3, <2>1, <2>2, <2>3, <2>4, <2>5
<1>4. QED
  BY <1>1, <1>2, <1>3 DEF LiveAlone

LEMMA LiveStays == ASSUME LiveTypeOK, UNCHANGED liveVars PROVE LiveTypeOK'
  BY DEF liveVars, LiveTypeOK

ScreensInv == CacheInv /\ LiveTypeOK /\ HookInv

LEMMA ScreensStart == Init => ScreensInv
<1> SUFFICES ASSUME Init PROVE ScreensInv
  OBVIOUS
<1>1. CacheInit /\ LiveInit /\ HookInit(TRUE)
  BY DEF Init
<1>2. QED
  BY <1>1, CacheStart, LiveStart, HookStart DEF ScreensInv

LEMMA CacheAloneKeeps == ASSUME CacheInv, CacheAlone PROVE CacheInv'
<1>1. ASSUME NEW r \in Readers, ReadStep(r) PROVE CacheInv'
  BY <1>1, LookFreshKeeps, LookAgingKeeps, LookMissKeeps, FetchKeeps, PutKeeps, FallBackKeeps DEF ReadStep
<1>2. ASSUME NEW r \in Readers, RefreshStep(r) PROVE CacheInv'
  BY <1>2, RefreshFetchKeeps, RefreshPutKeeps DEF RefreshStep
<1>3. ASSUME NEW w \in Writers, Write(w) \/ Invoke(w) \/ AfterChange(w) PROVE CacheInv'
  BY <1>3, WorldGoesOn, AfterChangeKeeps
<1>4. ASSUME NEW e \in Entries, Age(e) \/ Prune(e) PROVE CacheInv'
  BY <1>4, RowsAge
<1>5. CASE Change
  BY <1>5, WorldGoesOn
<1>6. QED
  BY <1>1, <1>2, <1>3, <1>4, <1>5 DEF CacheAlone

LEMMA ScreensGoOn == ASSUME ScreensInv, [Next]_vars PROVE ScreensInv'
<1>0. CacheInv /\ LiveTypeOK /\ HookInv
  BY DEF ScreensInv
<1>1. ASSUME NEW d \in Deliveries, Delivered(d) \/ DeliveryForgets(d) \/ DeliveryAnnounced(d) PROVE ScreensInv'
  <2>1. HookInv'
    <3>1. UNCHANGED <<secret, issued, asker, given, crossed>>
      BY <1>1 DEF Delivered, DeliveryForgets, DeliveryAnnounced, Receive, Onward
    <3>2. delivery' \in [Deliveries -> {"idle", "allowed", "forgotten", "refused", "over"}]
      BY <1>0, <1>1 DEF Delivered, DeliveryForgets, DeliveryAnnounced, Receive, Onward, HookInv, HookTypeOK
    <3>3. QED
      BY <1>0, <3>1, <3>2, DeliveriesKeep
  <2>2. CacheInv' /\ LiveTypeOK'
    <3>1. CASE Delivered(d)
      BY <1>0, <3>1, CacheStays, LiveStays DEF Delivered, cacheVars, liveVars
    <3>2. CASE DeliveryForgets(d)
      BY <1>0, <3>2, ForgetSomeKeeps, LiveStays DEF DeliveryForgets
    <3>3. CASE DeliveryAnnounced(d)
      BY <1>0, <3>3, CacheStays, AnnounceKeeps DEF DeliveryAnnounced
    <3>4. QED
      BY <1>1, <3>1, <3>2, <3>3
  <2>3. QED
    BY <2>1, <2>2 DEF ScreensInv
<1>2. ASSUME NEW w \in Writers, WriteAnnounced(w) PROVE ScreensInv'
  <2>1. PICK s \in Topics : Announce(s)
    BY <1>2, LiveBounds DEF WriteAnnounced
  <2>2. LiveTypeOK'
    BY <1>0, <2>1, AnnounceKeeps
  <2>3. QED
    BY <1>0, <1>2, <2>2, WorldGoesOn, HookStays DEF WriteAnnounced, ScreensInv
<1>3. ASSUME NEW b \in Browsers, NEW e \in Entries, ScreenAsks(b, e) \/ OpenTicket(b, e) PROVE ScreensInv'
  <2>1. b \in Readers
    BY ScreensAssumption
  <2>2. UNCHANGED hookVars /\ (Ask(b, e, "invoke") \/ Ask(b, e, "refresh"))
    BY <1>3 DEF ScreenAsks, OpenTicket, hookVars
  <2>3. CacheInv'
    BY <1>0, <2>1, <2>2, AskKeeps DEF Paths
  <2>4. LiveTypeOK'
    <3>1. CASE ScreenAsks(b, e)
      BY <1>0, <3>1 DEF ScreenAsks, Refetch, LiveTypeOK
    <3>2. CASE OpenTicket(b, e)
      BY <1>0, <3>2, LiveStays DEF OpenTicket, liveVars
    <3>3. QED
      BY <1>3, <3>1, <3>2
  <2>5. QED
    BY <1>0, <2>2, <2>3, <2>4, HookStays DEF ScreensInv
<1>4. ASSUME NEW a \in Askers, HooksAlone(a) PROVE ScreensInv'
  <2>1. HookInv'
    BY <1>0, <1>4, AskAddressKeeps, AskRotationKeeps, MakeAddressKeeps DEF HooksAlone
  <2>2. QED
    BY <1>0, <1>4, <2>1, CacheStays, LiveStays DEF HooksAlone, ScreensInv
<1>5. CASE CacheAlone
  <2>1. UNCHANGED liveVars /\ UNCHANGED hookVars
    BY <1>5 DEF CacheAlone
  <2>2. QED
    BY <1>0, <1>5, <2>1, CacheAloneKeeps, LiveStays, HookStays DEF ScreensInv
<1>6. CASE LiveAlone
  <2>1. UNCHANGED cacheVars /\ UNCHANGED hookVars
    BY <1>6 DEF LiveAlone
  <2>2. QED
    BY <1>0, <1>6, <2>1, LiveAloneKeeps, CacheStays, HookStays DEF ScreensInv
<1>7. CASE UNCHANGED vars
  BY <1>0, <1>7, CacheStays, LiveStays, HookStays DEF vars, ScreensInv
<1>8. QED
  BY <1>1, <1>2, <1>3, <1>4, <1>5, <1>6, <1>7 DEF Next

(***************************************************************************)
(* Whatever fails, overlaps or is refreshed meanwhile: who asks after a    *)
(* change was answered is shown the change, unless what they are shown was *)
(* in somebody's hand when the cache forgot; an entry is refreshed by one  *)
(* at a time and its mark goes with them; and an address that was given    *)
(* works until another is asked for.                                       *)
(***************************************************************************)
THEOREM ScreensKept == Spec => []ScreensAreTrue
<1>1. ScreensInv /\ [Next]_vars => ScreensInv'
  BY ScreensGoOn
<1>2. ScreensInv => ScreensAreTrue
  <2> SUFFICES ASSUME ScreensInv PROVE ScreensAreTrue
    OBVIOUS
  <2>1. CacheInv /\ LiveTypeOK /\ HookInv
    BY DEF ScreensInv
  <2>2. QED
    BY <2>1, CacheHolds DEF ScreensAreTrue, TypeOK, HookInv
<1>3. QED
  BY ScreensStart, <1>1, <1>2, PTL DEF Spec

-----------------------------------------------------------------------------
(***************************************************************************)
(* The helpdesk's plugin: its tokens.  Once an announcement has emptied    *)
(* the plugin's vault, only a late token is another than the saved one.    *)
(***************************************************************************)

IsCheck == [on : BOOLEAN, rest : SUBSET Resources, reach : SUBSET Resources, with : SUBSET Tokens]
IsKept == [known : BOOLEAN, since : 0 .. MaxMinutes, reach : SUBSET Resources, with : SUBSET Tokens]

TokensTyped ==
  /\ grants \in [Tokens -> SUBSET Resources] /\ saved \in Tokens /\ resolved \subseteq Tokens /\ inHand \subseteq Tokens
  /\ late \in BOOLEAN /\ heard \in {"all", "announced", "forgotten"}
  /\ access \in IsKept /\ health \in IsKept /\ check \in [Checkers -> IsCheck]
  /\ minutes \in 0 .. MaxMinutes /\ tokenSaves \in 0 .. MaxSaves /\ outages \in 0 .. MaxOutages

TokensInv ==
  /\ TokensTyped
  /\ heard # "announced" /\ ~late => resolved \subseteq {saved}
  /\ heard = "all" /\ ~late => check["preflight"].with \subseteq {saved}
  /\ ~check["preflight"].on => check["preflight"].with = {}
  /\ HealthFollowsSave

LEMMA InUseIsAToken ==
  ASSUME TokensInv
  PROVE  InUse \in Tokens /\ (heard # "announced" /\ ~late => InUse = saved)
  BY DEF TokensInv, TokensTyped, InUse

LEMMA SyncroBounds == {MaxRetries, AccessLife, HealthLife, MaxMinutes, MaxSaves, MaxOutages} \subseteq Nat
  BY SyncroAssumption

LEMMA TokensStart == SyncroInit => TokensInv
<1> SUFFICES ASSUME SyncroInit PROVE TokensInv
  OBVIOUS
<1>1. NoCheck \in IsCheck /\ NoCheck.on = FALSE /\ NoCheck.with = {}
  BY DEF NoCheck, IsCheck
<1>2. Unchecked \in IsKept /\ Unchecked.known = FALSE
  BY SyncroBounds DEF Unchecked, IsKept
<1>3. check \in [Checkers -> IsCheck] /\ check["preflight"] = NoCheck
  BY <1>1 DEF SyncroInit, Checkers
<1>4. grants \in [Tokens -> SUBSET Resources]
  BY SyncroAssumption DEF SyncroInit
<1>5. minutes \in 0 .. MaxMinutes /\ tokenSaves \in 0 .. MaxSaves /\ outages \in 0 .. MaxOutages
  BY SyncroBounds DEF SyncroInit
<1>6. TokensTyped
  BY <1>2, <1>3, <1>4, <1>5 DEF SyncroInit, TokensTyped
<1>7. resolved = {} /\ access = Unchecked /\ health = Unchecked
  BY DEF SyncroInit
<1>8. QED
  BY <1>1, <1>2, <1>3, <1>6, <1>7 DEF TokensInv, HealthFollowsSave

\* A request uses the token that is resolved, and it stays.
LEMMA TokenIsUsed ==
  ASSUME TokensInv, resolved' = {InUse}, outages' \in 0 .. MaxOutages,
         UNCHANGED <<tokenVars, heard, access, health, check, minutes>>
  PROVE  TokensInv'
<1>1. UNCHANGED <<grants, saved, tokenSaves, inHand, late, heard, access, health, check, minutes>>
  BY DEF tokenVars
<1>2. TokensTyped'
  BY <1>1, InUseIsAToken DEF TokensInv, TokensTyped
<1>3. (heard # "announced" /\ ~late => resolved \subseteq {saved})'
  BY <1>1, InUseIsAToken
<1>4. HealthFollowsSave'
  BY <1>1 DEF TokensInv, HealthFollowsSave
<1>5. QED
  BY <1>1, <1>2, <1>3, <1>4 DEF TokensInv

LEMMA ProbeKeeps ==
  ASSUME TokensInv, NEW k \in Checkers, NEW r \in Resources, NEW answered \in BOOLEAN, Probe(k, r, answered)
  PROVE  TokensInv'
<1> DEFINE with == check[k].with \cup {InUse}
           rest == check[k].rest \ {r}
           reach == check[k].reach \cup {x \in {r} : answered => Readable(InUse, x)}
           c == [check[k] EXCEPT !.rest = rest, !.with = with, !.reach = reach]
<1>1. /\ UNCHANGED <<grants, saved, tokenSaves, inHand, late, heard, access, health, minutes>>
      /\ resolved' = {InUse} /\ check[k].on
  BY DEF Probe, tokenVars
<1>a. check' = [check EXCEPT ![k] = c]
  BY DEF Probe
<1>2. check[k] \in IsCheck /\ check \in [Checkers -> IsCheck]
  BY DEF TokensInv, TokensTyped
<1>3. check[k].with \subseteq Tokens /\ check[k].rest \subseteq Resources /\ check[k].reach \subseteq Resources
  BY <1>2 DEF IsCheck
<1>4. with \subseteq Tokens /\ rest \subseteq Resources /\ reach \subseteq Resources
  BY <1>3, InUseIsAToken
<1> HIDE DEF rest, reach
<1>5. with = check[k].with \cup {InUse}
  OBVIOUS
<1> HIDE DEF with
<1>6. c \in IsCheck /\ c.with = with /\ c.on = check[k].on
  BY <1>2, <1>4 DEF IsCheck
<1> HIDE DEF c
<1>7. check' \in [Checkers -> IsCheck] /\ \A j \in Checkers : check'[j] = IF j = k THEN c ELSE check[j]
  BY <1>a, <1>2, <1>6
<1>8. outages' \in 0 .. MaxOutages
  BY SyncroBounds DEF Probe, TokensInv, TokensTyped
<1>9. TokensTyped'
  BY <1>1, <1>7, <1>8, InUseIsAToken DEF TokensInv, TokensTyped
<1>10. (heard # "announced" /\ ~late => resolved \subseteq {saved})'
  BY <1>1, InUseIsAToken
<1>11. "preflight" \in Checkers
  BY DEF Checkers
<1>12. (heard = "all" /\ ~late => check["preflight"].with \subseteq {saved})'
  <2> SUFFICES ASSUME heard = "all", ~late PROVE check'["preflight"].with \subseteq {saved}
    BY <1>1
  <2>1. InUse = saved /\ check["preflight"].with \subseteq {saved}
    BY InUseIsAToken DEF TokensInv
  <2>2. CASE k = "preflight"
    BY <1>5, <1>6, <1>7, <2>1, <2>2
  <2>3. CASE k # "preflight"
    BY <1>7, <1>11, <2>1, <2>3
  <2>4. QED
    BY <2>2, <2>3
<1>13. (~check["preflight"].on => check["preflight"].with = {})'
  BY <1>1, <1>6, <1>7, <1>11 DEF TokensInv
<1>14. HealthFollowsSave'
  BY <1>1 DEF TokensInv, HealthFollowsSave
<1>15. QED
  BY <1>9, <1>10, <1>12, <1>13, <1>14 DEF TokensInv

\* A check begins, or what it found is kept; or an announcement is dealt with.
LEMMA CheckChanges ==
  ASSUME TokensInv, NEW k \in Checkers, NEW c \in IsCheck, check' = [check EXCEPT ![k] = c],
         c.with = {}, UNCHANGED <<tokenVars, resolved, heard, minutes, outages>>,
         access' \in IsKept, health' \in IsKept, HealthFollowsSave'
  PROVE  TokensInv'
<1>1. UNCHANGED <<grants, saved, tokenSaves, inHand, late, resolved, heard, minutes, outages>>
  BY DEF tokenVars
<1>2. check' \in [Checkers -> IsCheck] /\ \A j \in Checkers : check'[j] = IF j = k THEN c ELSE check[j]
  BY DEF TokensInv, TokensTyped
<1>3. TokensTyped'
  BY <1>1, <1>2 DEF TokensInv, TokensTyped
<1>4. "preflight" \in Checkers
  BY DEF Checkers
<1>5. check'["preflight"] = check["preflight"] \/ check'["preflight"].with = {}
  BY <1>2, <1>4
<1>6. QED
  BY <1>1, <1>3, <1>5 DEF TokensInv

LEMMA BeginKeeps ==
  ASSUME TokensInv, NEW k \in Checkers, Begin(k),
         UNCHANGED <<tokenVars, resolved, heard, access, health, minutes, outages>>
  PROVE  TokensInv'
<1> DEFINE c == [NoCheck EXCEPT !.on = TRUE, !.rest = Resources]
<1>1. check' = [check EXCEPT ![k] = c]
  BY DEF Begin
<1>2. NoCheck \in IsCheck /\ NoCheck.with = {}
  BY DEF NoCheck, IsCheck
<1>3. c \in IsCheck /\ c.with = NoCheck.with
  BY <1>2 DEF IsCheck
<1> HIDE DEF c
<1>4. access' \in IsKept /\ health' \in IsKept
  BY DEF TokensInv, TokensTyped
<1>5. HealthFollowsSave'
  BY DEF TokensInv, HealthFollowsSave, tokenVars
<1>6. QED
  BY <1>1, <1>2, <1>3, <1>4, <1>5, CheckChanges

\* What a check found.
LEMMA FoundIsKept == ASSUME TokensInv, NEW k \in Checkers PROVE Found(k) \in IsKept /\ Found(k).with = check[k].with
<1>1. check[k] \in IsCheck /\ minutes \in 0 .. MaxMinutes
  BY DEF TokensInv, TokensTyped
<1>2. check[k].reach \subseteq Resources /\ check[k].with \subseteq Tokens
  BY <1>1 DEF IsCheck
<1>3. QED
  BY <1>1, <1>2 DEF Found, IsKept

LEMMA PreflightDoneKeeps == ASSUME TokensInv, PreflightDone PROVE TokensInv'
<1>1. /\ health' = Found("preflight") /\ check' = [check EXCEPT !["preflight"] = NoCheck]
      /\ UNCHANGED <<tokenVars, resolved, heard, access, minutes, outages>>
  BY DEF PreflightDone
<1>2. NoCheck \in IsCheck /\ NoCheck.with = {} /\ "preflight" \in Checkers
  BY DEF NoCheck, IsCheck, Checkers
<1>3. Found("preflight") \in IsKept /\ Found("preflight").with = check["preflight"].with
  BY <1>2, FoundIsKept
<1>4. HealthFollowsSave'
  BY <1>1, <1>3 DEF TokensInv, HealthFollowsSave, tokenVars
<1>5. access' \in IsKept
  BY <1>1 DEF TokensInv, TokensTyped
<1>6. QED
  BY <1>1, <1>2, <1>3, <1>4, <1>5, CheckChanges

LEMMA GuardFound ==
  ASSUME TokensInv, access' = Found("guard"), check' = [check EXCEPT !["guard"] = NoCheck],
         UNCHANGED <<tokenVars, resolved, heard, health, minutes, outages>>
  PROVE  TokensInv'
<1>1. NoCheck \in IsCheck /\ NoCheck.with = {} /\ "guard" \in Checkers
  BY DEF NoCheck, IsCheck, Checkers
<1>2. Found("guard") \in IsKept
  BY <1>1, FoundIsKept
<1>3. HealthFollowsSave'
  BY DEF TokensInv, HealthFollowsSave, tokenVars
<1>4. health' \in IsKept
  BY DEF TokensInv, TokensTyped
<1>5. QED
  BY <1>1, <1>2, <1>3, <1>4, CheckChanges

\* The steps that touch tokens only.
LEMMA TokenStepsKeep ==
  ASSUME TokensInv,
         \/ KeepToken \/ ForgetToken \/ HearSaved \/ Invalidate \/ Minute
         \/ \E t \in Tokens : SaveToken(t) \/ \E R \in SUBSET Resources : EditGrants(t, R)
  PROVE  TokensInv'
<1> USE DEF tokenVars
<1>1. CASE KeepToken
  <2>1. /\ resolved' = inHand /\ inHand' = {} /\ late' = (heard # "announced")
        /\ UNCHANGED <<grants, saved, tokenSaves, heard, access, health, check, minutes, outages>>
    BY <1>1 DEF KeepToken
  <2>2. TokensTyped'
    BY <2>1 DEF TokensInv, TokensTyped
  <2>3. heard = "announced" \/ late'
    BY <2>1
  <2>4. HealthFollowsSave'
    BY <2>1, <2>3 DEF HealthFollowsSave
  <2>5. QED
    BY <2>1, <2>2, <2>3, <2>4 DEF TokensInv
<1>2. CASE ForgetToken
  BY <1>2 DEF ForgetToken, TokensInv, TokensTyped, HealthFollowsSave
<1>3. CASE HearSaved
  BY <1>3 DEF HearSaved, TokensInv, TokensTyped, HealthFollowsSave
<1>4. CASE Invalidate
  <2>1. /\ heard = "forgotten" /\ ~check["preflight"].on /\ health' = Unchecked /\ heard' = "all"
        /\ UNCHANGED <<grants, saved, tokenSaves, inHand, late, resolved, access, check, minutes, outages>>
    BY <1>4 DEF Invalidate, MayInvalidate
  <2>2. Unchecked \in IsKept /\ Unchecked.known = FALSE
    BY SyncroBounds DEF Unchecked, IsKept
  <2>3. TokensTyped'
    BY <2>1, <2>2 DEF TokensInv, TokensTyped
  <2>4. HealthFollowsSave'
    BY <2>1, <2>2 DEF HealthFollowsSave
  <2>5. QED
    BY <2>1, <2>3, <2>4 DEF TokensInv
<1>5. CASE Minute
  <2>1. minutes' \in 0 .. MaxMinutes
    BY <1>5, SyncroBounds DEF Minute, TokensInv, TokensTyped
  <2>2. QED
    BY <1>5, <2>1 DEF Minute, TokensInv, TokensTyped, HealthFollowsSave
<1>6. ASSUME NEW t \in Tokens, SaveToken(t) PROVE TokensInv'
  <2>1. tokenSaves' \in 0 .. MaxSaves
    BY <1>6, SyncroBounds DEF SaveToken, TokensInv, TokensTyped
  <2>2. inHand' \subseteq Tokens
    BY <1>6 DEF SaveToken, TokensInv, TokensTyped
  <2>3. QED
    BY <1>6, <2>1, <2>2 DEF SaveToken, TokensInv, TokensTyped, HealthFollowsSave
<1>7. ASSUME NEW t \in Tokens, NEW R \in SUBSET Resources, EditGrants(t, R) PROVE TokensInv'
  <2>1. tokenSaves' \in 0 .. MaxSaves
    BY <1>7, SyncroBounds DEF EditGrants, TokensInv, TokensTyped
  <2>2. grants' \in [Tokens -> SUBSET Resources]
    BY <1>7 DEF EditGrants, TokensInv, TokensTyped
  <2>3. QED
    BY <1>7, <2>1, <2>2 DEF EditGrants, TokensInv, TokensTyped, HealthFollowsSave
<1>8. QED
  BY <1>1, <1>2, <1>3, <1>4, <1>5, <1>6, <1>7

-----------------------------------------------------------------------------
(***************************************************************************)
(* Its calls.  Who is handled is the first at its tool's endpoint, and     *)
(* what was asked for is done at most once, at the end, unless a request   *)
(* was done and not answered.                                              *)
(***************************************************************************)

IsOrder == [tool : Tools \cup {"none"}, at : {"idle", "line", "probing", "status", "asking", "over"},
            tries : 0 .. MaxRetries + 1, told : Told]
Handled == {"probing", "status", "asking"}

Truthful(x, n, lost) ==
  /\ x.at # "over" => x.told \in {"nothing", "silence"} /\ (lost \/ n = 0)
  /\ lost \/ (n <= 1 /\ (x.told = "done" => n = 1) /\ (x.told = "refused" => n = 0))

OrdersTyped ==
  /\ order \in [Orders -> IsOrder] /\ posted \in [Orders -> Nat] /\ unclear \subseteq Orders
  /\ line \in [Tools -> Seq(Orders)]
OrdersInv ==
  /\ OrdersTyped
  /\ \A o \in Orders : Truthful(order[o], posted[o], o \in unclear)
  /\ \A o \in Orders : order[o].at # "idle" => order[o].tool \in Tools
  /\ \A o \in Orders : order[o].at \in Handled => First(o)

LEMMA OrdersStart == SyncroInit => OrdersInv
<1> SUFFICES ASSUME SyncroInit PROVE OrdersInv
  OBVIOUS
<1> DEFINE c == [tool |-> "none", at |-> "idle", tries |-> 0, told |-> "nothing"]
<1>1. c \in IsOrder /\ c.at = "idle" /\ c.told = "nothing"
  BY SyncroBounds DEF IsOrder, Told
<1> HIDE DEF c
<1>2. order = [o \in Orders |-> c]
  BY DEF SyncroInit, c
<1>3. posted = [o \in Orders |-> 0] /\ unclear = {} /\ line = [t \in Tools |-> <<>>]
  BY DEF SyncroInit
<1>4. <<>> \in Seq(Orders)
  OBVIOUS
<1>5. OrdersTyped
  BY <1>1, <1>2, <1>3, <1>4 DEF OrdersTyped
<1>6. \A o \in Orders : order[o] = c /\ posted[o] = 0
  BY <1>2, <1>3
<1>7. QED
  BY <1>1, <1>5, <1>6 DEF OrdersInv, Truthful, Handled

LEMMA OrdersStay == ASSUME OrdersInv, UNCHANGED lineVars PROVE OrdersInv'
  BY DEF lineVars, OrdersInv, OrdersTyped, First

LEMMA OneOrder ==
  ASSUME OrdersInv, NEW o \in Orders
  PROVE  /\ order[o] \in IsOrder /\ posted[o] \in Nat /\ Truthful(order[o], posted[o], o \in unclear)
         /\ order[o].told \in Told /\ order[o].tries \in 0 .. MaxRetries + 1
         /\ order[o].at # "idle" => order[o].tool \in Tools
         /\ order[o].at \in Handled => First(o)
         /\ posted = [posted EXCEPT ![o] = posted[o]]
  BY DEF OrdersInv, OrdersTyped, IsOrder

\* One call goes on, and the lines stay as they are.
LEMMA OrderGoesOn ==
  ASSUME OrdersInv, NEW o \in Orders, NEW c \in IsOrder, order' = [order EXCEPT ![o] = c],
         NEW n \in Nat, posted' = [posted EXCEPT ![o] = n], UNCHANGED line,
         unclear' \subseteq Orders, \A q \in Orders : q # o => (q \in unclear' <=> q \in unclear),
         order[o].at # "idle", c.tool = order[o].tool, c.at \in Handled => First(o),
         Truthful(c, n, o \in unclear')
  PROVE  OrdersInv'
<1>1. OrdersTyped'
  BY DEF OrdersInv, OrdersTyped
<1>2. \A q \in Orders : /\ order'[q] = IF q = o THEN c ELSE order[q]
                        /\ posted'[q] = IF q = o THEN n ELSE posted[q]
  BY DEF OrdersInv, OrdersTyped
<1>3. \A q \in Orders : order'[q].tool = order[q].tool
  BY <1>2
<1>4. ASSUME NEW q \in Orders PROVE Truthful(order'[q], posted'[q], q \in unclear')
  <2>1. CASE q = o
    BY <1>2, <2>1
  <2>2. CASE q # o
    BY <1>2, <2>2 DEF OrdersInv, Truthful
  <2>3. QED
    BY <2>1, <2>2
<1>5. ASSUME NEW q \in Orders PROVE (order[q].at # "idle" => order[q].tool \in Tools)'
  BY <1>2, <1>3 DEF OrdersInv
<1>6. ASSUME NEW q \in Orders PROVE (order[q].at \in Handled => First(q))'
  <2>1. order'[q].at \in Handled => First(q)
    BY <1>2 DEF OrdersInv
  <2>2. QED
    BY <1>3, <2>1 DEF First
<1>7. QED
  BY <1>1, <1>4, <1>5, <1>6 DEF OrdersInv

\* The first in line is answered, and leaves it.
LEMMA OrderReturns ==
  ASSUME OrdersInv, NEW o \in Orders, First(o), order[o].at \notin {"idle", "over"}, NEW what \in Told, Return(o, what),
         NEW n \in Nat, posted' = [posted EXCEPT ![o] = n],
         unclear' \subseteq Orders, \A q \in Orders : q # o => (q \in unclear' <=> q \in unclear),
         o \in unclear' \/ (n <= 1 /\ (what = "done" => n = 1) /\ (what = "refused" => n = 0))
  PROVE  OrdersInv'
<1> DEFINE t == order[o].tool
           said == IF order[o].told = "nothing" THEN what ELSE order[o].told
           c == [order[o] EXCEPT !.at = "over", !.told = said]
<1>1. /\ order[o] \in IsOrder /\ t \in Tools /\ order[o].told \in {"nothing", "silence"}
      /\ order \in [Orders -> IsOrder] /\ line \in [Tools -> Seq(Orders)] /\ posted \in [Orders -> Nat]
  BY OneOrder DEF OrdersInv, OrdersTyped, Truthful
<1>2. order' = [order EXCEPT ![o] = c] /\ line' = [line EXCEPT ![t] = Tail(@)]
  BY DEF Return
<1>3. said \in Told /\ (said = "silence" \/ said = what)
  BY <1>1 DEF Told
<1> HIDE DEF said
<1>4. c \in IsOrder /\ c.at = "over" /\ c.told = said /\ c.tool = t
  BY <1>1, <1>3 DEF IsOrder
<1> HIDE DEF c
<1>5. \A q \in Orders : /\ order'[q] = IF q = o THEN c ELSE order[q]
                        /\ posted'[q] = IF q = o THEN n ELSE posted[q]
  BY <1>1, <1>2
<1>6. line[t] # <<>> /\ Head(line[t]) = o /\ line[t] \in Seq(Orders)
  BY <1>1 DEF First
<1>7. Tail(line[t]) \in Seq(Orders)
  BY <1>6
<1>8. OrdersTyped'
  BY <1>1, <1>2, <1>4, <1>7 DEF OrdersTyped
<1>9. ASSUME NEW q \in Orders PROVE Truthful(order'[q], posted'[q], q \in unclear')
  <2>1. CASE q = o
    BY <1>3, <1>4, <1>5, <2>1 DEF Truthful
  <2>2. CASE q # o
    BY <1>5, <2>2 DEF OrdersInv, Truthful
  <2>3. QED
    BY <2>1, <2>2
<1>10. ASSUME NEW q \in Orders PROVE (order[q].at # "idle" => order[q].tool \in Tools)'
  BY <1>1, <1>4, <1>5 DEF OrdersInv
<1>11. ASSUME NEW q \in Orders, order'[q].at \in Handled PROVE First(q)'
  <2>1. q # o /\ order'[q] = order[q]
    BY <1>4, <1>5, <1>11 DEF Handled
  <2>2. First(q) /\ order[q].tool \in Tools
    BY <1>11, <2>1, OneOrder DEF Handled
  <2>3. order[q].tool # t
    BY <1>6, <2>1, <2>2 DEF First
  <2>4. line'[order[q].tool] = line[order[q].tool]
    BY <1>1, <1>2, <2>2, <2>3
  <2>5. QED
    BY <2>1, <2>2, <2>4 DEF First
<1> HIDE DEF t
<1>12. QED
  BY <1>8, <1>9, <1>10, <1>11 DEF OrdersInv

LEMMA CallKeeps == ASSUME OrdersInv, NEW o \in Orders, NEW t \in Tools, Call(o, t) PROVE OrdersInv'
<1> DEFINE c == [order[o] EXCEPT !.tool = t, !.at = "line"]
<1>1. /\ order[o].at = "idle" /\ order' = [order EXCEPT ![o] = c] /\ line' = [line EXCEPT ![t] = Append(@, o)]
      /\ UNCHANGED <<posted, unclear>>
  BY DEF Call
<1>2. /\ order[o] \in IsOrder /\ order \in [Orders -> IsOrder] /\ line \in [Tools -> Seq(Orders)]
  BY OneOrder DEF OrdersInv, OrdersTyped
<1>3. c \in IsOrder /\ c.at = "line" /\ c.tool = t /\ c.told = order[o].told
  BY <1>2 DEF IsOrder
<1> HIDE DEF c
<1>4. \A q \in Orders : order'[q] = IF q = o THEN c ELSE order[q]
  BY <1>1, <1>2
<1>5. line[t] \in Seq(Orders) /\ Append(line[t], o) \in Seq(Orders) /\ Append(line[t], o) # <<>>
  BY <1>2
<1>6. line' \in [Tools -> Seq(Orders)] /\ \A u \in Tools : line'[u] = IF u = t THEN Append(line[t], o) ELSE line[u]
  BY <1>1, <1>2, <1>5
<1>7. OrdersTyped'
  BY <1>1, <1>3, <1>6 DEF OrdersInv, OrdersTyped
<1>8. ASSUME NEW q \in Orders PROVE Truthful(order'[q], posted'[q], q \in unclear')
  <2>1. CASE q = o
    BY <1>1, <1>3, <1>4, <2>1, OneOrder DEF Truthful
  <2>2. CASE q # o
    BY <1>1, <1>4, <2>2 DEF OrdersInv
  <2>3. QED
    BY <2>1, <2>2
<1>9. ASSUME NEW q \in Orders PROVE (order[q].at # "idle" => order[q].tool \in Tools)'
  BY <1>3, <1>4 DEF OrdersInv
<1>10. ASSUME NEW q \in Orders, order'[q].at \in Handled PROVE First(q)'
  <2>1. q # o /\ order'[q] = order[q]
    BY <1>3, <1>4, <1>10 DEF Handled
  <2>2. First(q) /\ order[q].tool \in Tools
    BY <1>10, <2>1, OneOrder DEF Handled
  <2>3. CASE order[q].tool # t
    BY <1>6, <2>1, <2>2, <2>3 DEF First
  <2>4. CASE order[q].tool = t
    <3>1. line[t] # <<>> /\ Head(line[t]) = q
      BY <2>2, <2>4 DEF First
    <3>2. Head(Append(line[t], o)) = q
      BY <1>5, <3>1
    <3>3. QED
      BY <1>5, <1>6, <2>1, <2>4, <3>2 DEF First
  <2>5. QED
    BY <2>3, <2>4
<1>11. QED
  BY <1>7, <1>8, <1>9, <1>10 DEF OrdersInv

\* It moves on in its handler, without a request that changes anything.
LEMMA OrderMoves ==
  ASSUME OrdersInv, NEW o \in Orders, order[o].at \notin {"idle", "over"}, First(o),
         NEW at \in {"probing", "status", "asking"}, Goes(o, at), UNCHANGED <<line, posted, unclear>>
  PROVE  OrdersInv'
<1> DEFINE c == [order[o] EXCEPT !.at = at]
<1>1. order' = [order EXCEPT ![o] = c]
  BY DEF Goes
<1>2. order[o] \in IsOrder /\ posted[o] \in Nat /\ Truthful(order[o], posted[o], o \in unclear)
  BY OneOrder
<1>3. c \in IsOrder /\ c.at = at /\ c.told = order[o].told /\ c.tool = order[o].tool
  BY <1>2 DEF IsOrder
<1> HIDE DEF c
<1>4. Truthful(c, posted[o], o \in unclear)
  BY <1>2, <1>3 DEF Truthful
<1>5. unclear \subseteq Orders
  BY DEF OrdersInv, OrdersTyped
<1>6. QED
  BY <1>1, <1>2, <1>3, <1>4, <1>5, OneOrder, OrderGoesOn

LEMMA OrderIsRefused ==
  ASSUME OrdersInv, NEW o \in Orders, order[o].at \notin {"idle", "over"}, First(o), Return(o, "refused"),
         UNCHANGED <<posted, unclear>>
  PROVE  OrdersInv'
<1>1. posted[o] \in Nat /\ posted' = [posted EXCEPT ![o] = posted[o]] /\ (o \in unclear \/ posted[o] = 0)
  BY OneOrder DEF Truthful
<1>2. unclear' \subseteq Orders /\ unclear' = unclear /\ "refused" \in Told
  BY DEF OrdersInv, OrdersTyped, Told
<1>3. o \in unclear' \/ (posted[o] <= 1 /\ ("refused" = "done" => posted[o] = 1) /\ ("refused" = "refused" => posted[o] = 0))
  BY <1>1, <1>2
<1> DEFINE n == posted[o]
<1>4. /\ n \in Nat /\ posted' = [posted EXCEPT ![o] = n]
      /\ o \in unclear' \/ (n <= 1 /\ ("refused" = "done" => n = 1) /\ ("refused" = "refused" => n = 0))
  BY <1>1, <1>3
<1> HIDE DEF n
<1>5. QED
  BY <1>2, <1>4, OrderReturns

LEMMA AllowKeeps ==
  ASSUME OrdersInv, NEW o \in Orders, order[o].at \notin {"idle", "over"}, First(o), NEW reach, Allow(o, reach),
         UNCHANGED <<posted, unclear>>
  PROVE  OrdersInv'
<1>1. CASE "tickets" \in reach
  <2>1. Goes(o, After(o)) /\ UNCHANGED line /\ After(o) \in {"probing", "status", "asking"}
    BY <1>1 DEF Allow, After
  <2>2. QED
    BY <2>1, OrderMoves
<1>2. CASE "tickets" \notin reach
  BY <1>2, OrderIsRefused DEF Allow
<1>3. QED
  BY <1>1, <1>2

LEMMA GiveUpWaitingKeeps == ASSUME OrdersInv, NEW o \in Orders, GiveUpWaiting(o) PROVE OrdersInv'
<1> DEFINE c == [order[o] EXCEPT !.told = "silence"]
<1>1. /\ order' = [order EXCEPT ![o] = c] /\ order[o].at \notin {"idle", "over"} /\ UNCHANGED <<line, posted, unclear>>
  BY DEF GiveUpWaiting
<1>2. order[o] \in IsOrder /\ posted[o] \in Nat /\ Truthful(order[o], posted[o], o \in unclear)
  BY OneOrder
<1>3. c \in IsOrder /\ c.at = order[o].at /\ c.told = "silence" /\ c.tool = order[o].tool
  BY <1>2 DEF IsOrder, Told
<1> HIDE DEF c
<1>4. Truthful(c, posted[o], o \in unclear)
  BY <1>2, <1>3 DEF Truthful
<1>5. unclear \subseteq Orders
  BY DEF OrdersInv, OrdersTyped
<1>6. c.at \in Handled => First(o)
  BY <1>3, OneOrder
<1>7. QED
  BY <1>1, <1>2, <1>3, <1>4, <1>5, <1>6, OneOrder, OrderGoesOn

LEMMA CheckStatusKeeps == ASSUME OrdersInv, NEW o \in Orders, CheckStatus(o) PROVE OrdersInv'
<1>1. order[o].at = "status" /\ UNCHANGED <<posted, unclear>> /\ First(o)
  BY OneOrder DEF CheckStatus, Handled
<1>2. CASE Goes(o, "asking") /\ UNCHANGED line
  BY <1>1, <1>2, OrderMoves
<1>3. CASE Return(o, "refused")
  BY <1>1, <1>3, OrderIsRefused
<1>4. QED
  BY <1>2, <1>3 DEF CheckStatus

LEMMA RequestKeeps == ASSUME OrdersInv, NEW o \in Orders, NEW outcome \in Outcomes, Request(o, outcome) PROVE OrdersInv'
<1>1. order[o].at = "asking" /\ First(o)
  BY OneOrder DEF Request, Handled
<1>2. PICK did \in {0, 1} :
        /\ posted' = [posted EXCEPT ![o] = @ + did]
        /\ unclear' = IF did = 1 /\ outcome \in {"failed", "lost"} THEN unclear \cup {o} ELSE unclear
        /\ outcome \in {"ok", "garbled"} => did = 1
        /\ outcome \in {"refused", "limited"} => did = 0
  <2>1. CASE outcome \in {"ok", "garbled"}
    BY <2>1 DEF Request
  <2>2. CASE outcome \in {"refused", "limited"}
    BY <2>2 DEF Request
  <2>3. CASE outcome \notin {"ok", "garbled", "refused", "limited"}
    BY <2>3 DEF Request
  <2>4. QED
    BY <2>1, <2>2, <2>3
<1> DEFINE n == posted[o] + did
<1>3. /\ posted[o] \in Nat /\ (o \in unclear \/ posted[o] = 0) /\ order[o].told \in {"nothing", "silence"}
  BY <1>1, OneOrder DEF Truthful
<1>4. n \in Nat /\ posted' = [posted EXCEPT ![o] = n] /\ (o \in unclear \/ n = did)
  BY <1>2, <1>3
<1> HIDE DEF n
<1>5. unclear' \subseteq Orders /\ \A q \in Orders : q # o => (q \in unclear' <=> q \in unclear)
  BY <1>2 DEF OrdersInv, OrdersTyped
<1>6. o \in unclear => o \in unclear'
  BY <1>2
<1>7. CASE Retried(outcome) /\ order[o].tries < MaxRetries
  <2> DEFINE k == order[o].tries + 1
             c == [order[o] EXCEPT !.tries = k]
  <2>1. order' = [order EXCEPT ![o] = c] /\ UNCHANGED line
    BY <1>7 DEF Request
  <2>2. order[o] \in IsOrder /\ k \in 0 .. MaxRetries + 1
    BY <1>7, OneOrder, SyncroBounds
  <2> HIDE DEF k
  <2>3. c \in IsOrder /\ c.at = order[o].at /\ c.told = order[o].told /\ c.tool = order[o].tool
    BY <2>2 DEF IsOrder
  <2> HIDE DEF c
  <2>4. did = 0 \/ o \in unclear'
    BY <1>2, <1>7 DEF Retried
  <2>5. Truthful(c, n, o \in unclear')
    BY <1>3, <1>4, <1>6, <2>3, <2>4 DEF Truthful
  <2>6. QED
    BY <1>1, <1>4, <1>5, <2>1, <2>3, <2>5, OrderGoesOn
<1>8. CASE ~(Retried(outcome) /\ order[o].tries < MaxRetries)
  <2>1. Return(o, Says(outcome))
    BY <1>8 DEF Request
  <2>2. Says(outcome) \in Told
    BY DEF Says, Told
  <2>3. /\ Says(outcome) = "done" => outcome = "ok"
        /\ Says(outcome) = "refused" => outcome = "refused"
    BY DEF Says
  <2>4. o \in unclear' \/ (n <= 1 /\ (Says(outcome) = "done" => n = 1) /\ (Says(outcome) = "refused" => n = 0))
    BY <1>2, <1>4, <1>6, <2>3
  <2>5. QED
    BY <1>1, <1>4, <1>5, <2>1, <2>2, <2>4, OrderReturns
<1>9. QED
  BY <1>7, <1>8

LEMMA OrderNextKeeps == ASSUME OrdersInv, TokensInv, OrderNext PROVE OrdersInv' /\ TokensInv'
<1>1. ASSUME NEW o \in Orders, GiveUpWaiting(o) PROVE OrdersInv' /\ TokensInv'
  <2>1. TokensInv'
    BY <1>1 DEF GiveUpWaiting, tokenVars, TokensInv, TokensTyped, HealthFollowsSave
  <2>2. QED
    BY <1>1, <2>1, GiveUpWaitingKeeps
<1>2. ASSUME NEW o \in Orders, Guard(o) PROVE OrdersInv' /\ TokensInv'
  <2>1. /\ order[o].at = "line" /\ First(o) /\ UNCHANGED <<posted, unclear>>
        /\ UNCHANGED <<tokenVars, resolved, heard, access, health, minutes, outages>>
    BY <1>2 DEF Guard
  <2>2. CASE Allow(o, access.reach) /\ UNCHANGED check
    <3>1. TokensInv'
      BY <2>1, <2>2 DEF tokenVars, TokensInv, TokensTyped, HealthFollowsSave
    <3>2. QED
      BY <2>1, <2>2, <3>1, AllowKeeps
  <2>3. CASE Begin("guard") /\ Goes(o, "probing") /\ UNCHANGED line
    <3>1. "guard" \in Checkers
      BY DEF Checkers
    <3>2. QED
      BY <2>1, <2>3, <3>1, BeginKeeps, OrderMoves
  <2>4. QED
    BY <1>2, <2>2, <2>3 DEF Guard
<1>3. ASSUME NEW o \in Orders, Guarded(o) PROVE OrdersInv' /\ TokensInv'
  <2>1. TokensInv'
    BY <1>3, GuardFound DEF Guarded
  <2>2. order[o].at = "probing" /\ First(o) /\ UNCHANGED <<posted, unclear>> /\ Allow(o, check["guard"].reach)
    BY <1>3, OneOrder DEF Guarded, Handled
  <2>3. QED
    BY <2>1, <2>2, AllowKeeps
<1>4. ASSUME NEW o \in Orders, CheckStatus(o) PROVE OrdersInv' /\ TokensInv'
  <2>1. outages' \in 0 .. MaxOutages
    BY <1>4, SyncroBounds DEF CheckStatus, TokensInv, TokensTyped
  <2>2. QED
    BY <1>4, <2>1, CheckStatusKeeps, TokenIsUsed DEF CheckStatus
<1>5. ASSUME NEW o \in Orders, NEW t \in Tools, Call(o, t) PROVE OrdersInv' /\ TokensInv'
  <2>1. TokensInv'
    BY <1>5 DEF Call, tokenVars, TokensInv, TokensTyped, HealthFollowsSave
  <2>2. QED
    BY <1>5, <2>1, CallKeeps
<1>6. ASSUME NEW o \in Orders, NEW outcome \in Outcomes, Request(o, outcome) PROVE OrdersInv' /\ TokensInv'
  <2>1. outages' \in 0 .. MaxOutages
    BY <1>6, SyncroBounds DEF Request, TokensInv, TokensTyped
  <2>2. QED
    BY <1>6, <2>1, RequestKeeps, TokenIsUsed DEF Request
<1>7. QED
  BY <1>1, <1>2, <1>3, <1>4, <1>5, <1>6 DEF OrderNext

SyncroInv == OrdersInv /\ TokensInv

LEMMA SyncroGoesOn == ASSUME SyncroInv, [SyncroNext]_syncroVars PROVE SyncroInv'
<1>0. OrdersInv /\ TokensInv
  BY DEF SyncroInv
<1>1. CASE OrderNext
  BY <1>0, <1>1, OrderNextKeeps DEF SyncroInv
<1>2. CASE TokenNext
  <2>1. UNCHANGED lineVars
    BY <1>2 DEF TokenNext, KeepToken, ForgetToken, HearSaved, Invalidate, AskPreflight, PreflightDone, SaveToken, EditGrants, Probe
  <2>2. CASE AskPreflight
    <3>1. "preflight" \in Checkers
      BY DEF Checkers
    <3>2. QED
      BY <1>0, <2>1, <2>2, <3>1, BeginKeeps, OrdersStay DEF AskPreflight, SyncroInv
  <2>3. CASE PreflightDone
    BY <1>0, <2>1, <2>3, PreflightDoneKeeps, OrdersStay DEF SyncroInv
  <2>4. CASE \E k \in Checkers, r \in Resources, answered \in BOOLEAN : Probe(k, r, answered)
    BY <1>0, <2>1, <2>4, ProbeKeeps, OrdersStay DEF SyncroInv
  <2>5. CASE \/ KeepToken \/ ForgetToken \/ HearSaved \/ Invalidate
             \/ \E t \in Tokens : SaveToken(t) \/ \E R \in SUBSET Resources : EditGrants(t, R)
    BY <1>0, <2>1, <2>5, TokenStepsKeep, OrdersStay DEF SyncroInv
  <2>6. QED
    BY <1>2, <2>2, <2>3, <2>4, <2>5 DEF TokenNext
<1>3. CASE Minute
  <2>1. UNCHANGED lineVars
    BY <1>3 DEF Minute
  <2>2. QED
    BY <1>0, <1>3, <2>1, TokenStepsKeep, OrdersStay DEF SyncroInv
<1>4. CASE UNCHANGED syncroVars
  <2>1. UNCHANGED lineVars /\ TokensInv'
    BY <1>0, <1>4 DEF syncroVars, lineVars, TokensInv, TokensTyped, HealthFollowsSave
  <2>2. QED
    BY <1>0, <2>1, OrdersStay DEF SyncroInv
<1>5. QED
  BY <1>1, <1>2, <1>3, <1>4 DEF SyncroNext

LEMMA SyncroHolds == ASSUME SyncroInv PROVE PostedOnceUndisturbed /\ TokensAreKept
<1>0. OrdersInv /\ TokensInv
  BY DEF SyncroInv
<1>1. PostedOnceUndisturbed
  BY <1>0, OneOrder DEF PostedOnceUndisturbed, Truthful
<1>2. SyncroTypeOK
  <2>1. /\ access \in IsKept /\ health \in IsKept /\ check \in [Checkers -> IsCheck] /\ order \in [Orders -> IsOrder]
        /\ resolved \subseteq Tokens /\ inHand \subseteq Tokens
    BY <1>0 DEF OrdersInv, OrdersTyped, TokensInv, TokensTyped
  <2>2. QED
    BY <1>0, <2>1 DEF OrdersInv, OrdersTyped, TokensInv, TokensTyped, SyncroTypeOK, IsKept, IsCheck, IsOrder
<1>3. QED
  BY <1>0, <1>1, <1>2 DEF TokensAreKept, TokensInv

(***************************************************************************)
(* However its requests are retried, whatever order calls, outages and     *)
(* changes of its token come in: a comment is posted once, and not at all  *)
(* when it was refused, unless the helpdesk did it and its answer was      *)
(* lost; and after an announcement the plugin's health is that of the      *)
(* token that was saved, unless an older one was kept late.                *)
(***************************************************************************)
THEOREM PostedOnceKept == SyncroSpec => []PostedOnceUndisturbed
<1>1. SyncroInit => SyncroInv
  BY OrdersStart, TokensStart DEF SyncroInv
<1>2. SyncroInv /\ [SyncroNext]_syncroVars => SyncroInv'
  BY SyncroGoesOn
<1>3. SyncroInv => PostedOnceUndisturbed
  BY SyncroHolds
<1>4. QED
  BY <1>1, <1>2, <1>3, PTL DEF SyncroSpec

THEOREM TokensKept == SyncroSpec => []TokensAreKept
<1>1. SyncroInit => SyncroInv
  BY OrdersStart, TokensStart DEF SyncroInv
<1>2. SyncroInv /\ [SyncroNext]_syncroVars => SyncroInv'
  BY SyncroGoesOn
<1>3. SyncroInv => TokensAreKept
  BY SyncroHolds
<1>4. QED
  BY <1>1, <1>2, <1>3, PTL DEF SyncroSpec

-----------------------------------------------------------------------------
(***************************************************************************)
(* The index of tickets.  A row holds a moment and a thread no older than  *)
(* it, of a ticket that is no older than either; a nudge is on its way, or *)
(* waits for another round, or what came of it is in hand or written; and  *)
(* the first pages, as far as they were recorded, are indexed or in hand.  *)
(***************************************************************************)

IsPass == [at : {"idle", "listing", "comparing", "ticket", "thread", "paged", "over"}, page : Nat,
           todo : Seq(Items), seen : SUBSET Items, short : BOOLEAN, thread : States]

RecallTypes ==
  /\ tickets \in Seq(Tickets) /\ state \in [Tickets -> States]
  /\ memory \in [Tickets -> [at : States, thread : States]]
  /\ progress \in [page : Nat, complete : BOOLEAN]
  /\ pass \in [Workers -> IsPass]
  /\ running \in BOOLEAN /\ again \in BOOLEAN /\ starting \in Nat
  /\ nudged \in [Tickets -> States]
  /\ moved \subseteq Tickets /\ missed \subseteq Tickets /\ astride \subseteq Tickets
  /\ emptied \in BOOLEAN /\ mishaps \in 0 .. MaxMishaps

\* An item of a page is a state the ticket has been in.
Was(i) == i.at >= 1 /\ i.at <= state[i.id]

RowTrue(t) ==
  /\ memory[t].at <= state[t] /\ state[t] >= 1 /\ nudged[t] <= state[t]
  /\ t \notin missed => memory[t].at <= memory[t].thread /\ memory[t].thread <= state[t]

PassTrue(p) ==
  /\ \A k \in DOMAIN p.todo : Was(p.todo[k])
  /\ p.at = "thread" =>
       /\ p.todo # <<>>
       /\ p.todo[1].id \notin missed => p.todo[1].at <= p.thread /\ p.thread <= state[p.todo[1].id]

\* What a backfill has in hand did not change since it was listed, but for astride.
Steady(p) ==
  /\ p.at = "listing" => p.page >= 1
  /\ \A k \in DOMAIN p.todo : p.todo[k].id \notin astride => p.todo[k].at = state[p.todo[k].id]

\* The reindexing will still come by t, or has what it takes, or is done with it.
Coming(p, t) == \E k \in DOMAIN p.todo : p.todo[k].id = t /\ p.todo[k] \notin p.seen
Current(p, t) == \A k \in DOMAIN p.todo : p.todo[k].id = t => p.todo[k].at = state[t]
Pending(p, t) ==
  \/ starting > 0 \/ again \/ p.at = "listing"
  \/ Current(p, t) /\ (memory[t].at = state[t] \/ Coming(p, t))
Recent(t) == \E i \in DOMAIN tickets : i <= RecentSize /\ tickets[i] = t
NudgesKept ==
  \A t \in Tickets \ (missed \cup astride) :
    Recent(t) /\ nudged[t] = state[t] => Pending(pass["reindexing"], t)

Coalesced ==
  /\ ~running => again = FALSE /\ pass["reindexing"] = Resting
  /\ pass["reindexing"].at \in {"listing", "comparing"} => pass["reindexing"].seen = {}

Kept(t) == memory[t].at # 0
Holds(p, t) == \E k \in DOMAIN p.todo : p.todo[k].id = t

\* The first n of the list are behind the backfill, or in its hand.
Behind(n, p) ==
  \A i \in DOMAIN tickets :
    i <= n /\ tickets[i] \notin moved \cup missed => Kept(tickets[i]) \/ Holds(p, tickets[i])
PassesOn(p) ==
  /\ p.at \in {"listing", "ticket", "thread"} => p.page >= 1
  /\ p.at = "listing" => p.todo = <<>> /\ Behind((p.page - 1) * PageSize, Resting)
  /\ p.at \in {"ticket", "thread"} => Behind(p.page * PageSize, p)
NothingSkipped == ~emptied => Behind(progress.page * PageSize, Resting) /\ \A b \in Backfills : PassesOn(pass[b])

RecallInv ==
  /\ RecallTypes
  /\ \A t \in Tickets : RowTrue(t)
  /\ \A w \in Workers : PassTrue(pass[w])
  /\ \A b \in Backfills : Steady(pass[b])
  /\ Coalesced /\ NudgesKept /\ NothingSkipped

LEMMA RecallConstants ==
  /\ MaxMoves \in Nat /\ MaxMishaps \in Nat /\ PageSize \in Nat /\ RecentSize \in Nat
  /\ PageSize >= 1 /\ RecentSize >= 1
  /\ 0 \in States /\ 1 \in States /\ States \subseteq Nat
  /\ 0 \in 0 .. MaxMishaps
  BY RecallBounds DEF States

LEMMA TailOf ==
  ASSUME NEW S, NEW s \in Seq(S), s # <<>>
  PROVE  /\ 1 \in DOMAIN s /\ Head(s) = s[1] /\ Head(s) \in S
         /\ Tail(s) \in Seq(S)
         /\ \A k \in DOMAIN Tail(s) : k + 1 \in DOMAIN s /\ Tail(s)[k] = s[k + 1]
         /\ \A k \in DOMAIN s : k = 1 \/ (k - 1 \in DOMAIN Tail(s) /\ Tail(s)[k - 1] = s[k])
<1>1. Len(s) \in Nat /\ Len(s) >= 1 /\ DOMAIN s = 1 .. Len(s)
  BY EmptySeq, LenProperties
<1>2. /\ Head(s) = s[1] /\ Tail(s) \in Seq(S) /\ Len(Tail(s)) = Len(s) - 1
      /\ \A k \in 1 .. Len(Tail(s)) : Tail(s)[k] = s[k + 1]
  BY HeadTailProperties
<1>3. DOMAIN Tail(s) = 1 .. Len(Tail(s))
  BY <1>2, LenProperties
<1>4. \A k \in 1 .. Len(s) : s[k] \in S
  BY ElementOfSeq
<1> QED
  BY <1>1, <1>2, <1>3, <1>4

\* What a page of the helpdesk's list holds.
LEMMA PageOf ==
  ASSUME RecallTypes, NEW a \in Nat, NEW b \in Nat
  PROVE  /\ Part(a + 1, b) \in Seq(Tickets)
         /\ \A k \in DOMAIN Part(a + 1, b) : \E i \in DOMAIN tickets : i <= b /\ Part(a + 1, b)[k] = tickets[i]
         /\ Listed(Part(a + 1, b)) \in Seq(Items)
         /\ \A k \in DOMAIN Listed(Part(a + 1, b)) :
              LET i == Listed(Part(a + 1, b))[k] IN i.id \in Tickets /\ i.at = state[i.id]
         /\ \A i \in DOMAIN tickets :
              a < i /\ i <= b => \E k \in DOMAIN Listed(Part(a + 1, b)) : Listed(Part(a + 1, b))[k].id = tickets[i]
<1> DEFINE c == IF b < Len(tickets) THEN b ELSE Len(tickets)
           s == Part(a + 1, b)
<1>1. tickets \in Seq(Tickets) /\ Len(tickets) \in Nat /\ DOMAIN tickets = 1 .. Len(tickets)
  BY LenProperties DEF RecallTypes
<1>2. c \in Nat /\ c <= Len(tickets) /\ c <= b /\ s = SubSeq(tickets, a + 1, c)
  BY <1>1 DEF Part
<1>3. s \in Seq(Tickets) /\ (a + 1 <= c => Len(s) = c - a) /\ (a + 1 > c => Len(s) = 0)
      /\ \A k \in 1 .. c - a : s[k] = tickets[a + k]
  <2>1. CASE a + 1 <= c
    <3>1. a + 1 \in Int /\ c \in Int /\ \A k \in a + 1 .. c : tickets[k] \in Tickets
      BY <1>1, <1>2, ElementOfSeq
    <3> HIDE DEF c
    <3>2. /\ SubSeq(tickets, a + 1, c) \in Seq(Tickets)
          /\ Len(SubSeq(tickets, a + 1, c)) = IF a + 1 <= c THEN c - (a + 1) + 1 ELSE 0
          /\ \A k \in 1 .. c - (a + 1) + 1 : SubSeq(tickets, a + 1, c)[k] = tickets[(a + 1) + k - 1]
      BY <3>1, SubSeqProperties
    <3>3. s \in Seq(Tickets) /\ Len(s) = c - (a + 1) + 1 /\ \A k \in 1 .. c - (a + 1) + 1 : s[k] = tickets[(a + 1) + k - 1]
      BY <1>2, <2>1, <3>2
    <3> HIDE DEF s, c
    <3> QED
      BY <1>2, <2>1, <3>3
  <2>2. CASE a + 1 > c
    <3>1. s = <<>>
      BY <1>1, <1>2, <2>2, SubSeqEmpty
    <3> HIDE DEF s, c
    <3> QED
      BY <1>2, <2>2, <3>1
  <2> HIDE DEF s, c
  <2> QED
    BY <1>2, <2>1, <2>2
<1> HIDE DEF s, c
<1>4. DOMAIN s = 1 .. Len(s) /\ Len(s) \in Nat /\ \A k \in DOMAIN s : s[k] \in Tickets
  BY <1>3, LenProperties, ElementOfSeq
<1>5. \A t \in Tickets : state[t] \in States
  BY DEF RecallTypes
<1>6. Listed(s) = [k \in 1 .. Len(s) |-> [id |-> s[k], at |-> state[s[k]]]]
  BY <1>4 DEF Listed
<1>7. Listed(s) \in Seq(Items)
  <2>1. \A k \in 1 .. Len(s) : [id |-> s[k], at |-> state[s[k]]] \in Items
    BY <1>4, <1>5 DEF Items
  <2> QED
    BY <1>4, <1>6, <2>1, IsASeq
<1>8. DOMAIN Listed(s) = DOMAIN s /\ \A k \in DOMAIN s : Listed(s)[k].id = s[k] /\ Listed(s)[k].at = state[s[k]]
  BY <1>4, <1>6
<1>9. \A i \in DOMAIN tickets : a < i /\ i <= b => \E k \in DOMAIN s : s[k] = tickets[i]
  <2> SUFFICES ASSUME NEW i \in DOMAIN tickets, a < i, i <= b PROVE \E k \in DOMAIN s : s[k] = tickets[i]
    OBVIOUS
  <2>1. i \in Nat /\ i <= c
    BY <1>1 DEF c
  <2>2. i - a \in 1 .. c - a /\ i - a \in DOMAIN s
    BY <1>2, <1>3, <1>4, <2>1
  <2>3. s[i - a] = tickets[a + (i - a)] /\ a + (i - a) = i
    BY <1>3, <2>1, <2>2
  <2> QED
    BY <2>2, <2>3
<1>10. \A k \in DOMAIN s : \E i \in DOMAIN tickets : i <= b /\ s[k] = tickets[i]
  <2> SUFFICES ASSUME NEW k \in DOMAIN s PROVE \E i \in DOMAIN tickets : i <= b /\ s[k] = tickets[i]
    OBVIOUS
  <2>1. k \in 1 .. c - a
    BY <1>2, <1>3, <1>4
  <2>2. a + k \in DOMAIN tickets /\ a + k <= b /\ s[k] = tickets[a + k]
    BY <1>1, <1>2, <1>3, <2>1
  <2> QED
    BY <2>2
<1> QED
  BY <1>3, <1>4, <1>7, <1>8, <1>9, <1>10 DEF s

LEMMA RestingIsPass ==
  /\ Resting \in IsPass /\ Resting.todo = <<>> /\ Resting.at = "idle" /\ DOMAIN Resting.todo = {}
  /\ \A p : p \in IsPass => p.todo \in Seq(Items) /\ p.page \in Nat /\ p.seen \subseteq Items /\ p.thread \in States
  BY RecallConstants, EmptySeq DEF Resting, IsPass

LEMMA RecallStart == RecallInit => RecallInv
<1> SUFFICES ASSUME RecallInit PROVE RecallInv
  OBVIOUS
<1>1. tickets \in Seq(Tickets)
  <2>1. Cardinality(Tickets) \in Nat
    BY RecallBounds, FS_CardinalityType
  <2>2. tickets \in [1 .. Cardinality(Tickets) -> Tickets]
    BY DEF RecallInit, SetToSeqs
  <2> QED
    BY <2>1, <2>2, IsASeq, SeqDef
<1>2. RecallTypes
  BY <1>1, RecallConstants, RestingIsPass DEF RecallInit, RecallTypes, NotKept
<1>3. \A w \in Workers : pass[w] = Resting
  BY DEF RecallInit
<1>4. \A t \in Tickets : RowTrue(t)
  BY RecallConstants DEF RecallInit, NotKept, RowTrue
<1>5. \A w \in Workers : PassTrue(pass[w])
  BY <1>3, RestingIsPass DEF PassTrue
<1>6. \A b \in Backfills : Steady(pass[b])
  BY <1>3, RestingIsPass DEF Steady, Workers
<1>7. Coalesced
  BY <1>3, RestingIsPass DEF Coalesced, Workers, RecallInit
<1>8. NudgesKept
  BY RecallConstants DEF NudgesKept, RecallInit
<1>9. NothingSkipped
  <2>1. progress.page * PageSize = 0
    BY RecallConstants DEF RecallInit
  <2>2. Behind(0, Resting)
    BY <1>1, LenProperties DEF Behind
  <2>3. \A b \in Backfills : PassesOn(pass[b])
    BY <1>3, RestingIsPass DEF PassesOn, Workers
  <2> QED
    BY <2>1, <2>2, <2>3 DEF NothingSkipped
<1> QED
  BY <1>2, <1>4, <1>5, <1>6, <1>7, <1>8, <1>9 DEF RecallInv

\* One worker goes on, or none does: the rest of the invariant follows for the others.
LEMMA OneWorker ==
  ASSUME RecallInv, RecallTypes', NEW w \in Workers, NEW p \in IsPass, GoesOn(w, p),
         UNCHANGED <<tickets, state, moved, astride, emptied>>,
         missed \subseteq missed',
         \A t \in Tickets : RowTrue(t)' /\ (Kept(t) => Kept(t)'),
         PassTrue(p)', w \in Backfills => Steady(p) /\ (~emptied => PassesOn(p)'),
         Coalesced', NudgesKept', ~emptied => Behind(progress.page * PageSize, Resting)'
  PROVE  RecallInv'
<1>1. \A v \in Workers : pass'[v] = IF v = w THEN p ELSE pass[v]
  BY DEF GoesOn, RecallInv, RecallTypes
<1>2. Backfills \subseteq Workers
  BY DEF Workers
<1>3. \A v \in Workers : PassTrue(pass[v])'
  <2> SUFFICES ASSUME NEW v \in Workers PROVE PassTrue(pass[v])'
    OBVIOUS
  <2>1. PassTrue(pass[v])
    BY DEF RecallInv
  <2>2. v # w => pass'[v] = pass[v]
    BY <1>1
  <2>3. v # w => PassTrue(pass[v])'
    BY <2>1, <2>2 DEF PassTrue, Was
  <2>4. v = w => pass'[v] = p
    BY <1>1
  <2>5. v = w => PassTrue(pass[v])'
    BY <2>4 DEF PassTrue, Was
  <2> QED
    BY <2>3, <2>5
<1>4. \A b \in Backfills : Steady(pass[b])'
  <2> SUFFICES ASSUME NEW b \in Backfills PROVE Steady(pass[b])'
    OBVIOUS
  <2>1. Steady(pass[b]) /\ pass'[b] = IF b = w THEN p ELSE pass[b]
    BY <1>1, <1>2 DEF RecallInv
  <2> QED
    BY <2>1 DEF Steady
<1>5. NothingSkipped'
  <2> SUFFICES ASSUME ~emptied, NEW b \in Backfills PROVE PassesOn(pass[b])'
    BY DEF NothingSkipped
  <2>1. PassesOn(pass[b]) /\ pass'[b] = IF b = w THEN p ELSE pass[b]
    BY <1>1, <1>2 DEF RecallInv, NothingSkipped
  <2>2. CASE b = w
    BY <2>1, <2>2 DEF PassesOn, Behind, Holds, Kept
  <2>3. CASE b # w
    <3>1. \A n, q : Behind(n, q) => Behind(n, q)'
      <4>1. tickets \in Seq(Tickets) /\ \A i \in DOMAIN tickets : tickets[i] \in Tickets
        BY ElementOfSeq, LenProperties DEF RecallInv, RecallTypes
      <4> QED
        BY <4>1 DEF Behind, Holds
    <3>2. pass'[b] = pass[b]
      BY <2>1, <2>3
    <3> QED
      BY <2>1, <3>1, <3>2 DEF PassesOn
  <2> QED
    BY <2>2, <2>3
<1> QED
  BY <1>3, <1>4, <1>5 DEF RecallInv

\* The facts of one worker.
LEMMA AWorker ==
  ASSUME RecallInv, NEW w \in Workers
  PROVE  /\ pass[w] \in IsPass /\ PassTrue(pass[w])
         /\ pass[w].todo \in Seq(Items) /\ pass[w].seen \subseteq Items /\ pass[w].page \in Nat
         /\ \A k \in DOMAIN pass[w].todo :
              LET i == pass[w].todo[k] IN i \in Items /\ i.id \in Tickets /\ i.at \in Nat /\ i.at \in States
         /\ pass["reindexing"] \in IsPass
         /\ w \in Backfills => Steady(pass[w]) /\ (~emptied => PassesOn(pass[w])) /\ w # "reindexing"
         /\ w \notin Backfills => w = "reindexing"
         /\ w = "reindexing" /\ pass[w].at # "idle" => running
<1>1. pass[w] \in IsPass /\ pass["reindexing"] \in IsPass
  BY DEF RecallInv, RecallTypes, Workers
<1>2. pass[w].todo \in Seq(Items) /\ pass[w].seen \subseteq Items /\ pass[w].page \in Nat
  BY <1>1, RestingIsPass
<1>3. \A k \in DOMAIN pass[w].todo : pass[w].todo[k] \in Items
  BY <1>2, ElementOfSeq, LenProperties
<1>4. \A i \in Items : i.id \in Tickets /\ i.at \in Nat /\ i.at \in States
  BY RecallConstants DEF Items
<1> QED
  BY <1>1, <1>2, <1>3, <1>4, RestingIsPass, RecallBounds DEF RecallInv, Workers, NothingSkipped, Coalesced

\* A step of a backfill that writes nothing leaves every nudge where it was.
LEMMA NudgesGoOn ==
  ASSUME RecallInv, NEW w \in Workers, NEW p, GoesOn(w, p), p \in IsPass,
         UNCHANGED <<tickets, state, running, nudged, astride, starting, again>>, missed \subseteq missed',
         \A t \in Tickets \ (missed' \cup astride) :
           memory[t].at = state[t] /\ (w = "reindexing" => Current(pass[w], t)) => memory'[t].at = state[t],
         w = "reindexing" =>
           /\ p.at \notin {"idle", "listing", "comparing"} /\ pass[w].at \notin {"idle", "listing"}
           /\ \A k \in DOMAIN p.todo : \E j \in DOMAIN pass[w].todo : p.todo[k] = pass[w].todo[j]
           /\ \A t \in Tickets \ (missed' \cup astride) :
                Coming(pass[w], t) /\ Current(pass[w], t) => memory'[t].at = state[t] \/ Coming(p, t)
  PROVE  NudgesKept' /\ Coalesced'
<1>1. \A v \in Workers : pass'[v] = IF v = w THEN p ELSE pass[v]
  BY DEF GoesOn, RecallInv, RecallTypes
<1>2. "reindexing" \in Workers
  BY DEF Workers
<1>3. Coalesced'
  BY <1>1, <1>2, RestingIsPass DEF RecallInv, Coalesced
<1>4. NudgesKept'
  <2> SUFFICES ASSUME NEW t \in Tickets \ (missed' \cup astride), Recent(t), nudged[t] = state[t]
               PROVE  Pending(pass["reindexing"], t)'
    BY DEF NudgesKept, Recent
  <2>1. Pending(pass["reindexing"], t)
    BY DEF RecallInv, NudgesKept
  <2>2. CASE w # "reindexing"
    <3>1. pass'["reindexing"] = pass["reindexing"]
      BY <1>1, <1>2, <2>2
    <3> QED
      BY <2>1, <2>2, <3>1 DEF Pending, Current, Coming
  <2>3. CASE w = "reindexing"
    <3>1. pass'["reindexing"] = p
      BY <1>1, <2>3
    <3>2. SUFFICES ASSUME ~(starting > 0), ~again PROVE Pending(pass["reindexing"], t)'
      BY DEF Pending
    <3>3. Current(pass[w], t) /\ (memory[t].at = state[t] \/ Coming(pass[w], t))
      BY <2>1, <2>3, <3>2 DEF Pending
    <3>4. Current(p, t)
      BY <2>3, <3>3 DEF Current
    <3>5. memory'[t].at = state[t] \/ Coming(p, t)
      BY <2>3, <3>3
    <3> QED
      BY <3>1, <3>4, <3>5 DEF Pending, Current, Coming
  <2> QED
    BY <2>2, <2>3
<1> QED
  BY <1>3, <1>4

LEMMA ReadThreadKeeps == ASSUME RecallInv, NEW w \in Workers, ReadThread(w) PROVE RecallInv'
<1> DEFINE t == Head(pass[w].todo).id
<1>1. /\ pass[w].at = "ticket" /\ pass[w].todo # <<>> /\ missed \subseteq missed'
      /\ UNCHANGED <<tickets, state, memory, progress, running, again, starting, nudged, moved, astride, emptied>>
      /\ mishaps' \in 0 .. MaxMishaps /\ missed' \subseteq Tickets
      /\ \E thread \in States :
           /\ GoesOn(w, [pass[w] EXCEPT !.at = "thread", !.thread = thread])
           /\ t \notin missed' => thread = state[t]
  <2>1. t \in Tickets /\ state[t] \in States
    BY AWorker, TailOf DEF ReadThread, RecallInv, RecallTypes, Items
  <2>2. /\ pass[w].at = "ticket" /\ pass[w].todo # <<>>
        /\ UNCHANGED <<tickets, state, memory, progress, running, again, starting, nudged, moved, astride, emptied>>
        /\ \/ GoesOn(w, [pass[w] EXCEPT !.at = "thread", !.thread = state[t]]) /\ missed' = missed /\ mishaps' = mishaps
           \/ /\ GoesOn(w, [pass[w] EXCEPT !.at = "thread", !.thread = 0]) /\ missed' = missed \cup {t}
              /\ mishaps < MaxMishaps /\ mishaps' = mishaps + 1
    BY DEF ReadThread, Mishap
  <2>3. mishaps \in 0 .. MaxMishaps /\ missed \subseteq Tickets
    BY DEF RecallInv, RecallTypes
  <2> HIDE DEF t
  <2>4. mishaps' \in 0 .. MaxMishaps /\ missed' \subseteq Tickets /\ missed \subseteq missed'
    BY <2>1, <2>2, <2>3, RecallConstants
  <2>5. CASE GoesOn(w, [pass[w] EXCEPT !.at = "thread", !.thread = state[t]])
    BY <2>1, <2>2, <2>4, <2>5
  <2>6. CASE GoesOn(w, [pass[w] EXCEPT !.at = "thread", !.thread = 0]) /\ missed' = missed \cup {t}
    BY <2>1, <2>2, <2>4, <2>6, RecallConstants
  <2> QED
    BY <2>2, <2>5, <2>6
<1>2. PICK thread \in States :
        /\ GoesOn(w, [pass[w] EXCEPT !.at = "thread", !.thread = thread])
        /\ t \notin missed' => thread = state[t]
  BY <1>1
<1>3. PICK p : p = [pass[w] EXCEPT !.at = "thread", !.thread = thread]
  OBVIOUS
<1>4. p \in IsPass /\ p.at = "thread" /\ p.thread = thread /\ p.todo = pass[w].todo /\ p.seen = pass[w].seen /\ p.page = pass[w].page
  BY <1>3, AWorker DEF IsPass
<1>5. GoesOn(w, p)
  BY <1>2, <1>3 DEF GoesOn
<1>6. pass[w].todo[1] = Head(pass[w].todo) /\ 1 \in DOMAIN pass[w].todo /\ t \in Tickets
  BY <1>1, AWorker, TailOf
<1> HIDE DEF t
<1>7. NudgesKept' /\ Coalesced'
  <2>1. \A u \in Tickets : Coming(pass[w], u) => Coming(p, u)
    BY <1>4 DEF Coming
  <2> QED
    BY <1>1, <1>4, <1>5, <2>1, AWorker, NudgesGoOn
<1>8. RecallTypes'
  BY <1>1, <1>4, <1>5 DEF GoesOn, RecallInv, RecallTypes
<1>9. PassTrue(p)'
  <2>1. PassTrue(pass[w]) /\ Was(pass[w].todo[1])
    BY <1>6, AWorker DEF PassTrue
  <2>2. \A k \in DOMAIN p.todo : Was(p.todo[k])'
    BY <1>1, <1>4, <2>1 DEF PassTrue, Was
  <2>3. t \notin missed' => p.todo[1].at <= p.thread /\ p.thread <= state'[t]
    <3>1. pass[w].todo[1].id = t
      BY <1>6 DEF t
    <3>2. pass[w].todo[1].at <= state[t] /\ state'[t] = state[t] /\ state[t] \in Nat
      BY <1>1, <1>6, <2>1, <3>1, RecallConstants DEF Was, RecallInv, RecallTypes
    <3>3. t \notin missed' => p.thread = state[t]
      BY <1>2, <1>4
    <3>4. p.todo[1].at = pass[w].todo[1].at /\ p.todo[1].id = t
      BY <1>4, <3>1
    <3> QED
      BY <3>2, <3>3, <3>4
  <2>4. p.todo # <<>> /\ p.todo[1].id = t
    BY <1>1, <1>4, <1>6 DEF t
  <2> QED
    BY <2>2, <2>3, <2>4 DEF PassTrue
<1>10. \A u \in Tickets : RowTrue(u)' /\ (Kept(u) => Kept(u)')
  BY <1>1 DEF RecallInv, RowTrue, Kept
<1>11. w \in Backfills => Steady(p) /\ (~emptied => PassesOn(p)')
  <2>1. w \in Backfills => Steady(p)
    BY <1>4, AWorker DEF Steady
  <2>2. ASSUME w \in Backfills, ~emptied PROVE PassesOn(p)'
    <3>1. Behind(pass[w].page * PageSize, pass[w]) /\ pass[w].page >= 1
      BY <1>1, <2>2, AWorker DEF PassesOn
    <3>2. Behind(p.page * PageSize, p)'
      BY <1>1, <1>4, <3>1 DEF Behind, Holds, Kept
    <3> QED
      BY <1>4, <3>1, <3>2 DEF PassesOn
  <2> QED
    BY <2>1, <2>2
<1>12. ~emptied => Behind(progress.page * PageSize, Resting)'
  BY <1>1 DEF RecallInv, NothingSkipped, Behind, Holds, Kept
<1> QED
  BY <1>1, <1>4, <1>5, <1>7, <1>8, <1>9, <1>10, <1>11, <1>12, OneWorker

LEMMA RememberKeeps == ASSUME RecallInv, NEW w \in Workers, Remember(w) PROVE RecallInv'
<1>1. PICK i : i = pass[w].todo[1]
  OBVIOUS
<1>2. PICK p : p = [pass[w] EXCEPT !.at = "ticket", !.todo = Tail(pass[w].todo), !.thread = 0]
  OBVIOUS
<1>3. /\ pass[w].at = "thread" /\ pass[w].todo # <<>> /\ PassTrue(pass[w]) /\ Head(pass[w].todo) = i
      /\ i \in Items /\ i.id \in Tickets /\ i.at \in States /\ Was(i)
      /\ 1 \in DOMAIN pass[w].todo /\ Tail(pass[w].todo) \in Seq(Items)
      /\ \A k \in DOMAIN Tail(pass[w].todo) :
           k + 1 \in DOMAIN pass[w].todo /\ Tail(pass[w].todo)[k] = pass[w].todo[k + 1]
      /\ \A k \in DOMAIN pass[w].todo :
           k = 1 \/ (k - 1 \in DOMAIN Tail(pass[w].todo) /\ Tail(pass[w].todo)[k - 1] = pass[w].todo[k])
  <2>1. pass[w].at = "thread" /\ pass[w].todo # <<>> /\ PassTrue(pass[w]) /\ pass[w].todo \in Seq(Items)
    BY AWorker DEF Remember, PassTrue
  <2>2. 1 \in DOMAIN pass[w].todo
    BY <2>1, TailOf
  <2>3. i \in Items /\ i.id \in Tickets /\ i.at \in States /\ Was(i)
    BY <1>1, <2>1, <2>2, AWorker DEF PassTrue
  <2> QED
    BY <1>1, <2>1, <2>2, <2>3, TailOf
<1>4. /\ GoesOn(w, p)
      /\ UNCHANGED <<tickets, state, progress, running, again, starting, nudged, moved, astride, emptied>>
      /\ \/ /\ memory' = [memory EXCEPT ![i.id] = [at |-> i.at, thread |-> pass[w].thread]]
            /\ missed' = missed /\ mishaps' = mishaps
         \/ memory' = memory /\ missed' = missed \cup {i.id} /\ mishaps < MaxMishaps /\ mishaps' = mishaps + 1
  BY <1>2, <1>3 DEF Remember, Stamp, Mishap, GoesOn
<1>5. p \in IsPass /\ p.at = "ticket" /\ p.todo = Tail(pass[w].todo) /\ p.seen = pass[w].seen /\ p.page = pass[w].page
  BY <1>2, <1>3, AWorker, RecallConstants DEF IsPass
<1>6. /\ missed \subseteq missed' /\ missed' \subseteq Tickets /\ mishaps' \in 0 .. MaxMishaps
      /\ memory' \in [Tickets -> [at : States, thread : States]]
      /\ \A t \in Tickets :
           \/ memory'[t] = memory[t] /\ (t = i.id => t \in missed')
           \/ /\ t = i.id /\ missed' = missed
              /\ memory'[t].at = i.at /\ memory'[t].thread = pass[w].thread
  <2>1. pass[w].thread \in States
    BY AWorker, RestingIsPass
  <2>2. /\ memory \in [Tickets -> [at : States, thread : States]] /\ missed \subseteq Tickets
        /\ mishaps \in 0 .. MaxMishaps
    BY DEF RecallInv, RecallTypes
  <2>3. CASE /\ memory' = [memory EXCEPT ![i.id] = [at |-> i.at, thread |-> pass[w].thread]]
             /\ missed' = missed /\ mishaps' = mishaps
    BY <1>3, <2>1, <2>2, <2>3
  <2>4. CASE memory' = memory /\ missed' = missed \cup {i.id} /\ mishaps < MaxMishaps /\ mishaps' = mishaps + 1
    BY <1>3, <2>2, <2>4, RecallConstants
  <2> QED
    BY <1>4, <2>3, <2>4
<1>7. RecallTypes'
  BY <1>4, <1>5, <1>6 DEF GoesOn, RecallInv, RecallTypes
<1>8. PassTrue(p)'
  BY <1>3, <1>4, <1>5 DEF PassTrue, Was
<1>9. \A t \in Tickets : RowTrue(t)' /\ (Kept(t) => Kept(t)')
  <2> SUFFICES ASSUME NEW t \in Tickets PROVE RowTrue(t)' /\ (Kept(t) => Kept(t)')
    OBVIOUS
  <2>1. RowTrue(t)
    BY DEF RecallInv
  <2>2. CASE memory'[t] = memory[t]
    BY <1>4, <1>6, <2>1, <2>2 DEF RowTrue, Kept
  <2>3. CASE t = i.id /\ missed' = missed /\ memory'[t].at = i.at /\ memory'[t].thread = pass[w].thread
    <3>1. i.at >= 1 /\ i.at <= state[t] /\ (t \notin missed => i.at <= pass[w].thread /\ pass[w].thread <= state[t])
      BY <1>1, <1>3, <2>3 DEF Was, PassTrue
    <3> QED
      BY <1>3, <1>4, <2>1, <2>3, <3>1, RecallConstants DEF RowTrue, Kept
  <2> QED
    BY <1>6, <2>2, <2>3
<1>10. NudgesKept' /\ Coalesced'
  <2>1. \A t \in Tickets \ (missed' \cup astride) :
          memory[t].at = state[t] /\ (w = "reindexing" => Current(pass[w], t)) => memory'[t].at = state[t]
    <3> SUFFICES ASSUME NEW t \in Tickets \ (missed' \cup astride), memory[t].at = state[t],
                        w = "reindexing" => Current(pass[w], t), t = i.id
                 PROVE  i.at = state[t]
      BY <1>6
    <3>1. w = "reindexing" => i.at = state[t]
      BY <1>1, <1>3 DEF Current
    <3>2. w \in Backfills => i.at = state[t]
      BY <1>1, <1>3, AWorker, SMTT(40) DEF Steady
    <3> QED
      BY <3>1, <3>2, AWorker
  <2>2. \A k \in DOMAIN p.todo : \E j \in DOMAIN pass[w].todo : p.todo[k] = pass[w].todo[j]
    BY <1>3, <1>5
  <2>3. \A t \in Tickets \ (missed' \cup astride) :
          Coming(pass[w], t) /\ Current(pass[w], t) => memory'[t].at = state[t] \/ Coming(p, t)
    <3> SUFFICES ASSUME NEW t \in Tickets \ (missed' \cup astride), Coming(pass[w], t), Current(pass[w], t)
                 PROVE  memory'[t].at = state[t] \/ Coming(p, t)
      OBVIOUS
    <3>1. PICK k \in DOMAIN pass[w].todo : pass[w].todo[k].id = t /\ pass[w].todo[k] \notin pass[w].seen
      BY DEF Coming
    <3>2. CASE k = 1
      BY <1>1, <1>6, <3>1, <3>2 DEF Current
    <3>3. CASE k # 1
      <4>1. k - 1 \in DOMAIN p.todo /\ p.todo[k - 1] = pass[w].todo[k]
        BY <1>3, <1>5, <3>3
      <4> QED
        BY <1>5, <3>1, <4>1 DEF Coming
    <3> QED
      BY <3>2, <3>3
  <2> QED
    BY <1>3, <1>4, <1>5, <1>6, <2>1, <2>2, <2>3, NudgesGoOn
<1>11. w \in Backfills => Steady(p) /\ (~emptied => PassesOn(p)')
  <2>1. w \in Backfills => Steady(p)
    BY <1>3, <1>5, AWorker DEF Steady
  <2>2. ASSUME w \in Backfills, ~emptied PROVE PassesOn(p)'
    <3>1. Behind(p.page * PageSize, pass[w]) /\ p.page >= 1
      BY <1>3, <1>5, <2>2, AWorker DEF PassesOn
    <3>2. Behind(p.page * PageSize, p)'
      <4> SUFFICES ASSUME NEW j \in DOMAIN tickets, j <= p.page * PageSize, tickets[j] \notin moved \cup missed'
                   PROVE  Kept(tickets[j])' \/ Holds(p, tickets[j])
        BY <1>4 DEF Behind, Holds
      <4>1. tickets[j] \in Tickets
        BY ElementOfSeq, LenProperties DEF RecallInv, RecallTypes
      <4>2. Kept(tickets[j]) \/ Holds(pass[w], tickets[j])
        BY <1>6, <3>1 DEF Behind
      <4>3. CASE Kept(tickets[j])
        BY <1>4, <1>9, <4>1, <4>3 DEF Kept
      <4>4. CASE Holds(pass[w], tickets[j])
        <5>1. PICK k \in DOMAIN pass[w].todo : pass[w].todo[k].id = tickets[j]
          BY <4>4 DEF Holds
        <5>2. CASE k = 1
          <6>1. memory'[tickets[j]].at = i.at /\ i.at # 0
            BY <1>1, <1>3, <1>6, <4>1, <5>1, <5>2, RecallConstants DEF Was
          <6> QED
            BY <1>4, <6>1 DEF Kept
        <5>3. CASE k # 1
          <6>1. k - 1 \in DOMAIN p.todo /\ p.todo[k - 1] = pass[w].todo[k]
            BY <1>3, <1>5, <5>3
          <6> QED
            BY <5>1, <6>1 DEF Holds
        <5> QED
          BY <5>2, <5>3
      <4> QED
        BY <4>2, <4>3, <4>4
    <3> QED
      BY <1>5, <3>1, <3>2 DEF PassesOn
  <2> QED
    BY <2>1, <2>2
<1>12. ~emptied => Behind(progress.page * PageSize, Resting)'
  <2>1. \A j \in DOMAIN tickets : tickets[j] \in Tickets
    BY ElementOfSeq, LenProperties DEF RecallInv, RecallTypes
  <2> QED
    BY <1>4, <1>6, <1>9, <2>1 DEF RecallInv, NothingSkipped, Behind, Holds
<1> QED
  BY <1>4, <1>5, <1>6, <1>7, <1>8, <1>9, <1>10, <1>11, <1>12, OneWorker

\* A worker goes on and nothing else happens.
LEMMA Alone ==
  ASSUME RecallInv, NEW w \in Workers, NEW p \in IsPass, GoesOn(w, p),
         UNCHANGED <<tickets, state, memory, progress, running, again, starting, history>>,
         mishaps' \in 0 .. MaxMishaps,
         PassTrue(p), w \in Backfills => Steady(p) /\ (~emptied => PassesOn(p)),
         Coalesced' /\ NudgesKept'
  PROVE  RecallInv'
<1>1. UNCHANGED <<nudged, moved, missed, astride, emptied>>
  BY DEF history
<1>2. RecallTypes'
  BY <1>1 DEF GoesOn, RecallInv, RecallTypes
<1>3. PassTrue(p)'
  BY <1>1 DEF PassTrue, Was
<1>4. \A u \in Tickets : RowTrue(u)' /\ (Kept(u) => Kept(u)')
  BY <1>1 DEF RecallInv, RowTrue, Kept
<1>5. w \in Backfills => Steady(p) /\ (~emptied => PassesOn(p)')
  BY <1>1 DEF PassesOn, Behind, Holds, Kept
<1>6. ~emptied => Behind(progress.page * PageSize, Resting)'
  BY <1>1 DEF RecallInv, NothingSkipped, Behind, Holds, Kept
<1> QED
  BY <1>1, <1>2, <1>3, <1>4, <1>5, <1>6, OneWorker

LEMMA SpentOrNot ==
  ASSUME RecallInv, UNCHANGED mishaps \/ Mishap PROVE mishaps' \in 0 .. MaxMishaps
  BY RecallConstants DEF RecallInv, RecallTypes, Mishap

LEMMA CompareKeeps == ASSUME RecallInv, Compare PROVE RecallInv'
<1> DEFINE w == "reindexing"
<1>1. /\ w \in Workers /\ w \notin Backfills /\ pass[w].at = "comparing" /\ mishaps' \in 0 .. MaxMishaps
      /\ UNCHANGED <<tickets, state, memory, progress, running, again, starting, history>>
      /\ UNCHANGED <<nudged, moved, missed, astride, emptied>>
  BY RecallBounds, SpentOrNot DEF Compare, Workers, history
<1>2. pass[w].seen = {} /\ pass[w] \in IsPass /\ PassTrue(pass[w]) /\ pass[w].todo \in Seq(Items)
  BY <1>1, AWorker DEF RecallInv, Coalesced
<1>3. PICK p :
        /\ GoesOn(w, p)
        /\ \/ p = [pass[w] EXCEPT !.at = "ticket", !.seen = {i \in ToSet(pass[w].todo) : Unchanged(i)}]
           \/ p = [pass[w] EXCEPT !.at = "ticket"]
  BY DEF Compare
<1>4. /\ p \in IsPass /\ p.at = "ticket" /\ p.todo = pass[w].todo
      /\ \A i \in p.seen : memory[i.id].at = i.at
  <2>1. {i \in ToSet(pass[w].todo) : Unchanged(i)} \in SUBSET Items
    BY <1>2, ElementOfSeq, LenProperties DEF ToSet
  <2>2. CASE p = [pass[w] EXCEPT !.at = "ticket", !.seen = {i \in ToSet(pass[w].todo) : Unchanged(i)}]
    <3>1. PICK S : S = {i \in ToSet(pass[w].todo) : Unchanged(i)}
      OBVIOUS
    <3>2. p = [pass[w] EXCEPT !.at = "ticket", !.seen = S]
      BY <2>2, <3>1
    <3>3. p \in IsPass /\ p.at = "ticket" /\ p.todo = pass[w].todo /\ p.seen = S
      BY <1>2, <2>1, <3>1, <3>2 DEF IsPass
    <3> QED
      BY <3>1, <3>3 DEF Unchanged
  <2>3. CASE p = [pass[w] EXCEPT !.at = "ticket"]
    BY <1>2, <2>3 DEF IsPass
  <2> QED
    BY <1>3, <2>2, <2>3
<1> HIDE DEF w
<1>5. NudgesKept' /\ Coalesced'
  <2>1. \A t \in Tickets : Coming(pass[w], t) /\ Current(pass[w], t) => memory'[t].at = state[t] \/ Coming(p, t)
    BY <1>1, <1>4 DEF Coming, Current
  <2> QED
    BY <1>1, <1>3, <1>4, <2>1, NudgesGoOn DEF Current
<1>6. PassTrue(p)
  BY <1>1, <1>2, <1>4 DEF PassTrue
<1> QED
  BY <1>1, <1>3, <1>4, <1>5, <1>6, Alone

LEMMA SkipKeeps == ASSUME RecallInv, SkipUnchanged PROVE RecallInv'
<1> DEFINE w == "reindexing"
<1>1. /\ w \in Workers /\ w \notin Backfills /\ pass[w].at = "ticket" /\ mishaps' \in 0 .. MaxMishaps
      /\ pass[w].todo # <<>> /\ Head(pass[w].todo) \in pass[w].seen
      /\ UNCHANGED <<tickets, state, memory, progress, running, again, starting, history>>
      /\ UNCHANGED <<nudged, moved, missed, astride, emptied>>
  BY RecallBounds, SpentOrNot DEF SkipUnchanged, Workers, history
<1>2. PICK p : p = [pass[w] EXCEPT !.todo = Tail(pass[w].todo)]
  OBVIOUS
<1>3. GoesOn(w, p)
  BY <1>2 DEF SkipUnchanged, GoesOn
<1> HIDE DEF w
<1>4. /\ Head(pass[w].todo) = pass[w].todo[1] /\ Tail(pass[w].todo) \in Seq(Items) /\ PassTrue(pass[w])
      /\ \A k \in DOMAIN Tail(pass[w].todo) :
           k + 1 \in DOMAIN pass[w].todo /\ Tail(pass[w].todo)[k] = pass[w].todo[k + 1]
      /\ \A k \in DOMAIN pass[w].todo :
           k = 1 \/ (k - 1 \in DOMAIN Tail(pass[w].todo) /\ Tail(pass[w].todo)[k - 1] = pass[w].todo[k])
  BY <1>1, AWorker, TailOf
<1>5. p \in IsPass /\ p.at = "ticket" /\ p.todo = Tail(pass[w].todo) /\ p.seen = pass[w].seen
  BY <1>1, <1>2, <1>4, AWorker DEF IsPass
<1>6. NudgesKept' /\ Coalesced'
  <2>1. \A t \in Tickets : Coming(pass[w], t) /\ Current(pass[w], t) => Coming(p, t)
    <3> SUFFICES ASSUME NEW t \in Tickets, Coming(pass[w], t) PROVE Coming(p, t)
      OBVIOUS
    <3>1. PICK k \in DOMAIN pass[w].todo : pass[w].todo[k].id = t /\ pass[w].todo[k] \notin pass[w].seen
      BY DEF Coming
    <3>2. k # 1
      BY <1>1, <1>4, <3>1
    <3>3. k - 1 \in DOMAIN p.todo /\ p.todo[k - 1] = pass[w].todo[k]
      BY <1>4, <1>5, <3>2
    <3> QED
      BY <1>5, <3>1, <3>3 DEF Coming
  <2>2. \A k \in DOMAIN p.todo : \E j \in DOMAIN pass[w].todo : p.todo[k] = pass[w].todo[j]
    BY <1>4, <1>5
  <2> QED
    BY <1>1, <1>3, <1>5, <2>1, <2>2, NudgesGoOn
<1>7. PassTrue(p)
  BY <1>1, <1>4, <1>5 DEF PassTrue
<1> QED
  BY <1>1, <1>3, <1>5, <1>6, <1>7, Alone

LEMMA StartBackfillKeeps ==
  ASSUME RecallInv, NEW b \in Backfills, NEW restart \in BOOLEAN, StartBackfill(b, restart) PROVE RecallInv'
<1>1. /\ b \in Workers /\ b # "reindexing" /\ mishaps' \in 0 .. MaxMishaps
      /\ UNCHANGED <<tickets, state, memory, progress, running, again, starting, history>>
      /\ UNCHANGED <<nudged, moved, missed, astride, emptied>>
  BY RecallBounds, SpentOrNot DEF StartBackfill, Workers, history
<1>2. progress.page \in Nat
  BY DEF RecallInv, RecallTypes
<1>3. PICK page \in Nat : page = IF restart THEN 1 ELSE progress.page + 1
  BY <1>2
<1>4. PICK p : p = [Resting EXCEPT !.at = "listing", !.page = page]
  OBVIOUS
<1>5. GoesOn(b, p)
  BY <1>3, <1>4 DEF StartBackfill, GoesOn
<1>6. p \in IsPass /\ p.at = "listing" /\ p.page = page /\ p.todo = <<>> /\ DOMAIN p.todo = {}
  BY <1>4, RestingIsPass DEF IsPass
<1>7. NudgesKept' /\ Coalesced'
  BY <1>1, <1>5, <1>6, NudgesGoOn
<1>8. PassTrue(p) /\ Steady(p)
  BY <1>3, <1>2, <1>6 DEF PassTrue, Steady
<1>9. ~emptied => PassesOn(p)
  <2> SUFFICES ASSUME ~emptied PROVE Behind((page - 1) * PageSize, Resting) /\ page >= 1
    BY <1>6 DEF PassesOn
  <2>1. CASE restart
    <3>1. (page - 1) * PageSize = 0 /\ page = 1
      BY <1>3, <2>1, RecallConstants
    <3> QED
      BY <3>1, LenProperties DEF Behind, RecallInv, RecallTypes
  <2>2. CASE ~restart
    <3>1. page - 1 = progress.page /\ page >= 1
      BY <1>2, <1>3, <2>2
    <3> QED
      BY <3>1 DEF RecallInv, NothingSkipped
  <2> QED
    BY <2>1, <2>2
<1> QED
  BY <1>1, <1>5, <1>6, <1>7, <1>8, <1>9, Alone

LEMMA FinishedIsPass ==
  /\ Finished \in IsPass /\ PassTrue(Finished) /\ Steady(Finished) /\ PassesOn(Finished)
  /\ Finished.at = "over" /\ Finished.todo = <<>> /\ DOMAIN Finished.todo = {}
<1>1. /\ Finished \in IsPass /\ Finished.at = "over" /\ Finished.todo = <<>> /\ DOMAIN Finished.todo = {}
  BY RestingIsPass DEF Finished, IsPass
<1> QED
  BY <1>1 DEF PassTrue, Steady, PassesOn

LEMMA Pages == \A n \in Nat : n >= 1 => (n - 1) * PageSize \in Nat /\ n * PageSize \in Nat
<1>1. \A m \in Nat : m * PageSize \in Nat
  BY RecallConstants
<1> QED
  BY <1>1

LEMMA ListPageKeeps == ASSUME RecallInv, NEW b \in Backfills, ListPage(b) PROVE RecallInv'
<1>1. /\ b \in Workers /\ b # "reindexing" /\ mishaps' \in 0 .. MaxMishaps
      /\ UNCHANGED <<tickets, state, memory, progress, running, again, starting, history>>
      /\ UNCHANGED <<nudged, moved, missed, astride, emptied>> /\ pass[b].at = "listing"
  BY RecallBounds, SpentOrNot DEF ListPage, Workers, history
<1> DEFINE todo == Listed(Part((pass[b].page - 1) * PageSize + 1, pass[b].page * PageSize))
<1>2. CASE GoesOn(b, Finished)
  <2>1. NudgesKept' /\ Coalesced'
    BY <1>1, <1>2, FinishedIsPass, NudgesGoOn
  <2> QED
    BY <1>1, <1>2, <2>1, FinishedIsPass, Alone
<1>3. CASE \E short \in BOOLEAN : GoesOn(b, [pass[b] EXCEPT !.at = "ticket", !.todo = todo, !.short = short])
  <2>1. PICK short \in BOOLEAN : GoesOn(b, [pass[b] EXCEPT !.at = "ticket", !.todo = todo, !.short = short])
    BY <1>3
  <2>2. PICK p : p = [pass[b] EXCEPT !.at = "ticket", !.todo = todo, !.short = short]
    OBVIOUS
  <2>3. GoesOn(b, p)
    BY <2>1, <2>2
  <2>4. pass[b].page \in Nat
    BY <1>1, AWorker
  <2>5. p.page = pass[b].page /\ p.at = "ticket"
    BY <1>1, <2>2, AWorker DEF IsPass
  <2>6. p.page >= 1 /\ (p.page - 1) * PageSize \in Nat /\ p.page * PageSize \in Nat
    BY <1>1, <2>4, <2>5, AWorker, Pages DEF Steady
  <2>7. PICK x \in Nat : x = (p.page - 1) * PageSize
    BY <2>6
  <2>8. PICK y \in Nat : y = p.page * PageSize
    BY <2>6
  <2>9. /\ todo \in Seq(Items) /\ \A k \in DOMAIN todo : todo[k].id \in Tickets /\ todo[k].at = state[todo[k].id]
        /\ \A i \in DOMAIN tickets : x < i /\ i <= y => \E k \in DOMAIN todo : todo[k].id = tickets[i]
    <3>1. todo = Listed(Part(x + 1, y))
      BY <2>5, <2>7, <2>8
    <3>2. RecallTypes
      BY DEF RecallInv
    <3> HIDE DEF todo
    <3> QED
      BY <3>1, <3>2, PageOf
  <2> HIDE DEF todo
  <2>10. p \in IsPass /\ p.todo = todo
    BY <1>1, <2>2, <2>9, AWorker DEF IsPass
  <2>11. NudgesKept' /\ Coalesced'
    BY <1>1, <2>3, <2>10, NudgesGoOn
  <2>12. PassTrue(p) /\ Steady(p)
    <3>1. \A t \in Tickets : state[t] \in Nat /\ state[t] >= 1
      BY RecallConstants DEF RecallInv, RecallTypes, RowTrue
    <3>2. \A k \in DOMAIN p.todo : p.todo[k].at = state[p.todo[k].id] /\ p.todo[k].at \in Nat /\ p.todo[k].at >= 1
      BY <2>9, <2>10, <3>1
    <3> QED
      BY <2>5, <2>6, <3>2 DEF PassTrue, Steady, Was
  <2>13. ~emptied => PassesOn(p)
    <3> SUFFICES ASSUME ~emptied, NEW i \in DOMAIN tickets, i <= y, tickets[i] \notin moved \cup missed
                 PROVE  Kept(tickets[i]) \/ Holds(p, tickets[i])
      BY <2>5, <2>6, <2>8 DEF PassesOn, Behind
    <3>1. Behind(x, Resting)
      BY <1>1, <2>5, <2>7, AWorker DEF PassesOn
    <3>2. i \in Nat
      BY LenProperties DEF RecallInv, RecallTypes
    <3>3. CASE i <= x
      BY <3>1, <3>3, RestingIsPass DEF Behind, Holds
    <3>4. CASE x < i
      BY <2>9, <2>10, <3>4 DEF Holds
    <3> QED
      BY <3>2, <3>3, <3>4
  <2> QED
    BY <1>1, <2>3, <2>10, <2>11, <2>12, <2>13, Alone
<1> HIDE DEF todo
<1>4. \/ GoesOn(b, Finished)
      \/ \E short \in BOOLEAN : GoesOn(b, [pass[b] EXCEPT !.at = "ticket", !.todo = todo, !.short = short])
  <2> DEFINE len == Len(Part((pass[b].page - 1) * PageSize + 1, pass[b].page * PageSize))
  <2>1. (len < PageSize) \in BOOLEAN
    OBVIOUS
  <2>2. \/ GoesOn(b, Finished)
        \/ GoesOn(b, [pass[b] EXCEPT !.at = "ticket", !.todo = todo, !.short = len < PageSize])
    BY DEF ListPage, todo
  <2> HIDE DEF len
  <2> QED
    BY <2>1, <2>2
<1> QED
  BY <1>2, <1>3, <1>4

LEMMA RecordPageKeeps == ASSUME RecallInv, NEW b \in Backfills, RecordPage(b) PROVE RecallInv'
<1>1. /\ b \in Workers /\ b # "reindexing" /\ mishaps' \in 0 .. MaxMishaps
      /\ UNCHANGED <<tickets, state, memory, running, again, starting, history>>
      /\ UNCHANGED <<nudged, moved, missed, astride, emptied>> /\ pass[b].at = "ticket" /\ pass[b].todo = <<>>
  BY RecallBounds, SpentOrNot DEF RecordPage, ReadyToRecord, Workers, history
<1>2. DOMAIN pass[b].todo = {} /\ pass[b] \in IsPass /\ pass[b].page \in Nat /\ pass[b].short \in BOOLEAN
  BY <1>1, AWorker DEF IsPass
<1>3. ~emptied => pass[b].page >= 1 /\ Behind(pass[b].page * PageSize, Resting)
  BY <1>1, <1>2, AWorker, RestingIsPass DEF PassesOn, Behind, Holds
<1>4. /\ progress' \in [page : Nat, complete : BOOLEAN]
      /\ ~emptied => Behind(progress.page * PageSize, Resting)'
  <2>1. PICK page \in Nat : page = pass[b].page
    BY <1>2
  <2>2. CASE progress' = [page |-> pass[b].page, complete |-> pass[b].short]
    <3>1. progress'.page = page /\ progress' \in [page : Nat, complete : BOOLEAN]
      BY <1>2, <2>1, <2>2
    <3>2. ~emptied => Behind(page * PageSize, Resting)'
      BY <1>1, <1>3, <2>1 DEF Behind, Holds, Kept
    <3> QED
      BY <3>1, <3>2
  <2>3. CASE progress' = progress
    BY <1>1, <2>3 DEF RecallInv, RecallTypes, NothingSkipped, Behind, Holds, Kept
  <2> QED
    BY <2>2, <2>3 DEF RecordPage
<1>5. PICK p \in IsPass :
        /\ GoesOn(b, p) /\ PassTrue(p)' /\ Steady(p) /\ (~emptied => PassesOn(p)')
  <2>1. CASE GoesOn(b, Finished)
    <3>1. PICK p : p = Finished
      OBVIOUS
    <3>2. /\ p \in IsPass /\ PassTrue(p) /\ Steady(p) /\ PassesOn(p) /\ GoesOn(b, p)
          /\ p.at = "over" /\ DOMAIN p.todo = {}
      BY <2>1, <3>1, FinishedIsPass
    <3>3. PassTrue(p)' /\ PassesOn(p)'
      BY <3>2 DEF PassTrue, PassesOn
    <3> QED
      BY <3>2, <3>3
  <2>2. CASE GoesOn(b, [pass[b] EXCEPT !.at = "listing", !.page = pass[b].page + 1]) /\ ~pass[b].short
    <3> DEFINE next == pass[b].page + 1
    <3>1. PICK p : p = [pass[b] EXCEPT !.at = "listing", !.page = next]
      OBVIOUS
    <3>6. next \in Nat
      BY <1>2
    <3>2. /\ p \in IsPass /\ p.at = "listing" /\ p.page = pass[b].page + 1 /\ p.todo = <<>> /\ DOMAIN p.todo = {}
      <4> HIDE DEF next
      <4>1. p \in IsPass /\ p.at = "listing" /\ p.page = next /\ p.todo = pass[b].todo
        BY <1>2, <3>1, <3>6 DEF IsPass
      <4> QED
        BY <1>1, <1>2, <4>1 DEF next
    <3>5. GoesOn(b, p)
      BY <2>2, <3>1 DEF GoesOn
    <3>3. PassTrue(p)' /\ Steady(p)
      BY <1>2, <3>2 DEF PassTrue, Steady
    <3>4. ASSUME ~emptied PROVE PassesOn(p)'
      <4>1. PICK page \in Nat : page = pass[b].page
        BY <1>2
      <4>2. Behind(page * PageSize, Resting)'
        BY <1>1, <1>3, <3>4, <4>1 DEF Behind, Holds, Kept
      <4>3. p.page - 1 = page /\ p.page >= 1
        BY <3>2, <4>1
      <4> QED
        BY <3>2, <4>2, <4>3 DEF PassesOn
    <3> QED
      BY <3>2, <3>3, <3>4, <3>5
  <2> QED
    BY <1>2, <2>1, <2>2 DEF RecordPage
<1>6. RecallTypes'
  BY <1>1, <1>4, <1>5 DEF GoesOn, RecallInv, RecallTypes
<1>7. \A t \in Tickets : RowTrue(t)' /\ (Kept(t) => Kept(t)')
  BY <1>1 DEF RecallInv, RowTrue, Kept
<1>8. NudgesKept' /\ Coalesced'
  BY <1>1, <1>5, NudgesGoOn
<1> QED
  BY <1>1, <1>4, <1>5, <1>6, <1>7, <1>8, OneWorker

\* What done leaves the reindexing with.
LEMMA DoneIs ==
  ASSUME RecallInv, Done
  PROVE  /\ \E p \in IsPass :
              /\ GoesOn("reindexing", p) /\ p.todo = <<>> /\ DOMAIN p.todo = {} /\ p.seen = {}
              /\ again => p.at = "listing" /\ running'
              /\ ~again => p = Resting
         /\ again' = FALSE /\ running' \in BOOLEAN
<1>1. again \in BOOLEAN /\ running \in BOOLEAN
  BY DEF RecallInv, RecallTypes
<1>2. again => running
  BY <1>1 DEF RecallInv, Coalesced
<1>3. Resting.seen = {}
  BY DEF Resting
<1>4. PICK p : p = [Resting EXCEPT !.at = "listing"]
  OBVIOUS
<1>5. p \in IsPass /\ p.at = "listing" /\ p.todo = <<>> /\ DOMAIN p.todo = {} /\ p.seen = {}
  BY <1>3, <1>4, RestingIsPass DEF IsPass
<1>6. CASE again
  <2>1. GoesOn("reindexing", p) /\ again' = FALSE /\ running' = running
    BY <1>4, <1>6 DEF Done
  <2> QED
    BY <1>1, <1>2, <1>5, <1>6, <2>1
<1>7. CASE ~again
  <2>1. GoesOn("reindexing", Resting) /\ running' = FALSE /\ again' = again
    BY <1>7 DEF Done
  <2>2. again = FALSE
    BY <1>1, <1>7
  <2> QED
    BY <1>3, <1>7, <2>1, <2>2, RestingIsPass
<1> QED
  BY <1>6, <1>7

LEMMA EndReindexKeeps == ASSUME RecallInv, EndReindex PROVE RecallInv'
<1>1. /\ "reindexing" \in Workers /\ "reindexing" \notin Backfills /\ mishaps' = mishaps
      /\ pass["reindexing"].at = "ticket" /\ pass["reindexing"].todo = <<>> /\ Done
      /\ UNCHANGED <<tickets, state, memory, progress, starting, history>>
      /\ UNCHANGED <<nudged, moved, missed, astride, emptied>>
  BY RecallBounds DEF EndReindex, Workers, history
<1>2. PICK p \in IsPass :
        /\ GoesOn("reindexing", p) /\ p.todo = <<>> /\ DOMAIN p.todo = {} /\ p.seen = {}
        /\ again => p.at = "listing" /\ running'
        /\ ~again => p = Resting
        /\ again' = FALSE /\ running' \in BOOLEAN
  BY <1>1, DoneIs
<1>3. pass'["reindexing"] = p
  BY <1>1, <1>2 DEF GoesOn, RecallInv, RecallTypes
<1>4. RecallTypes'
  BY <1>1, <1>2 DEF GoesOn, RecallInv, RecallTypes
<1>5. \A t \in Tickets : RowTrue(t)' /\ (Kept(t) => Kept(t)')
  BY <1>1 DEF RecallInv, RowTrue, Kept
<1>6. ~emptied => Behind(progress.page * PageSize, Resting)'
  BY <1>1 DEF RecallInv, NothingSkipped, Behind, Holds, Kept
<1>7. PassTrue(p)'
  BY <1>2, RestingIsPass DEF PassTrue
<1>8. Coalesced'
  BY <1>2, <1>3, RestingIsPass DEF Coalesced
<1>9. NudgesKept'
  <2> SUFFICES ASSUME NEW t \in Tickets \ (missed \cup astride), Recent(t), nudged[t] = state[t]
               PROVE  Pending(pass["reindexing"], t)'
    BY <1>1 DEF NudgesKept, Recent
  <2>1. Pending(pass["reindexing"], t)
    BY DEF RecallInv, NudgesKept
  <2>2. CASE again
    BY <1>2, <1>3, <2>2 DEF Pending
  <2>3. CASE ~again
    <3>1. starting > 0 \/ memory[t].at = state[t]
      BY <1>1, <2>1, <2>3 DEF Pending, Coming
    <3> QED
      BY <1>1, <1>2, <1>3, <3>1 DEF Pending, Current
  <2> QED
    BY <2>2, <2>3
<1> QED
  BY <1>1, <1>2, <1>4, <1>5, <1>6, <1>7, <1>8, <1>9, OneWorker

LEMMA ListRecentKeeps == ASSUME RecallInv, ListRecent PROVE RecallInv'
<1> DEFINE w == "reindexing"
           todo == Listed(FirstPage)
<1>1. /\ w \in Workers /\ w \notin Backfills /\ pass[w].at = "listing"
      /\ UNCHANGED <<tickets, state, memory, progress, starting, nudged, moved, astride, emptied>>
  BY RecallBounds DEF ListRecent, Workers
<1>2. pass[w].seen = {} /\ pass[w] \in IsPass /\ running
  BY <1>1, AWorker DEF RecallInv, Coalesced
<1>3. /\ todo \in Seq(Items) /\ \A k \in DOMAIN todo : todo[k].id \in Tickets /\ todo[k].at = state[todo[k].id]
      /\ \A i \in DOMAIN tickets : 0 < i /\ i <= RecentSize => \E k \in DOMAIN todo : todo[k].id = tickets[i]
  <2>1. 0 \in Nat /\ RecentSize \in Nat /\ 0 + 1 = 1 /\ RecallTypes
    BY RecallConstants DEF RecallInv
  <2>2. todo = Listed(Part(0 + 1, RecentSize))
    BY <2>1 DEF FirstPage
  <2> HIDE DEF todo
  <2> QED
    BY <2>1, <2>2, PageOf
<1>4. \A i \in DOMAIN tickets : tickets[i] \in Tickets /\ 0 < i
  BY ElementOfSeq, LenProperties DEF RecallInv, RecallTypes
<1>5. CASE GoesOn(w, [pass[w] EXCEPT !.at = "comparing", !.todo = todo]) /\ UNCHANGED <<running, again, missed, mishaps>>
  <2>1. PICK p : p = [pass[w] EXCEPT !.at = "comparing", !.todo = todo]
    OBVIOUS
  <2>2. GoesOn(w, p)
    BY <1>5, <2>1 DEF GoesOn
  <2> HIDE DEF todo
  <2>3. p \in IsPass /\ p.at = "comparing" /\ p.todo = todo /\ p.seen = {}
    BY <1>2, <1>3, <2>1 DEF IsPass
  <2>4. PassTrue(p)
    <3>1. \A t \in Tickets : state[t] \in Nat /\ state[t] >= 1
      BY RecallConstants DEF RecallInv, RecallTypes, RowTrue
    <3>2. \A k \in DOMAIN p.todo : p.todo[k].at = state[p.todo[k].id] /\ p.todo[k].at \in Nat /\ p.todo[k].at >= 1
      BY <1>3, <2>3, <3>1
    <3> QED
      BY <2>3, <3>2 DEF PassTrue, Was
  <2>5. pass'[w] = p
    BY <1>1, <2>2 DEF GoesOn, RecallInv, RecallTypes
  <2>6. Coalesced'
    BY <1>2, <1>5, <2>3, <2>5 DEF Coalesced, w
  <2>7. NudgesKept'
    <3> SUFFICES ASSUME NEW t \in Tickets, Recent(t) PROVE Pending(pass[w], t)'
      BY <1>1 DEF NudgesKept, Recent, w
    <3>1. Current(p, t)
      BY <1>3, <2>3 DEF Current
    <3>2. Coming(p, t)
      BY <1>3, <1>4, <2>3 DEF Coming, Recent
    <3> QED
      BY <1>1, <2>5, <3>1, <3>2 DEF Pending, Current, Coming
  <2>8. mishaps' \in 0 .. MaxMishaps /\ UNCHANGED history
    BY <1>1, <1>5 DEF RecallInv, RecallTypes, history
  <2> QED
    BY <1>1, <1>5, <2>2, <2>3, <2>4, <2>6, <2>7, <2>8, Alone
<1>6. CASE Mishap /\ Done /\ missed' = Tickets
  <2>1. PICK p \in IsPass :
          /\ GoesOn(w, p) /\ p.todo = <<>> /\ DOMAIN p.todo = {} /\ p.seen = {}
          /\ again => p.at = "listing" /\ running'
          /\ ~again => p = Resting
          /\ again' = FALSE /\ running' \in BOOLEAN
    BY <1>6, DoneIs
  <2>2. pass'[w] = p
    BY <1>1, <2>1 DEF GoesOn, RecallInv, RecallTypes
  <2>3. mishaps' \in 0 .. MaxMishaps
    BY <1>6, SpentOrNot
  <2>4. RecallTypes'
    BY <1>1, <1>6, <2>1, <2>3 DEF GoesOn, RecallInv, RecallTypes
  <2>5. \A t \in Tickets : RowTrue(t)' /\ (Kept(t) => Kept(t)')
    BY <1>1, <1>6 DEF RecallInv, RowTrue, Kept
  <2>6. Behind(progress.page * PageSize, Resting)'
    BY <1>1, <1>4, <1>6 DEF Behind
  <2>7. PassTrue(p)'
    BY <2>1, RestingIsPass DEF PassTrue
  <2>8. Coalesced'
    BY <2>1, <2>2, RestingIsPass DEF Coalesced
  <2>9. NudgesKept'
    BY <1>6 DEF NudgesKept
  <2>10. missed \subseteq missed'
    BY <1>6 DEF RecallInv, RecallTypes
  <2> QED
    BY <1>1, <2>1, <2>4, <2>5, <2>6, <2>7, <2>8, <2>9, <2>10, OneWorker
<1> QED
  BY <1>5, <1>6 DEF ListRecent

LEMMA ReindexSoonKeeps == ASSUME RecallInv, ReindexSoon PROVE RecallInv'
<1> DEFINE w == "reindexing"
<1>1. /\ w \in Workers /\ w \notin Backfills /\ starting > 0 /\ starting' = starting - 1
      /\ UNCHANGED <<tickets, state, memory, progress, mishaps>>
      /\ UNCHANGED <<nudged, moved, missed, astride, emptied>>
  BY RecallBounds DEF ReindexSoon, Workers, history
<1>2. starting' \in Nat /\ running \in BOOLEAN /\ again \in BOOLEAN /\ pass \in [Workers -> IsPass]
  BY <1>1 DEF RecallInv, RecallTypes
<1>3. PICK p \in IsPass :
        /\ GoesOn(w, p) /\ PassTrue(p) /\ running' = TRUE /\ again' \in BOOLEAN
        /\ again' = TRUE \/ p.at = "listing"
        /\ p.at \in {"listing", "comparing"} => p.seen = {}
  <2>1. CASE running
    <3>1. PICK p : p = pass[w]
      OBVIOUS
    <3>2. GoesOn(w, p) /\ running' = TRUE /\ again' = TRUE
      BY <1>1, <1>2, <2>1, <3>1 DEF ReindexSoon, Wanted, GoesOn
    <3>3. p \in IsPass /\ PassTrue(p) /\ (p.at \in {"listing", "comparing"} => p.seen = {})
      BY <1>1, <3>1, AWorker DEF RecallInv, Coalesced
    <3> QED
      BY <3>2, <3>3
  <2>2. CASE ~running
    <3>1. PICK p : p = [Resting EXCEPT !.at = "listing"]
      OBVIOUS
    <3>2. GoesOn(w, p) /\ running' = TRUE /\ again' = again
      BY <2>2, <3>1 DEF ReindexSoon
    <3>3. p \in IsPass /\ p.at = "listing" /\ p.todo = <<>> /\ DOMAIN p.todo = {} /\ p.seen = Resting.seen
      BY <3>1, RestingIsPass DEF IsPass
    <3>4. PassTrue(p) /\ p.seen = {}
      BY <3>3 DEF PassTrue, Resting
    <3> QED
      BY <1>2, <3>2, <3>3, <3>4
  <2> QED
    BY <2>1, <2>2
<1>4. pass'[w] = p
  BY <1>1, <1>2, <1>3 DEF GoesOn
<1>5. RecallTypes'
  BY <1>1, <1>2, <1>3 DEF GoesOn, RecallInv, RecallTypes
<1>6. \A t \in Tickets : RowTrue(t)' /\ (Kept(t) => Kept(t)')
  BY <1>1 DEF RecallInv, RowTrue, Kept
<1>7. ~emptied => Behind(progress.page * PageSize, Resting)'
  BY <1>1 DEF RecallInv, NothingSkipped, Behind, Holds, Kept
<1>8. PassTrue(p)'
  BY <1>1, <1>3 DEF PassTrue, Was
<1>9. Coalesced'
  BY <1>3, <1>4 DEF Coalesced
<1>10. NudgesKept'
  BY <1>3, <1>4 DEF NudgesKept, Pending
<1> QED
  BY <1>1, <1>3, <1>5, <1>6, <1>7, <1>8, <1>9, <1>10, OneWorker

LEMMA NudgeKeeps == ASSUME RecallInv, Nudge PROVE RecallInv'
<1> DEFINE w == "reindexing"
<1>1. /\ w \in Workers /\ w \notin Backfills /\ starting' = 1
      /\ UNCHANGED <<tickets, state, memory, progress, pass, running, again, moved, missed, astride, emptied, mishaps>>
      /\ \A t \in Tickets : nudged'[t] = state[t] \/ nudged'[t] = 0
  BY RecallBounds DEF Nudge, Workers
<1>2. nudged' \in [Tickets -> States]
  BY RecallConstants DEF Nudge, RecallInv, RecallTypes
<1>3. PICK p : p = pass[w]
  OBVIOUS
<1>4. p \in IsPass /\ GoesOn(w, p) /\ PassTrue(p)
  BY <1>1, <1>3, AWorker DEF GoesOn, RecallInv, RecallTypes
<1>5. RecallTypes'
  BY <1>1, <1>2 DEF RecallInv, RecallTypes
<1>6. \A t \in Tickets : RowTrue(t)' /\ (Kept(t) => Kept(t)')
  <2> SUFFICES ASSUME NEW t \in Tickets PROVE RowTrue(t)' /\ (Kept(t) => Kept(t)')
    OBVIOUS
  <2>1. RowTrue(t) /\ state[t] \in Nat
    BY RecallConstants DEF RecallInv, RecallTypes
  <2>2. nudged'[t] <= state[t]
    BY <1>1, <2>1
  <2> QED
    BY <1>1, <2>1, <2>2 DEF RowTrue, Kept
<1>7. ~emptied => Behind(progress.page * PageSize, Resting)'
  BY <1>1 DEF RecallInv, NothingSkipped, Behind, Holds, Kept
<1>8. PassTrue(p)'
  BY <1>1, <1>4 DEF PassTrue, Was
<1>9. Coalesced'
  BY <1>1 DEF RecallInv, Coalesced
<1>10. NudgesKept'
  BY <1>1 DEF NudgesKept, Pending
<1> QED
  BY <1>1, <1>4, <1>5, <1>6, <1>7, <1>8, <1>9, <1>10, OneWorker

\* A ticket that changes comes first, the others keep their order.
LEMMA MoveKeeps == ASSUME RecallInv, NEW t \in Tickets, Move(t) PROVE RecallInv'
<1>1. /\ UNCHANGED <<memory, progress, pass, running, again, starting, nudged, missed, emptied, mishaps>>
      /\ moved' = moved \cup {t} /\ state[t] <= MaxMoves
      /\ state' = [state EXCEPT ![t] = state[t] + 1]
      /\ \A u : u \in astride' <=> u \in astride \/ (u = t /\ \E b \in Backfills : u \in InHand(b))
  BY DEF Move, work
<1>2. /\ state \in [Tickets -> States] /\ \A u \in Tickets : state[u] \in Nat
      /\ tickets \in Seq(Tickets) /\ Len(tickets) \in Nat /\ DOMAIN tickets = 1 .. Len(tickets)
      /\ \A i \in DOMAIN tickets : tickets[i] \in Tickets
  <2>1. state \in [Tickets -> States] /\ tickets \in Seq(Tickets)
    BY DEF RecallInv, RecallTypes
  <2>2. \A u \in Tickets : state[u] \in Nat
    BY <2>1, RecallConstants
  <2>3. Len(tickets) \in Nat /\ DOMAIN tickets = 1 .. Len(tickets)
    BY <2>1, LenProperties
  <2>4. \A i \in DOMAIN tickets : tickets[i] \in Tickets
    BY <2>1, <2>3, ElementOfSeq
  <2> QED
    BY <2>1, <2>2, <2>3, <2>4
<1>3. PICK k \in DOMAIN tickets :
        tickets' = [i \in DOMAIN tickets |-> IF i = 1 THEN t ELSE tickets[IF i <= k THEN i - 1 ELSE i]]
  BY DEF Move
<1>4. \A u \in Tickets : state'[u] = IF u = t THEN state[t] + 1 ELSE state[u]
  BY <1>1, <1>2
<1>5. /\ tickets' \in Seq(Tickets) /\ DOMAIN tickets' = DOMAIN tickets
      /\ \A i \in DOMAIN tickets : tickets'[i] = t \/ \E j \in DOMAIN tickets : j <= i /\ tickets'[i] = tickets[j]
  <2>1. \A i \in 1 .. Len(tickets) : (IF i <= k THEN i - 1 ELSE i) \in 1 .. Len(tickets) \/ i = 1
    BY <1>2
  <2>2. \A i \in 1 .. Len(tickets) : (IF i = 1 THEN t ELSE tickets[IF i <= k THEN i - 1 ELSE i]) \in Tickets
    BY <1>2, <2>1
  <2>3. tickets' = [i \in 1 .. Len(tickets) |-> IF i = 1 THEN t ELSE tickets[IF i <= k THEN i - 1 ELSE i]]
    BY <1>2, <1>3
  <2>4. tickets' \in Seq(Tickets)
    BY <1>2, <2>2, <2>3, IsASeq
  <2>5. \A i \in 1 .. Len(tickets) :
          tickets'[i] = t \/ \E j \in 1 .. Len(tickets) : j <= i /\ tickets'[i] = tickets[j]
    <3> SUFFICES ASSUME NEW i \in 1 .. Len(tickets), i # 1
                 PROVE  \E j \in 1 .. Len(tickets) : j <= i /\ tickets'[i] = tickets[j]
      BY <2>3
    <3>1. CASE i <= k
      <4>1. i - 1 \in 1 .. Len(tickets) /\ i - 1 <= i /\ tickets'[i] = tickets[i - 1]
        BY <1>2, <2>3, <3>1
      <4> QED
        BY <4>1
    <3>2. CASE ~(i <= k)
      <4>1. tickets'[i] = tickets[i] /\ i <= i
        BY <1>2, <2>3, <3>2
      <4> QED
        BY <4>1
    <3> QED
      BY <3>1, <3>2
  <2> QED
    BY <1>2, <2>3, <2>4, <2>5
<1>6. /\ state' \in [Tickets -> States] /\ astride' \subseteq Tickets /\ moved' \subseteq Tickets
  <2>1. state[t] + 1 \in States
    BY <1>1, <1>2, RecallConstants DEF States
  <2> QED
    BY <1>1, <1>2, <2>1 DEF RecallInv, RecallTypes
<1>7. RecallTypes'
  BY <1>1, <1>5, <1>6 DEF RecallInv, RecallTypes
<1>8. \A u \in Tickets : RowTrue(u)'
  <2> SUFFICES ASSUME NEW u \in Tickets PROVE RowTrue(u)'
    OBVIOUS
  <2>1. RowTrue(u) /\ state[u] \in Nat /\ memory[u].at \in Nat /\ memory[u].thread \in Nat /\ nudged[u] \in Nat
    BY <1>2, RecallConstants DEF RecallInv, RecallTypes
  <2>2. state'[u] \in Nat /\ state'[u] >= state[u]
    BY <1>2, <1>4
  <2> QED
    BY <1>1, <2>1, <2>2 DEF RowTrue
<1>9. \A w \in Workers : PassTrue(pass[w])'
  <2> SUFFICES ASSUME NEW w \in Workers PROVE PassTrue(pass[w])'
    OBVIOUS
  <2>1. /\ pass[w] \in IsPass /\ PassTrue(pass[w]) /\ pass[w].thread \in Nat
        /\ \A j \in DOMAIN pass[w].todo :
             pass[w].todo[j].id \in Tickets /\ pass[w].todo[j].at \in Nat /\ state[pass[w].todo[j].id] \in Nat
        /\ pass[w].todo # <<>> => 1 \in DOMAIN pass[w].todo
    BY <1>2, AWorker, RestingIsPass, RecallConstants, TailOf
  <2>2. \A u \in Tickets : state'[u] \in Nat /\ state'[u] >= state[u]
    BY <1>2, <1>4
  <2>3. \A j \in DOMAIN pass[w].todo : Was(pass[w].todo[j])'
    BY <1>1, <2>1, <2>2 DEF PassTrue, Was
  <2>4. pass[w].at = "thread" =>
          /\ pass[w].todo # <<>>
          /\ pass[w].todo[1].id \notin missed =>
               pass[w].todo[1].at <= pass[w].thread /\ pass[w].thread <= state'[pass[w].todo[1].id]
    BY <2>1, <2>2 DEF PassTrue
  <2> QED
    BY <1>1, <2>3, <2>4 DEF PassTrue
<1>10. \A b \in Backfills : Steady(pass[b])'
  <2> SUFFICES ASSUME NEW b \in Backfills PROVE Steady(pass[b])'
    OBVIOUS
  <2>1. /\ Steady(pass[b])
        /\ \A j \in DOMAIN pass[b].todo : pass[b].todo[j].id \in Tickets
    BY AWorker DEF Workers
  <2>2. \A j \in DOMAIN pass[b].todo : pass[b].todo[j].id = t => t \in astride'
    BY <1>1 DEF InHand, ToSet
  <2> QED
    BY <1>1, <1>4, <2>1, <2>2 DEF Steady
<1>11. Coalesced'
  BY <1>1 DEF RecallInv, Coalesced
<1>12. NudgesKept'
  <2> SUFFICES ASSUME NEW u \in Tickets \ (missed \cup astride), u \notin astride', Recent(u)', nudged[u] = state'[u]
               PROVE  Pending(pass["reindexing"], u)'
    BY <1>1 DEF NudgesKept
  <2>1. u # t
    BY <1>2, <1>4, RecallConstants DEF RecallInv, RecallTypes, RowTrue
  <2>2. Recent(u)
    <3>1. PICK i \in DOMAIN tickets : i <= RecentSize /\ tickets'[i] = u
      BY <1>5 DEF Recent
    <3>2. PICK j \in DOMAIN tickets : j <= i /\ tickets[j] = u
      BY <1>5, <2>1, <3>1
    <3>3. j <= RecentSize
      BY <1>2, <3>1, <3>2, RecallConstants
    <3> QED
      BY <3>2, <3>3 DEF Recent
  <2>3. state'[u] = state[u]
    BY <1>4, <2>1
  <2>4. Pending(pass["reindexing"], u)
    BY <2>2, <2>3 DEF RecallInv, NudgesKept
  <2> QED
    BY <1>1, <2>3, <2>4 DEF Pending, Current, Coming
<1>13. NothingSkipped'
  <2>1. \A n \in Nat : \A p : Behind(n, p) => Behind(n, p)'
    <3> SUFFICES ASSUME NEW n \in Nat, NEW p, Behind(n, p) PROVE Behind(n, p)'
      OBVIOUS
    <3> SUFFICES ASSUME NEW i \in DOMAIN tickets, i <= n, tickets'[i] \notin moved' \cup missed
                 PROVE  (memory[tickets'[i]].at # 0) \/ \E j \in DOMAIN p.todo : p.todo[j].id = tickets'[i]
      BY <1>1, <1>5 DEF Behind, Kept, Holds
    <3>1. tickets'[i] # t
      BY <1>1
    <3>2. PICK j \in DOMAIN tickets : j <= i /\ tickets'[i] = tickets[j]
      BY <1>5, <3>1
    <3>3. j <= n
      BY <1>2, <3>2
    <3> QED
      BY <1>1, <3>2, <3>3 DEF Behind, Kept, Holds
  <2>2. progress.page \in Nat /\ progress.page * PageSize \in Nat
    <3>1. progress.page \in Nat
      BY DEF RecallInv, RecallTypes
    <3> QED
      BY <3>1, RecallConstants
  <2> SUFFICES ASSUME ~emptied PROVE Behind(progress.page * PageSize, Resting)' /\ \A b \in Backfills : PassesOn(pass[b])'
    BY <1>1 DEF NothingSkipped
  <2>3. Behind(progress.page * PageSize, Resting)'
    <3>1. PICK n \in Nat : n = progress.page * PageSize
      BY <2>2
    <3>2. Behind(n, Resting)'
      BY <2>1, <3>1 DEF RecallInv, NothingSkipped
    <3> QED
      BY <1>1, <3>1, <3>2
  <2>4. ASSUME NEW b \in Backfills PROVE PassesOn(pass[b])'
    <3>1. PICK p : p = pass[b]
      OBVIOUS
    <3>2. PassesOn(p) /\ p.page \in Nat
      BY <3>1, AWorker DEF Workers
    <3>3. PassesOn(p)'
      <4>1. CASE p.at = "listing"
        <5>1. PICK n \in Nat : n = (p.page - 1) * PageSize
          BY <3>2, <4>1, Pages DEF PassesOn
        <5>2. Behind(n, Resting)'
          BY <2>1, <3>2, <4>1, <5>1 DEF PassesOn
        <5> QED
          BY <3>2, <4>1, <5>1, <5>2 DEF PassesOn
      <4>2. CASE p.at \in {"ticket", "thread"}
        <5>1. PICK n \in Nat : n = p.page * PageSize
          BY <3>2, <4>2, Pages DEF PassesOn
        <5>2. Behind(n, p)'
          BY <2>1, <3>2, <4>2, <5>1 DEF PassesOn
        <5> QED
          BY <3>2, <4>2, <5>1, <5>2 DEF PassesOn
      <4> QED
        BY <4>1, <4>2 DEF PassesOn
    <3> QED
      BY <1>1, <3>1, <3>3
  <2> QED
    BY <2>3, <2>4
<1> QED
  BY <1>7, <1>8, <1>9, <1>10, <1>11, <1>12, <1>13 DEF RecallInv

LEMMA StopAllKeeps == ASSUME RecallInv, StopAll PROVE RecallInv'
<1>1. /\ UNCHANGED <<tickets, state, memory, progress, nudged, moved, astride, emptied>>
      /\ running' = FALSE /\ again' = FALSE /\ starting' = 0
      /\ pass' = [w \in Workers |-> IF w = "reindexing" \/ pass[w].at = "idle" THEN Resting ELSE Finished]
      /\ missed' = IF running \/ starting > 0 THEN Tickets ELSE missed
      /\ mishaps' \in 0 .. MaxMishaps
  BY SpentOrNot DEF StopAll
<1>2. /\ \A w \in Workers : pass'[w] \in {Resting, Finished}
      /\ pass'["reindexing"] = Resting /\ Backfills \subseteq Workers /\ "reindexing" \in Workers
  BY <1>1 DEF Workers
<1>3. /\ \A w \in Workers : /\ pass'[w] \in IsPass /\ pass'[w].at \in {"idle", "over"} /\ pass'[w].todo = <<>>
                            /\ DOMAIN pass'[w].todo = {}
      /\ pass' \in [Workers -> IsPass]
  <2>1. \A p \in {Resting, Finished} : p \in IsPass /\ p.at \in {"idle", "over"} /\ p.todo = <<>> /\ DOMAIN p.todo = {}
    BY RestingIsPass, FinishedIsPass
  <2>2. \A w \in Workers : pass'[w] \in IsPass
    BY <1>2, <2>1
  <2>3. pass' \in [Workers -> IsPass]
    BY <1>1, <2>1
  <2> QED
    BY <1>2, <2>1, <2>3
<1>4. missed \subseteq missed' /\ missed' \subseteq Tickets
  BY <1>1 DEF RecallInv, RecallTypes
<1>5. RecallTypes'
  BY <1>1, <1>3, <1>4 DEF RecallInv, RecallTypes
<1>6. \A t \in Tickets : RowTrue(t)'
  BY <1>1, <1>4 DEF RecallInv, RowTrue
<1>7. \A w \in Workers : PassTrue(pass[w])'
  BY <1>3 DEF PassTrue
<1>8. \A b \in Backfills : Steady(pass[b])'
  BY <1>2, <1>3 DEF Steady
<1>9. Coalesced'
  BY <1>1, <1>2, RestingIsPass DEF Coalesced
<1>10. NudgesKept'
  <2> SUFFICES ASSUME NEW t \in Tickets \ (missed' \cup astride), Recent(t), nudged[t] = state[t]
               PROVE  Pending(pass["reindexing"], t)'
    BY <1>1 DEF NudgesKept, Recent
  <2>1. ~running /\ ~(starting > 0) /\ t \notin missed
    BY <1>1
  <2>2. pass["reindexing"] = Resting /\ again = FALSE
    BY <2>1 DEF RecallInv, Coalesced
  <2>3. Pending(Resting, t)
    BY <2>1, <2>2 DEF RecallInv, NudgesKept
  <2>4. memory[t].at = state[t]
    BY <2>1, <2>2, <2>3, RestingIsPass DEF Pending, Coming
  <2> QED
    BY <1>1, <1>2, <2>4, RestingIsPass DEF Pending, Current
<1>11. NothingSkipped'
  <2>1. \A b \in Backfills : PassesOn(pass[b])'
    BY <1>2, <1>3 DEF PassesOn
  <2>2. ~emptied => Behind(progress.page * PageSize, Resting)'
    BY <1>1, <1>4 DEF RecallInv, NothingSkipped, Behind, Holds, Kept
  <2> QED
    BY <1>1, <2>1, <2>2 DEF NothingSkipped
<1> QED
  BY <1>5, <1>6, <1>7, <1>8, <1>9, <1>10, <1>11 DEF RecallInv

LEMMA EmptyIndexKeeps == ASSUME RecallInv, EmptyIndex PROVE RecallInv'
<1>1. /\ UNCHANGED <<tickets, state, pass, running, again, starting, moved, missed, astride>>
      /\ memory' = [t \in Tickets |-> NotKept] /\ progress' = [page |-> 0, complete |-> FALSE]
      /\ nudged' = [t \in Tickets |-> 0]
      /\ mishaps' \in 0 .. MaxMishaps /\ emptied \in BOOLEAN
  BY SpentOrNot DEF EmptyIndex, RecallInv, RecallTypes
<1>2. /\ emptied' \in BOOLEAN
      /\ ~emptied' => ~emptied /\ \A b \in Backfills : pass[b].at \in {"idle", "over"}
  <2>1. emptied' = (emptied \/ \E b \in Backfills : pass[b].at \notin {"idle", "over"})
    BY DEF EmptyIndex
  <2> QED
    BY <2>1
<1>3. \A t \in Tickets : memory'[t] = NotKept /\ nudged'[t] = 0
  BY <1>1
<1>4. RecallTypes'
  BY <1>1, <1>2, RecallConstants DEF RecallInv, RecallTypes, NotKept
<1>5. \A t \in Tickets : RowTrue(t)'
  <2> SUFFICES ASSUME NEW t \in Tickets PROVE RowTrue(t)'
    OBVIOUS
  <2>1. state[t] \in Nat /\ state[t] >= 1
    BY RecallConstants DEF RecallInv, RecallTypes, RowTrue
  <2> QED
    BY <1>1, <1>3, <2>1 DEF RowTrue, NotKept
<1>6. \A w \in Workers : PassTrue(pass[w])'
  BY <1>1 DEF RecallInv, PassTrue, Was
<1>7. \A b \in Backfills : Steady(pass[b])'
  BY <1>1 DEF RecallInv, Steady
<1>8. Coalesced'
  BY <1>1 DEF RecallInv, Coalesced
<1>9. NudgesKept'
  <2>1. \A t \in Tickets : nudged'[t] # state'[t]
    BY <1>1, <1>3, RecallConstants DEF RecallInv, RecallTypes, RowTrue
  <2> QED
    BY <2>1 DEF NudgesKept
<1>10. NothingSkipped'
  <2>1. progress'.page * PageSize = 0
    BY <1>1, RecallConstants
  <2>2. Behind(0, Resting)'
    BY <1>4, LenProperties DEF Behind, RecallTypes
  <2>3. ~emptied' => \A b \in Backfills : PassesOn(pass[b])'
    BY <1>1, <1>2 DEF PassesOn
  <2> QED
    BY <2>1, <2>2, <2>3 DEF NothingSkipped
<1> QED
  BY <1>4, <1>5, <1>6, <1>7, <1>8, <1>9, <1>10 DEF RecallInv

LEMMA RecallStep == RecallInv /\ [RecallNext]_recallVars => RecallInv'
<1> SUFFICES ASSUME RecallInv, [RecallNext]_recallVars PROVE RecallInv'
  OBVIOUS
<1>1. CASE UNCHANGED recallVars
  BY <1>1, SMTT(40) DEF recallVars, work, history, RecallInv, RecallTypes, RowTrue, PassTrue, Was, Steady, Coalesced,
     NudgesKept, Recent, Pending, Current, Coming, NothingSkipped, PassesOn, Behind, Kept, Holds
<1> QED
  BY <1>1, MoveKeeps, NudgeKeeps, ReindexSoonKeeps, ListRecentKeeps, CompareKeeps, SkipKeeps, EndReindexKeeps,
     ReadThreadKeeps, RememberKeeps, StartBackfillKeeps, ListPageKeeps, RecordPageKeeps, StopAllKeeps, EmptyIndexKeeps
     DEF RecallNext

LEMMA RecallMeans == RecallInv => RecallIsKept
<1> SUFFICES ASSUME RecallInv PROVE RecallIsKept
  OBVIOUS
<1>1. RecallTypeOK
  <2>1. \A w \in Workers :
          /\ pass[w].at \in {"idle", "listing", "comparing", "ticket", "thread", "paged", "over"}
          /\ ToSet(pass[w].todo) \cup pass[w].seen \subseteq Items
    BY AWorker DEF IsPass, ToSet
  <2>2. ToSet(tickets) \subseteq Tickets
    BY ElementOfSeq, LenProperties DEF RecallInv, RecallTypes, ToSet
  <2> QED
    BY <2>1, <2>2 DEF RecallInv, RecallTypes, RecallTypeOK
<1>2. IndexAgreesUndisturbed
  <2> SUFFICES ASSUME NEW t \in Tickets \ missed, memory[t].at = state[t] PROVE memory[t].thread = state[t]
    BY DEF IndexAgreesUndisturbed, TakenForCurrent
  <2>1. RowTrue(t) /\ state[t] \in Nat /\ memory[t].at \in Nat /\ memory[t].thread \in Nat
    BY RecallConstants DEF RecallInv, RecallTypes
  <2> QED
    BY <2>1 DEF RowTrue
<1>3. NoNudgeLost
  <2> SUFFICES ASSUME ~running, starting = 0, NEW t \in ToSet(FirstPage) \ (missed \cup astride), nudged[t] = state[t]
               PROVE  memory[t].at = state[t]
    BY DEF NoNudgeLost
  <2>1. t \in Tickets /\ Recent(t)
    <3>1. RecallTypes /\ RecentSize \in Nat /\ 0 \in Nat /\ 0 + 1 = 1
      BY RecallConstants DEF RecallInv
    <3>2. /\ FirstPage \in Seq(Tickets)
          /\ \A k \in DOMAIN FirstPage : \E i \in DOMAIN tickets : i <= RecentSize /\ FirstPage[k] = tickets[i]
      <4>1. /\ Part(0 + 1, RecentSize) \in Seq(Tickets)
            /\ \A k \in DOMAIN Part(0 + 1, RecentSize) :
                 \E i \in DOMAIN tickets : i <= RecentSize /\ Part(0 + 1, RecentSize)[k] = tickets[i]
        BY <3>1, PageOf, Zenon
      <4> QED
        BY <3>1, <4>1 DEF FirstPage
    <3>3. PICK k \in DOMAIN FirstPage : FirstPage[k] = t
      BY DEF ToSet
    <3>4. t \in Tickets
      BY <3>2, <3>3, ElementOfSeq, LenProperties
    <3> QED
      BY <3>2, <3>3, <3>4 DEF Recent
  <2>2. pass["reindexing"] = Resting /\ again = FALSE
    BY DEF RecallInv, Coalesced
  <2>3. Pending(Resting, t)
    BY <2>1, <2>2 DEF RecallInv, NudgesKept
  <2> QED
    BY <2>2, <2>3, RestingIsPass DEF Pending, Coming
<1>4. NothingLeftBehindUndisturbed
  BY LenProperties, RestingIsPass
     DEF RecallInv, RecallTypes, NothingSkipped, NothingLeftBehindUndisturbed, NothingLeftBehind, Behind, Kept, Holds
<1> QED
  BY <1>1, <1>2, <1>3, <1>4 DEF RecallIsKept

\* The index agrees with the helpdesk, no nudge of it is lost and a backfill leaves
\* nothing behind (recall.go), whatever fails, for any tickets, pages and backfills,
\* but for the tickets the property excepts.
THEOREM RecallKept == RecallSpec => []RecallIsKept
  BY RecallStart, RecallStep, RecallMeans, PTL DEF RecallSpec

=============================================================================
