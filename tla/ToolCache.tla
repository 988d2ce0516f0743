------------------------------ MODULE ToolCache ------------------------------
(***************************************************************************)
(* Answers of one plugin's tools kept within a freshness budget: ToolCache *)
(* of internal/api/cache.go over internal/store/cache.go, the reads that   *)
(* go through it (readTool, invokeTool), and those that empty it:          *)
(* performTool after a change, receiveWebhook, disconnect.                 *)
(*                                                                         *)
(* The connected system is a counter of changes: a fetch answers with its  *)
(* present value.  One action per database statement and per fetch.  The   *)
(* gates in front of a call are Proposals' and are passed here.            *)
(***************************************************************************)
EXTENDS Naturals, FiniteSets

CONSTANTS
  Entries,      \* rows of tool_cache: a tool, a customer, its arguments
  Readers,      \* callers of Do, each with one read at a time
  Writers,      \* calls of tools that change the system, each made once
  MaxChanges,   \* bound: changes of the connected system
  MaxFaults     \* bound: calls and statements that fail

ASSUME CacheBounds == {MaxChanges, MaxFaults} \subseteq Nat

VARIABLES
  world,        \* changes the connected system has seen
  entry,        \* tool_cache: no row, or what was fetched and its age
  reader,       \* the read each reader has in hand
  behind,       \* the background refresh a reader's call started
  inflight,     \* ToolCache.inflight
  writer,       \* where each change is
  told,         \* last change that was answered and made the cache forget
  cacheFaults   \* spent of the bound

cacheVars == <<world, entry, reader, behind, inflight, writer, told, cacheFaults>>

Versions == 0 .. MaxChanges
\* invokeTool, asked for whatever there is or for the present answer; readTool.
Paths == {"invoke", "refresh", "read"}
None == [is |-> FALSE, data |-> 0, age |-> "old", late |-> FALSE]
Rows == {None} \cup [is : {TRUE}, data : Versions, age : {"fresh", "aging", "old"}, late : BOOLEAN]
\* late: the answer was in hand while the cache was told to forget it.
Fetches == [at : {"idle", "asking", "holding", "failed", "mistaken"}, of : Entries,
            data : Versions, late : BOOLEAN]
Idle(e) == [at |-> "idle", of |-> e, data |-> 0, late |-> FALSE]

CacheTypeOK ==
  /\ world \in Versions
  /\ entry \in [Entries -> Rows]
  /\ reader \in [Readers -> [at : {"idle", "looking", "asking", "holding", "failed", "mistaken"},
                             of : Entries, data : Versions, late : BOOLEAN, by : Paths,
                             due : Versions, shown : Versions, answered : BOOLEAN,
                             wrong : BOOLEAN]]
  /\ behind \in [Readers -> Fetches]
  /\ inflight \subseteq Entries
  /\ writer \in [Writers -> {"idle", "changed", "forgotten", "over"}]
  /\ told \in Versions
  /\ cacheFaults \in 0 .. MaxFaults

CacheInit ==
  /\ world = 0
  /\ entry = [e \in Entries |-> None]
  /\ \E e \in Entries :
       /\ reader = [r \in Readers |-> [at |-> "idle", of |-> e, data |-> 0, late |-> FALSE,
                                       by |-> "read", due |-> 0, shown |-> 0,
                                       answered |-> FALSE, wrong |-> FALSE]]
       /\ behind = [r \in Readers |-> Idle(e)]
  /\ inflight = {}
  /\ writer = [w \in Writers |-> "idle"]
  /\ told = 0
  /\ cacheFaults = 0

CacheFault ==
  /\ cacheFaults < MaxFaults
  /\ cacheFaults' = cacheFaults + 1
NoFault == UNCHANGED cacheFaults

-----------------------------------------------------------------------------
(***************************************************************************)
(* A read.                                                                 *)
(***************************************************************************)

\* Do begins: a demand for the present answer skips the look.
Ask(r, e, by) ==
  /\ reader[r].at = "idle"
  /\ reader' = [reader EXCEPT ![r] =
       [@ EXCEPT !.at = IF by = "refresh" THEN "asking" ELSE "looking", !.of = e, !.by = by,
                 !.due = told, !.late = FALSE, !.answered = FALSE, !.wrong = FALSE]]
  /\ UNCHANGED <<world, entry, behind, inflight, writer, told, cacheFaults>>

\* An answer goes to the caller.
Answer(r, row) ==
  reader' = [reader EXCEPT ![r] =
    [@ EXCEPT !.at = "idle", !.answered = TRUE, !.shown = row.data, !.late = row.late,
              !.data = 0, !.by = "read"]]

\* refreshInBackground: one for an entry at a time.  (A bound of the model: a
\* reader starts another only when the one it started before has ended.)
Refresh(r) ==
  LET e == reader[r].of IN
  IF e \in inflight THEN UNCHANGED <<behind, inflight>>
  ELSE /\ behind[r].at = "idle"
       /\ behind' = [behind EXCEPT ![r] = [Idle(e) EXCEPT !.at = "asking"]]
       /\ inflight' = inflight \cup {e}

\* Within the soft budget the row is the answer.
LookFresh(r) ==
  /\ reader[r].at = "looking" /\ entry[reader[r].of].is
  /\ entry[reader[r].of].age = "fresh"
  /\ Answer(r, entry[reader[r].of])
  /\ UNCHANGED <<world, entry, behind, inflight, writer, told, cacheFaults>>

\* Within the hard one it is, and somebody goes for a newer one.
LookAging(r) ==
  /\ reader[r].at = "looking" /\ entry[reader[r].of].is
  /\ entry[reader[r].of].age = "aging"
  /\ Answer(r, entry[reader[r].of])
  /\ Refresh(r)
  /\ UNCHANGED <<world, entry, writer, told, cacheFaults>>

\* No row, too old a row, or a row that cannot be read: the caller waits.
LookMiss(r) ==
  /\ reader[r].at = "looking"
  /\ \/ ~entry[reader[r].of].is /\ NoFault
     \/ entry[reader[r].of].age = "old" /\ NoFault
     \/ entry[reader[r].of].is /\ CacheFault
  /\ reader' = [reader EXCEPT ![r].at = "asking"]
  /\ UNCHANGED <<world, entry, behind, inflight, writer, told>>

\* The plugin answers, does not, or says the caller was mistaken: invokeTool
\* tells Do which it was, askPlugin does not.
Fetch(r) ==
  /\ reader[r].at = "asking"
  /\ \/ /\ reader' = [reader EXCEPT ![r] = [@ EXCEPT !.at = "holding", !.data = world]]
        /\ NoFault
     \/ reader' = [reader EXCEPT ![r].at = "failed"] /\ CacheFault
     \/ /\ reader' = [reader EXCEPT ![r] =
             [@ EXCEPT !.at = IF reader[r].by = "read" THEN "failed" ELSE "mistaken", !.wrong = TRUE]]
        /\ CacheFault
  /\ UNCHANGED <<world, entry, behind, inflight, writer, told>>

Row(f) == [is |-> TRUE, data |-> f.data, age |-> "fresh", late |-> f.late]

\* PutCached and the answer; a row that cannot be written costs nothing.
Put(r) ==
  /\ reader[r].at = "holding"
  /\ \/ entry' = [entry EXCEPT ![reader[r].of] = Row(reader[r])] /\ NoFault
     \/ UNCHANGED entry /\ CacheFault
  /\ Answer(r, [Row(reader[r]) EXCEPT !.late = FALSE])
  /\ UNCHANGED <<world, behind, inflight, writer, told>>

\* An outage is bridged by whatever row there is, a mistake is not.
FallBack(r) ==
  /\ reader[r].at \in {"failed", "mistaken"}
  /\ IF reader[r].at = "failed" /\ entry[reader[r].of].is
     THEN Answer(r, entry[reader[r].of])
     ELSE reader' = [reader EXCEPT ![r] =
            [@ EXCEPT !.at = "idle", !.data = 0, !.by = "read", !.wrong = FALSE]]
  /\ UNCHANGED <<world, entry, behind, inflight, writer, told, cacheFaults>>

-----------------------------------------------------------------------------
(***************************************************************************)
(* A refresh behind a read.  The mark goes when it ends, however it ends.  *)
(***************************************************************************)

\* The deferred delete.
Unmark(r, failed) == inflight' = inflight \ {behind[r].of}

RefreshFetch(r) ==
  /\ behind[r].at = "asking"
  /\ \/ /\ behind' = [behind EXCEPT ![r] = [@ EXCEPT !.at = "holding", !.data = world]]
        /\ UNCHANGED inflight /\ NoFault
     \/ /\ behind' = [behind EXCEPT ![r] = Idle(@.of)]
        /\ Unmark(r, TRUE) /\ CacheFault
  /\ UNCHANGED <<world, entry, reader, writer, told>>

RefreshPut(r) ==
  /\ behind[r].at = "holding"
  /\ \/ entry' = [entry EXCEPT ![behind[r].of] = Row(behind[r])] /\ NoFault /\ Unmark(r, FALSE)
     \/ UNCHANGED entry /\ CacheFault /\ Unmark(r, TRUE)
  /\ behind' = [behind EXCEPT ![r] = Idle(@.of)]
  /\ UNCHANGED <<world, reader, writer, told>>

-----------------------------------------------------------------------------
(***************************************************************************)
(* Forgetting.                                                             *)
(***************************************************************************)

\* What InvalidateCache leaves: the rows it names are gone, and whoever has
\* one of them in hand has an answer from before.
Forget(S) ==
  /\ entry' = [e \in Entries |-> IF e \in S THEN None ELSE entry[e]]
  /\ reader' = [r \in Readers |-> IF reader[r].at = "holding" /\ reader[r].of \in S
                                  THEN [reader[r] EXCEPT !.late = TRUE] ELSE reader[r]]
  /\ behind' = [r \in Readers |-> IF behind[r].at = "holding" /\ behind[r].of \in S
                                  THEN [behind[r] EXCEPT !.late = TRUE] ELSE behind[r]]

\* Mutant: a change makes the cache forget the tool that wrote, which has no rows.
ScopeOfWriter == {}

\* performTool: the whole plugin, whoever wrote.
ScopeOfChange == Entries

\* Somebody changes the connected system, in it.
Change ==
  /\ world < MaxChanges
  /\ world' = world + 1
  /\ UNCHANGED <<entry, reader, behind, inflight, writer, told, cacheFaults>>

\* performTool asks the plugin: the change is made, and its answer arrives or
\* is lost together with all that would have followed.
Write(w) ==
  /\ writer[w] = "idle" /\ world < MaxChanges
  /\ world' = world + 1
  /\ \/ writer' = [writer EXCEPT ![w] = "changed"] /\ NoFault
     \/ writer' = [writer EXCEPT ![w] = "over"] /\ CacheFault
  /\ UNCHANGED <<entry, reader, behind, inflight, told>>

\* invokeTool called by name with a tool that changes things: it is asked and
\* answered, and nothing is forgotten or announced.
Invoke(w) ==
  /\ writer[w] = "idle" /\ world < MaxChanges
  /\ world' = world + 1
  /\ writer' = [writer EXCEPT ![w] = "over"]
  /\ UNCHANGED <<entry, reader, behind, inflight, told, cacheFaults>>

\* InvalidateCache after a change; a failure is only logged.
AfterChange(w) ==
  /\ writer[w] = "changed"
  /\ writer' = [writer EXCEPT ![w] = "forgotten"]
  /\ \/ Forget(ScopeOfChange) /\ told' = world /\ NoFault
     \/ UNCHANGED <<entry, reader, behind, told>> /\ CacheFault
  /\ UNCHANGED <<world, inflight>>

\* The change is announced, and its caller answered.
WriteAnswered(w) ==
  /\ writer[w] = "forgotten"
  /\ writer' = [writer EXCEPT ![w] = "over"]
  /\ UNCHANGED <<world, entry, reader, behind, inflight, told, cacheFaults>>

\* receiveWebhook for one tool, or disconnect for one customer.
ForgetSome(S) ==
  /\ \/ Forget(S) /\ NoFault
     \/ UNCHANGED <<entry, reader, behind>> /\ CacheFault
  /\ UNCHANGED <<world, inflight, writer, told>>

\* Time passes.
Age(e) ==
  /\ entry[e].is /\ entry[e].age # "old"
  /\ entry' = [entry EXCEPT ![e].age = IF @ = "fresh" THEN "aging" ELSE "old"]
  /\ UNCHANGED <<world, reader, behind, inflight, writer, told, cacheFaults>>

\* PruneCache; the retention is longer than any hard budget.
Prune(e) ==
  /\ entry[e].is /\ entry[e].age = "old"
  /\ entry' = [entry EXCEPT ![e] = None]
  /\ UNCHANGED <<world, reader, behind, inflight, writer, told, cacheFaults>>

ReadStep(r) == LookFresh(r) \/ LookAging(r) \/ LookMiss(r) \/ Fetch(r) \/ Put(r) \/ FallBack(r)
RefreshStep(r) == RefreshFetch(r) \/ RefreshPut(r)

-----------------------------------------------------------------------------
(***************************************************************************)
(* Properties.                                                             *)
(***************************************************************************)

Answered(r) == reader[r].at = "idle" /\ reader[r].answered

\* "what comes back after an edit is what the edit made" (proposals.go): a
\* read that began after a change was answered shows that change.
ReadsSeeWrites == \A r \in Readers : Answered(r) => reader[r].shown >= reader[r].due

\* It does unless the row it was shown was fetched before the cache was told to
\* forget and stored after: whatever fails, whatever is refreshed behind it.
ReadsSeeWritesUndisturbed ==
  \A r \in Readers : Answered(r) => reader[r].shown >= reader[r].due \/ reader[r].late

\* Do: "a caller error is not an outage and gets no such kindness": nobody is
\* shown a row of the cache in place of being told that they asked wrongly.
MistakesAreTold == \A r \in Readers : ~(Answered(r) /\ reader[r].wrong)

\* Twenty callers of an ageing entry make one call: an entry is refreshed by
\* one goroutine at most, and is marked exactly while one runs, so that a failed
\* refresh never keeps it from being refreshed again.
OneRefreshEach ==
  \A e \in Entries :
    Cardinality({r \in Readers : behind[r].at # "idle" /\ behind[r].of = e})
      = IF e \in inflight THEN 1 ELSE 0

=============================================================================
