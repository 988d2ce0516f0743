# Azir in TLA+

Models, model checks and machine-checked proofs of Azir (`src/`), the program a
managed-service company runs to look into its customers' helpdesk and telephone
systems and to change them. Everything it changes belongs to somebody else's
system and goes over the wire: a scheduled job, a change an assistant proposed, a
sheet of extensions, a form. Nearly everything that can go wrong happens between
two statements of a handler: another click, a redelivered message, a client that
goes away, a page that was read before somebody else wrote, a process that dies.

## Running it

    tlc -workers 2 -config JobScheduler_safety.cfg MCJobScheduler
    tlapm JobSchedulerProofs.tla

`PROJECT.json` lists the components, the runs, for every property of a run a
mutant of the code that the run catches by it, the source lines behind each
definition, the hazards, the findings and the theorems.

## The system, by component

`internal/api` is the HTTP surface: a handler looks at its gates, moves rows of
Postgres (`internal/store`) and asks a plugin over NATS (`pkg/plugin` is the
plugins' side of it; `cmd/plugin-*` are the plugins). Browsers and webhooks call
it. `cmd/azir-core/main.go` starts everything, runs the sweeps, and dies and
comes back; only rows and streams survive.

| Component | State | Operations | What is hard | What makes it correct | Module |
|---|---|---|---|---|---|
| Job scheduler (`internal/scheduler`, `store/jobs.go`, `api/jobs.go`) | `scheduled_jobs`; timers and firings in the stream AZIR_JOBS | create, cancel, arm, disarm, fire, run, finish, sweep, reconcile | at-least-once delivery, crashes anywhere, a row and a timer that disagree | one change per claim; a true record; nothing after a cancellation; no promise without a timer | `JobScheduler` |
| Proposals (`api/proposals.go`, `store/proposals.go`) | `proposed_changes` | stage, apply, discard, fail, delete | two people pressing Apply, gates shut meanwhile, clients that leave, answers that time out | one change per proposal; what people are told is so; a shut gate stops it | `Proposals` |
| Gates on a write (`api/api.go` mayUse) | write switch, approvals, permissions | putWrites, decideCapability | a gate shut between the look and the call | no change past a gate that was shut before the last look | `Proposals`, `Settings`, `Registry` |
| Bulk edits (`api/bulk.go`, `api/phone.go`, `store/bulk.go`) | `bulk_edits`, the plan | compare, apply row by row and batch by batch, cancel, expire | many calls before one decision; overlapping requests | decided once; unticked rows left alone; a true report | `BulkEdits` |
| Comparison of a sheet (`internal/bulk`) | a plan and its undo; a file of numbers | Build, Choose, disambiguate, revert; ParseDIDs | blank cells, numbers for new rows, an address nobody else may have, a console in between | the undo puts back what was changed and nothing else; every number of a file arrives or is refused by its line | `Sheets`, `NumberSheets` |
| Tool cache, webhooks (`api/cache.go`, `api/webhooks.go`, `store`) | `tool_cache`, refreshes in flight, `webhook_endpoints` | read, refresh behind, forget after a write or a delivery, rotate the address | a read that began before a write and ends after its forgetting | what is served shows what was written before the asking, unless a read was in hand | `ToolCache`, `Webhooks`, `Screens` |
| Live updates (`api/live.go`, `web/src/live.ts`) | watchers and their queues, the browser's timers | announce, watch, stream, poll | dropped bursts, broken streams, one time of the last push for every subject | a screen is right in the end, unless it keeps hearing of other things | `Live`, `Screens` |
| Recall index (`api/recall.go`, `store/recall.go`) | `ticket_memory`, `recall_progress` | backfill, reindex, nudge, clear | no single flight, tickets that move from page to page | nothing is left behind but what failed or moved | `Recall` |
| Helpdesk plugin (`cmd/plugin-syncro`, `internal/syncro`) | access and health kept for minutes | reads, writes with retries, pages put together | a write done and its answer lost; a token that changes under a check; pages that shift | posted once; health is the saved token's; a history says when it is not whole | `Syncro`, `Histories` |
| Credential vault and settings (`internal/vault`, `store/credentials.go`, `plugin_config.go`, `api/settings.go`, `pkg/plugin/vault.go`, `config.go`) | sealed rows, master keys, settings, the plugin's caches | put, open, delete, rotate, save, switch, notice | Rotate against Put; two saves of one form; an old value in a cache | what was put opens; what was saved is what is used | `Settings` |
| Accounts and sessions (`store/users.go`, `sessions.go`, `roles.go`, `api/people.go`, `auth.go`) | users, roles, sessions | first-run setup, sign in and out, account calls | check-then-act across requests | somebody stays in charge; an old password opens nothing once its sessions were ended | `Accounts` |
| Single sign-on (`internal/oidc`, `api/oidc.go`, `store/authconfig.go`) | `auth_config`, states, the provider's cache | start, callback, save | callbacks repeated, settings that change under them | one session to an attempt; nobody is judged by old settings | `SignOn` |
| What Azir holds, audit trail (`store/customers.go`, `data.go`, `api/data.go`, `internal/audit`) | customers, links, connections, the trail in a stream and a table | connect, disconnect, clear, reset, record, mirror | a read beside a disconnection; redelivery | what was severed stays so, where the plugin was told; somebody can sign in; done is on record once | `Holdings` |
| Plugin registry, supervisor (`internal/registry`, `internal/supervisor`, `store/capabilities.go`) | snapshot of tools, processes, `capabilities` | sweep, observe, decide, forget, restart | a sweep that writes over what people decide | a decision stands | `Registry` |
| Assistant and conversations (`internal/assistant`, `api/chat.go`, `store/assistant.go`) | conversations, messages, settings | send, look up, answer, delete | a model that repeats itself; a chat deleted under it | it comes to an end; what was typed is kept | `Conversation` |
| Telephone plugin, forms (`cmd/plugin-3cx/main.go`, `extensions.go`, `api/extensions.go`) | objects the phone system takes whole | update, options, create, delete, keys | read, change and write back beside others; lost answers | nothing is changed that nobody asked for, unless it was changed under the tool; what is said is so | `PhoneForms`, `Keys`, `Listings` |
| Numbers of a trunk (`trunks.go`, `api/dids.go`) | one array per trunk; inbound rules | list, preview, import | the screen is compared with a kept list, and old when the import runs | one rule per number; nothing is repointed that a screen that was right did not show | `Trunks` |
| Closures (`schedule.go`, `api/schedule.go`) | the closures of a phone system | add, remove | days compared by the calendar, across new year | no two on one day | `Closures` |
| Way to a phone system (`main.go`) | one token per customer | connect, request, status | a token that lapses or is for another address | a request goes to the address saved; a status is of it and says what is amiss | `PhoneLine` |
| Diagnostic captures (`api/snapshots.go`, `store/snapshots.go`, `retention.go`) | `snapshots` | upload, pull, file, keep, let go, delete, read, sweep | a sweep, a reader and a reset beside all of it | with its owner, read by nobody else, gone when due | `Captures` |
| Plugin SDK (`pkg/plugin`) | one endpoint per tool | calls in line, retries, health, caches | | | in `Syncro`, `Settings`, `Registry` |
| HTTP surface, throttle, other plugins, diagnostics parsing, the web pages | | | | | not modelled, see below |

They meet in a few places, and those are composed: deliveries, cache, live
updates and browsers in `Screens`; accounts and sign-on share `users`, so `SignOn`
extends `Accounts`; rows and the
promise they make in the two refinements below. The rest share the process and
the two systems outside, of which each has its own objects.

## Modules

Each module's header names the files it is about. One action is one database
statement, one request or one critical section, because something else can come
between any two; a transaction is one action. The lines behind each definition
are in `PROJECT.json`.

- `OneChangePerClaim`: the abstract promise. A row is claimed before the change
  goes out, and a claim is good for one change ("the claim is what turns
  at-least-once delivery into at-most-one change", `scheduler.go`).
  `JobScheduler` and `Proposals` both implement it, under a refinement mapping:
  the state of a row is open, claimed or closed, and the tickets are the
  handlers that may still make the change.
- `JobScheduler`: the rows are `status`, `result`, `lastSeq`; the stream is
  `armed`, `firing`, `deliveries`, `seq`; the consumer's callback is `inbox`,
  `work`, `held`; requests in progress are `create` and `cancel`; startup is
  `boot`, `todo`. `CreateJob`, `ArmCreated`, `DeleteUnarmed` are createJob;
  `PurgeTimer`, `PurgeFiring`, `CancelRow` are cancelJob; `FireClaimed` to `Ack`
  are fire; `Restart` to `ReconcileDone` are main and Reconcile.
- `Proposals`: `phase[r]` is where request r's decideProposal is; `status` is the
  row; `open`, `available` and `stopped` are the gates, the registry and the
  memory of when a gate was shut; `inflight` is a tool call on its way.
- `BulkEdits`: one sheet. `status`, `plan`, `outcome` are the row; `phase`,
  `todo`, `ok`, `problem` are an applyBulk in progress; `landed` is what the
  phone system really took.
- `ToolCache`: `reader[r]` is a readTool or invokeTool, `behind[r]` the refresh it
  started, `inflight` the set that keeps refreshes single; the connected system is
  a counter of changes. `Webhooks`: a delivery between its lookups, and the calls
  that read or rotate an address. `Live`: announcement window, watcher queues,
  and live.ts in the browser, with what its screens listen for (`Watched`) and what
  else is announced (`AnnounceElsewhere`: pages of a backfill, captures): `pushed` is
  set by both, `wants` by the first only. `Screens` joins them.
- `Recall`: `pass[w]` is the work a backfill or the reindexing has in hand, and
  `running`, `again`, `starting` the coalescer of reindexSoon.
- `Syncro`: `order[o]` is a call with its retries, in line at its tool; `check[k]`
  the preflight of the guard and of the health; `health`, `access` what is kept
  of them. `Histories`: `view` is the answer being put together, while `thread`,
  `booked`, `pile` and `owed` change on the helpdesk. `pile` is in the order the
  helpdesk gives tickets, the one last touched first (`Touch`), and a message's
  origin is who wrote it, what its subject says and whether it has a name.
- `Settings`: a row of credentials with the data key it was sealed with and the
  master key that wraps it; `changer[a]` is an administrator's request between
  its statements; `kept`, `call`, `notices` are the plugin's SDK.
- `Accounts`: `users`, `manages` (roles), `visit[v]` (a browser's sign-in and
  session), `request[r]` (an account call and what it read), `setup`. `SignOn`
  adds `attempt`, `coming`, the provider's cache and the settings. `Holdings`:
  `doing[k]` a call, `stream` and `log` the trail, `kept` and `known` what an
  answer or a plugin still has of a connection; a call whose announcement is lost
  is answered like another, and its customers are `adrift`.
- `Registry`: `process`, `delay` (supervisor), `sweep`, `offered` (the snapshot),
  `decision` (capabilities).
- `Conversation`: `ask[a]` is a sendMessage with the loop of lookups, `chat` the
  two tables, `reached` how often a plugin answered each lookup of a question.
- `PhoneForms`: `job[<<c, t>>]` is tool t on behalf of technician c, part by part;
  `user` is the phone system, a value being who set it. `Listings`: `reading[r]`
  between its pages. `Keys`: the layouts, written whole. `Trunks`: `import[i]`
  and the array and rules it merges into, and `listKept`, the answer of the cache that
  a screen is compared with. `Closures`: `plan[p]` between the
  reading and the adding. `PhoneLine`: one lock and a token per customer.
  `Sheets`: a plan and its undo, row by row; a value is a tuple. `NumberSheets`:
  ParseDIDs, a row at a time. `Sifting`: the loop that keeps some of a slice, which
  `NumberSheets` and `Histories` both run. `Captures`: `taking[k]`, first a request,
  then its row.
- `MC*`: constants for TLC, and for the modules that are checked together the
  parts a behaviour chooses from. `*Proofs`: theorems.

## Runs

Twelve runs, one for each question. `helpdesk_safety`, `people_safety`,
`office_safety` and `phone_safety` put several modules side by side: a behaviour
chooses one part at the beginning, the rest stands still, so each part is checked
to its own bounds without multiplying them.

| Run | Parts and bounds | Shows |
|---|---|---|
| scheduler_safety | one job, a one-shot or a repeating one; timers of a repeating job to stream sequence 2, three deliveries, two crashes, one failed request | `JobsAreKept`, `NoChangeAfterCancel`, `HistoryIsFinal`, and that it implements `OneChangePerClaim` |
| scheduler_live | the same, nothing fails, fairness | `PromiseKept`, late work missed, everything settles |
| scheduler_stranded | no crash, no fault | violated: a refused cancellation disarms a repeating job |
| proposals_safety | one change, three requests, two gate moves, one crash, one fault, one client leaving | `ProposalsAreKept`, `AnswersAreTrue`, `KillSwitchHolds`, and that it implements `OneChangePerClaim` |
| proposals_disconnect | one request, one client leaving | violated: applied without a change |
| bulk_safety | an extension to remove and one with a row and options, three requests, one crash, one fault, one client leaving | `SheetIsKept`, `OneIsTold`, `DecisionIsFinal`, `WrittenOnceUndisturbed` |
| helpdesk_safety | cache and forgetting (one entry, two readers, one writer, one change, one fault); addresses (three calls); recall (two tickets on pages of one, two backfills beside the reindexing, one move, one failure); writes (two calls, one retry, two outages); tokens (two tokens, one save); timeline (at most two messages and two blocks of time at first) and lists (pages of two, tickets touched and new, two things done meanwhile) | `ScreensAreTrue`, `RecallIsKept`, `PostedOnceUndisturbed`, `TokensAreKept`, `HistoriesAreKept` |
| screens_live | one browser, two subjects of which its screen listens for one, and one of three troubles: a message, a stream or a statement is lost (one change, one delivery); two deliveries within one window (two changes); the other subject keeps changing; fairness | `ScreensCatchUp` |
| people_safety | setup (two calls), people and roles (two accounts, two browsers, two calls, two passwords, one role), sign-on and settings (two subjects, two addresses, one attempt, one save), tidying and trail (two customers, two calls, one read, one loss) | `PeopleAreSafe`, `SettingsTakeEffect`, `HoldingsAreKept`, `SomebodyCanSignInUndisturbed` |
| office_safety | vault, form, plugin (three requests, two secrets, two master keys, one failure, two reads); registry (two plugins, one crash, one fault); chat (two questions, limits of two); lists (numbers to 3, pages of two, two edits); keys (two phones, four layouts); files (up to two rows under any heading); line (two phone systems, ten conditions of phones, trunks, licence and the rest, two calls, four ticks) | `SettingsAreKept`, `DecisionsStand`, `ChatIsKept`, `ListsAreWhole`, `KeysAreKept`, `FilesAreRead`, `LinesAreKept` |
| office_reads | the lists, one reader, fairness of its steps | violated: falling back to the plain list never ends |
| phone_safety | forms (one number, two technicians, seven sets of fields, one mishap); trunks (two imports, one of them from a screen, the second with no longer a file than the first, a list that was kept before); closures (years of two days, two years, two planners, one of whom may leave out a year or turn the dates round where nothing goes wrong, single days added at the console); sheets (numbers to 4, two rows, one thing done at the console); captures kept (to time 3) and whose (two customers, one address, one reader, one handling) | `FormsKeepTheirWord`, `OnlyAsked`, `TrunksKeepTheirWord`, `NumbersMoveAsShown`, `ClosuresAreKept`, `SheetsKeepTheirWord`, `UndoTouchesOnlyTheSheet`, `CapturesStay` |

Why the bounds are enough. Each property is about one row, entry, sheet, trunk or
call and those that meet about it; things of one kind share nothing but the
process. Two actors are the pair that races, a third (requests of a proposal or
a sheet, readers of an address) comes before or after. Two crashes allow one
while recovering from the first; one failure at any statement is the partial
failure, and a lost answer counts as one. Pages of one or two rows with one row
more put every row on every side of a page's end. `MaxDeliver` is the code's own.
The theorems below say it for all values where there is one.

Actors that are alike are looked at in one order: by SYMMETRY in `bulk_safety`
and `proposals_safety` (no run with SYMMETRY has a liveness property), by
conjuncts of the MC modules elsewhere. Deadlock is not checked: with their
bounds spent the models stop, as the program does when nobody asks for anything.

## Fairness

- `scheduler_live`: weakly fair are the NATS server's firing and delivery, the
  clock, the consumer, the sweep (a ticker), Reconcile, restart after a crash
  (compose.yaml: `restart: unless-stopped`), and the next step of a request that
  has started, since every call in it has a timeout. Creating, cancelling,
  crashing and failing are never assumed.
- `screens_live`: weakly fair are the steps of a read and of a refresh that have
  begun (each has a timeout), the passing of time that ages an entry and a push,
  and of the browser (`live.ts`) its timer for polling and that it asks again
  for what it was told or what it polls. Deliveries, announcements and
  connections are not assumed to arrive.
- `office_reads`: the next page of a read that has begun.

## Findings

The three runs that expect a violation:

1. `RefusedCancelKeepsPromise` (`api/jobs.go:223`): cancelling a repeating job
   while it runs answers 409 and yet takes its timer away.
2. `AppliedMeansChanged` (`api/proposals.go:141`): a client that leaves after
   the claim leaves an applied row and no change.
3. `ReadsEnd` (`api/phone.go:145`): where the settings of extensions cannot be
   read, phoneNow, currentExtensions and extensionSettings call each other
   without end.

Where a checked property keeps less than a comment of the code promises, it
excepts by name the case in which the code does not keep it:

| The code says | What it does | Property, and the exception |
|---|---|---|
| "a slow poll stays as a floor" under push (`live.ts:31`) | `lastPush` is set by every message before subjects are looked at, so while what a screen does not show keeps changing its poll stands down (`live.ts:36`, 42, 51) | `ScreensCatchUp`, a page that hears of other things for ever (`HearsElsewhere`) |
| changing a password "is not a password change if the old session keeps working" (`people.go:191`) | `EndSessionsFor` that fails is logged and answered with ok (`people.go:195`); a sign-in between its two statements makes its session afterwards | `OldPasswordOpensNothing`, `spared` and `late` |
| "the rows are gone and the connection still works — which is exactly what a disconnect must not look like" (`api.go:582`) | an announcement that is not published is logged and the call answers 200 (`settings.go:92`, `api.go:585`): the plugin goes on with what it keeps until that lapses | `SeveredIsSevered`, `adrift` |
| the preview is "compared against what the phone system says right now, and a person approves the difference" (`dids.go:25`) | the trunks come from the tool cache: as they were up to two minutes ago, up to half an hour while they are read anew behind it, and older when the phone system does not answer (`dids.go:83`, `proposals.go:296`, `cache.go:75`) | `MovedAsShown`, a screen that was not given the rules as they were (`current`) |
| the open ticket from three months ago is "the one most worth finding" (`client.go`, `SearchTickets`) | an open ticket somebody writes to while the search is between two pages comes to the front, is passed by, and the answer does not say so (`client.go:225`) | `OpenAreFound`, tickets that were touched (`were`) |
| "which side a message came from is what makes back and forth mean anything" (`timeline.go`) | a technician's message is taken for a customer's when its subject says customer or no name is on it (`timeline.go:397`) | `SignalsAreTrueUndisturbed`, `Filed` and `Taken` |

Met while modelling as well, and named in the modules by a property no run checks or by
an exception:

- Scheduler: Reconcile that cannot read its list is followed by the consumer all
  the same, so late work is performed (`main.go:355`; `LateWorkIsMissed` is
  checked while nothing fails). One failed run ends a repeating job
  (`store/jobs.go:232` against 24; `RepeatingOnlyEndsByCancel`).
- Bulk edits: two clicks on Apply write twice, only the recording is fenced
  (`bulk.go:218`; `WrittenOnce`). The options' answer overwrites the PIN's
  (`bulk.go:420`; `OkMeansPinSet`).
- People: two administrators who demote or remove each other both pass the check,
  and the second opens first-run setup again (`SomebodyInCharge`). An address can
  be linked to another account (`LinkIsKept`). A sign-in that read the settings
  before they were saved hands them to those after it (the exception of
  `SettingsTakeEffect`).
- Credentials: a value put between a rotation's scan and its update never opens
  again (`CredentialsOpen`), and a save of the form writes the switch back that it
  read (`SwitchIsKept`).
- Cache: a read that began before a change can store its answer after it
  (`ReadsSeeWrites`), and a caller's error is answered with an old row where there
  is one (`MistakesAreTold`).
- Helpdesk: a write is sent again after a lost answer (`PostedOnce`); what a token
  may read is remembered past a save (`GuardFollowsSave`); timers
  beyond the first page of everybody's are missing from a timeline without a
  note; timestamps of several zones are sorted as text.
- Recall: backfills, reindexing and clearing race over one resume point and over
  the same rows (`IndexAgrees`: a row can be taken for current and have an older thread).
- Telephones: an undo cannot empty what was empty (`UndoPutsBackAll`) and does not remove
  what it created where a console was in between (`UndoRemovesItsOwn`); two new
  rows can be told the same number (`EachGetsItsOwnNumber`); making an extension can
  change one that is there (`CreateChangesNobody`);
  a closure is refused for one it does not meet (`schedule_test.go:101`;
  `RefusedForAReason`), and a closure of more than a year is compared without its
  middle; a copy of a layout with a gap moves keys (`CopiesKeepTheirPlaces`); a
  removal of several counts the batch, not the answers; deleteRingGroup looks at
  the first hundred groups only.
- Captures: the screen says what the retention is now, stored captures keep the
  one they were stored under (`ScreenSaysWhen`).
- Assistant and audit: failing lookups are not remembered; partial failures of a
  sheet leave no trail; an event that is not inserted after five tries is given up.
- Supervisor: a health sweep without a deadline waits for a plugin that is alive and
  mute, so later sweeps wait too (`SweepsGoOn`); Discover says "first definition
  wins" and returns an error.

## What is proved

For every value of the constants, from the assumptions the modules name and nothing
else. The assumptions say that bounds and limits are naturals (where the code divides
by or counts down from one, positive), that a name that stands for "nobody" or "none"
is not somebody's, and these few of substance: a repeating job is a job
(`JobsAssumption`); a whole row of a sheet is not also an options row
(`RowsAssumption`); the tickets and the customers are finitely many (`RecallBounds`,
`CapturesAssumption`); there is a name for a closure (`CalendarAssumption`); "none"
and "blank" are no extensions (`FilesAssumption`); what somebody types in a sheet has
at most one extension in it, and no phone system has the value that stands for "not
asked" (`ValuesAssumption`); a key layout is sent by itself (`FormsAssumption`); the
layouts extensions have are what `Parse` makes of the phone system's, whose buttons
are numbered from one, a key each (`KeysAssumption`); a token lives longer than the
margin, a licence has a whole number of hours left, and no more phones and trunks are
registered than there are (`PhoneLineAssumption`); what screens listen for is
announced (`LiveBounds`); and what is asked of a list has the shape its tool demands:
two ends for a range, a number for a ring group (`ListingsAssumption`). A file has a
first line, and the tail of a block is no longer than the digits it is written with
(`CellsAssumption`). The messages on a ticket are in the order they were written
(`ThreadsAssumption`).

| Module | Theorems |
|---|---|
| `ChangesProofs` | `OnceOnly` of `OneChangePerClaim`: work that happens once changes the outside at most once; `UndoTruly` (`SheetsKeepTheirWord`) and `UndoIsNarrow` of `Sheets`; `FilesRead` (`FilesAreRead`) of `NumberSheets`; `HistoriesKept` (`HistoriesAreKept`) of `Histories` |
| `JobSchedulerProofs` | type correctness, `RunnerOwns`, `FiringOnce`, `OneShotOnce`, `RecordTruthful`, `CancelHolds` (`NoChangeAfterCancel`), `HistoryStays` (`HistoryIsFinal`), `JobsKept` (all of `JobsAreKept`), `PromiseHolds` (`PromiseKept`), `LateIsMissed`, `Implements`: the scheduler is a `OneChangePerClaim` |
| `ProposalsProofs` | type correctness, `OnlyApproved`, `AnswersTrue`, `RefusalRetryable`, `KillSwitch`, `RecordTrue`, `ProposalsKept` (all of `ProposalsAreKept`), `Implements` |
| `BulkEditsProofs` | type correctness, `DecisionStays`, `UntickedLeftAlone`, `OkIsWritten`, `EveryRowReported`, `ToldOnceOnly`, `SheetKept` (all of `SheetIsKept`), `WrittenOnceAlone` |
| `OfficeProofs` | `SettingsKept`, `DecisionsKept`, `ChatKept`, `ListsKept`, `KeysKept`, `LinesKept` |
| `PeopleProofs` | `PeopleSafe` and `SettingsInForce` of accounts and sign-on together; `HoldingsKept`, `SomebodyCanSignIn` |
| `HelpdeskProofs` | `ScreensKept` of cache, addresses, live updates and browsers together; `PostedOnceKept`, `TokensKept`, `RecallKept` |
| `PhoneProofs` | `CapturesKept`, `ClosuresKept`, `FormsKept`, `OnlyAskedIsWritten`, `TrunksKept`, `NumbersKept` |

Each goes the same way: an inductive invariant, checked by TLC on small instances
before it was proved, holds at first, is kept by every action (one lemma to an
action), and says what the property says. What the invariants know beyond the
properties, and why they must:

**Scheduler** (`TypeOK /\ NoRowBeforeCreate /\ ClaimFences /\ CancelledStays /\
OnceInv`). `FiringChangesOnce` alone is not inductive: a claim must know that the last
change was made by a firing no younger than `lastSeq` (`ClaimFences`).
`OneShotChangesOnce` needs to know what each status says of the change so far
(`OnceInv`), including the moment between the change and FinishJob. `CancelledStays`
connects the request's answer with the row, and `NoRowBeforeCreate` says that no row
is claimed before it exists.

`PromiseHolds` and `LateIsMissed` are proved where no request, statement or publish
fails (`MaxFaults = 0`) and a firing is delivered at all (`MaxDeliver > 0`), with any
number of crashes. A failed request may leave a row that nothing re-arms before the
next start, and what a refused cancellation does (`scheduler_stranded`) is excepted
in `PromiseKept` itself. A row that promises work has a timer or a firing that its
claim will not refuse, or is on Reconcile's list (`PromiseOrTodo`); a repeating job
keeps its timer through its runs (`RepeatingStaysArmed`), what is acknowledged of a
one-shot is old (`AckedIsOld`), and a dead process has nothing in hand
(`DownIsQuiet`). What was overslept stays on that list until it is called missed
(`OversleptInv`).

**Proposals** (`TypeOK /\ Stages /\ OneClaimant /\ ChangeSoFar /\ GateKept /\
ClaimantKnown /\ RefusalDecidesNothing`). Which phases a request's wish allows, that
at most one request is past the claim, what the row's status says of the changes made
so far, and that a claimant past its look has not seen the gate shut. Both refinements
then go action by action: each step of the handlers is a step of the promise or leaves
the mapped state alone.

**Bulk edits.** To the types (`Sound`) what a request in each phase has written and
noted of each row: `RowsSoFar` while it goes row by row, `BatchesSoFar` afterwards.
The report is true only because the second follows from the first when the rows are
done, and survives the secrets only thanks to `NoSecretYet`: their answers add to ok
every row that is no problem yet. `OneIsTold` has an invariant of its own, `ToldOnce`,
and so has `WrittenOnceUndisturbed`: while requests do not overlap and none is cut
short, one request at most is at the sheet, and what it has written is what it noted,
so that an application after it finds those rows settled (`AtItAlone`, `Alone`).

**Sheets** (`SheetsInv`). While nobody else is at the phone system, what a value was
before a plan is what its undo will set, and what differs from the origin is in a row
of the plan (`OriginKept`, `Undisturbed`); what is to be made is not there, or the
sheet or the console has made it since (`CreatesFine`); and a row of the undo goes
back over one that went through (`UndoFine`). That a batch stages no address twice
goes over disambiguate's walk along the extensions (`ToldFine`): whoever has an
address that is not tagged wanted it alone or has it already. That walk is bounded, so
it is a statement about a set of numbers (`UpTo`) and needs no induction theorem.

**Files of numbers** (`FilesInv`). Up to the line that is next, what is listed is what
the rows so far name and what is refused are those at fault (`ReadSoFar`). The rest is
about the operators: that dropping blank lines keeps the others, each once and in a
place of its own (`SiftFine`, `LinesFine`), and that a block written by its tail is
the numbers between its ends (`ExpandFine`, by division with a rest). Sifting and
powers are recursive functions over a bounded range, so `StepByStep` shows that they
have a value without an induction theorem.

**What is put together from pages** (`HistInv`). Blocks of time are put in front, so
counted from the oldest they stay where they are, and what was the ticket's when it
was read still is when the page comes (`StillBooked`). An open ticket that nobody
touched is found or still ahead (`StillAhead`, by its place in the pile): a new one,
or one that is touched and comes to the front, only pushes it further back
(`FrontFine`, `TouchKeeps`). That every ticket is there once (`OneEach`) is what lets
a place stand for a ticket. What is cut off is known by the counts of pages. The
timeline is an argument about operators: sorting gives every entry one place, the
earlier text first and of two equal ones the one appended first (`SortedFine`), so the
messages keep their order (`MessagesInTurn`), and the signals are those of the
conversation because each tally says so of the entries up to it (`OneMoreAlong`,
`OneMoreQuiet`, `ScanTells`).

**Settings** (`SettingsInv`). A row is wrapped with a key that is loaded and its data
key is the value's own, unless a rotation met a save (`RowsOpen`); what a rotation has
still to move is all that is not on the current key, as it was when it was read
(`RotationsAreTrue`); whoever is about to replace the configuration has read the one
there is, while saves do not overlap (`ReadersAreCurrent`); and what core can hand out
is never older than what the plugin may use (`AnswersAreRecent`, with a floor per
value).

**Decisions.** An action property: the sweep's upsert keeps the decision of a row that
is there, and the only statement that removes one asks for its age.

**Conversation** (`ConversationInv`). What a plugin answered is known and asked once
(`ReachedOnce`). Termination by counting: every reply that brought something new took
a step, of which there are no more than the cap, and between two of them there are
fewer replies than the limit (`RoundsOf`, where the bound is a product of two
constants). A question is in the chat before any reply to it (`QuestionsAreIn`,
`RepliesAreLast`).

**Lists** (`ListInv`). A row has a rank, the number of rows with a smaller key. A call
has read, of the rows that stayed, all whose rank is below its place, but for those
before which a row was taken away (`SoFar`): a row that comes can only raise a rank
(`AddedRow`), and one that goes lowers only the ranks behind it, which are then
excused (`RemovedRow`). That a page which is not full is the last one is counting:
ranks tell rows apart and leave no number out (`EveryRankIsTaken`), so if any row were
behind, the page would have a row for each of its places (`NothingBehind`).

**Keys** (`KeysInv`). An extension a call answers for has the keys of that call,
numbered on from some button, the source's first one when they were copied
(`LaidFine`, `Numbered`). A layout without a gap is its own renumbering
(`GaplessIsItself`), again by counting: the keys up to one take as many numbers as
there are.

**The line to a phone system** (`LineInv`). A token in a call's hands is of an address
saved since the call came in, and at its first request it is good for as long as that
request may take (`RingerFine`, `EarlyIsInTime`); and where a status raises no concern
its phone system has half its phones, its trunks and its licence (`SoundCondition`).

**Accounts and sign-on** (`PeopleInv`). Passwords are numbered as they are set: a
session's is not older than the last one that was answered, unless its sign-in was
under way or the statement that was to end it failed (`PasswordsAreTrue`); both are
marks on the session, so no other one is excused. What a call has found out (the
account is as it was found, there is another administrator) still holds unless another
wrote meanwhile (`Knows`). An attempt that was brought back is gone, and one browser
at most may still make its session (`AttemptsAreSpent`). Whoever holds a provider
finds in it nothing older than what was in force as it began, or was misled
(`ProvidersAreCurrent`).

**Holdings** (`HoldInv`). What a call has left to do fits its operation (`CallsFit`);
a customer that is severed is in nobody's hands, kept, cached or on its way, unless a
read was at it meanwhile or the plugin was not told (`Severance`, `CutsClean`; a later
call that goes well takes it back among those that are); a call's event is in the log,
waiting in the stream, in the call's hand or lost, exactly one of these, and counted
(`TrailFine`); and a reset that goes past its check has seen an account with a
password (`ResetsLooked`).

**Cache and screens** (`ScreensInv`). With `told` what was forgotten last of each
entry: a row, a read or a refresh shows everything up to there unless it began before
and is marked. That one refresh is in flight is a statement about the set `inflight`
and all refreshes together.

**Helpdesk plugin** (`OrdersInv`, `TokensInv`). An order that is handled is the first
in line at its tool, and until its answer nothing was posted for it or an answer was
lost (`Truthful`). Once the plugin has dealt with every announcement, what core
resolves and what a check under way has used is the saved token, unless the vault was
handed the old one late.

**Recall** (`RecallInv`). A row holds a moment and a thread no older than it
(`RowTrue`); a nudge is on its way, waits for another round, or what came of it is in
hand or written (`NudgesKept`); and the first pages, as far as they were recorded, are
indexed or in a backfill's hand (`NothingSkipped`): a statement about positions in a
list whose tickets move to the front while it is read.

**Captures** (`CapturesInv`). While a capture is matched with its address, those who
claim it still have the address; once it is somebody's without having been filed,
nobody else claims it; and its time is the one it was last promised (`CaptureFine`).

**Closures** (`ClosuresInv`). While the tool is between reading and adding nobody else
adds but the console, so what it read is still what is there (`StillFree`). That
closures which start in each other's year or the next are compared rightly is
arithmetic over whole years (`MeetingOverlaps`), whether or not both dates have a
year, and one that ends before it begins is on no day.

**Forms** (`FormsInv`). What a call was sent is what it has left, did or was refused,
together (`CallFine`); who set a field wrote it (`UserFine`), which is what lets
setRole call its second look an answer; a department that was written is one, so a
role whose department is done finds a group, whatever the console does; and core has
called its tools in one order (`DeskFine`), so that when the last answers everything
was written. For `OnlyAsked`, what goes back was read.

**Trunks** (`TrunksInv`). The rows an import has left are rows of its sheet, and until
it places them they name every number of the sheet, which is what the sheet without
its repetitions must be shown to do (`ParsedKeeps`, by counting off the first rows).
One import is at work, so what it read is still so unless the console got into it or
an answer was lost (`StillAsRead`); an entry of its map is of the rule with that id,
as long as there is one (`MapFits`); what it did is so until something changes under
it (`DoneIsSo`); and every row that would move a number is on its screen, where that
was given the rules as they were (`NamedAll`), which stays true row by row because
each number comes once. The answer the cache keeps may be anything: nothing is assumed
of its age.

## What is only model-checked

- Liveness (`WorkSettles`, `ScreensCatchUp`) and the runs that expect a violation:
  the prover does no fairness and no ENABLED, and a violation is one behaviour, which
  TLC shows. Every other property of the passing runs is the property of a theorem.

## Not modelled

- `diagnose.go` (reads and describes), opening hours and queues of a phone
  system; `supportinfo`, `logging`; searching the recall index; suggestions and
  titles of chats; what a model says.
- The HTTP surface (headers, proxies, static files, branding), the sign-in
  throttle, the web pages but for `live.ts`, the echo and search plugins.
- Cryptography, password hashing, the verification of tokens: black boxes that
  tell right from wrong.
- Time is counted where something is due (sessions, tokens, retention, the ages
  of rows); rates and pacing in real time are not. The server forgets a firing
  nobody took after 24 h (`firedTTL`); stream sequence numbers count firings only;
  cron times are any times; a change that lands after RunJob's timeout is made at
  the timeout.
- The tool cache, the audit trail and announcements around a change of a
  scheduled job, a proposal or a sheet: none of them decides whether it is made.
- In `BulkEdits` a row that differs differs in everything the sheet sets of it,
  the gates are just a failing call, and a batch over fifty rows is its groups.
- The guessing of a sheet's columns, CSV dialects, the formatting of cells, and
  everywhere the wording of answers.
