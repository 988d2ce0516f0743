-------------------------------- MODULE Live --------------------------------
(***************************************************************************)
(* Telling browsers that something changed: announce, WatchChanges,        *)
(* watchers and streamChanges of internal/api/live.go, and the browser's   *)
(* end of it, web/src/live.ts.  An announcement says what kind of thing    *)
(* changed and nothing else.  A screen is told of every kind, over the one *)
(* stream of its page, and heeds some.                                     *)
(***************************************************************************)
EXTENDS Naturals, Sequences

CONSTANTS
  Browsers,     \* pages that show what changes
  Topics,       \* subjects announced: tickets, the index, snapshots ...
  Watched,      \* those the screens listen for
  QueueLimit,   \* capacity of a watcher's channel
  MaxDrops      \* bound: connections and messages that are lost

ASSUME LiveBounds == Watched \subseteq Topics /\ QueueLimit \in Nat \ {0} /\ MaxDrops \in Nat

VARIABLES
  recent,       \* topics announced less than coalesceWindow ago
  wire,         \* announcements on their way through NATS
  queue,        \* topics waiting in each watcher's channel
  listening,    \* browsers whose stream is open
  pushed,       \* browsers whose lastPush is younger than FALLBACK_MS
  wants,        \* browsers that are to fetch what they show again
  drops         \* spent of the bound

liveVars == <<recent, wire, queue, listening, pushed, wants, drops>>

LiveTypeOK ==
  /\ recent \subseteq Topics
  /\ wire \in Seq(Topics)
  /\ queue \in [Browsers -> Seq(Topics)] /\ \A b \in Browsers : Len(queue[b]) <= QueueLimit
  /\ listening \subseteq Browsers
  /\ pushed \subseteq Browsers
  /\ wants \subseteq Browsers
  /\ drops \in 0 .. MaxDrops

\* A screen fetches what it shows when it opens.
LiveInit ==
  /\ recent = {}
  /\ wire = <<>>
  /\ queue = [b \in Browsers |-> <<>>]
  /\ listening = {}
  /\ pushed = {}
  /\ wants = Browsers
  /\ drops = 0

\* announce: one sent within the window stands for all that follow in it about
\* the same.  A message that cannot be published is only logged.
Announce(s) ==
  /\ recent' = recent \cup {s}
  /\ IF s \in recent THEN UNCHANGED <<wire, drops>>
     ELSE \/ wire' = Append(wire, s) /\ UNCHANGED drops
          \/ drops < MaxDrops /\ drops' = drops + 1 /\ UNCHANGED wire
  /\ UNCHANGED <<queue, listening, pushed, wants>>

\* What the screens do not show changes, over and over: the index of tickets after
\* each page of a backfill, snapshots.  (Bound: one such message at a time.)
AnnounceElsewhere(s) ==
  /\ s \notin Watched \cup recent /\ \A i \in DOMAIN wire : wire[i] \in Watched
  /\ Announce(s)

WindowEnds(s) ==
  /\ s \in recent
  /\ recent' = recent \ {s}
  /\ UNCHANGED <<wire, queue, listening, pushed, wants, drops>>

\* WatchChanges and tell: a full channel is passed over.
Tell ==
  /\ wire # <<>>
  /\ wire' = Tail(wire)
  /\ queue' = [b \in Browsers |-> IF b \in listening /\ Len(queue[b]) < QueueLimit
                                  THEN Append(queue[b], Head(wire)) ELSE queue[b]]
  /\ UNCHANGED <<recent, listening, pushed, wants, drops>>

\* streamChanges writes one word.  It counts as a push whatever it is about; who
\* listens for it asks again.
Hear(b) ==
  /\ b \in listening /\ queue[b] # <<>>
  /\ queue' = [queue EXCEPT ![b] = Tail(@)]
  /\ pushed' = pushed \cup {b}
  /\ wants' = IF Head(queue[b]) \in Watched THEN wants \cup {b} ELSE wants
  /\ UNCHANGED <<recent, wire, listening, drops>>

Connect(b) ==
  /\ b \notin listening
  /\ listening' = listening \cup {b}
  /\ UNCHANGED <<recent, wire, queue, pushed, wants, drops>>

\* A stream breaks: what waited in its channel goes with it.
Break(b) ==
  /\ b \in listening /\ drops < MaxDrops
  /\ drops' = drops + 1
  /\ listening' = listening \ {b}
  /\ queue' = [queue EXCEPT ![b] = <<>>]
  /\ UNCHANGED <<recent, wire, pushed, wants>>

\* FALLBACK_MS after the last push.
PushAges(b) ==
  /\ b \in pushed
  /\ pushed' = pushed \ {b}
  /\ UNCHANGED <<recent, wire, queue, listening, wants, drops>>

\* Mutant: the poll stands down for every screen that has a stream.
StandsDownAlways(b) == b \in listening

\* pushIsWorking.
StandsDown(b) == b \in pushed

\* useFallbackPoll: the slow timer.
Poll(b) ==
  /\ ~StandsDown(b)
  /\ wants' = wants \cup {b}
  /\ UNCHANGED <<recent, wire, queue, listening, pushed, drops>>

\* The screen asks again.
Refetch(b) ==
  /\ b \in wants
  /\ wants' = wants \ {b}
  /\ UNCHANGED <<recent, wire, queue, listening, pushed, drops>>

=============================================================================
