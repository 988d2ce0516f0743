------------------------------ MODULE Registry ------------------------------
(***************************************************************************)
(* Plugins as core sees them: the processes of internal/supervisor, the    *)
(* sweep of internal/registry that asks them what they offer and what of   *)
(* it works, and the decisions about their tools in the table capabilities *)
(* (internal/store/capabilities.go), which every sweep confirms and which  *)
(* are forgotten after a month of silence (cmd/azir-core/main.go).         *)
(*                                                                         *)
(* Each plugin offers one tool.                                            *)
(***************************************************************************)
EXTENDS Naturals

CONSTANTS
  Plugins,        \* names of plugins, each with a binary of its own
  MaxDelay,       \* doublings from the first delay of a restart to the last
  MaxExits,       \* bound: how often a plugin's process ends or freezes
  MaxFaults       \* bound: statements that fail

ASSUME RegistryAssumption == {MaxDelay, MaxExits, MaxFaults} \subseteq Nat

VARIABLES
  process,        \* where each plugin's process is
  delay,          \* Supervisor.supervise: doublings of each plugin's delay
  exits,          \* spent of the bound
  unguarded,      \* plugins whose tool writes and names no permission
  sweep,          \* where Registry.Refresh is
  offered,        \* Registry.snap: the tools of the last complete sweep
  decision,       \* capabilities
  faults

registryVars == <<process, delay, exits, unguarded, sweep, offered, decision, faults>>

Waiting == [at |-> "waiting", found |-> {}, rest |-> {}, who |-> {}, tools |-> {}]
Offers == [plugin : Plugins, available : BOOLEAN]
Unseen == [status |-> "none", old |-> FALSE]

RegistryTypeOK ==
  /\ process \in [Plugins -> {"up", "frozen", "exited"}]
  /\ delay \in [Plugins -> 0 .. MaxDelay] /\ exits \in 0 .. MaxExits
  /\ unguarded \subseteq Plugins
  /\ sweep.at \in {"waiting", "asking", "unanswered", "observing"}
  /\ sweep.found \subseteq Plugins /\ sweep.rest \subseteq Plugins /\ sweep.who \subseteq Plugins
  /\ sweep.tools \subseteq Offers /\ offered \subseteq Offers
  /\ decision \in [Plugins -> [status : {"none", "pending", "approved", "rejected"}, old : BOOLEAN]]
  /\ faults \in 0 .. MaxFaults

RegistryInit ==
  /\ process = [p \in Plugins |-> "exited"]
  /\ delay = [p \in Plugins |-> 0] /\ exits = 0
  /\ unguarded \in SUBSET Plugins
  /\ sweep = Waiting /\ offered = {}
  /\ decision = [p \in Plugins |-> Unseen]
  /\ faults = 0

-----------------------------------------------------------------------------
\* The supervisor.

\* runOnce, the first time or after the delay.
StartProcess(p) ==
  /\ process[p] = "exited"
  /\ process' = [process EXCEPT ![p] = "up"]
  /\ UNCHANGED <<delay, exits, unguarded, sweep, offered, decision, faults>>

\* The process ends.  One that stayed up for half a minute waits the least;
\* the delay doubles every time.  What it was asked stays unanswered.
ExitProcess(p, stayed) ==
  /\ exits < MaxExits /\ exits' = exits + 1
  /\ process[p] # "exited"
  /\ process' = [process EXCEPT ![p] = "exited"]
  /\ LET d == IF stayed THEN 0 ELSE delay[p]
     IN  delay' = [delay EXCEPT ![p] = IF d < MaxDelay THEN d + 1 ELSE d]
  /\ sweep' = IF p \in sweep.who THEN [sweep EXCEPT !.at = "unanswered"] ELSE sweep
  /\ UNCHANGED <<unguarded, offered, decision, faults>>

\* A line longer than the scanner takes ends pipe: nobody reads the plugin's
\* output any more, and what logs in it blocks.
Freeze(p) ==
  /\ exits < MaxExits /\ exits' = exits + 1
  /\ process[p] = "up"
  /\ process' = [process EXCEPT ![p] = "frozen"]
  /\ UNCHANGED <<delay, unguarded, sweep, offered, decision, faults>>

-----------------------------------------------------------------------------
\* The sweep, every ten seconds.

\* discover: who answers within the window, then each is asked for its health.
Discover ==
  /\ sweep.at = "waiting"
  /\ \E F \in SUBSET {p \in Plugins : process[p] # "exited"} :
       sweep' = [Waiting EXCEPT !.at = "asking", !.found = F, !.rest = F]
  /\ UNCHANGED <<process, delay, exits, unguarded, offered, decision, faults>>

\* A tool that writes and names no permission is left out.
Refused(p) == p \in unguarded
Offer(p, available) == IF Refused(p) THEN {} ELSE {[plugin |-> p, available |-> available]}

\* health: nobody listens, and the plugin counts as fully available.
AskNobody(p) ==
  /\ sweep.at = "asking" /\ sweep.who = {} /\ p \in sweep.rest /\ process[p] = "exited"
  /\ sweep' = [sweep EXCEPT !.rest = @ \ {p}, !.tools = @ \cup Offer(p, TRUE)]
  /\ UNCHANGED <<process, delay, exits, unguarded, offered, decision, faults>>

\* health: the request has no deadline of its own.
AskHealth(p) ==
  /\ sweep.at = "asking" /\ sweep.who = {} /\ p \in sweep.rest /\ process[p] # "exited"
  /\ sweep' = [sweep EXCEPT !.rest = @ \ {p}, !.who = {p}]
  /\ UNCHANGED <<process, delay, exits, unguarded, offered, decision, faults>>

\* healthCache.get: what the preflight finds of settings and vendor.
\* A process that ended before it answered, or whose preflight hangs, never does.
HearHealth(p) ==
  /\ sweep.at = "asking" /\ p \in sweep.who /\ process[p] = "up"
  /\ \E available \in BOOLEAN :
       sweep' = [sweep EXCEPT !.who = {}, !.tools = @ \cup Offer(p, available)]
  /\ UNCHANGED <<process, delay, exits, unguarded, offered, decision, faults>>

\* The snapshot is replaced, then its tools are told to the observer.
Publish ==
  /\ sweep.at = "asking" /\ sweep.rest = {} /\ sweep.who = {}
  /\ offered' = sweep.tools
  /\ sweep' = [sweep EXCEPT !.at = "observing", !.rest = {o.plugin : o \in sweep.tools}]
  /\ UNCHANGED <<process, delay, exits, unguarded, decision, faults>>

\* Mutant: every sighting starts the question over.
ObservedAnew(d) == [status |-> "pending", old |-> FALSE]
\* What Observe makes of a row: only a new one is given a status.
Observed(d) == [status |-> IF d.status = "none" THEN "pending" ELSE d.status, old |-> FALSE]

\* Observe; a failure is logged and the next tool is told.
Observe(p) ==
  /\ sweep.at = "observing" /\ p \in sweep.rest
  /\ sweep' = [sweep EXCEPT !.rest = @ \ {p}]
  /\ \/ decision' = [decision EXCEPT ![p] = Observed(@)] /\ UNCHANGED faults
     \/ faults < MaxFaults /\ faults' = faults + 1 /\ UNCHANGED decision
  /\ UNCHANGED <<process, delay, exits, unguarded, offered>>

SweepDone ==
  /\ sweep.at = "observing" /\ sweep.rest = {}
  /\ sweep' = Waiting
  /\ UNCHANGED <<process, delay, exits, unguarded, offered, decision, faults>>

-----------------------------------------------------------------------------
\* Decisions.

\* decideCapability.
Decide(p, status) ==
  /\ decision[p].status # "none"
  /\ decision' = [decision EXCEPT ![p].status = status]
  /\ UNCHANGED <<process, delay, exits, unguarded, sweep, offered, faults>>

\* A month goes by without the tool being observed.
Month(p) ==
  /\ decision[p].status # "none" /\ ~decision[p].old
  /\ decision' = [decision EXCEPT ![p].old = TRUE]
  /\ UNCHANGED <<process, delay, exits, unguarded, sweep, offered, faults>>

\* What SweepCapabilities deletes: not a rejection.
Forgettable(d) == d.old /\ d.status \in {"pending", "approved"}

\* SweepCapabilities, every six hours, unless no plugin is in the snapshot.
ForgetRetired ==
  /\ offered # {}
  /\ decision' = [p \in Plugins |-> IF Forgettable(decision[p]) THEN Unseen ELSE decision[p]]
  /\ UNCHANGED <<process, delay, exits, unguarded, sweep, offered, faults>>

-----------------------------------------------------------------------------

SweepStep ==
  \/ Discover \/ Publish \/ SweepDone
  \/ \E p \in Plugins : AskNobody(p) \/ AskHealth(p) \/ HearHealth(p) \/ Observe(p)

ProcessStep ==
  \E p \in Plugins :
    StartProcess(p) \/ Freeze(p) \/ \E stayed \in BOOLEAN : ExitProcess(p, stayed)

DecisionStep ==
  \/ ForgetRetired
  \/ \E p \in Plugins : Month(p) \/ \E s \in {"pending", "approved", "rejected"} : Decide(p, s)

RegistryNext == SweepStep \/ ProcessStep \/ DecisionStep

\* The supervisor and the registry never stop working, and a plugin that runs
\* answers.
RegistryFairness ==
  /\ WF_registryVars(SweepStep)
  /\ \A p \in Plugins : WF_registryVars(StartProcess(p))

RegistrySpec == RegistryInit /\ [][RegistryNext]_registryVars /\ RegistryFairness

-----------------------------------------------------------------------------

Statuses == {"pending", "approved", "rejected"}

\* What an administrator decided about a tool is changed by a decision and by
\* nothing else: no restart, sighting or sweep undoes it, and only an approval
\* is ever forgotten, after a month in which nobody observed the tool.
DecisionsStand ==
  /\ []RegistryTypeOK
  /\ [][\A p \in Plugins :
       decision[p].status \in {"approved", "rejected"} /\ decision'[p].status # decision[p].status
         => \/ \E s \in Statuses : Decide(p, s)
            \/ ForgetRetired /\ decision[p] = [status |-> "approved", old |-> TRUE]]_registryVars

\* "A plugin that does not answer is treated as fully available: silence must
\* not disable functionality."  Then every sweep ends.
SweepsGoOn == []<>(sweep.at = "waiting")

=============================================================================
