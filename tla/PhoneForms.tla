----------------------------- MODULE PhoneForms -----------------------------
(***************************************************************************)
(* One extension at a time: the form, the new extension, the removal and   *)
(* the key layout of internal/api/extensions.go, and the tools of the 3CX  *)
(* plugin they call (cmd/plugin-3cx: updateExtension, setExtensionOptions, *)
(* setExtensionKeys, createExtensions, deleteExtensions), down to each     *)
(* request the phone system is sent.                                       *)
(*                                                                         *)
(* The phone system keeps what an extension is in objects it takes whole:  *)
(* the membership of a group carries the department and the role, the      *)
(* forwarding profiles come as one list.  So a tool reads the object,      *)
(* changes its part and writes all of it back, and whatever happens in     *)
(* between is overwritten.  A tool does one call at a time (its endpoint   *)
(* is one subscription), tools run side by side, somebody may be at the    *)
(* phone system's own console, a request may fail or do its work and lose  *)
(* its answer, and core stops waiting after thirty seconds while the tool  *)
(* goes on.                                                                *)
(*                                                                         *)
(* A value is who set it.  The gates of performTool are in Proposals, and  *)
(* a bulk edit's use of the same tools in BulkEdits.                       *)
(***************************************************************************)
EXTENDS Naturals

CONSTANTS
  Numbers,      \* extension numbers
  Technicians,  \* each with one form
  Forms,        \* the sets of fields a form may set
  MaxMishaps    \* bound: requests that go wrong, calls core stops waiting for,
                \* and changes made at the phone system's own console

Tools == {"update", "options", "create", "delete", "keys"}
Calls == Technicians \X Tools

\* Fields of the extension itself, of its membership, of its profiles, of its phone.
Fields == {"name", "settings", "department", "role", "interface", "available", "away", "keys"}
Membership == {"department", "role", "second"}
Profiles == {"available", "away"}

\* A key layout is set by a call of its own.
ASSUME FormsAssumption ==
  /\ Forms \subseteq SUBSET Fields /\ \A fields \in Forms : "keys" \in fields => fields = {"keys"}
  /\ Technicians \cap {"was", "none", "default", "console", "unread"} = {}
ASSUME PhoneBounds == MaxMishaps \in Nat

VARIABLES
  exists, user,             \* the phone system; user[n][f]: who set it
  kind, asked, about,       \* the forms: what for, which fields, which numbers
  stage, told, snag,        \* the tool core waits for; the answer; a settings_problem
  job, todo, known, held,   \* the calls: progress, parts left, what was read
  did, refusals,            \* and what the results will say
  wrote,                    \* wrote[c]: <<n, f>> that c's calls really changed
  mishaps                   \* spent of the bound

phone == <<exists, user>>
form == <<kind, asked, about>>
desk == <<stage, told, snag>>
calls == <<job, todo, known, held, did, refusals>>
formVars == <<phone, form, desk, calls, wrote, mishaps>>

\* "none" of a department is an extension in no group, of an interface one
\* without a phone; second is the membership of another group; "default" the
\* role that comes with a first department.
Setters == Technicians \cup {"was", "none", "default", "console"}
Users == [Fields \cup {"second"} -> Setters]
Readings == [Fields \cup {"second"} -> Setters \cup {"unread"}]
Unread == [f \in Fields \cup {"second"} |-> "unread"]
Kinds == {"form", "create", "remove", "copy"}
Told == {"none", "changed", "partly", "created", "removed", "badGateway"}

FormsTypeOK ==
  /\ exists \subseteq Numbers /\ user \in [Numbers -> Users]
  /\ kind \in [Technicians -> Kinds]
  /\ asked \in [Technicians -> SUBSET Fields]
  /\ about \in [Technicians -> SUBSET Numbers]
  /\ stage \in [Technicians -> Tools \cup {"idle", "over"}]
  /\ told \in [Technicians -> Told] /\ snag \subseteq Technicians
  /\ job \in [Calls -> {"none", "queued", "running", "checking", "answered", "failed"}]
  /\ todo \in [Calls -> SUBSET (Numbers \X Fields)]
  /\ known \in [Calls -> SUBSET Numbers]
  /\ held \in [Calls -> Readings]
  /\ did \in [Calls -> SUBSET (Numbers \X Fields)]
  /\ refusals \in [Calls -> SUBSET (Numbers \X Fields)]
  /\ wrote \in [Technicians -> SUBSET (Numbers \X Fields)]
  /\ mishaps \in 0 .. MaxMishaps

\* An extension somebody set up: in a group, in two, or in none.
SetUp(groups, handset) ==
  [f \in Fields \cup {"second"} |->
     IF f \in {"department", "role"} /\ groups = 0 THEN "none"
     ELSE IF f = "second" /\ groups < 2 THEN "none"
     ELSE IF f = "interface" /\ ~handset THEN "none" ELSE "was"]

FormsInit ==
  /\ exists \in SUBSET Numbers
  /\ user \in [Numbers -> {SetUp(g, h) : g \in 0 .. 2, h \in BOOLEAN}]
  /\ kind \in [Technicians -> Kinds]
  /\ asked \in [Technicians -> Forms]
  /\ about \in [Technicians -> (SUBSET Numbers) \ {{}}]
  /\ \A c \in Technicians :
       /\ kind[c] \in {"form", "create"} => \E n \in Numbers : about[c] = {n}
       /\ kind[c] = "copy" <=> asked[c] = {"keys"}
       /\ kind[c] = "form" => asked[c] # {}
  /\ stage = [c \in Technicians |-> "idle"]
  /\ told = [c \in Technicians |-> "none"] /\ snag = {}
  /\ job = [k \in Calls |-> "none"]
  /\ todo = [k \in Calls |-> {}] /\ known = [k \in Calls |-> {}]
  /\ held = [k \in Calls |-> Unread]
  /\ did = [k \in Calls |-> {}] /\ refusals = [k \in Calls |-> {}]
  /\ wrote = [c \in Technicians |-> {}]
  /\ mishaps = 0

Mishap == mishaps < MaxMishaps /\ mishaps' = mishaps + 1

-----------------------------------------------------------------------------
(***************************************************************************)
(* Core: internal/api/extensions.go.  One call after another.              *)
(***************************************************************************)

\* sortOut: which capability writes a field.
Core(c) == asked[c] \cap {"name"}
Settings(c) == asked[c] \ {"name", "keys"}

Send(c, t, fields) ==
  /\ stage' = [stage EXCEPT ![c] = t]
  /\ job' = [job EXCEPT ![<<c, t>>] = "queued"]
  /\ todo' = [todo EXCEPT ![<<c, t>>] = about[c] \X fields]
  /\ UNCHANGED <<told, known, held, did, refusals>>

Tell(c, answer) ==
  /\ stage' = [stage EXCEPT ![c] = "over"]
  /\ told' = [told EXCEPT ![c] = answer]
  /\ UNCHANGED calls

\* What the form sets is sent through the capabilities that own it, the two
\* fields core knows of first.
SendForm(c) ==
  IF Core(c) # {} THEN Send(c, "update", Core(c)) ELSE Send(c, "options", Settings(c))

Submit(c) ==
  /\ stage[c] = "idle"
  /\ CASE kind[c] = "form" -> SendForm(c)
       [] kind[c] = "create" -> Send(c, "create", {"name"})
       [] kind[c] = "remove" -> Send(c, "delete", {"name"})
       [] kind[c] = "copy" -> Send(c, "keys", {"keys"})
  /\ UNCHANGED <<phone, form, snag, wrote, mishaps>>

\* setOptions and setExtensionKeys look at each result.
Refused(c, t) == refusals[<<c, t>>] # {}

\* setExtension: a failure of either capability ends it, whatever went before.
AfterForm(c, t, failed) ==
  /\ UNCHANGED snag
  /\ \/ /\ failed \/ (t = "options" /\ Refused(c, t))
        /\ Tell(c, "badGateway")
     \/ /\ ~failed /\ t = "update"
        /\ IF Settings(c) # {} THEN Send(c, "options", Settings(c)) ELSE Tell(c, "changed")
     \/ /\ ~failed /\ t = "options" /\ ~Refused(c, t)
        /\ Tell(c, "changed")

\* createExtension: the answer of the create tool is not looked into, and from
\* there on everything is configuration.
AfterCreate(c, t, failed) ==
  LET trouble == failed \/ (t = "options" /\ Refused(c, t)) IN
  \/ /\ t = "create" /\ failed
     /\ Tell(c, "badGateway") /\ UNCHANGED snag
  \/ /\ t = "create" /\ ~failed
     /\ IF asked[c] = {} THEN Tell(c, "created") ELSE SendForm(c)
     /\ UNCHANGED snag
  \/ /\ t # "create"
     /\ snag' = IF trouble THEN snag \cup {c} ELSE snag
     /\ IF t = "update" /\ Settings(c) # {} THEN Send(c, "options", Settings(c))
        ELSE Tell(c, "created")

\* What core does with the answer, or with none after thirty seconds.
Proceed(c, failed) ==
  LET t == stage[c] IN
  CASE kind[c] = "form" -> AfterForm(c, t, failed)
    [] kind[c] = "create" -> AfterCreate(c, t, failed)
    [] kind[c] = "remove" ->                          \* removed += len(batch)
         Tell(c, IF failed THEN "badGateway" ELSE "removed") /\ UNCHANGED snag
    [] kind[c] = "copy" ->
         Tell(c, IF failed THEN "badGateway"
                 ELSE IF Refused(c, t) THEN "partly" ELSE "changed") /\ UNCHANGED snag

Hear(c) ==
  /\ stage[c] \in Tools
  /\ job[<<c, stage[c]>>] \in {"answered", "failed"}
  /\ Proceed(c, job[<<c, stage[c]>>] = "failed")
  /\ UNCHANGED <<phone, form, wrote, mishaps>>

\* askPlugin's thirty seconds, or the client's patience: the tool goes on.
StopWaiting(c) ==
  /\ stage[c] \in Tools
  /\ job[<<c, stage[c]>>] \notin {"answered", "failed"}
  /\ Mishap
  /\ Proceed(c, TRUE)
  /\ UNCHANGED <<phone, form, wrote>>

-----------------------------------------------------------------------------
(***************************************************************************)
(* The tools.                                                              *)
(***************************************************************************)

Fail(k) == job' = [job EXCEPT ![k] = "failed"]

\* Sign in, and read which numbers there are.
Take(k) ==
  /\ job[k] = "queued"
  /\ \A c \in Technicians : job[<<c, k[2]>>] \notin {"running", "checking"}
  /\ \/ /\ known' = [known EXCEPT ![k] = exists]
        /\ IF k[2] = "update" /\ about[k[1]] \cap exists = {}
           THEN Fail(k) ELSE job' = [job EXCEPT ![k] = "running"]
        /\ UNCHANGED mishaps
     \/ Fail(k) /\ Mishap /\ UNCHANGED known
  /\ UNCHANGED <<phone, form, desk, todo, held, did, refusals, wrote>>

\* Mutant: the role is set before the department.
PlaceRoleFirst(f) ==
  CASE f = "settings" -> 1 [] f = "department" -> 3 [] f = "role" -> 2
    [] f = "interface" -> 4 [] f = "available" -> 5 [] f = "away" -> 6 [] OTHER -> 0

\* The order the parts of an extension are attempted in.
Place(f) ==
  CASE f = "settings" -> 1 [] f = "department" -> 2 [] f = "role" -> 3
    [] f = "interface" -> 4 [] f = "available" -> 5 [] f = "away" -> 6 [] OTHER -> 0

\* The part a running call is at.
At(k, p) ==
  /\ job[k] = "running"
  /\ p \in todo[k]
  /\ \A q \in todo[k] : q[1] = p[1] => Place(p[2]) <= Place(q[2])

\* A part is over: named as done or as refused.
PartDone(k, p) ==
  /\ did' = [did EXCEPT ![k] = @ \cup {p}]
  /\ todo' = [todo EXCEPT ![k] = @ \ {p}]
  /\ held' = [held EXCEPT ![k] = Unread]
  /\ UNCHANGED refusals

PartRefused(k, p) ==
  /\ refusals' = [refusals EXCEPT ![k] = @ \cup {p}]
  /\ todo' = [todo EXCEPT ![k] = @ \ {p}]
  /\ held' = [held EXCEPT ![k] = Unread]
  /\ UNCHANGED did

\* A number that is not there, or for createExtensions one that is, is answered
\* without a request.
PassOver(k, p) ==
  /\ At(k, p)
  /\ (p[1] \in known[k]) = (k[2] = "create")
  /\ PartRefused(k, p)
  /\ UNCHANGED <<phone, form, desk, job, known, wrote, mishaps>>

ReadFirst == {"department", "role", "interface", "available", "away", "keys"}

\* What there is no way to set: a role without a group, a routing device
\* without a phone.
Impossible(n, f) ==
  \/ f = "role" /\ user[n]["department"] = "none"
  \/ f = "interface" /\ user[n]["interface"] = "none"

\* What goes out with a field, as it was read.
Whole(f) ==
  IF f \in Membership THEN Membership \ {f}
  ELSE IF f \in Profiles THEN Profiles \ {f} ELSE {}

\* What a read keeps: what the write will send back.
WhatIsRead(p) == [g \in Fields \cup {"second"} |->
                 IF g \in Whole(p[2]) \cup {p[2]} THEN user[p[1]][g] ELSE "unread"]

\* membershipRow, and the reads of setDepartment, setRoutingDevice,
\* setForwarding and keysOf.
Look(k, p) ==
  /\ At(k, p) /\ p[1] \in known[k]
  /\ k[2] # "create" /\ p[2] \in ReadFirst /\ held[k] = Unread
  /\ \/ /\ p[1] \in exists /\ ~Impossible(p[1], p[2])
        /\ held' = [held EXCEPT ![k] = WhatIsRead(p)]
        /\ UNCHANGED <<todo, did, refusals, mishaps>>
     \/ /\ p[1] \notin exists \/ Impossible(p[1], p[2])
        /\ PartRefused(k, p) /\ UNCHANGED mishaps
     \/ PartRefused(k, p) /\ Mishap
  /\ UNCHANGED <<phone, form, desk, job, known, wrote>>

\* Mutant: a field goes out alone, though the phone system takes its object whole.
PatchedAlone(k, p) ==
  LET f == p[2] n == p[1] IN
  [g \in Fields \cup {"second"} |-> IF g = f THEN k[1] ELSE IF g \in Whole(f) THEN "none" ELSE user[n][g]]

\* setRole sends back the first membership only; setDepartment sends them all.
\* An extension in no group gets its department's default role.
Patched(k, p) ==
  LET f == p[2] n == p[1] IN
  [g \in Fields \cup {"second"} |->
     IF g = f THEN k[1]
     ELSE IF f = "role" /\ g = "second" THEN "none"
     ELSE IF f = "department" /\ g = "role" /\ held[k]["department"] = "none" THEN "default"
     ELSE IF g \in Whole(f) THEN held[k][g] ELSE user[n][g]]

\* What a request does to the phone system, when it does it.
Applied(k, p) ==
  CASE k[2] = "create" -> /\ exists' = exists \cup {p[1]}
                          /\ user' = [user EXCEPT ![p[1]] = SetUp(1, FALSE)]
    [] k[2] = "delete" -> exists' = exists \ {p[1]} /\ UNCHANGED user
    [] OTHER -> user' = [user EXCEPT ![p[1]] = Patched(k, p)] /\ UNCHANGED exists

\* The phone system takes a write only of what is there, and makes only what is not.
Takes(k, p) == (p[1] \in exists) = (k[2] # "create")

\* setRole reads the role back: a success the phone system did not mean.
CheckedAfter(f) == f = "role"

\* The write: done and said so, refused, or its answer lost.
Write(k, p) ==
  LET n == p[1] f == p[2] c == k[1] IN
  /\ At(k, p)
  /\ (n \in known[k]) = (k[2] # "create")
  /\ k[2] # "create" /\ f \in ReadFirst => held[k] # Unread
  /\ \/ /\ Takes(k, p)
        /\ \/ Applied(k, p) /\ wrote' = [wrote EXCEPT ![c] = @ \cup {p}]
              /\ UNCHANGED mishaps
           \/ f = "role" /\ Mishap /\ UNCHANGED <<phone, wrote>>   \* accepted, and ignored
        /\ IF CheckedAfter(f)
           THEN job' = [job EXCEPT ![k] = "checking"] /\ UNCHANGED <<todo, held, did, refusals>>
           ELSE PartDone(k, p) /\ UNCHANGED job
     \/ /\ PartRefused(k, p)
        /\ IF k[2] = "update" THEN Fail(k) ELSE UNCHANGED job
        /\ \/ ~Takes(k, p) /\ UNCHANGED <<phone, wrote, mishaps>>
           \/ Mishap /\ UNCHANGED <<phone, wrote>>
           \/ Mishap /\ Takes(k, p) /\ Applied(k, p) /\ wrote' = [wrote EXCEPT ![c] = @ \cup {p}]
  /\ UNCHANGED <<form, desk, known>>

\* setRole's second look.
CheckRole(k, p) ==
  /\ job[k] = "checking" /\ p \in todo[k] /\ p[2] = "role"
  /\ job' = [job EXCEPT ![k] = "running"]
  /\ \/ /\ p[1] \in exists /\ user[p[1]]["role"] = k[1]
        /\ PartDone(k, p) /\ UNCHANGED mishaps
     \/ /\ p[1] \notin exists \/ user[p[1]]["role"] # k[1]
        /\ PartRefused(k, p) /\ UNCHANGED mishaps
     \/ PartRefused(k, p) /\ Mishap
  /\ UNCHANGED <<phone, form, desk, known, wrote>>

Answer(k) ==
  /\ job[k] = "running" /\ todo[k] = {}
  /\ job' = [job EXCEPT ![k] = "answered"]
  /\ UNCHANGED <<phone, form, desk, todo, known, held, did, refusals, wrote, mishaps>>

\* Somebody at the phone system's console: another department, a new
\* forwarding rule, an extension taken away.
AtTheConsole ==
  /\ Mishap
  /\ \E n \in exists :
       \/ /\ \E f \in {"department", "away"} : user' = [user EXCEPT ![n][f] = "console"]
          /\ user[n]["department"] # "none"
          /\ UNCHANGED exists
       \/ exists' = exists \ {n} /\ UNCHANGED user
  /\ UNCHANGED <<form, desk, calls, wrote>>

Tool(k) ==
  \/ Take(k) \/ Answer(k)
  \/ \E p \in todo[k] : PassOver(k, p) \/ Look(k, p) \/ Write(k, p) \/ CheckRole(k, p)

FormsNext ==
  \/ \E c \in Technicians : Submit(c) \/ Hear(c) \/ StopWaiting(c)
  \/ \E k \in Calls : Tool(k)
  \/ AtTheConsole

FormsSpec == FormsInit /\ [][FormsNext]_formVars

-----------------------------------------------------------------------------

\* "Every part is attempted, and what failed is named" (setExtensionOptions):
\* what is named as changed was written, and a form answered with success wrote
\* all it asked for.
SaidIsDone ==
  /\ \A k \in Calls : did[k] \subseteq wrote[k[1]]
  /\ \A c \in Technicians : told[c] = "changed" => about[c] \X asked[c] \subseteq wrote[c]

\* "The department is not changed here", "Everything not named here is written
\* back exactly as it was found": unless it was changed since it was read, a
\* request changes of an extension what its form asked for and nothing else
\* (the other memberships excepted, see MembershipsKept, and the default role
\* that comes with a first department).
Untouched == \A k \in Calls, p \in Numbers \X Fields :
  At(k, p) /\ held[k] # Unread => held[k] = WhatIsRead(p)

OnlyAsked ==
  [][Untouched => \A n \in exists \cap exists', f \in Fields :
       \/ user'[n][f] \in {user[n][f], "console"}
       \/ f = "role" /\ user[n]["department"] = "none" /\ user'[n][f] = "default"
       \/ \E c \in Technicians : n \in about[c] /\ f \in asked[c] /\ user'[n][f] = c]_formVars

\* "Set its department first": a form that sets both is never refused its role
\* for the lack of a group, unless its department was refused too.
RoleFindsItsGroup ==
  \A k \in Calls, n \in Numbers :
    (/\ <<n, "role">> \in refusals[k] /\ "department" \in asked[k[1]]
     /\ user[n]["department"] = "none" /\ n \in exists)
      => <<n, "department">> \in refusals[k]

\* What a form says was done was done, and a role finds the group it is a role in.
FormsKeepTheirWord ==
  /\ FormsTypeOK
  /\ SaidIsDone
  /\ RoleFindsItsGroup

\* "Read the memberships, change the role on the first, write them all back"
\* (setRole): nobody loses a group for being given a role.
MembershipsKept ==
  [][\A n \in exists \cap exists' : user'[n]["second"] = user[n]["second"]]_formVars

\* "Everything from here is configuration on an extension that exists"
\* (createExtension): making an extension changes none that was there.
CreateChangesNobody ==
  \A c \in Technicians :
    about[c] \cap known[<<c, "create">>] # {} => wrote[c] = {}

=============================================================================
