------------------------------ MODULE Captures ------------------------------
(***************************************************************************)
(* Diagnostic captures of phone systems: how they come in, whose they are, *)
(* how long they are kept, and who reads them (internal/api/snapshots.go,  *)
(* internal/api/data.go, internal/store/snapshots.go, retention.go, the    *)
(* sweep of cmd/azir-core/main.go, and the customers they belong to).      *)
(*                                                                         *)
(* Time passes in ticks, one sweep to the next.  A request is several      *)
(* statements, between which anybody else's may run.                       *)
(***************************************************************************)
EXTENDS Integers, FiniteSets

CONSTANTS
  Clients,      \* customers
  Addresses,    \* addresses of phone systems
  Takings,      \* captures, each uploaded or collected once
  Inquiries,    \* the model's calls of diagnostics.read_capture, each made once
  Handlings,    \* requests that attach a capture or pin it, each made once
  DefaultLife,  \* SnapshotLife
  MaxLife,      \* bound: the longest retention anybody sets
  MaxTime,      \* bound: ticks
  MaxSlips      \* bound: statements that fail

ASSUME CapturesAssumption ==
  /\ {DefaultLife, MaxLife, MaxTime} \subseteq Nat \ {0} /\ DefaultLife <= MaxLife
  /\ MaxSlips \in Nat /\ IsFiniteSet(Clients)

Nobody == "nobody"
Owners == Clients \cup {Nobody}
Never == MaxTime + MaxLife + 1     \* expires_at NULL

VARIABLES
  clients,      \* customers
  reaches,      \* plugin_config: the address in each customer's settings, or Nobody
  taking,       \* each capture: its request, then its row of snapshots
  inquiry,      \* where each call of the model is
  handling,     \* where each request about a capture is
  retention,    \* how long captures are kept
  core, due,    \* whether the program runs; whether its sweep has yet to
  clock, slips,
  longest,      \* longest[k]: the latest anybody could expect k to go
  missed        \* a sweep failed

captureVars == <<clients, reaches, taking, inquiry, handling, retention, core, due,
                 clock, slips, longest, missed>>

NoTaking == [at |-> "new", owner |-> Nobody, address |-> Nobody, taken |-> 0, expires |-> Never,
             named |-> FALSE, claims |-> {}]

CapturesTypeOK ==
  /\ clients \subseteq Clients /\ reaches \in [Clients -> Addresses \cup {Nobody}]
  /\ \A k \in Takings :
       /\ taking[k].at \in {"new", "asking", "matching", "storing", "stored", "gone"}
       /\ taking[k].owner \in Owners /\ taking[k].expires \in Nat
       /\ taking[k].taken \in 0 .. clock /\ taking[k].claims \subseteq Clients
  /\ \A q \in Inquiries : inquiry[q].of \in Owners
  /\ retention \in 1 .. MaxLife /\ clock <= MaxTime /\ slips <= MaxSlips

CapturesInit ==
  /\ clients = Clients /\ reaches \in [Clients -> Addresses]
  /\ taking = [k \in Takings |-> NoTaking]
  /\ inquiry = [q \in Inquiries |-> [at |-> "new", of |-> Nobody, pick |-> "none", wrong |-> FALSE]]
  /\ handling = [h \in Handlings |-> [at |-> "new", what |-> "none", about |-> "none", owner |-> Nobody]]
  /\ retention = DefaultLife /\ core = "up" /\ due = FALSE
  /\ clock = 1 /\ slips = 0 /\ missed = FALSE
  /\ longest = [k \in Takings |-> 0]

Stored == {k \in Takings : taking[k].at = "stored"}
Slip == slips < MaxSlips /\ slips' = slips + 1

-----------------------------------------------------------------------------
(***************************************************************************)
(* A capture comes in.                                                     *)
(***************************************************************************)

\* uploadSnapshot: a customer that exists may be named; the bundle says what
\* phone system it is of, or nothing, and when.
Upload(k, c, a, at) ==
  /\ core = "up" /\ taking[k].at = "new" /\ c \in clients \cup {Nobody} /\ at <= clock
  /\ taking' = [taking EXCEPT ![k] =
       [NoTaking EXCEPT !.at = IF c = Nobody THEN "matching" ELSE "storing",
                        !.owner = c, !.address = a, !.taken = at, !.named = c # Nobody,
                        !.claims = {d \in Clients : reaches[d] = a /\ a # Nobody}]]
  /\ UNCHANGED <<clients, reaches, inquiry, handling, retention, core, due, clock, slips, longest, missed>>

\* Mutant: the first customer found with the address.
ClaimantAny(a) ==
  LET found == {c \in Clients : a # Nobody /\ reaches[c] = a}
  IN IF found = {} THEN {Nobody} ELSE found

\* CustomerByPluginValue: the one customer with the address in its settings;
\* nobody where there are none or several.
Claimant(a) ==
  LET found == {c \in Clients : a # Nobody /\ reaches[c] = a}
  IN IF Cardinality(found) = 1 THEN found ELSE {Nobody}

\* A lookup that fails leaves the capture with nobody.
Match(k) ==
  /\ core = "up" /\ taking[k].at = "matching"
  /\ \E c \in Claimant(taking[k].address) \cup {Nobody} :
       /\ IF c \in Claimant(taking[k].address) THEN UNCHANGED slips ELSE Slip
       /\ taking' = [taking EXCEPT ![k].at = "storing", ![k].owner = c]
  /\ UNCHANGED <<clients, reaches, inquiry, handling, retention, core, due, clock, longest, missed>>

\* pullSnapshot: of a customer that exists; the phone system takes minutes.
Pull(k, c) ==
  /\ core = "up" /\ taking[k].at = "new" /\ c \in clients
  /\ taking' = [taking EXCEPT ![k] = [NoTaking EXCEPT !.at = "asking", !.owner = c, !.named = TRUE]]
  /\ UNCHANGED <<clients, reaches, inquiry, handling, retention, core, due, clock, slips, longest, missed>>

Collected(k) ==
  /\ core = "up" /\ taking[k].at = "asking"
  /\ taking' = [taking EXCEPT ![k].at = "storing", ![k].taken = clock]
  /\ UNCHANGED <<clients, reaches, inquiry, handling, retention, core, due, clock, slips, longest, missed>>

\* It does not answer, has nothing to report, or nobody approved the tool.
NotCollected(k) ==
  /\ core = "up" /\ taking[k].at = "asking"
  /\ taking' = [taking EXCEPT ![k].at = "gone"]
  /\ UNCHANGED <<clients, reaches, inquiry, handling, retention, core, due, clock, slips, longest, missed>>

\* CaptureLife: the setting, or the default where it cannot be read.
Life(readable) == IF readable THEN retention ELSE DefaultLife

StoredUntil(readable) == clock + Life(readable)

\* AddSnapshot: refused by the database where the customer is gone.
Store(k) ==
  /\ core = "up" /\ taking[k].at = "storing"
  /\ \E readable \in BOOLEAN :
       /\ IF readable THEN UNCHANGED slips ELSE Slip
       /\ IF taking[k].owner \in clients \cup {Nobody}
          THEN /\ taking' = [taking EXCEPT ![k].at = "stored", ![k].expires = StoredUntil(readable)]
               /\ longest' = [longest EXCEPT ![k] = clock + Life(readable)]
          ELSE taking' = [taking EXCEPT ![k].at = "gone"] /\ UNCHANGED longest
  /\ UNCHANGED <<clients, reaches, inquiry, handling, retention, core, due, clock, missed>>

-----------------------------------------------------------------------------
(***************************************************************************)
(* What is done with it.                                                   *)
(***************************************************************************)

\* attachSnapshot looks the customer up first; keepSnapshot the retention,
\* where it lets a capture go.
Begin(h, what, k, c) ==
  /\ core = "up" /\ handling[h].at = "new" /\ c \in clients \cup {Nobody} /\ k \in Stored
  /\ what \in {"attach", "keep", "letGo"} /\ (what = "attach" \/ c = Nobody)
  /\ handling' = [handling EXCEPT ![h] = [at |-> "looked", what |-> what, about |-> k, owner |-> c]]
  /\ UNCHANGED <<clients, reaches, taking, inquiry, retention, core, due, clock, slips, longest, missed>>

LetGoUntil(readable) == clock + Life(readable)

\* AttachSnapshot and KeepSnapshot, on a row that may have gone.
Complete(h) ==
  /\ core = "up" /\ handling[h].at = "looked"
  /\ LET k == handling[h].about  c == handling[h].owner  what == handling[h].what IN
       /\ handling' = [handling EXCEPT ![h].at = "over"]
       /\ \/ /\ what = "attach" /\ k \in Stored /\ c \in clients \cup {Nobody}
             /\ taking' = [taking EXCEPT ![k].owner = c, ![k].named = TRUE]
             /\ UNCHANGED <<longest, slips>>
          \/ /\ what = "keep" /\ k \in Stored
             /\ taking' = [taking EXCEPT ![k].expires = Never]
             /\ longest' = [longest EXCEPT ![k] = Never] /\ UNCHANGED slips
          \/ /\ what = "letGo" /\ k \in Stored
             /\ \E readable \in BOOLEAN :
                  /\ IF readable THEN UNCHANGED slips ELSE Slip
                  /\ taking' = [taking EXCEPT ![k].expires = LetGoUntil(readable)]
                  /\ longest' = [longest EXCEPT ![k] = clock + Life(readable)]
          \/ /\ k \notin Stored \/ c \notin clients \cup {Nobody}
             /\ UNCHANGED <<taking, longest, slips>>
  /\ UNCHANGED <<clients, reaches, inquiry, retention, core, due, clock, missed>>

Delete(k) ==
  /\ core = "up" /\ k \in Stored
  /\ taking' = [taking EXCEPT ![k].at = "gone"]
  /\ UNCHANGED <<clients, reaches, inquiry, handling, retention, core, due, clock, slips, longest, missed>>

-----------------------------------------------------------------------------
(***************************************************************************)
(* The model asks: in a conversation about a customer, or about nobody.    *)
(***************************************************************************)

\* Snapshots' order: by when the capture was taken, those that do not say last.
Newest(S) == {k \in S : \A j \in S : taking[j].taken <= taking[k].taken}

Inquire(q, c, k) ==
  /\ core = "up" /\ inquiry[q].at = "new" /\ c \in clients \cup {Nobody}
  /\ inquiry' = [inquiry EXCEPT ![q].of = c, ![q].pick = k,
                                ![q].at = IF k # "none" THEN "reading"
                                          ELSE IF c = Nobody THEN "over" ELSE "choosing"]
  /\ UNCHANGED <<clients, reaches, taking, handling, retention, core, due, clock, slips, longest, missed>>

Choosing(q) ==
  /\ core = "up" /\ inquiry[q].at = "choosing"
  /\ LET own == {k \in Stored : taking[k].owner = inquiry[q].of} IN
       \/ own = {} /\ inquiry' = [inquiry EXCEPT ![q].at = "over"]
       \/ \E k \in Newest(own) : inquiry' = [inquiry EXCEPT ![q].at = "reading", ![q].pick = k]
  /\ UNCHANGED <<clients, reaches, taking, handling, retention, core, due, clock, slips, longest, missed>>

\* "A capture belongs to the customer it was taken from."
Readable(c, owner) == c = Nobody \/ owner = c

Reading(q) ==
  /\ core = "up" /\ inquiry[q].at = "reading"
  /\ LET k == inquiry[q].pick  c == inquiry[q].of IN
       inquiry' = [inquiry EXCEPT
         ![q].at = IF k \in Stored /\ Readable(c, taking[k].owner) THEN "told" ELSE "over",
         ![q].wrong = k \in Stored /\ c # Nobody /\ taking[k].owner # c]
  /\ UNCHANGED <<clients, reaches, taking, handling, retention, core, due, clock, slips, longest, missed>>

-----------------------------------------------------------------------------
(***************************************************************************)
(* Customers, settings, retention, clearing, time.                         *)
(***************************************************************************)

StillClaims(k, new) == {c \in taking[k].claims : new[c] = taking[k].address}
Reaching(new) ==
  /\ reaches' = new
  /\ taking' = [k \in Takings |-> IF taking[k].at = "matching"
                                  THEN [taking[k] EXCEPT !.claims = StillClaims(k, new)] ELSE taking[k]]

\* putSettings, or disconnect.
SetAddress(c, a) ==
  /\ core = "up" /\ c \in clients /\ a # reaches[c]
  /\ Reaching([reaches EXCEPT ![c] = a])
  /\ UNCHANGED <<clients, inquiry, handling, retention, core, due, clock, slips, longest, missed>>

SetRetention(days) ==
  /\ core = "up" /\ days \in 1 .. MaxLife /\ days # retention
  /\ retention' = days
  /\ UNCHANGED <<clients, reaches, taking, inquiry, handling, core, due, clock, slips, longest, missed>>

\* clear, in one transaction: the work, and in a reset the setup too.
Clear(deep) ==
  /\ core = "up" /\ clients # {}
  /\ clients' = IF deep THEN {} ELSE clients
  /\ LET new == IF deep THEN [c \in Clients |-> Nobody] ELSE reaches IN
       /\ reaches' = new
       /\ taking' = [k \in Takings |->
            IF k \in Stored THEN [taking[k] EXCEPT !.at = "gone"]
            ELSE IF taking[k].at = "matching" THEN [taking[k] EXCEPT !.claims = StillClaims(k, new)]
            ELSE taking[k]]
  /\ UNCHANGED <<inquiry, handling, retention, core, due, clock, slips, longest, missed>>

Overdue == {k \in Stored : taking[k].expires <= clock}

\* SweepSnapshots; one that fails is only logged.
Sweep ==
  /\ core = "up" /\ due /\ due' = FALSE
  /\ \/ /\ taking' = [k \in Takings |-> IF k \in Overdue THEN [taking[k] EXCEPT !.at = "gone"]
                                        ELSE taking[k]]
        /\ missed' = FALSE /\ UNCHANGED slips
     \/ Slip /\ missed' = TRUE /\ UNCHANGED taking
  /\ UNCHANGED <<clients, reaches, inquiry, handling, retention, core, clock, longest>>

\* The next hour; the sweep of the last one is over.
Tick ==
  /\ clock < MaxTime /\ ~due
  /\ clock' = clock + 1 /\ due' = (core = "up")
  /\ UNCHANGED <<clients, reaches, taking, inquiry, handling, retention, core, slips, longest, missed>>

\* What was under way is lost.
Stop ==
  /\ core = "up" /\ core' = "down" /\ due' = FALSE
  /\ taking' = [k \in Takings |-> IF taking[k].at \in {"new", "stored"} THEN taking[k]
                                  ELSE [taking[k] EXCEPT !.at = "gone"]]
  /\ inquiry' = [q \in Inquiries |-> IF inquiry[q].at \in {"choosing", "reading"}
                                     THEN [inquiry[q] EXCEPT !.at = "over"] ELSE inquiry[q]]
  /\ handling' = [h \in Handlings |-> IF handling[h].at = "looked"
                                      THEN [handling[h] EXCEPT !.at = "over"] ELSE handling[h]]
  /\ UNCHANGED <<clients, reaches, retention, clock, slips, longest, missed>>

\* "Hourly, and once at startup".
SweepsAtStart == TRUE

Start ==
  /\ core = "down" /\ core' = "up" /\ due' = SweepsAtStart
  /\ UNCHANGED <<clients, reaches, taking, inquiry, handling, retention, clock, slips, longest, missed>>

CapturesNext ==
  \/ \E k \in Takings :
       \/ \E c \in Owners, a \in Addresses \cup {Nobody}, at \in 0 .. MaxTime : Upload(k, c, a, at)
       \/ \E c \in Clients : Pull(k, c)
       \/ Match(k) \/ Collected(k) \/ NotCollected(k) \/ Store(k) \/ Delete(k)
  \/ \E h \in Handlings :
       \/ Complete(h)
       \/ \E what \in {"attach", "keep", "letGo"}, k \in Takings, c \in Owners : Begin(h, what, k, c)
  \/ \E q \in Inquiries :
       \/ \E c \in Owners, k \in Takings \cup {"none"} : Inquire(q, c, k)
       \/ Choosing(q) \/ Reading(q)
  \/ \E c \in Clients, a \in Addresses \cup {Nobody} : SetAddress(c, a)
  \/ \E days \in 1 .. MaxLife : SetRetention(days)
  \/ \E deep \in BOOLEAN : Clear(deep)
  \/ Sweep \/ Tick \/ Stop \/ Start

CapturesSpec == CapturesInit /\ [][CapturesNext]_captureVars

-----------------------------------------------------------------------------

\* "Does not come back up serving expired data" (main.go), "clearing expires_at
\* pins a snapshot" (0019): while the program runs and its sweep of the hour is
\* done, no capture is there past the time it was last given, unless the last
\* word on it was to keep it, or the sweep failed.
GoneOnTime ==
  (core = "up" /\ ~due /\ ~missed) => \A k \in Stored : clock < longest[k]

\* "Picking one of them arbitrarily would file a customer's extension numbers
\* under another customer's name": a capture nobody filed is never under one
\* customer while another had its address in its settings all along.
FiledWithItsOwner ==
  \A k \in Stored : (~taking[k].named /\ taking[k].owner # Nobody) => taking[k].claims \subseteq {taking[k].owner}

\* "Answering about another one across a conversation boundary would leak one
\* customer's telephony": whatever is attached elsewhere between the choice of a
\* capture and its reading, the model is told only of the customer it asked about.
ModelSeesItsOwn == \A q \in Inquiries : inquiry[q].at = "told" => ~inquiry[q].wrong

\* A reset leaves nothing of the customers it removed, whatever was under way.
ResetIsThorough == \A k \in Stored : taking[k].owner \in clients \cup {Nobody}

\* "Using the numbers actually enforced" (expiryWords): the Data screen says
\* captures go after so many days, unless pinned.  Violated: what was stored
\* under a longer retention keeps it.
ScreenSaysWhen == \A k \in Stored : taking[k].expires # Never => taking[k].expires <= clock + retention

\* A capture is with its owner, read by nobody else, and gone when it is due.
CapturesStay ==
  /\ CapturesTypeOK
  /\ GoneOnTime
  /\ FiledWithItsOwner
  /\ ModelSeesItsOwn
  /\ ResetIsThorough

=============================================================================
