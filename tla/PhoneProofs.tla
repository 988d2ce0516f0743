---------------------------- MODULE PhoneProofs ----------------------------
(***************************************************************************)
(* Theorems about the telephones, each module by itself, for any           *)
(* customers, captures, dates, extensions and technicians: a capture is    *)
(* with its owner, read by nobody else, and gone when it is due; a closure *)
(* the tool adds falls on no day of another; a form says it changed what   *)
(* it changed, and changes what it was asked to; a number imported for a   *)
(* trunk rings in one place, and is moved as the screen said it would be.  *)
(***************************************************************************)
EXTENDS PhoneForms, Captures, Closures, Trunks, FiniteSetTheorems, SequenceTheorems, TLAPS

(***************************************************************************)
(* Captures.                                                               *)
(***************************************************************************)

TakingRecords ==
  [at : {"new", "asking", "matching", "storing", "stored", "gone"}, owner : Owners,
   address : Addresses \cup {Nobody}, taken : Nat, expires : Nat, named : BOOLEAN, claims : SUBSET Clients]
InquiryRecords == [at : {"new", "choosing", "reading", "told", "over"}, of : Owners, pick : Takings \cup {"none"}, wrong : BOOLEAN]
HandlingRecords == [at : {"new", "looked", "over"}, what : {"none", "attach", "keep", "letGo"},
                    about : Takings \cup {"none"}, owner : Owners]

CapturesTyped ==
  /\ clients \in SUBSET Clients /\ reaches \in [Clients -> Addresses \cup {Nobody}]
  /\ taking \in [Takings -> TakingRecords]
  /\ inquiry \in [Inquiries -> InquiryRecords]
  /\ handling \in [Handlings -> HandlingRecords]
  /\ retention \in 1 .. MaxLife /\ core \in {"up", "down"}
  /\ due \in BOOLEAN /\ missed \in BOOLEAN
  /\ clock \in 1 .. MaxTime /\ slips \in 0 .. MaxSlips
  /\ longest \in [Takings -> Nat]

\* A capture t of which k is expected by the time until: while it is being
\* matched with its address, those who claim it still have the address; once
\* it is somebody's without having been filed, nobody else claims it.
CaptureFine(t, until) ==
  /\ t.taken <= clock
  /\ t.at = "asking" => t.named
  /\ t.at = "matching" => t.claims \subseteq {c \in Clients : t.address # Nobody /\ reaches[c] = t.address}
  /\ t.at \in {"storing", "stored"} /\ ~t.named /\ t.owner # Nobody => t.claims \subseteq {t.owner}
  /\ t.at = "stored" => t.expires = until /\ t.owner \in clients \cup {Nobody}

CapturesFine == \A k \in Takings : CaptureFine(taking[k], longest[k])

CapturesInv == CapturesTyped /\ CapturesFine /\ GoneOnTime /\ ModelSeesItsOwn

LEMMA CapturesConstants ==
  /\ DefaultLife \in Nat \ {0} /\ MaxLife \in Nat \ {0} /\ MaxTime \in Nat \ {0}
  /\ DefaultLife <= MaxLife /\ MaxSlips \in Nat /\ IsFiniteSet(Clients)
  /\ Never \in Nat /\ Never > MaxTime
BY CapturesAssumption DEF CapturesAssumption, Never

LEMMA CapturesInitially == CapturesInit => CapturesInv
<1> SUFFICES ASSUME CapturesInit PROVE CapturesInv
  OBVIOUS
<1>1. NoTaking \in TakingRecords
  BY CapturesConstants DEF NoTaking, TakingRecords, Owners
<1>2. CapturesTyped
  <2>1. taking \in [Takings -> TakingRecords]
    BY <1>1 DEF CapturesInit
  <2>2. inquiry \in [Inquiries -> InquiryRecords] /\ handling \in [Handlings -> HandlingRecords]
    BY DEF CapturesInit, InquiryRecords, HandlingRecords, Owners
  <2>3. retention \in 1 .. MaxLife /\ clock \in 1 .. MaxTime /\ slips \in 0 .. MaxSlips
    BY CapturesConstants DEF CapturesInit
  <2>4. clients \in SUBSET Clients /\ reaches \in [Clients -> Addresses \cup {Nobody}]
    BY DEF CapturesInit
  <2> QED
    BY <2>1, <2>2, <2>3, <2>4 DEF CapturesInit, CapturesTyped
<1>3. \A k \in Takings : taking[k] = NoTaking
  BY DEF CapturesInit
<1>4. CapturesFine
  BY <1>3 DEF CapturesFine, CaptureFine, NoTaking, CapturesInit
<1>5. GoneOnTime
  BY <1>3 DEF GoneOnTime, Stored, NoTaking
<1>6. ModelSeesItsOwn
  BY DEF ModelSeesItsOwn, CapturesInit
<1> QED
  BY <1>2, <1>4, <1>5, <1>6 DEF CapturesInv

\* One capture goes on, and little else: it stays fine, and is stored for longer
\* than now if it is.
LEMMA OneCaptureGoesOn ==
  ASSUME CapturesInv, NEW k \in Takings, NEW t \in TakingRecords, NEW until \in Nat,
         \A j \in Takings : taking'[j] = IF j = k THEN t ELSE taking[j],
         \A j \in Takings : longest'[j] = IF j = k THEN until ELSE longest[j],
         taking' \in [Takings -> TakingRecords], longest' \in [Takings -> Nat],
         slips' \in 0 .. MaxSlips, handling' \in [Handlings -> HandlingRecords],
         CaptureFine(t, until), t.at = "stored" => clock < until \/ (taking[k].at = "stored" /\ until = longest[k]),
         UNCHANGED <<clients, reaches, inquiry, retention, core, due, clock, missed>>
  PROVE  CapturesInv'
<1>1. CapturesTyped'
  BY DEF CapturesInv, CapturesTyped
<1>2. CapturesFine'
  BY DEF CapturesInv, CapturesFine, CaptureFine
<1>3. GoneOnTime'
  <2> SUFFICES ASSUME core = "up", ~due, ~missed, NEW j \in Takings, taking'[j].at = "stored"
               PROVE  clock < longest'[j]
    BY DEF GoneOnTime, Stored
  <2>1. \A i \in Takings : taking[i].at = "stored" => clock < longest[i]
    BY DEF CapturesInv, GoneOnTime, Stored
  <2> QED
    BY <2>1
<1>4. ModelSeesItsOwn'
  BY DEF CapturesInv, ModelSeesItsOwn
<1> QED
  BY <1>1, <1>2, <1>3, <1>4 DEF CapturesInv

LEMMA UploadFine ==
  ASSUME CapturesInv, NEW k \in Takings, NEW c \in Owners, NEW a \in Addresses \cup {Nobody},
         NEW at \in 0 .. MaxTime, Upload(k, c, a, at)
  PROVE  CapturesInv'
<1>1. PICK t : t = [NoTaking EXCEPT !.at = IF c = Nobody THEN "matching" ELSE "storing",
                        !.owner = c, !.address = a, !.taken = at, !.named = c # Nobody,
                        !.claims = {d \in Clients : reaches[d] = a /\ a # Nobody}]
  OBVIOUS
<1>2. /\ t.at = (IF c = Nobody THEN "matching" ELSE "storing") /\ t.owner = c /\ t.address = a
      /\ t.taken = at /\ t.named = (c # Nobody) /\ t.claims = {d \in Clients : reaches[d] = a /\ a # Nobody}
      /\ t.expires = Never
  BY <1>1 DEF NoTaking
<1>3. t \in TakingRecords
  <2>1. NoTaking \in TakingRecords
    BY CapturesConstants DEF NoTaking, TakingRecords, Owners
  <2>2. (c # Nobody) \in BOOLEAN /\ at \in Nat /\ {d \in Clients : reaches[d] = a /\ a # Nobody} \in SUBSET Clients
    BY CapturesConstants
  <2>3. (IF c = Nobody THEN "matching" ELSE "storing") \in {"new", "asking", "matching", "storing", "stored", "gone"}
    OBVIOUS
  <2> QED
    BY <1>1, <2>1, <2>2, <2>3 DEF TakingRecords
<1>4. CaptureFine(t, longest[k])
  BY <1>2 DEF CaptureFine, Upload
<1>5. taking' = [taking EXCEPT ![k] = t]
  BY <1>1 DEF Upload
<1>6. taking \in [Takings -> TakingRecords] /\ longest \in [Takings -> Nat] /\ slips \in 0 .. MaxSlips
      /\ handling \in [Handlings -> HandlingRecords]
  BY DEF CapturesInv, CapturesTyped
<1>7. UNCHANGED <<clients, reaches, inquiry, handling, retention, core, due, clock, slips, longest, missed>>
  BY DEF Upload
<1> QED
  BY <1>2, <1>3, <1>4, <1>5, <1>6, <1>7, OneCaptureGoesOn

LEMMA ClaimantIsAlone ==
  ASSUME NEW a, NEW c \in Claimant(a), c # Nobody
  PROVE  {d \in Clients : a # Nobody /\ reaches[d] = a} \subseteq {c}
<1> DEFINE found == {d \in Clients : a # Nobody /\ reaches[d] = a}
<1>1. IsFiniteSet(found)
  BY CapturesConstants, FS_Subset
<1>2. Cardinality(found) = 1 /\ c \in found
  BY DEF Claimant
<1>3. PICK x : found = {x}
  BY <1>1, <1>2, FS_Singleton
<1> QED
  BY <1>2, <1>3

\* A capture whose request goes from one stage to another, by Match, Collected,
\* NotCollected, Store and Delete, and what is done with it.
LEMMA MatchFine ==
  ASSUME CapturesInv, NEW k \in Takings, Match(k)
  PROVE  CapturesInv'
<1>0. /\ taking \in [Takings -> TakingRecords] /\ longest \in [Takings -> Nat] /\ slips \in 0 .. MaxSlips
      /\ handling \in [Handlings -> HandlingRecords] /\ CaptureFine(taking[k], longest[k])
  BY DEF CapturesInv, CapturesTyped, CapturesFine
<1>1. taking[k] \in TakingRecords /\ taking[k].at = "matching"
  BY <1>0 DEF Match
<1>2. PICK c \in Claimant(taking[k].address) \cup {Nobody} :
        /\ taking' = [taking EXCEPT ![k].at = "storing", ![k].owner = c]
        /\ slips' = slips \/ (slips < MaxSlips /\ slips' = slips + 1)
  BY DEF Match, Slip
<1>3. c \in Owners
  BY DEF Claimant, Owners
<1>4. PICK t : t = [taking[k] EXCEPT !.at = "storing", !.owner = c]
  OBVIOUS
<1>5. t \in TakingRecords
  BY <1>1, <1>3, <1>4 DEF TakingRecords
<1>6. /\ t.at = "storing" /\ t.owner = c /\ t.address = taking[k].address /\ t.taken = taking[k].taken
      /\ t.claims = taking[k].claims
  BY <1>1, <1>4 DEF TakingRecords
<1>7. taking' = [taking EXCEPT ![k] = t]
  BY <1>0, <1>2, <1>4
<1>8. c # Nobody => taking[k].claims \subseteq {c}
  BY <1>0, <1>1, ClaimantIsAlone DEF CaptureFine
<1>9. CaptureFine(t, longest[k])
  BY <1>0, <1>6, <1>8 DEF CaptureFine
<1>10. UNCHANGED <<clients, reaches, inquiry, handling, retention, core, due, clock, longest, missed>>
  BY DEF Match
<1>11. slips' \in 0 .. MaxSlips
  BY <1>0, <1>2, CapturesConstants
<1> QED
  BY <1>0, <1>5, <1>6, <1>7, <1>9, <1>10, <1>11, OneCaptureGoesOn

LEMMA PullFine ==
  ASSUME CapturesInv, NEW k \in Takings, NEW c \in Clients, Pull(k, c)
  PROVE  CapturesInv'
<1>0. /\ taking \in [Takings -> TakingRecords] /\ longest \in [Takings -> Nat] /\ slips \in 0 .. MaxSlips
      /\ handling \in [Handlings -> HandlingRecords]
  BY DEF CapturesInv, CapturesTyped
<1>1. PICK t : t = [NoTaking EXCEPT !.at = "asking", !.owner = c, !.named = TRUE]
  OBVIOUS
<1>2. t \in TakingRecords /\ t.at = "asking" /\ t.named /\ t.taken = 0
  <2>1. NoTaking \in TakingRecords
    BY CapturesConstants DEF NoTaking, TakingRecords, Owners
  <2>2. c \in Owners
    BY DEF Owners
  <2> QED
    BY <1>1, <2>1, <2>2 DEF TakingRecords, NoTaking
<1>3. clock \in Nat
  BY DEF CapturesInv, CapturesTyped
<1>4. CaptureFine(t, longest[k])
  BY <1>2, <1>3 DEF CaptureFine
<1>5. taking' = [taking EXCEPT ![k] = t]
  BY <1>1 DEF Pull
<1>6. UNCHANGED <<clients, reaches, inquiry, handling, retention, core, due, clock, slips, longest, missed>>
  BY DEF Pull
<1> QED
  BY <1>0, <1>2, <1>4, <1>5, <1>6, OneCaptureGoesOn

LEMMA CollectedFine ==
  ASSUME CapturesInv, NEW k \in Takings, Collected(k)
  PROVE  CapturesInv'
<1>0. /\ taking \in [Takings -> TakingRecords] /\ longest \in [Takings -> Nat] /\ slips \in 0 .. MaxSlips
      /\ handling \in [Handlings -> HandlingRecords] /\ CaptureFine(taking[k], longest[k]) /\ clock \in Nat
  BY DEF CapturesInv, CapturesTyped, CapturesFine
<1>1. taking[k] \in TakingRecords /\ taking[k].at = "asking"
  BY <1>0 DEF Collected
<1>2. PICK t : t = [taking[k] EXCEPT !.at = "storing", !.taken = clock]
  OBVIOUS
<1>3. t \in TakingRecords
  BY <1>0, <1>1, <1>2 DEF TakingRecords
<1>4. t.at = "storing" /\ t.taken = clock /\ t.named = taking[k].named
  BY <1>1, <1>2 DEF TakingRecords
<1>5. CaptureFine(t, longest[k])
  BY <1>0, <1>1, <1>4 DEF CaptureFine
<1>6. taking' = [taking EXCEPT ![k] = t]
  BY <1>0, <1>2 DEF Collected
<1>7. UNCHANGED <<clients, reaches, inquiry, handling, retention, core, due, clock, slips, longest, missed>>
  BY DEF Collected
<1> QED
  BY <1>0, <1>3, <1>4, <1>5, <1>6, <1>7, OneCaptureGoesOn

\* NotCollected and Delete: it is gone.
LEMMA CaptureGone ==
  ASSUME CapturesInv, NEW k \in Takings, taking' = [taking EXCEPT ![k].at = "gone"],
         UNCHANGED <<clients, reaches, inquiry, handling, retention, core, due, clock, slips, longest, missed>>
  PROVE  CapturesInv'
<1>0. /\ taking \in [Takings -> TakingRecords] /\ longest \in [Takings -> Nat] /\ slips \in 0 .. MaxSlips
      /\ handling \in [Handlings -> HandlingRecords] /\ CaptureFine(taking[k], longest[k])
  BY DEF CapturesInv, CapturesTyped, CapturesFine
<1>1. PICK t : t = [taking[k] EXCEPT !.at = "gone"]
  OBVIOUS
<1>2. t \in TakingRecords /\ t.at = "gone" /\ t.taken = taking[k].taken
  BY <1>0, <1>1 DEF TakingRecords
<1>3. CaptureFine(t, longest[k])
  BY <1>0, <1>2 DEF CaptureFine
<1>4. taking' = [taking EXCEPT ![k] = t]
  BY <1>0, <1>1
<1> QED
  BY <1>0, <1>2, <1>3, <1>4, OneCaptureGoesOn

\* A life is a tick at least, so what is stored, or let go, is due after now.
LEMMA StoreFine ==
  ASSUME CapturesInv, NEW k \in Takings, Store(k)
  PROVE  CapturesInv'
<1>0. /\ taking \in [Takings -> TakingRecords] /\ longest \in [Takings -> Nat] /\ slips \in 0 .. MaxSlips
      /\ handling \in [Handlings -> HandlingRecords] /\ CaptureFine(taking[k], longest[k])
      /\ clock \in Nat /\ retention \in 1 .. MaxLife
  BY CapturesConstants DEF CapturesInv, CapturesTyped, CapturesFine
<1>1. taking[k] \in TakingRecords /\ taking[k].at = "storing"
  BY <1>0 DEF Store
<1>2. PICK readable \in BOOLEAN :
        /\ slips' = slips \/ (slips < MaxSlips /\ slips' = slips + 1)
        /\ IF taking[k].owner \in clients \cup {Nobody}
           THEN /\ taking' = [taking EXCEPT ![k].at = "stored", ![k].expires = StoredUntil(readable)]
                /\ longest' = [longest EXCEPT ![k] = clock + Life(readable)]
           ELSE taking' = [taking EXCEPT ![k].at = "gone"] /\ UNCHANGED longest
  BY DEF Store, Slip
<1>3. PICK until \in Nat : until = clock + Life(readable) /\ clock < until
  BY <1>0, CapturesConstants DEF Life
<1>4. slips' \in 0 .. MaxSlips
  BY <1>0, <1>2, CapturesConstants
<1>5. UNCHANGED <<clients, reaches, inquiry, handling, retention, core, due, clock, missed>>
  BY DEF Store
<1>6. CASE taking[k].owner \in clients \cup {Nobody}
  <2>1. PICK t : t = [taking[k] EXCEPT !.at = "stored", !.expires = until]
    OBVIOUS
  <2>2. t \in TakingRecords
    BY <1>1, <2>1 DEF TakingRecords
  <2>3. /\ t.at = "stored" /\ t.expires = until /\ t.owner = taking[k].owner /\ t.taken = taking[k].taken
        /\ t.named = taking[k].named /\ t.claims = taking[k].claims
    BY <1>1, <2>1 DEF TakingRecords
  <2>4. CaptureFine(t, until)
    BY <1>0, <1>1, <1>6, <2>3 DEF CaptureFine
  <2>5. taking' = [taking EXCEPT ![k] = t] /\ longest' = [longest EXCEPT ![k] = until]
    BY <1>0, <1>2, <1>3, <1>6, <2>1 DEF StoredUntil
  <2>6. /\ \A j \in Takings : taking'[j] = IF j = k THEN t ELSE taking[j]
        /\ \A j \in Takings : longest'[j] = IF j = k THEN until ELSE longest[j]
    BY <1>0, <2>5
  <2>7. taking' \in [Takings -> TakingRecords] /\ longest' \in [Takings -> Nat]
    BY <1>0, <1>3, <2>2, <2>5
  <2>8. handling' \in [Handlings -> HandlingRecords]
    BY <1>0, <1>5
  <2>9. t.at = "stored" => clock < until \/ (taking[k].at = "stored" /\ until = longest[k])
    BY <1>3
  <2>10. until \in Nat
    BY <1>3
  <2> QED
    BY <1>4, <1>5, <2>2, <2>4, <2>6, <2>7, <2>8, <2>9, <2>10, OneCaptureGoesOn
<1>7. CASE taking[k].owner \notin clients \cup {Nobody}
  <2>1. PICK t : t = [taking[k] EXCEPT !.at = "gone"]
    OBVIOUS
  <2>2. t \in TakingRecords /\ t.at = "gone" /\ t.taken = taking[k].taken
    BY <1>1, <2>1 DEF TakingRecords
  <2>3. CaptureFine(t, longest[k])
    BY <1>0, <2>2 DEF CaptureFine
  <2>4. taking' = [taking EXCEPT ![k] = t] /\ longest' = longest
    BY <1>0, <1>2, <1>7, <2>1
  <2> QED
    BY <1>0, <1>4, <1>5, <2>2, <2>3, <2>4, OneCaptureGoesOn
<1> QED
  BY <1>6, <1>7

\* Attaching, keeping and letting go: only of what is stored.
LEMMA CompleteFine ==
  ASSUME CapturesInv, NEW h \in Handlings, Complete(h)
  PROVE  CapturesInv'
<1>0. /\ taking \in [Takings -> TakingRecords] /\ longest \in [Takings -> Nat] /\ slips \in 0 .. MaxSlips
      /\ handling \in [Handlings -> HandlingRecords]
      /\ clock \in 1 .. MaxTime /\ retention \in 1 .. MaxLife
  BY DEF CapturesInv, CapturesTyped
<1>1. PICK k : k = handling[h].about
  OBVIOUS
<1>2. PICK c \in Owners : c = handling[h].owner
  BY <1>0 DEF HandlingRecords
<1>3. UNCHANGED <<clients, reaches, inquiry, retention, core, due, clock, missed>>
  BY DEF Complete
<1>4. handling' \in [Handlings -> HandlingRecords]
  BY <1>0 DEF Complete, HandlingRecords
<1>5. \/ /\ k \in Stored /\ c \in clients \cup {Nobody}
         /\ taking' = [taking EXCEPT ![k].owner = c, ![k].named = TRUE]
         /\ UNCHANGED <<longest, slips>>
      \/ /\ k \in Stored
         /\ taking' = [taking EXCEPT ![k].expires = Never]
         /\ longest' = [longest EXCEPT ![k] = Never] /\ UNCHANGED slips
      \/ /\ k \in Stored
         /\ \E readable \in BOOLEAN :
              /\ slips' = slips \/ (slips < MaxSlips /\ slips' = slips + 1)
              /\ taking' = [taking EXCEPT ![k].expires = LetGoUntil(readable)]
              /\ longest' = [longest EXCEPT ![k] = clock + Life(readable)]
      \/ UNCHANGED <<taking, longest, slips>>
  BY <1>1, <1>2 DEF Complete, Slip
<1>6. k \in Stored => /\ k \in Takings /\ taking[k] \in TakingRecords /\ taking[k].at = "stored"
                      /\ CaptureFine(taking[k], longest[k])
  BY <1>0 DEF Stored, CapturesInv, CapturesFine
<1>7. CASE /\ k \in Stored /\ c \in clients \cup {Nobody}
           /\ taking' = [taking EXCEPT ![k].owner = c, ![k].named = TRUE]
           /\ UNCHANGED <<longest, slips>>
  <2>1. PICK t : t = [taking[k] EXCEPT !.owner = c, !.named = TRUE]
    OBVIOUS
  <2>2. t \in TakingRecords
    BY <1>6, <1>7, <2>1 DEF TakingRecords
  <2>3. /\ t.at = "stored" /\ t.owner = c /\ t.named /\ t.expires = taking[k].expires
        /\ t.taken = taking[k].taken
    BY <1>6, <1>7, <2>1 DEF TakingRecords
  <2>4. CaptureFine(t, longest[k])
    BY <1>6, <1>7, <2>3 DEF CaptureFine
  <2>5. taking' = [taking EXCEPT ![k] = t]
    BY <1>0, <1>6, <1>7, <2>1
  <2>6. /\ \A j \in Takings : taking'[j] = IF j = k THEN t ELSE taking[j]
        /\ \A j \in Takings : longest'[j] = IF j = k THEN longest[k] ELSE longest[j]
    BY <1>0, <1>7, <2>5
  <2>7. taking' \in [Takings -> TakingRecords] /\ longest' \in [Takings -> Nat] /\ slips' \in 0 .. MaxSlips /\ longest[k] \in Nat
    BY <1>0, <1>6, <1>7, <2>2, <2>5
  <2> QED
    BY <1>0, <1>3, <1>4, <1>6, <1>7, <2>2, <2>3, <2>4, <2>6, <2>7, OneCaptureGoesOn
<1>8. ASSUME NEW until \in Nat, clock < until, k \in Stored, slips' \in 0 .. MaxSlips,
             taking' = [taking EXCEPT ![k].expires = until], longest' = [longest EXCEPT ![k] = until]
      PROVE  CapturesInv'
  <2>1. PICK t : t = [taking[k] EXCEPT !.expires = until]
    OBVIOUS
  <2>2. t \in TakingRecords
    BY <1>6, <1>8, <2>1 DEF TakingRecords
  <2>3. /\ t.at = "stored" /\ t.owner = taking[k].owner /\ t.named = taking[k].named /\ t.expires = until
        /\ t.taken = taking[k].taken /\ t.claims = taking[k].claims
    BY <1>6, <1>8, <2>1 DEF TakingRecords
  <2>4. CaptureFine(t, until)
    BY <1>6, <1>8, <2>3 DEF CaptureFine
  <2>5. taking' = [taking EXCEPT ![k] = t]
    BY <1>0, <1>6, <1>8, <2>1
  <2> QED
    BY <1>0, <1>3, <1>4, <1>6, <1>8, <2>2, <2>4, <2>5, OneCaptureGoesOn
<1>9. CASE /\ k \in Stored
           /\ taking' = [taking EXCEPT ![k].expires = Never]
           /\ longest' = [longest EXCEPT ![k] = Never] /\ UNCHANGED slips
  <2>1. Never \in Nat /\ clock < Never /\ slips' \in 0 .. MaxSlips
    BY <1>0, <1>9, CapturesConstants
  <2> QED
    BY <1>8, <1>9, <2>1
<1>10. ASSUME k \in Stored, NEW readable \in BOOLEAN,
              slips' = slips \/ (slips < MaxSlips /\ slips' = slips + 1),
              taking' = [taking EXCEPT ![k].expires = LetGoUntil(readable)],
              longest' = [longest EXCEPT ![k] = clock + Life(readable)]
       PROVE  CapturesInv'
  <2>1. PICK until \in Nat : until = clock + Life(readable) /\ clock < until
    BY <1>0, CapturesConstants DEF Life
  <2>2. slips' \in 0 .. MaxSlips
    BY <1>0, <1>10, CapturesConstants
  <2>3. taking' = [taking EXCEPT ![k].expires = until] /\ longest' = [longest EXCEPT ![k] = until]
    BY <1>10, <2>1 DEF LetGoUntil
  <2> QED
    BY <1>8, <1>10, <2>1, <2>2, <2>3
<1>11. CASE UNCHANGED <<taking, longest, slips>>
  BY <1>3, <1>4, <1>11 DEF CapturesInv, CapturesTyped, CapturesFine, CaptureFine, GoneOnTime, Stored, ModelSeesItsOwn
<1> QED
  BY <1>5, <1>7, <1>9, <1>10, <1>11

\* The captures stay as they are.
LEMMA CapturesUntouched ==
  ASSUME CapturesInv, UNCHANGED <<clients, reaches, taking, core, slips, longest, missed>>,
         inquiry' \in [Inquiries -> InquiryRecords], handling' \in [Handlings -> HandlingRecords],
         retention' \in 1 .. MaxLife, due' \in BOOLEAN, clock' \in 1 .. MaxTime,
         clock' >= clock, clock' = clock \/ due' \/ core # "up", due => due',
         \A q \in Inquiries : inquiry'[q].at = "told" => ~inquiry'[q].wrong
  PROVE  CapturesInv'
<1>1. CapturesTyped'
  BY DEF CapturesInv, CapturesTyped
<1>2. CapturesFine'
  <2>1. \A k \in Takings : taking[k].taken \in Nat
    BY DEF CapturesInv, CapturesTyped, TakingRecords
  <2>2. clock \in Nat /\ clock' \in Nat
    BY DEF CapturesInv, CapturesTyped
  <2> QED
    BY <2>1, <2>2 DEF CapturesInv, CapturesFine, CaptureFine
<1>3. GoneOnTime' /\ ModelSeesItsOwn'
  BY DEF CapturesInv, GoneOnTime, Stored, ModelSeesItsOwn
<1> QED
  BY <1>1, <1>2, <1>3 DEF CapturesInv

LEMMA BeginFine ==
  ASSUME CapturesInv, NEW h \in Handlings, NEW what \in {"attach", "keep", "letGo"}, NEW k \in Takings,
         NEW c \in Owners, Begin(h, what, k, c)
  PROVE  CapturesInv'
<1>1. handling' \in [Handlings -> HandlingRecords]
  BY DEF CapturesInv, CapturesTyped, Begin, HandlingRecords
<1> QED
  BY <1>1, CapturesUntouched DEF Begin, CapturesInv, CapturesTyped, ModelSeesItsOwn

\* The model is told only of the customer it asked about, or asked about nobody.
LEMMA InquiryFine ==
  ASSUME CapturesInv, NEW q \in Inquiries,
         \/ \E c \in Owners, k \in Takings \cup {"none"} : Inquire(q, c, k)
         \/ Choosing(q) \/ Reading(q)
  PROVE  CapturesInv'
<1>0. inquiry \in [Inquiries -> InquiryRecords] /\ inquiry[q] \in InquiryRecords
  BY DEF CapturesInv, CapturesTyped
<1>1. UNCHANGED <<clients, reaches, taking, handling, retention, core, due, clock, slips, longest, missed>>
  BY DEF Inquire, Choosing, Reading
<1>2. ASSUME NEW i \in InquiryRecords, inquiry' = [inquiry EXCEPT ![q] = i], i.at = "told" => ~i.wrong
      PROVE  CapturesInv'
  <2>1. inquiry' \in [Inquiries -> InquiryRecords]
    BY <1>0, <1>2
  <2>2. \A p \in Inquiries : inquiry'[p].at = "told" => ~inquiry'[p].wrong
    BY <1>0, <1>2 DEF CapturesInv, ModelSeesItsOwn
  <2> QED
    BY <1>1, <2>1, <2>2, CapturesUntouched DEF CapturesInv, CapturesTyped
<1>3. ASSUME NEW c \in Owners, NEW k \in Takings \cup {"none"}, Inquire(q, c, k)
      PROVE  CapturesInv'
  <2>1. PICK to \in {"reading", "over", "choosing"} :
          to = IF k # "none" THEN "reading" ELSE IF c = Nobody THEN "over" ELSE "choosing"
    OBVIOUS
  <2>2. PICK i : i = [inquiry[q] EXCEPT !.of = c, !.pick = k, !.at = to]
    OBVIOUS
  <2>3. i \in InquiryRecords /\ i.at = to
    BY <1>0, <1>3, <2>1, <2>2 DEF InquiryRecords
  <2>4. inquiry' = [inquiry EXCEPT ![q] = i]
    BY <1>0, <1>3, <2>1, <2>2 DEF Inquire
  <2> QED
    BY <1>2, <2>1, <2>3, <2>4
<1>4. CASE Choosing(q)
  <2>1. CASE inquiry' = [inquiry EXCEPT ![q].at = "over"]
    <3>1. PICK i : i = [inquiry[q] EXCEPT !.at = "over"]
      OBVIOUS
    <3>2. i \in InquiryRecords /\ i.at = "over" /\ inquiry' = [inquiry EXCEPT ![q] = i]
      BY <1>0, <2>1, <3>1 DEF InquiryRecords
    <3> QED
      BY <1>2, <3>2
  <2>2. ASSUME NEW k \in Takings, inquiry' = [inquiry EXCEPT ![q].at = "reading", ![q].pick = k]
        PROVE  CapturesInv'
    <3>1. PICK i : i = [inquiry[q] EXCEPT !.at = "reading", !.pick = k]
      OBVIOUS
    <3>2. i \in InquiryRecords /\ i.at = "reading"
      BY <1>0, <3>1 DEF InquiryRecords
    <3>3. inquiry' = [inquiry EXCEPT ![q] = i]
      BY <1>0, <2>2, <3>1
    <3> QED
      BY <1>2, <3>2, <3>3
  <2> QED
    BY <1>4, <2>1, <2>2 DEF Choosing, Newest, Stored
<1>5. CASE Reading(q)
  <2>1. PICK k : k = inquiry[q].pick
    OBVIOUS
  <2>2. PICK c : c = inquiry[q].of
    OBVIOUS
  <2>3. PICK to \in {"told", "over"} : to = IF k \in Stored /\ Readable(c, taking[k].owner) THEN "told" ELSE "over"
    OBVIOUS
  <2>4. PICK no \in BOOLEAN : no = (k \in Stored /\ c # Nobody /\ taking[k].owner # c)
    OBVIOUS
  <2>5. PICK i : i = [inquiry[q] EXCEPT !.at = to, !.wrong = no]
    OBVIOUS
  <2>6. i \in InquiryRecords /\ i.at = to /\ i.wrong = no
    BY <1>0, <2>3, <2>4, <2>5 DEF InquiryRecords
  <2>7. inquiry' = [inquiry EXCEPT ![q].at = to, ![q].wrong = no]
    BY <1>5, <2>1, <2>2, <2>3, <2>4 DEF Reading
  <2>8. inquiry' = [inquiry EXCEPT ![q] = i]
    BY <1>0, <2>5, <2>7
  <2>9. to = "told" => ~no
    BY <2>3, <2>4 DEF Readable
  <2> QED
    BY <1>2, <2>6, <2>8, <2>9
<1> QED
  BY <1>3, <1>4, <1>5

\* Many captures at once, each left alone, gone, or rid of a claim: by what is
\* done to customers and addresses, by the sweep, and when the program stops.
LessOf(t, old) ==
  /\ t \in TakingRecords /\ t.owner = old.owner /\ t.taken = old.taken /\ t.named = old.named
  /\ t.address = old.address /\ t.expires = old.expires /\ t.claims \subseteq old.claims
  /\ t.at \in {old.at, "gone"}

LEMMA ManyCapturesGoOn ==
  ASSUME CapturesInv, UNCHANGED <<clock, longest, retention>>,
         clients' \in SUBSET Clients, reaches' \in [Clients -> Addresses \cup {Nobody}],
         taking' \in [Takings -> TakingRecords], \A k \in Takings : LessOf(taking'[k], taking[k]),
         \A k \in Takings : taking'[k].at = "matching" =>
           taking'[k].claims \subseteq {c \in Clients : taking'[k].address # Nobody /\ reaches'[c] = taking'[k].address},
         \A k \in Takings : taking'[k].at = "stored" => taking'[k].owner \in clients' \cup {Nobody},
         inquiry' \in [Inquiries -> InquiryRecords], handling' \in [Handlings -> HandlingRecords],
         \A q \in Inquiries : inquiry'[q].at = "told" => ~inquiry'[q].wrong,
         core' \in {"up", "down"}, due' \in BOOLEAN, missed' \in BOOLEAN, slips' \in 0 .. MaxSlips,
         GoneOnTime'
  PROVE  CapturesInv'
<1>1. CapturesTyped'
  BY DEF CapturesInv, CapturesTyped
<1>2. CapturesFine'
  <2> SUFFICES ASSUME NEW k \in Takings PROVE CaptureFine(taking[k], longest[k])'
    BY DEF CapturesFine
  <2>1. CaptureFine(taking[k], longest[k]) /\ LessOf(taking'[k], taking[k])
    BY DEF CapturesInv, CapturesFine
  <2> QED
    BY <2>1 DEF CaptureFine, LessOf
<1>3. ModelSeesItsOwn'
  BY DEF ModelSeesItsOwn
<1> QED
  BY <1>1, <1>2, <1>3 DEF CapturesInv

LEMMA Lessened ==
  ASSUME NEW old \in TakingRecords
  PROVE  /\ LessOf(old, old)
         /\ LessOf([old EXCEPT !.at = "gone"], old) /\ [old EXCEPT !.at = "gone"].at = "gone"
BY DEF LessOf, TakingRecords

LEMMA ClaimsLessened ==
  ASSUME NEW old \in TakingRecords, NEW S \in SUBSET old.claims, NEW t, t = [old EXCEPT !.claims = S]
  PROVE  LessOf(t, old) /\ t.claims = S /\ t.at = old.at
BY DEF LessOf, TakingRecords

LEMMA CapturesNow ==
  ASSUME CapturesInv
  PROVE  /\ clients \in SUBSET Clients /\ reaches \in [Clients -> Addresses \cup {Nobody}]
         /\ taking \in [Takings -> TakingRecords] /\ inquiry \in [Inquiries -> InquiryRecords]
         /\ handling \in [Handlings -> HandlingRecords] /\ core \in {"up", "down"}
         /\ due \in BOOLEAN /\ missed \in BOOLEAN /\ slips \in 0 .. MaxSlips /\ clock \in 1 .. MaxTime
         /\ \A q \in Inquiries : inquiry[q].at = "told" => ~inquiry[q].wrong
         /\ \A k \in Takings : CaptureFine(taking[k], longest[k])
BY DEF CapturesInv, CapturesTyped, ModelSeesItsOwn, CapturesFine

\* Addresses change: captures that are being matched lose the claims of those
\* who have another address now.
LEMMA SetAddressFine ==
  ASSUME CapturesInv, NEW c \in Clients, NEW a \in Addresses \cup {Nobody}, SetAddress(c, a)
  PROVE  CapturesInv'
<1>1. PICK new \in [Clients -> Addresses \cup {Nobody}] : new = [reaches EXCEPT ![c] = a]
  BY CapturesNow
<1>2. /\ reaches' = new
      /\ taking' = [k \in Takings |-> IF taking[k].at = "matching"
                                      THEN [taking[k] EXCEPT !.claims = StillClaims(k, new)] ELSE taking[k]]
      /\ UNCHANGED <<clients, inquiry, handling, retention, core, due, clock, slips, longest, missed>>
  BY <1>1 DEF SetAddress, Reaching
<1>3. ASSUME NEW k \in Takings
      PROVE  /\ LessOf(taking'[k], taking[k])
             /\ taking'[k].at = "matching" =>
                  taking'[k].claims \subseteq {d \in Clients : taking'[k].address # Nobody /\ reaches'[d] = taking'[k].address}
             /\ taking'[k].at = taking[k].at
  <2>1. taking[k] \in TakingRecords /\ CaptureFine(taking[k], longest[k])
    BY CapturesNow
  <2>2. CASE taking[k].at = "matching"
    <3>1. PICK S \in SUBSET taking[k].claims : S = StillClaims(k, new)
      BY DEF StillClaims
    <3>2. taking'[k] = [taking[k] EXCEPT !.claims = S]
      BY <1>2, <2>2, <3>1
    <3>3. LessOf(taking'[k], taking[k]) /\ taking'[k].claims = S /\ taking'[k].at = "matching"
      BY <2>1, <2>2, <3>2, ClaimsLessened
    <3>4. S \subseteq {d \in Clients : taking[k].address # Nobody /\ new[d] = taking[k].address}
      BY <2>1, <2>2, <3>1 DEF StillClaims, CaptureFine
    <3> QED
      BY <1>2, <2>2, <3>3, <3>4 DEF LessOf
  <2>3. CASE taking[k].at # "matching"
    BY <1>2, <2>1, <2>3, Lessened
  <2> QED
    BY <2>2, <2>3
<1>4. taking' \in [Takings -> TakingRecords]
  BY <1>2, <1>3 DEF LessOf
<1>5. \A k \in Takings : taking'[k].at = "stored" => taking'[k].owner \in clients' \cup {Nobody}
  BY <1>2, <1>3, CapturesNow DEF LessOf, CaptureFine
<1>6. GoneOnTime'
  BY <1>2, <1>3 DEF CapturesInv, GoneOnTime, Stored
<1> QED
  BY <1>2, <1>3, <1>4, <1>5, <1>6, CapturesNow, ManyCapturesGoOn

\* clear: what is stored goes, with the customers in a reset.
LEMMA ClearFine ==
  ASSUME CapturesInv, NEW deep \in BOOLEAN, Clear(deep)
  PROVE  CapturesInv'
<1>1. PICK new \in [Clients -> Addresses \cup {Nobody}] : new = IF deep THEN [c \in Clients |-> Nobody] ELSE reaches
  BY CapturesNow
<1>2. /\ clients' \in SUBSET Clients /\ reaches' = new
      /\ taking' = [k \in Takings |->
            IF k \in Stored THEN [taking[k] EXCEPT !.at = "gone"]
            ELSE IF taking[k].at = "matching" THEN [taking[k] EXCEPT !.claims = StillClaims(k, new)]
            ELSE taking[k]]
      /\ UNCHANGED <<inquiry, handling, retention, core, due, clock, slips, longest, missed>>
  BY <1>1, CapturesNow DEF Clear
<1>3. ASSUME NEW k \in Takings
      PROVE  /\ LessOf(taking'[k], taking[k])
             /\ taking'[k].at = "matching" =>
                  taking'[k].claims \subseteq {d \in Clients : taking'[k].address # Nobody /\ reaches'[d] = taking'[k].address}
             /\ taking'[k].at # "stored"
  <2>1. taking[k] \in TakingRecords /\ CaptureFine(taking[k], longest[k])
    BY CapturesNow
  <2>2. CASE taking[k].at = "matching"
    <3>1. PICK S \in SUBSET taking[k].claims : S = StillClaims(k, new)
      BY DEF StillClaims
    <3>2. taking'[k] = [taking[k] EXCEPT !.claims = S]
      BY <1>2, <2>2, <3>1 DEF Stored
    <3>3. LessOf(taking'[k], taking[k]) /\ taking'[k].claims = S /\ taking'[k].at = "matching"
      BY <2>1, <2>2, <3>2, ClaimsLessened
    <3>4. S \subseteq {d \in Clients : taking[k].address # Nobody /\ new[d] = taking[k].address}
      BY <2>1, <2>2, <3>1 DEF StillClaims, CaptureFine
    <3> QED
      BY <1>2, <2>2, <3>3, <3>4 DEF LessOf
  <2>3. CASE taking[k].at = "stored"
    BY <1>2, <2>1, <2>3, Lessened DEF Stored
  <2>4. CASE taking[k].at \notin {"matching", "stored"}
    BY <1>2, <2>1, <2>4, Lessened DEF Stored
  <2> QED
    BY <2>2, <2>3, <2>4
<1>4. taking' \in [Takings -> TakingRecords]
  BY <1>2, <1>3 DEF LessOf
<1>5. GoneOnTime'
  BY <1>3 DEF GoneOnTime, Stored
<1> QED
  BY <1>2, <1>3, <1>4, <1>5, CapturesNow, ManyCapturesGoOn

\* After a sweep that worked nothing overdue is left.
LEMMA SweepFine ==
  ASSUME CapturesInv, Sweep
  PROVE  CapturesInv'
<1>1. UNCHANGED <<clients, reaches, inquiry, handling, retention, core, clock, longest>> /\ due' = FALSE
  BY DEF Sweep
<1>2. ASSUME taking' = [k \in Takings |-> IF k \in Overdue THEN [taking[k] EXCEPT !.at = "gone"] ELSE taking[k]],
             missed' = FALSE, UNCHANGED slips
      PROVE  CapturesInv'
  <2>1. ASSUME NEW k \in Takings
        PROVE  /\ LessOf(taking'[k], taking[k]) /\ taking'[k].at \in {taking[k].at, "gone"}
               /\ k \in Overdue => taking'[k].at = "gone"
    <3>1. taking[k] \in TakingRecords
      BY CapturesNow
    <3> QED
      BY <1>2, <3>1, Lessened
  <2>2. taking' \in [Takings -> TakingRecords]
    BY <1>2, <2>1 DEF LessOf
  <2>3. GoneOnTime'
    <3> SUFFICES ASSUME NEW k \in Takings, taking'[k].at = "stored" PROVE clock < longest[k]
      BY <1>1 DEF GoneOnTime, Stored
    <3>1. taking[k].at = "stored" /\ k \notin Overdue
      BY <2>1
    <3>2. taking[k].expires = longest[k]
      BY <3>1, CapturesNow DEF CaptureFine
    <3>3. ~(longest[k] <= clock) /\ longest[k] \in Nat /\ clock \in Nat
      BY <3>1, <3>2 DEF Overdue, Stored, CapturesInv, CapturesTyped
    <3> QED
      BY <3>3
  <2>4. \A k \in Takings : taking'[k].at = "matching" =>
           taking'[k].claims \subseteq {c \in Clients : taking'[k].address # Nobody /\ reaches'[c] = taking'[k].address}
    BY <1>1, <2>1, CapturesNow DEF LessOf, CaptureFine
  <2>5. \A k \in Takings : taking'[k].at = "stored" => taking'[k].owner \in clients' \cup {Nobody}
    BY <1>1, <2>1, CapturesNow DEF LessOf, CaptureFine
  <2> QED
    BY <1>1, <1>2, <2>1, <2>2, <2>3, <2>4, <2>5, CapturesNow, ManyCapturesGoOn
<1>3. CASE Slip /\ missed' = TRUE /\ UNCHANGED taking
  <2>1. slips' \in 0 .. MaxSlips
    BY <1>3, CapturesNow, CapturesConstants DEF Slip
  <2> QED
    BY <1>1, <1>3, <2>1 DEF CapturesInv, CapturesTyped, CapturesFine, CaptureFine, GoneOnTime, Stored, ModelSeesItsOwn
<1> QED
  BY <1>2, <1>3 DEF Sweep

LEMMA StopFine ==
  ASSUME CapturesInv, Stop
  PROVE  CapturesInv'
<1>1. /\ core' = "down" /\ due' = FALSE /\ UNCHANGED <<clients, reaches, retention, clock, slips, longest, missed>>
      /\ taking' = [k \in Takings |-> IF taking[k].at \in {"new", "stored"} THEN taking[k]
                                      ELSE [taking[k] EXCEPT !.at = "gone"]]
  BY DEF Stop
<1>2. ASSUME NEW k \in Takings
      PROVE  LessOf(taking'[k], taking[k]) /\ (taking'[k].at = "stored" => taking[k].at = "stored")
             /\ taking'[k].at # "matching"
  <2>1. taking[k] \in TakingRecords
    BY CapturesNow
  <2> QED
    BY <1>1, <2>1, Lessened
<1>3. taking' \in [Takings -> TakingRecords]
  BY <1>1, <1>2 DEF LessOf
<1>4. inquiry' \in [Inquiries -> InquiryRecords] /\ \A q \in Inquiries : inquiry'[q].at = "told" => ~inquiry'[q].wrong
  BY CapturesNow DEF Stop, InquiryRecords
<1>5. handling' \in [Handlings -> HandlingRecords]
  BY CapturesNow DEF Stop, HandlingRecords
<1>6. \A k \in Takings : taking'[k].at = "stored" => taking'[k].owner \in clients' \cup {Nobody}
  BY <1>1, <1>2, CapturesNow DEF LessOf, CaptureFine
<1>7. GoneOnTime'
  BY <1>1 DEF GoneOnTime
<1> QED
  BY <1>1, <1>2, <1>3, <1>4, <1>5, <1>6, <1>7, CapturesNow, ManyCapturesGoOn

LEMMA CapturesStep == CapturesInv /\ [CapturesNext]_captureVars => CapturesInv'
<1> SUFFICES ASSUME CapturesInv, [CapturesNext]_captureVars PROVE CapturesInv'
  OBVIOUS
<1>1. ASSUME NEW k \in Takings, Match(k) \/ Collected(k) \/ NotCollected(k) \/ Store(k) \/ Delete(k)
      PROVE  CapturesInv'
  BY <1>1, MatchFine, CollectedFine, CaptureGone, StoreFine DEF NotCollected, Delete
<1>2. CASE \E days \in 1 .. MaxLife : SetRetention(days)
  BY <1>2, CapturesNow, CapturesUntouched DEF SetRetention
<1>3. CASE Tick
  <2>1. clock' \in 1 .. MaxTime /\ clock' >= clock /\ due' \in BOOLEAN /\ (clock' = clock \/ due' \/ core # "up") /\ ~due
    <3>1. clock' = clock + 1 /\ clock < MaxTime /\ ~due /\ due' = (core = "up")
      BY <1>3 DEF Tick
    <3>2. clock' \in 1 .. MaxTime /\ clock' >= clock
      BY <3>1, CapturesNow, CapturesConstants
    <3>3. due' \in BOOLEAN /\ (due' \/ core # "up")
      BY <3>1
    <3> QED
      BY <3>1, <3>2, <3>3
  <2>2. retention \in 1 .. MaxLife
    BY DEF CapturesInv, CapturesTyped
  <2> QED
    BY <1>3, <2>1, <2>2, CapturesNow, CapturesUntouched DEF Tick
<1>4. CASE Start
  <2>1. CapturesTyped'
    BY <1>4 DEF Start, SweepsAtStart, CapturesInv, CapturesTyped
  <2>2. due' = TRUE /\ UNCHANGED <<clients, reaches, taking, inquiry, longest, clock>>
    BY <1>4 DEF Start, SweepsAtStart
  <2> QED
    BY <2>1, <2>2 DEF CapturesInv, CapturesFine, CaptureFine, GoneOnTime, ModelSeesItsOwn
<1>5. CASE UNCHANGED captureVars
  BY <1>5 DEF captureVars, CapturesInv, CapturesTyped, CapturesFine, CaptureFine, GoneOnTime, Stored, ModelSeesItsOwn
<1> QED
  BY <1>1, <1>2, <1>3, <1>4, <1>5, UploadFine, PullFine, CompleteFine, BeginFine, InquiryFine, SetAddressFine,
     ClearFine, SweepFine, StopFine DEF CapturesNext

\* A capture is filed under nobody else than whose address it came from, read by
\* nobody else, leaves with its customer, and is gone on time, for any customers,
\* captures, readers and retention: AttachSnapshot, SweepSnapshots, clear and
\* CustomerByPluginValue beside each other (api/snapshots.go, store/snapshots.go).
THEOREM CapturesKept == CapturesSpec => []CapturesStay
<1>1. CapturesInv => CapturesStay
  <2> SUFFICES ASSUME CapturesInv PROVE CapturesStay
    OBVIOUS
  <2>1. \A k \in Takings : taking[k] \in TakingRecords /\ CaptureFine(taking[k], longest[k])
    BY DEF CapturesInv, CapturesTyped, CapturesFine
  <2>2. ASSUME NEW k \in Takings
        PROVE  /\ taking[k].at \in {"new", "asking", "matching", "storing", "stored", "gone"}
               /\ taking[k].owner \in Owners /\ taking[k].expires \in Nat
               /\ taking[k].taken \in 0 .. clock /\ taking[k].claims \subseteq Clients
    <3>1. taking[k] \in TakingRecords /\ taking[k].taken <= clock
      BY <2>1 DEF CaptureFine
    <3>2. clock \in Nat
      BY DEF CapturesInv, CapturesTyped
    <3> QED
      BY <3>1, <3>2 DEF TakingRecords
  <2>3. \A q \in Inquiries : inquiry[q].of \in Owners
    BY DEF CapturesInv, CapturesTyped, InquiryRecords
  <2>4. CapturesTypeOK
    BY <2>2, <2>3, CapturesConstants DEF CapturesInv, CapturesTyped, CapturesTypeOK
  <2>5. FiledWithItsOwner /\ ResetIsThorough
    BY <2>1 DEF FiledWithItsOwner, ResetIsThorough, Stored, CaptureFine
  <2> QED
    BY <2>4, <2>5 DEF CapturesInv, CapturesStay
<1> QED
  BY <1>1, CapturesInitially, CapturesStep, PTL DEF CapturesSpec

(***************************************************************************)
(* Closures.                                                               *)
(***************************************************************************)

LEMMA CalendarConstants ==
  YearLength \in Nat \ {0} /\ LastYear \in Nat \ {0} /\ MaxHitches \in Nat /\ Names # {}
BY CalendarAssumption DEF CalendarAssumption

LEMMA ClosureFields ==
  ASSUME NEW c \in Closures
  PROVE  /\ c.year \in Nat /\ YearEnd(c) \in Nat /\ c.day \in Nat /\ c.dayEnd \in Nat
         /\ 1 <= c.day /\ c.day <= YearLength /\ 1 <= c.dayEnd /\ c.dayEnd <= YearLength
         /\ c.made \in {"there", "tool", "console"}
BY CalendarConstants DEF Closures, DaysOfYear, YearEnd

\* Counting by years of some length: what is a year or more apart.
LEMMA WholeYears ==
  ASSUME NEW n \in Int, NEW l \in Nat
  PROVE  /\ n * l \in Int
         /\ n >= 1 => n * l >= l
         /\ n >= 2 => n * l >= 2 * l
         /\ n <= -1 => n * l <= -l
         /\ n = 0 => n * l = 0
         /\ n = 1 => n * l = l
<1>1. n * l \in Int
  OBVIOUS
<1>2. CASE n >= 1
  <2>1. PICK m \in Nat : m = n - 1
    BY <1>2
  <2>2. m * l >= 0 /\ m * l \in Nat
    BY <2>1
  <2>3. n * l = m * l + l
    BY <2>1
  <2>4. n >= 2 => n * l >= 2 * l
    <3>1. CASE n >= 2
      <4>1. PICK k \in Nat : k = n - 2
        BY <3>1
      <4>2. k * l \in Nat
        BY <4>1
      <4>3. n * l = k * l + 2 * l
        BY <4>1
      <4> QED
        BY <4>2, <4>3
    <3> QED
      BY <3>1
  <2> QED
    BY <1>1, <1>2, <2>2, <2>3, <2>4
<1>3. CASE n <= -1
  <2>1. PICK m \in Nat : m = -1 - n
    BY <1>3
  <2>2. m * l \in Nat
    BY <2>1
  <2>3. n * l = -(m * l) - l
    BY <2>1
  <2> QED
    BY <1>1, <1>3, <2>2, <2>3
<1> QED
  BY <1>1, <1>2, <1>3

LEMMA YearsBetween ==
  ASSUME NEW y \in Int, NEW z \in Int, NEW l \in Nat
  PROVE  (z - 1) * l = (y - 1) * l + (z - y) * l /\ (y - 1) * l \in Int
OBVIOUS

\* daysOf has every day of a closure of a year at most, and its years.
LEMMA DaysAreAll ==
  ASSUME NEW c \in Closures, ~Overlong(c),
         NEW y \in 1 .. LastYear, NEW d \in DaysOfYear, On(c, y, d)
  PROVE  d \in DaysOf(c) /\ (Repeating(c) \/ (c.year <= y /\ y <= YearEnd(c)))
<1> DEFINE l == YearLength
<1>0. y \in Int /\ d \in Int /\ 1 <= d /\ d <= l /\ l \in Nat
  BY CalendarConstants DEF DaysOfYear
<1>1. CASE Repeating(c)
  BY <1>0, <1>1, ClosureFields DEF On, DaysOf
<1>2. CASE ~Repeating(c)
  <2>1. /\ Ordinal(c.year, c.day) <= Ordinal(y, d) /\ Ordinal(y, d) <= Ordinal(YearEnd(c), c.dayEnd)
        /\ Ordinal(YearEnd(c), c.dayEnd) < Ordinal(c.year, c.day) + l
    <3>1. Ordinal(YearEnd(c), c.dayEnd) \in Int /\ Ordinal(c.year, c.day) \in Int
      BY <1>0, ClosureFields DEF Ordinal
    <3> QED
      BY <1>0, <1>2, <3>1 DEF On, Overlong
  <2>2. PICK s \in Int : s = (c.year - 1) * l
    BY <1>0, ClosureFields
  <2>3. PICK a \in Int : a = y - c.year
    BY <1>0, ClosureFields
  <2>4. PICK b \in Int : b = YearEnd(c) - c.year
    BY ClosureFields
  <2>5. (y - 1) * l = s + a * l /\ (YearEnd(c) - 1) * l = s + b * l
    BY <1>0, <2>2, <2>3, <2>4, ClosureFields, YearsBetween
  <2>6. PICK e \in Int : e = a * l
    BY <1>0
  <2>7. PICK f \in Int : f = b * l
    BY <1>0
  <2>8. s + c.day <= s + e + d /\ s + e + d <= s + f + c.dayEnd /\ s + f + c.dayEnd < s + c.day + l
    BY <2>1, <2>2, <2>5, <2>6, <2>7 DEF Ordinal
  <2>9. /\ a >= 1 => e >= l
        /\ a >= 2 => e >= 2 * l
        /\ a <= -1 => e <= -l
        /\ a = 0 => e = 0
        /\ a = 1 => e = l
    BY <1>0, <2>6, WholeYears
  <2>10. /\ b >= 1 => f >= l
         /\ b >= 2 => f >= 2 * l
         /\ b <= -1 => f <= -l
         /\ b = 0 => f = 0
         /\ b = 1 => f = l
    BY <1>0, <2>7, WholeYears
  <2>11. a = 0 \/ a = 1
    BY <1>0, <2>8, <2>9, ClosureFields
  <2>12. b = 0 \/ b = 1
    BY <1>0, <2>8, <2>10, ClosureFields
  <2>13. CASE b = 0
    <3>1. f = 0
      BY <2>10, <2>13
    <3>2. a = 0 /\ e = 0
      BY <1>0, <2>8, <2>9, <2>11, <3>1, ClosureFields
    <3> QED
      BY <1>0, <2>3, <2>4, <2>8, <2>13, <3>1, <3>2, ClosureFields DEF DaysOf
  <2>14. CASE b = 1
    <3>1. f = l
      BY <2>10, <2>14
    <3>2. c.dayEnd < c.day
      BY <1>0, <2>8, <3>1, ClosureFields
    <3>3. c.day <= d \/ d <= c.dayEnd
      BY <1>0, <2>8, <2>9, <2>11, <3>1, ClosureFields
    <3> QED
      BY <1>0, <2>3, <2>4, <2>11, <2>14, <3>2, <3>3, ClosureFields DEF DaysOf
  <2> QED
    BY <2>12, <2>13, <2>14
<1> QED
  BY <1>1, <1>2

\* So two closures that meet overlap, as the tool reckons it.
LEMMA MeetingOverlaps ==
  ASSUME NEW a \in Closures, NEW b \in Closures, ~Overlong(a), ~Overlong(b), Meet(a, b)
  PROVE  Overlap(a, b)
<1>1. PICK y \in 1 .. LastYear, d \in DaysOfYear : On(a, y, d) /\ On(b, y, d)
  BY DEF Meet
<1>2. d \in DaysOf(a) /\ (Repeating(a) \/ (a.year <= y /\ y <= YearEnd(a)))
  BY <1>1, DaysAreAll
<1>3. d \in DaysOf(b) /\ (Repeating(b) \/ (b.year <= y /\ y <= YearEnd(b)))
  BY <1>1, DaysAreAll
<1>4. SameYears(a, b)
  BY <1>2, <1>3, ClosureFields, CalendarConstants DEF SameYears
<1> QED
  BY <1>2, <1>3, <1>4 DEF Overlap

LEMMA OverlapIsMutual ==
  ASSUME NEW a \in Closures, NEW b \in Closures
  PROVE  Overlap(a, b) <=> Overlap(b, a)
BY DEF Overlap, SameYears

Plans == [at : {"idle", "queued", "checked", "added", "refused", "failed", "removed"}, wanted : Wanted]

ClosuresTyped ==
  /\ schedule \in SUBSET Closures
  /\ plan \in [Planners -> Plans]
  /\ hitches \in 0 .. MaxHitches

\* What the tool has added overlaps nothing it could have read; and what it has
\* compared still overlaps nothing but what came from the console since: no
\* other call of the tool is between its reading and its adding.
Apart == \A a, b \in schedule : a # b /\ a.made = "tool" /\ b.made # "console" => ~Overlap(a, b)
OneAtATime == \A p, q \in Planners : plan[p].at = "checked" /\ plan[q].at = "checked" => p = q
StillFree ==
  \A p \in Planners : plan[p].at = "checked" =>
    \A have \in schedule : have.made # "console" => ~Overlap(plan[p].wanted, have)

ClosuresInv == ClosuresTyped /\ Apart /\ OneAtATime /\ StillFree

LEMMA WantedIsGood == \A c \in Wanted : c \in Closures /\ c.made = "tool"
BY DEF Wanted

LEMMA SomethingIsWanted == (CHOOSE c \in Wanted : TRUE) \in Wanted
<1>1. PICK n \in Names : TRUE
  BY CalendarConstants
<1>2. PICK c : c = [name |-> n, year |-> 0, day |-> 1, yearEnd |-> 0, dayEnd |-> 1, made |-> "tool"]
  OBVIOUS
<1>3. c \in Closures
  BY <1>2, CalendarConstants DEF Closures, DaysOfYear
<1>4. c \in Wanted
  BY <1>2, <1>3 DEF Wanted
<1> QED
  BY <1>4

LEMMA MadeElsewhere ==
  ASSUME NEW c \in Closures, NEW how \in {"there", "console"}
  PROVE  /\ [c EXCEPT !.made = how] \in Closures
         /\ [c EXCEPT !.made = how].made = how
BY DEF Closures

LEMMA ClosuresInitially == ClosuresInit => ClosuresInv
<1> SUFFICES ASSUME ClosuresInit PROVE ClosuresInv
  OBVIOUS
<1>1. schedule \in SUBSET Closures /\ \A c \in schedule : c.made = "there"
  <2>1. CASE schedule = {}
    BY <2>1
  <2>2. ASSUME NEW c \in Wanted, schedule = {[c EXCEPT !.made = "there"]}
        PROVE  schedule \in SUBSET Closures /\ \A d \in schedule : d.made = "there"
    <3>1. PICK d : d = [c EXCEPT !.made = "there"]
      OBVIOUS
    <3>2. d \in Closures /\ d.made = "there"
      BY <3>1, WantedIsGood, MadeElsewhere
    <3> QED
      BY <2>2, <3>1, <3>2
  <2> QED
    BY <2>1, <2>2 DEF ClosuresInit
<1>2. plan \in [Planners -> Plans] /\ \A p \in Planners : plan[p].at = "idle"
  BY SomethingIsWanted DEF ClosuresInit, Plans
<1>3. hitches \in 0 .. MaxHitches
  BY CalendarConstants DEF ClosuresInit
<1> QED
  BY <1>1, <1>2, <1>3 DEF ClosuresInv, ClosuresTyped, Apart, OneAtATime, StillFree

\* A planner goes on without adding anything, and is not between its reading and
\* its adding, or has just read.
LEMMA PlannerGoesOn ==
  ASSUME ClosuresInv, NEW p \in Planners, NEW to \in Plans,
         plan' = [plan EXCEPT ![p] = to], schedule' \subseteq schedule, hitches' \in 0 .. MaxHitches,
         to.at = "checked" => /\ \A q \in Planners : plan[q].at # "checked"
                              /\ \A have \in schedule : ~Overlap(to.wanted, have)
  PROVE  ClosuresInv'
<1>1. plan \in [Planners -> Plans]
  BY DEF ClosuresInv, ClosuresTyped
<1>2. plan' \in [Planners -> Plans] /\ \A q \in Planners : plan'[q] = IF q = p THEN to ELSE plan[q]
  BY <1>1
<1>3. ClosuresTyped'
  BY <1>2 DEF ClosuresInv, ClosuresTyped
<1>4. Apart'
  BY DEF ClosuresInv, Apart
<1>5. OneAtATime'
  BY <1>2 DEF ClosuresInv, OneAtATime
<1>6. StillFree'
  BY <1>2 DEF ClosuresInv, StillFree
<1> QED
  BY <1>3, <1>4, <1>5, <1>6 DEF ClosuresInv

\* PostClosure adds what was compared, and nobody else is about to.
LEMMA AddingFine ==
  ASSUME ClosuresInv, NEW p \in Planners, plan[p].at = "checked", NEW to \in Plans, to.at # "checked",
         plan' = [plan EXCEPT ![p] = to], schedule' = schedule \cup {plan[p].wanted}, hitches' \in 0 .. MaxHitches
  PROVE  ClosuresInv'
<1>1. plan \in [Planners -> Plans] /\ plan[p] \in Plans /\ schedule \in SUBSET Closures
  BY DEF ClosuresInv, ClosuresTyped
<1>2. PICK w \in Wanted : w = plan[p].wanted
  BY <1>1 DEF Plans
<1>3. w \in Closures /\ w.made = "tool"
  BY WantedIsGood
<1>4. plan' \in [Planners -> Plans] /\ \A q \in Planners : plan'[q] = IF q = p THEN to ELSE plan[q]
  BY <1>1
<1>5. \A q \in Planners : plan'[q].at # "checked"
  BY <1>4 DEF ClosuresInv, OneAtATime
<1>6. ClosuresTyped'
  BY <1>1, <1>2, <1>3, <1>4 DEF ClosuresInv, ClosuresTyped
<1>7. \A have \in schedule : have.made # "console" => ~Overlap(w, have) /\ ~Overlap(have, w)
  BY <1>1, <1>2, <1>3, OverlapIsMutual DEF ClosuresInv, StillFree
<1>8. Apart'
  BY <1>2, <1>3, <1>7 DEF ClosuresInv, Apart
<1> QED
  BY <1>5, <1>6, <1>8 DEF ClosuresInv, OneAtATime, StillFree

LEMMA PlannerEnters ==
  ASSUME ClosuresInv, NEW p \in Planners,
         NEW at \in {"idle", "queued", "checked", "added", "refused", "failed", "removed"}, Enter(p, at)
  PROVE  \E to \in Plans : plan' = [plan EXCEPT ![p] = to] /\ to.at = at /\ to.wanted = plan[p].wanted
<1>1. plan \in [Planners -> Plans] /\ plan[p] \in Plans
  BY DEF ClosuresInv, ClosuresTyped
<1>2. PICK to : to = [plan[p] EXCEPT !.at = at]
  OBVIOUS
<1>3. to \in Plans /\ to.at = at /\ to.wanted = plan[p].wanted
  BY <1>1, <1>2 DEF Plans
<1>4. plan' = [plan EXCEPT ![p] = to]
  BY <1>1, <1>2 DEF Enter
<1> QED
  BY <1>3, <1>4

LEMMA ClosuresStep == ClosuresInv /\ [ClosuresNext]_closureVars => ClosuresInv'
<1> SUFFICES ASSUME ClosuresInv, [ClosuresNext]_closureVars PROVE ClosuresInv'
  OBVIOUS
<1>0. /\ plan \in [Planners -> Plans] /\ hitches \in 0 .. MaxHitches
      /\ schedule \in SUBSET Closures
      /\ (Hitch => hitches' \in 0 .. MaxHitches)
  BY CalendarConstants DEF ClosuresInv, ClosuresTyped, Hitch
<1>1. ASSUME NEW p \in Planners, NEW c \in Wanted, AskClosure(p, c)
      PROVE  ClosuresInv'
  <2>1. PICK to \in Plans : to = [at |-> "queued", wanted |-> c]
    BY DEF Plans
  <2> QED
    BY <1>0, <1>1, <2>1, PlannerGoesOn DEF AskClosure
<1>2. ASSUME NEW p \in Planners, CheckClosure(p)
      PROVE  ClosuresInv'
  <2>1. CASE Conflicts(plan[p].wanted) /\ Enter(p, "refused") /\ UNCHANGED hitches
    BY <1>0, <1>2, <2>1, PlannerEnters, PlannerGoesOn DEF CheckClosure
  <2>2. CASE ~Conflicts(plan[p].wanted) /\ Enter(p, "checked") /\ UNCHANGED hitches
    <3>1. PICK to \in Plans : plan' = [plan EXCEPT ![p] = to] /\ to.at = "checked" /\ to.wanted = plan[p].wanted
      BY <2>2, PlannerEnters
    <3>2. \A have \in schedule : ~Overlap(to.wanted, have)
      BY <2>2, <3>1 DEF Conflicts
    <3> QED
      BY <1>0, <1>2, <2>2, <3>1, <3>2, PlannerGoesOn DEF CheckClosure
  <2>3. CASE Enter(p, "failed") /\ Hitch
    BY <1>0, <1>2, <2>3, PlannerEnters, PlannerGoesOn DEF CheckClosure
  <2> QED
    BY <1>2, <2>1, <2>2, <2>3 DEF CheckClosure
<1>3. ASSUME NEW p \in Planners, PostClosure(p)
      PROVE  ClosuresInv'
  <2>1. plan[p].at = "checked"
    BY <1>3 DEF PostClosure
  <2>2. CASE Enter(p, "added") /\ schedule' = schedule \cup {plan[p].wanted} /\ UNCHANGED hitches
    BY <1>0, <2>1, <2>2, PlannerEnters, AddingFine
  <2>3. CASE Enter(p, "failed") /\ Hitch /\ UNCHANGED schedule
    BY <1>0, <2>3, PlannerEnters, PlannerGoesOn
  <2>4. CASE Enter(p, "failed") /\ Hitch /\ schedule' = schedule \cup {plan[p].wanted}
    BY <1>0, <2>1, <2>4, PlannerEnters, AddingFine
  <2>5. CASE Enter(p, "failed") /\ UNCHANGED <<schedule, hitches>>
    BY <1>0, <2>5, PlannerEnters, PlannerGoesOn
  <2> QED
    BY <1>3, <2>2, <2>3, <2>4, <2>5 DEF PostClosure
<1>4. ASSUME NEW p \in Planners, NEW c \in schedule, RemoveClosure(p, c)
      PROVE  ClosuresInv'
  <2>1. CASE Enter(p, "removed") /\ schedule' = schedule \ {c} /\ UNCHANGED hitches
    BY <1>0, <2>1, PlannerEnters, PlannerGoesOn
  <2>2. CASE Enter(p, "failed") /\ Hitch /\ schedule' \in {schedule, schedule \ {c}}
    BY <1>0, <2>2, PlannerEnters, PlannerGoesOn
  <2> QED
    BY <1>4, <2>1, <2>2 DEF RemoveClosure
<1>5. ASSUME NEW p \in Planners, AskAgain(p)
      PROVE  ClosuresInv'
  BY <1>0, <1>5, PlannerEnters, PlannerGoesOn DEF AskAgain
<1>6. CASE ConsoleClosure
  <2>1. PICK c \in Wanted : schedule' = schedule \cup {[c EXCEPT !.made = "console"]}
    BY <1>6 DEF ConsoleClosure
  <2>2. PICK d : d = [c EXCEPT !.made = "console"]
    OBVIOUS
  <2>3. d \in Closures /\ d.made = "console"
    BY <2>2, WantedIsGood, MadeElsewhere
  <2>4. schedule' = schedule \cup {d} /\ plan' = plan /\ hitches' \in 0 .. MaxHitches
    BY <1>0, <1>6, <2>1, <2>2 DEF ConsoleClosure
  <2>5. ClosuresTyped'
    BY <1>0, <2>3, <2>4 DEF ClosuresTyped
  <2>6. Apart' /\ OneAtATime' /\ StillFree'
    BY <2>3, <2>4 DEF ClosuresInv, Apart, OneAtATime, StillFree
  <2> QED
    BY <2>5, <2>6 DEF ClosuresInv
<1>7. CASE UNCHANGED closureVars
  BY <1>7 DEF closureVars, ClosuresInv, ClosuresTyped, Apart, OneAtATime, StillFree
<1> QED
  BY <1>1, <1>2, <1>3, <1>4, <1>5, <1>6, <1>7 DEF ClosuresNext

\* No two closures the tool could know of are on one day, however requests fail
\* or lose their answers, for any calendar, closures and people planning: daysOf
\* and conflicts (cmd/plugin-3cx/schedule.go) miss no day that two of them share.
THEOREM ClosuresKept == ClosuresSpec => []ClosuresAreKept
<1>1. ClosuresInv => ClosuresAreKept
  <2> SUFFICES ASSUME ClosuresInv PROVE ClosuresAreKept
    OBVIOUS
  <2>1. schedule \in SUBSET Closures
    BY DEF ClosuresInv, ClosuresTyped
  <2>2. ClosuresTypeOK
    BY WantedIsGood DEF ClosuresInv, ClosuresTyped, ClosuresTypeOK, Plans
  <2>3. NoTwoOnOneDay
    BY <2>1, MeetingOverlaps DEF ClosuresInv, Apart, NoTwoOnOneDay
  <2> QED
    BY <2>2, <2>3 DEF ClosuresAreKept
<1> QED
  BY <1>1, ClosuresInitially, ClosuresStep, PTL DEF ClosuresSpec

(***************************************************************************)
(* Forms: the inductive invariant.                                         *)
(***************************************************************************)

Part == Numbers \X Fields

\* What a form is about does not change: a form and a new extension are one
\* extension's, and a key layout comes by itself.
FormFine(c) ==
  /\ kind[c] \in {"form", "create"} => \E n \in Numbers : about[c] = {n}
  /\ kind[c] = "copy" <=> asked[c] = {"keys"}
  /\ kind[c] = "form" => asked[c] # {}
  /\ "keys" \in asked[c] => asked[c] = {"keys"}

\* The tools of each kind of form, and the fields a tool is sent.
Fitting(what, t) ==
  \/ what = "form" /\ t \in {"update", "options"}
  \/ what = "create" /\ t \in {"create", "update", "options"}
  \/ what = "remove" /\ t = "delete"
  \/ what = "copy" /\ t = "keys"
FieldsOf(c, t) ==
  IF t = "update" THEN Core(c) ELSE IF t = "options" THEN Settings(c)
  ELSE IF t = "keys" THEN {"keys"} ELSE {"name"}

\* What was read for a part is enough to write the part's object back.
ReadEnough(k, p) ==
  /\ \A g \in Whole(p[2]) \cup {p[2]} : held[k][g] \in Setters
  /\ p[2] = "role" => held[k]["department"] # "none"

\* A call attempts all it was sent, once, the department before the role; what
\* it names as done was written, and a department that was set is one.
CallFine(k) ==
  /\ job[k] = "none" => todo[k] = {}
  /\ job[k] \in {"none", "queued"} => did[k] = {} /\ refusals[k] = {} /\ held[k] = Unread
  /\ job[k] # "none" => /\ Fitting(kind[k[1]], k[2])
                        /\ todo[k] \cup did[k] \cup refusals[k] = about[k[1]] \X FieldsOf(k[1], k[2])
  /\ job[k] = "answered" => todo[k] = {}
  /\ k[2] = "update" /\ job[k] \in {"running", "checking", "answered"} =>
       refusals[k] = {} /\ about[k[1]] \subseteq known[k]
  /\ \A n \in Numbers : <<n, "role">> \in did[k] \cup refusals[k] => <<n, "department">> \notin todo[k]
  /\ job[k] = "checking" => k[2] = "options" /\ \A n \in Numbers : <<n, "department">> \notin todo[k]
  /\ did[k] \subseteq wrote[k[1]]
  /\ \A n \in Numbers : <<n, "department">> \in did[k] => user[n]["department"] # "none"
  /\ job[k] = "running" /\ held[k] # Unread =>
       k[2] \in {"options", "keys"} /\ \A p \in todo[k] : At(k, p) => ReadEnough(k, p)
  /\ k[2] = "options" =>
       \A g \in Fields, c \in Technicians, n \in about[k[1]] : held[k][g] = c => <<n, g>> \in wrote[c]

\* Who set a field wrote it.
UserFine == \A n \in Numbers, f \in Fields, c \in Technicians : user[n][f] = c => <<n, f>> \in wrote[c]

\* Core calls its tools in one order, and says of a form it was changed only
\* when all of it was.
DeskFine(c) ==
  /\ stage[c] = "idle" => \A t \in Tools : job[<<c, t>>] = "none"
  /\ stage[c] \in Tools => Fitting(kind[c], stage[c]) /\ job[<<c, stage[c]>>] # "none"
  /\ stage[c] = "create" => job[<<c, "update">>] = "none"
  /\ stage[c] \in {"create", "update"} => job[<<c, "options">>] = "none"
  /\ kind[c] = "form" /\ stage[c] = "options" => about[c] \X Core(c) \subseteq wrote[c]
  /\ told[c] = "changed" => about[c] \X asked[c] \subseteq wrote[c]

FormsInv ==
  /\ FormsTypeOK
  /\ \A c \in Technicians : FormFine(c)
  /\ UserFine
  /\ \A k \in Calls : CallFine(k)
  /\ \A c \in Technicians : DeskFine(c)

(***************************************************************************)
(* What stays as it was.                                                   *)
(***************************************************************************)

LEMMA CallsArePairs ==
  ASSUME NEW k \in Calls
  PROVE  k[1] \in Technicians /\ k[2] \in Tools /\ k = <<k[1], k[2]>>
BY DEF Calls

SameCall(k) == /\ job'[k] = job[k] /\ todo'[k] = todo[k] /\ known'[k] = known[k]
               /\ held'[k] = held[k] /\ did'[k] = did[k] /\ refusals'[k] = refusals[k]
WroteMore == \A c \in Technicians : wrote[c] \subseteq wrote'[c]
GroupsStay == \A n \in Numbers : user'[n]["department"] = "none" => user[n]["department"] = "none"

LEMMA CallUntouched ==
  ASSUME NEW k \in Calls, CallFine(k), SameCall(k), UNCHANGED form, WroteMore, GroupsStay
  PROVE  CallFine(k)'
<1>1. k[1] \in Technicians BY CallsArePairs
<1>2. kind' = kind /\ asked' = asked /\ about' = about BY DEF form
<1>3. FieldsOf(k[1], k[2])' = FieldsOf(k[1], k[2]) BY <1>2 DEF FieldsOf, Core, Settings
<1>4. \A p : At(k, p)' <=> At(k, p) BY DEF At, SameCall
<1>5. \A p : ReadEnough(k, p)' <=> ReadEnough(k, p) BY DEF ReadEnough, SameCall
<1>6. did'[k] \subseteq wrote'[k[1]] BY <1>1 DEF CallFine, SameCall, WroteMore
<1>7. \A n \in Numbers : <<n, "department">> \in did'[k] => user'[n]["department"] # "none"
  BY DEF CallFine, SameCall, GroupsStay
<1>8. k[2] = "options" =>
        \A g \in Fields, c \in Technicians, n \in about'[k[1]] : held'[k][g] = c => <<n, g>> \in wrote'[c]
  BY <1>2 DEF CallFine, SameCall, WroteMore
<1>9. job'[k] = "running" /\ held'[k] # Unread =>
        k[2] \in {"options", "keys"} /\ \A p \in todo'[k] : At(k, p)' => ReadEnough(k, p)'
  BY <1>4, <1>5 DEF CallFine, SameCall
<1> QED BY <1>2, <1>3, <1>6, <1>7, <1>8, <1>9 DEF CallFine, SameCall

LEMMA DeskUntouched ==
  ASSUME NEW c \in Technicians, DeskFine(c), stage'[c] = stage[c], told'[c] = told[c], UNCHANGED form,
         WroteMore, \A t \in Tools : job'[<<c, t>>] = "none" <=> job[<<c, t>>] = "none"
  PROVE  DeskFine(c)'
<1>1. kind' = kind /\ asked' = asked /\ about' = about /\ Core(c)' = Core(c) BY DEF form, Core
<1>2. wrote[c] \subseteq wrote'[c] BY DEF WroteMore
<1>3. {"create", "update", "options"} \subseteq Tools BY DEF Tools
<1> QED BY <1>1, <1>2, <1>3 DEF DeskFine

LEMMA FormsUntouched ==
  ASSUME \A c \in Technicians : FormFine(c), UNCHANGED form
  PROVE  \A c \in Technicians : FormFine(c)'
BY DEF form, FormFine

\* A tool goes on with one call.
LEMMA ToolGoesOn ==
  ASSUME FormsInv, FormsTypeOK', NEW k \in Calls, job[k] # "none", job'[k] # "none",
         \A j \in Calls : j # k => SameCall(j), UNCHANGED <<form, stage, told>>,
         UserFine', WroteMore, GroupsStay, CallFine(k)'
  PROVE  FormsInv'
<1>1. \A c \in Technicians : FormFine(c)' BY FormsUntouched DEF FormsInv
<1>2. \A j \in Calls : CallFine(j)' BY CallUntouched DEF FormsInv
<1>3. ASSUME NEW c \in Technicians PROVE DeskFine(c)'
  <2>1. \A t \in Tools : job'[<<c, t>>] = "none" <=> job[<<c, t>>] = "none"
    <3> SUFFICES ASSUME NEW t \in Tools PROVE job'[<<c, t>>] = "none" <=> job[<<c, t>>] = "none"
      OBVIOUS
    <3>1. <<c, t>> \in Calls BY DEF Calls
    <3> QED BY <3>1 DEF SameCall
  <2> QED BY <2>1, DeskUntouched DEF FormsInv
<1> QED BY <1>1, <1>2, <1>3 DEF FormsInv

\* The part a call is at: the department comes before the role.
LEMMA DepartmentFirst ==
  ASSUME NEW k, NEW p, At(k, p), p[2] = "role"
  PROVE  <<p[1], "department">> \notin todo[k]
BY DEF At, Place

LEMMA PartIsAsked ==
  ASSUME FormsInv, NEW k \in Calls, NEW p \in todo[k], job[k] # "none"
  PROVE  /\ p \in Part /\ p = <<p[1], p[2]>> /\ p[1] \in about[k[1]] /\ p[1] \in Numbers /\ p[2] \in Fields
         /\ p[2] \in FieldsOf(k[1], k[2]) /\ Fitting(kind[k[1]], k[2])
<1>1. todo[k] \subseteq about[k[1]] \X FieldsOf(k[1], k[2]) /\ Fitting(kind[k[1]], k[2]) BY DEF FormsInv, CallFine
<1>2. todo[k] \subseteq Part BY DEF FormsInv, FormsTypeOK, Part
<1> QED BY <1>1, <1>2 DEF Part

\* A part is over: it was at hand, and what it leaves is in order.
LEMMA PartOver ==
  ASSUME FormsInv, NEW k \in Calls, NEW p \in todo[k], job[k] \in {"running", "checking"}, UNCHANGED form,
         WroteMore, GroupsStay, job'[k] \in {"running", "failed"}, known'[k] = known[k],
         todo'[k] = todo[k] \ {p}, held'[k] = Unread,
         p[2] = "role" => <<p[1], "department">> \notin todo[k],
         \/ /\ did'[k] = did[k] \cup {p} /\ refusals'[k] = refusals[k] /\ p \in wrote'[k[1]]
            /\ p[2] = "department" => user'[p[1]]["department"] # "none"
         \/ /\ did'[k] = did[k] /\ refusals'[k] = refusals[k] \cup {p}
            /\ k[2] = "update" => job'[k] = "failed"
  PROVE  CallFine(k)'
<1>1. k[1] \in Technicians BY CallsArePairs
<1>2. kind' = kind /\ asked' = asked /\ about' = about BY DEF form
<1>3. FieldsOf(k[1], k[2])' = FieldsOf(k[1], k[2]) BY <1>2 DEF FieldsOf, Core, Settings
<1>4. CallFine(k) BY DEF FormsInv
<1>5. p \in Part /\ p = <<p[1], p[2]>> BY PartIsAsked
<1>6. todo'[k] \cup did'[k] \cup refusals'[k] = about[k[1]] \X FieldsOf(k[1], k[2])
  <2>1. todo[k] \cup did[k] \cup refusals[k] = about[k[1]] \X FieldsOf(k[1], k[2]) BY <1>4 DEF CallFine
  <2>2. todo'[k] \cup did'[k] \cup refusals'[k] = todo[k] \cup did[k] \cup refusals[k] OBVIOUS
  <2> QED BY <2>1, <2>2
<1>7. k[2] = "update" /\ job'[k] \in {"running", "checking", "answered"} =>
        refusals'[k] = {} /\ about[k[1]] \subseteq known'[k]
  BY <1>4 DEF CallFine
<1>8. \A n \in Numbers : <<n, "role">> \in did'[k] \cup refusals'[k] => <<n, "department">> \notin todo'[k]
  BY <1>4, <1>5 DEF CallFine
<1>9. did'[k] \subseteq wrote'[k[1]] BY <1>1, <1>4 DEF CallFine, WroteMore
<1>10. \A n \in Numbers : <<n, "department">> \in did'[k] => user'[n]["department"] # "none"
  BY <1>4, <1>5 DEF CallFine, GroupsStay
<1>11. \A g \in Fields, c \in Technicians : held'[k][g] # c
  BY FormsAssumption DEF Unread
<1> QED BY <1>2, <1>3, <1>4, <1>6, <1>7, <1>8, <1>9, <1>10, <1>11 DEF CallFine

(***************************************************************************)
(* What a request does to the phone system.                                *)
(***************************************************************************)

LEMMA SetUpIs ==
  /\ SetUp(1, FALSE) \in Users /\ SetUp(1, FALSE)["department"] = "was"
  /\ \A f \in Fields, c \in Technicians : SetUp(1, FALSE)[f] # c
<1>1. \A f \in Fields \cup {"second"} : SetUp(1, FALSE)[f] \in {"was", "none"} BY DEF SetUp
<1>2. SetUp(1, FALSE) \in Users BY <1>1 DEF SetUp, Users, Setters
<1>3. SetUp(1, FALSE)["department"] = "was" BY DEF SetUp, Fields
<1> QED BY <1>1, <1>2, <1>3, FormsAssumption

\* Written back with what was read, an extension has what its form asked for,
\* what was read, and what it had.
LEMMA PatchedIs ==
  ASSUME FormsInv, NEW k \in Calls, NEW p \in todo[k], At(k, p), k[2] \notin {"create", "delete"},
         p[2] \in ReadFirst => held[k] # Unread
  PROVE  /\ Patched(k, p) \in Users /\ Patched(k, p)[p[2]] = k[1]
         /\ Patched(k, p)["department"] = "none" => user[p[1]]["department"] = "none"
         /\ \A g \in Fields, c \in Technicians : Patched(k, p)[g] = c =>
              \/ g = p[2] /\ c = k[1]
              \/ user[p[1]][g] = c
              \/ <<p[1], g>> \in wrote[c]
<1>1. k[1] \in Technicians BY CallsArePairs
<1>2. job[k] = "running" BY DEF At
<1>3. /\ p[1] \in about[k[1]] /\ p[1] \in Numbers /\ p[2] \in Fields
      /\ p[2] \in FieldsOf(k[1], k[2])
  BY <1>2, PartIsAsked
<1> DEFINE f == p[2]  n == p[1]
<1>4. PICK new : new = Patched(k, p) OBVIOUS
<1>5. PICK old \in Users : old = user[n] BY <1>3 DEF FormsInv, FormsTypeOK
<1>6. PICK seen \in Readings : seen = held[k] BY DEF FormsInv, FormsTypeOK
<1>7. new = [g \in Fields \cup {"second"} |->
               IF g = f THEN k[1]
               ELSE IF f = "role" /\ g = "second" THEN "none"
               ELSE IF f = "department" /\ g = "role" /\ seen["department"] = "none" THEN "default"
               ELSE IF g \in Whole(f) THEN seen[g] ELSE old[g]]
  BY <1>4, <1>5, <1>6 DEF Patched
<1>8. Whole(f) # {} => f \in {"department", "role", "available", "away"} BY <1>3 DEF Whole, Membership, Profiles, Fields
<1>9. Whole(f) # {} => k[2] = "options" /\ ReadEnough(k, p)
  <2>1. Whole(f) # {} => held[k] # Unread BY <1>8 DEF ReadFirst
  <2>2. Whole(f) # {} => ReadEnough(k, p) /\ k[2] \in {"options", "keys"} BY <1>2, <2>1 DEF FormsInv, CallFine
  <2>3. f # "keys" => k[2] # "keys" BY <1>3 DEF FieldsOf
  <2> QED BY <1>8, <2>2, <2>3
<1>10. \A g \in Whole(f) : seen[g] \in Setters BY <1>6, <1>9 DEF ReadEnough
<1>11. \A g \in Fields \cup {"second"} : new[g] \in Setters
  BY <1>1, <1>5, <1>7, <1>10 DEF Setters, Users
<1>12. new \in Users BY <1>7, <1>11 DEF Users
<1>13. new[f] = k[1] BY <1>3, <1>7
<1>14. ASSUME new["department"] = "none" PROVE old["department"] = "none"
  <2>1. "department" \in Fields BY DEF Fields
  <2>2. f # "department" BY <1>1, <1>7, <1>14, <2>1, FormsAssumption
  <2>3. CASE "department" \in Whole(f)
    <3>1. f = "role" BY <1>3, <2>2, <2>3 DEF Whole, Membership, Profiles, Fields
    <3>2. seen["department"] # "none" BY <1>6, <1>9, <2>3, <3>1 DEF ReadEnough
    <3> QED BY <1>7, <1>14, <2>1, <2>2, <2>3, <3>2
  <2>4. CASE "department" \notin Whole(f) BY <1>7, <1>14, <2>1, <2>2, <2>4
  <2> QED BY <2>3, <2>4
<1>15. ASSUME NEW g \in Fields, NEW c \in Technicians, new[g] = c, g # f, old[g] # c
       PROVE  <<n, g>> \in wrote[c]
  <2>1. c \notin {"none", "default"} BY FormsAssumption
  <2>2. g \in Whole(f) /\ seen[g] = c BY <1>7, <1>15, <2>1
  <2>3. k[2] = "options" BY <1>9, <2>2
  <2> QED BY <1>3, <1>6, <2>2, <2>3 DEF FormsInv, CallFine
<1>16. \A g \in Fields, c \in Technicians : new[g] = c =>
          (g = f /\ c = k[1]) \/ old[g] = c \/ <<n, g>> \in wrote[c]
  BY <1>13, <1>15
<1> QED BY <1>4, <1>5, <1>12, <1>13, <1>14, <1>16

LEMMA AppliedIs ==
  ASSUME FormsInv, NEW k \in Calls, NEW p \in todo[k], At(k, p), Applied(k, p),
         k[2] # "create" /\ p[2] \in ReadFirst => held[k] # Unread,
         wrote' = [wrote EXCEPT ![k[1]] = @ \cup {p}]
  PROVE  /\ exists' \subseteq Numbers /\ user' \in [Numbers -> Users]
         /\ wrote' \in [Technicians -> SUBSET (Numbers \X Fields)]
         /\ UserFine' /\ WroteMore /\ GroupsStay /\ p \in wrote'[k[1]]
         /\ p[2] = "department" => user'[p[1]]["department"] # "none"
<1>1. k[1] \in Technicians BY CallsArePairs
<1>2. job[k] = "running" BY DEF At
<1>3. /\ p[1] \in about[k[1]] /\ p[1] \in Numbers /\ p[2] \in Fields /\ p = <<p[1], p[2]>>
      /\ p[2] \in FieldsOf(k[1], k[2]) /\ p \in Numbers \X Fields
  BY <1>2, PartIsAsked DEF Part
<1>4. /\ wrote' \in [Technicians -> SUBSET (Numbers \X Fields)] /\ WroteMore /\ p \in wrote'[k[1]]
  BY <1>1, <1>3 DEF FormsInv, FormsTypeOK, WroteMore
<1>5. user \in [Numbers -> Users] /\ exists \subseteq Numbers /\ UserFine BY DEF FormsInv, FormsTypeOK
<1>6. CASE k[2] = "create"
  <2>1. exists' = exists \cup {p[1]} /\ user' = [user EXCEPT ![p[1]] = SetUp(1, FALSE)] BY <1>6 DEF Applied
  <2>2. /\ exists' \subseteq Numbers /\ user' \in [Numbers -> Users] /\ user'[p[1]] = SetUp(1, FALSE)
        /\ \A m \in Numbers : m # p[1] => user'[m] = user[m]
    BY <1>3, <1>5, <2>1, SetUpIs
  <2>3. UserFine'
    <3> SUFFICES ASSUME NEW m \in Numbers, NEW g \in Fields, NEW c \in Technicians, user'[m][g] = c
                 PROVE  <<m, g>> \in wrote'[c]
      BY DEF UserFine
    <3>1. m # p[1] BY <2>2, SetUpIs
    <3> QED BY <1>4, <1>5, <2>2, <3>1 DEF UserFine, WroteMore
  <2>4. GroupsStay BY <2>2, SetUpIs DEF GroupsStay
  <2>5. p[2] # "department" BY <1>3, <1>6 DEF FieldsOf
  <2> QED BY <1>4, <2>2, <2>3, <2>4, <2>5
<1>7. CASE k[2] = "delete"
  <2>1. exists' = exists \ {p[1]} /\ user' = user BY <1>7 DEF Applied
  <2>2. UserFine' BY <1>4, <1>5, <2>1 DEF UserFine, WroteMore
  <2>3. GroupsStay BY <2>1 DEF GroupsStay
  <2>4. p[2] # "department" BY <1>3, <1>7 DEF FieldsOf
  <2> QED BY <1>4, <1>5, <2>1, <2>2, <2>3, <2>4
<1>8. CASE k[2] \notin {"create", "delete"}
  <2>1. PICK new \in Users :
          /\ new = Patched(k, p) /\ new[p[2]] = k[1]
          /\ new["department"] = "none" => user[p[1]]["department"] = "none"
          /\ \A g \in Fields, c \in Technicians : new[g] = c =>
               (g = p[2] /\ c = k[1]) \/ user[p[1]][g] = c \/ <<p[1], g>> \in wrote[c]
    BY <1>8, PatchedIs
  <2>2. user' = [user EXCEPT ![p[1]] = new] /\ exists' = exists BY <1>8, <2>1 DEF Applied
  <2>3. /\ user' \in [Numbers -> Users] /\ user'[p[1]] = new
        /\ \A m \in Numbers : m # p[1] => user'[m] = user[m]
    BY <1>3, <1>5, <2>1, <2>2
  <2>4. UserFine'
    <3> SUFFICES ASSUME NEW m \in Numbers, NEW g \in Fields, NEW c \in Technicians, user'[m][g] = c
                 PROVE  <<m, g>> \in wrote'[c]
      BY DEF UserFine
    <3>1. CASE m # p[1] BY <1>4, <1>5, <2>3, <3>1 DEF UserFine, WroteMore
    <3>2. CASE m = p[1]
      <4>1. (g = p[2] /\ c = k[1]) \/ user[m][g] = c \/ <<m, g>> \in wrote[c] BY <2>1, <2>3, <3>2
      <4>2. wrote[c] \subseteq wrote'[c] BY <1>4 DEF WroteMore
      <4>3. user[m][g] = c => <<m, g>> \in wrote[c] BY <1>5 DEF UserFine
      <4> QED BY <1>3, <1>4, <3>2, <4>1, <4>2, <4>3
    <3> QED BY <3>1, <3>2
  <2>5. GroupsStay BY <2>1, <2>3 DEF GroupsStay
  <2>6. p[2] = "department" => user'[p[1]]["department"] # "none" BY <1>1, <2>1, <2>3, FormsAssumption
  <2> QED BY <1>4, <1>5, <2>2, <2>3, <2>4, <2>5, <2>6
<1> QED BY <1>6, <1>7, <1>8

(***************************************************************************)
(* The tools.                                                              *)
(***************************************************************************)

LEMMA NothingWritten ==
  ASSUME UserFine, UNCHANGED <<user, wrote>>
  PROVE  UserFine' /\ WroteMore /\ GroupsStay
BY DEF UserFine, WroteMore, GroupsStay

LEMMA MishapTyped ==
  ASSUME FormsTypeOK, Mishap
  PROVE  mishaps' \in 0 .. MaxMishaps
BY PhoneBounds DEF FormsTypeOK, Mishap

\* The parts of a call change for that call alone, to what they may be.
LEMMA PartTyped ==
  ASSUME FormsInv, NEW k \in Calls, NEW p \in todo[k], job[k] # "none", PartDone(k, p) \/ PartRefused(k, p)
  PROVE  /\ todo' \in [Calls -> SUBSET (Numbers \X Fields)] /\ did' \in [Calls -> SUBSET (Numbers \X Fields)]
         /\ refusals' \in [Calls -> SUBSET (Numbers \X Fields)] /\ held' \in [Calls -> Readings]
         /\ todo'[k] = todo[k] \ {p} /\ held'[k] = Unread
         /\ \A j \in Calls : j # k => /\ todo'[j] = todo[j] /\ did'[j] = did[j]
                                      /\ refusals'[j] = refusals[j] /\ held'[j] = held[j]
<1>1. p \in Numbers \X Fields BY PartIsAsked DEF Part
<1>2. Unread \in Readings BY DEF Unread, Readings
<1> QED BY <1>1, <1>2 DEF FormsInv, FormsTypeOK, PartDone, PartRefused

LEMMA TakeHolds == ASSUME FormsInv, NEW k \in Calls, Take(k) PROVE FormsInv'
<1>1. /\ job[k] = "queued" /\ UNCHANGED <<phone, form, desk, todo, held, did, refusals, wrote>>
  BY DEF Take
<1>2. /\ job' \in [Calls -> {"none", "queued", "running", "checking", "answered", "failed"}]
      /\ known' \in [Calls -> SUBSET Numbers] /\ mishaps' \in 0 .. MaxMishaps
      /\ \A j \in Calls : j # k => job'[j] = job[j] /\ known'[j] = known[j]
      /\ job'[k] \in {"running", "failed"}
      /\ job'[k] = "running" => known'[k] = exists /\ (k[2] = "update" => about[k[1]] \cap exists # {})
  BY MishapTyped DEF Take, Fail, FormsInv, FormsTypeOK
<1>3. FormsTypeOK' BY <1>1, <1>2 DEF FormsInv, FormsTypeOK, phone, form, desk
<1>4. UserFine' /\ WroteMore /\ GroupsStay BY <1>1, NothingWritten DEF phone, FormsInv
<1>5. \A j \in Calls : j # k => SameCall(j) BY <1>1, <1>2 DEF SameCall
<1>6. CallFine(k)'
  <2>1. CallFine(k) BY DEF FormsInv
  <2>2. /\ did[k] = {} /\ refusals[k] = {} /\ held[k] = Unread BY <1>1, <2>1 DEF CallFine
  <2>3. kind' = kind /\ asked' = asked /\ about' = about BY <1>1 DEF form
  <2>4. FieldsOf(k[1], k[2])' = FieldsOf(k[1], k[2]) BY <2>3 DEF FieldsOf, Core, Settings
  <2>5. k[2] = "update" /\ job'[k] = "running" => about[k[1]] \subseteq known'[k]
    <3>1. SUFFICES ASSUME k[2] = "update", job'[k] = "running" PROVE about[k[1]] \subseteq known'[k]
      OBVIOUS
    <3>2. Fitting(kind[k[1]], k[2]) BY <1>1, <2>1 DEF CallFine
    <3>3. kind[k[1]] \in {"form", "create"} BY <3>1, <3>2 DEF Fitting
    <3>4. PICK n \in Numbers : about[k[1]] = {n} BY <3>3, CallsArePairs DEF FormsInv, FormFine
    <3> QED BY <1>2, <3>1, <3>4
  <2>6. \A g \in Fields, c \in Technicians : held'[k][g] # c
    BY <1>1, <2>2, FormsAssumption DEF Unread
  <2> QED BY <1>1, <1>2, <2>1, <2>2, <2>3, <2>4, <2>5, <2>6 DEF CallFine
<1>7. UNCHANGED <<form, stage, told>> BY <1>1 DEF desk
<1> QED BY <1>1, <1>2, <1>3, <1>4, <1>5, <1>6, <1>7, ToolGoesOn

LEMMA AnswerHolds == ASSUME FormsInv, NEW k \in Calls, Answer(k) PROVE FormsInv'
<1>1. /\ job[k] = "running" /\ todo[k] = {} /\ job' = [job EXCEPT ![k] = "answered"]
      /\ UNCHANGED <<phone, form, desk, todo, known, held, did, refusals, wrote, mishaps>>
  BY DEF Answer
<1>2. /\ job' \in [Calls -> {"none", "queued", "running", "checking", "answered", "failed"}]
      /\ \A j \in Calls : j # k => job'[j] = job[j]
      /\ job'[k] = "answered"
  BY <1>1 DEF FormsInv, FormsTypeOK
<1>3. FormsTypeOK' BY <1>1, <1>2 DEF FormsInv, FormsTypeOK, phone, form, desk
<1>4. UserFine' /\ WroteMore /\ GroupsStay BY <1>1, NothingWritten DEF phone, FormsInv
<1>5. \A j \in Calls : j # k => SameCall(j) BY <1>1, <1>2 DEF SameCall
<1>6. CallFine(k)'
  <2>1. CallFine(k) BY DEF FormsInv
  <2>2. kind' = kind /\ asked' = asked /\ about' = about /\ user' = user BY <1>1 DEF form, phone
  <2>3. FieldsOf(k[1], k[2])' = FieldsOf(k[1], k[2]) BY <2>2 DEF FieldsOf, Core, Settings
  <2> QED BY <1>1, <1>2, <2>1, <2>2, <2>3 DEF CallFine
<1>7. UNCHANGED <<form, stage, told>> BY <1>1 DEF desk
<1> QED BY <1>1, <1>2, <1>3, <1>4, <1>5, <1>6, <1>7, ToolGoesOn

LEMMA PassOverHolds == ASSUME FormsInv, NEW k \in Calls, NEW p \in todo[k], PassOver(k, p) PROVE FormsInv'
<1>1. /\ At(k, p) /\ job[k] = "running" /\ (p[1] \in known[k]) = (k[2] = "create") /\ PartRefused(k, p)
      /\ UNCHANGED <<phone, form, desk, job, known, wrote, mishaps>>
  BY DEF PassOver, At
<1>2. /\ todo' \in [Calls -> SUBSET (Numbers \X Fields)] /\ did' \in [Calls -> SUBSET (Numbers \X Fields)]
      /\ refusals' \in [Calls -> SUBSET (Numbers \X Fields)] /\ held' \in [Calls -> Readings]
      /\ todo'[k] = todo[k] \ {p} /\ held'[k] = Unread
      /\ \A j \in Calls : j # k => /\ todo'[j] = todo[j] /\ did'[j] = did[j]
                                   /\ refusals'[j] = refusals[j] /\ held'[j] = held[j]
  BY <1>1, PartTyped
<1>3. FormsTypeOK' BY <1>1, <1>2 DEF FormsInv, FormsTypeOK, phone, form, desk
<1>4. UserFine' /\ WroteMore /\ GroupsStay BY <1>1, NothingWritten DEF phone, FormsInv
<1>5. \A j \in Calls : j # k => SameCall(j) BY <1>1, <1>2 DEF SameCall
<1>6. CallFine(k)'
  <2>1. refusals'[k] = refusals[k] \cup {p} /\ did'[k] = did[k]
    BY <1>1 DEF PartRefused, FormsInv, FormsTypeOK
  <2>2. k[2] # "update"
    <3>1. p[1] \in about[k[1]] BY <1>1, PartIsAsked
    <3> QED BY <1>1, <3>1 DEF FormsInv, CallFine
  <2>3. p[2] = "role" => <<p[1], "department">> \notin todo[k] BY <1>1, DepartmentFirst
  <2> QED BY <1>1, <1>2, <1>4, <2>1, <2>2, <2>3, PartOver
<1>7. UNCHANGED <<form, stage, told>> BY <1>1 DEF desk
<1>8. job[k] # "none" /\ job'[k] # "none" BY <1>1
<1> QED BY <1>3, <1>4, <1>5, <1>6, <1>7, <1>8, ToolGoesOn

\* Of one extension, and of the parts that are read before they are written,
\* one is at hand at a time.
LEMMA OneAtHand ==
  ASSUME FormsInv, NEW k \in Calls, NEW p \in todo[k], NEW q \in todo[k], At(k, p), At(k, q),
         p[2] \in ReadFirst, k[2] # "keys"
  PROVE  p = q
<1>1. job[k] = "running" BY DEF At
<1>2. /\ p = <<p[1], p[2]>> /\ q = <<q[1], q[2]>> /\ p[1] \in about[k[1]] /\ q[1] \in about[k[1]]
      /\ p[2] \in FieldsOf(k[1], k[2]) /\ q[2] \in FieldsOf(k[1], k[2]) /\ Fitting(kind[k[1]], k[2])
      /\ q[2] \in Fields
  BY <1>1, PartIsAsked
<1>3. k[2] = "options" BY <1>2 DEF FieldsOf, ReadFirst, Core
<1>4. kind[k[1]] \in {"form", "create"} BY <1>2, <1>3 DEF Fitting
<1>5. PICK n \in Numbers : about[k[1]] = {n} BY <1>4, CallsArePairs DEF FormsInv, FormFine
<1>6. p[2] \in Settings(k[1]) /\ q[2] \in Settings(k[1]) BY <1>2, <1>3 DEF FieldsOf
<1>7. p[2] \notin {"name", "keys"} /\ q[2] \notin {"name", "keys"} BY <1>6 DEF Settings
<1>8. Place(p[2]) <= Place(q[2]) /\ Place(q[2]) <= Place(p[2]) BY <1>2, <1>5 DEF At
<1>9. p[2] = q[2] BY <1>2, <1>7, <1>8 DEF Place, ReadFirst, Fields
<1> QED BY <1>2, <1>5, <1>9

LEMMA ReadHolds ==
  ASSUME FormsInv, NEW k \in Calls, NEW p \in todo[k], At(k, p), k[2] # "create", p[2] \in ReadFirst,
         p[1] \in exists, ~Impossible(p[1], p[2]), held' = [held EXCEPT ![k] = WhatIsRead(p)],
         UNCHANGED <<phone, form, job, known, todo, did, refusals, wrote>>
  PROVE  /\ held' \in [Calls -> Readings] /\ \A j \in Calls : j # k => held'[j] = held[j]
         /\ CallFine(k)'
<1>1. job[k] = "running" BY DEF At
<1>2. /\ p = <<p[1], p[2]>> /\ p[1] \in about[k[1]] /\ p[1] \in Numbers /\ p[2] \in Fields
      /\ p[2] \in FieldsOf(k[1], k[2]) /\ Fitting(kind[k[1]], k[2])
  BY <1>1, PartIsAsked
<1>3. PICK seen : seen = WhatIsRead(p) OBVIOUS
<1>4. PICK old \in Users : old = user[p[1]] BY <1>2 DEF FormsInv, FormsTypeOK
<1>5. seen = [g \in Fields \cup {"second"} |-> IF g \in Whole(p[2]) \cup {p[2]} THEN old[g] ELSE "unread"]
  BY <1>3, <1>4 DEF WhatIsRead
<1>6. \A g \in Fields \cup {"second"} : seen[g] \in {old[g], "unread"} /\ old[g] \in Setters
  BY <1>4, <1>5 DEF Users
<1>7. seen \in Readings BY <1>5, <1>6 DEF Readings, Users
<1>8. /\ held' \in [Calls -> Readings] /\ held'[k] = seen
      /\ \A j \in Calls : j # k => held'[j] = held[j]
  BY <1>3, <1>7 DEF FormsInv, FormsTypeOK
<1>9. k[2] \in {"options", "keys"}
  <2>1. p[2] # "name" BY DEF ReadFirst
  <2> QED BY <1>2, <2>1, CallsArePairs DEF FieldsOf, Core, Tools
<1>10. \A g \in Whole(p[2]) \cup {p[2]} : g \in Fields \cup {"second"}
  BY <1>2 DEF Whole, Membership, Profiles, Fields
<1>11. \A g \in Whole(p[2]) \cup {p[2]} : seen[g] = old[g] /\ seen[g] \in Setters BY <1>5, <1>6, <1>10
<1>12. p[2] = "role" => seen["department"] # "none"
  <2>1. SUFFICES ASSUME p[2] = "role" PROVE seen["department"] # "none"
    OBVIOUS
  <2>2. "department" \in Whole(p[2]) BY <2>1 DEF Whole, Membership
  <2>3. old["department"] # "none" BY <1>4, <2>1 DEF Impossible
  <2> QED BY <1>11, <2>2, <2>3
<1>13. \A q \in todo'[k] : At(k, q)' => ReadEnough(k, q)'
  <2> SUFFICES ASSUME NEW q \in todo[k], At(k, q)
               PROVE  /\ \A g \in Whole(q[2]) \cup {q[2]} : seen[g] \in Setters
                      /\ q[2] = "role" => seen["department"] # "none"
    BY <1>8 DEF ReadEnough, At
  <2>1. q[2] = p[2]
    <3>1. CASE k[2] = "keys" BY <1>1, <1>2, <3>1, PartIsAsked DEF FieldsOf
    <3>2. CASE k[2] # "keys" BY <3>2, OneAtHand
    <3> QED BY <3>1, <3>2
  <2> QED BY <1>11, <1>12, <2>1
<1>14. k[2] = "options" =>
         \A g \in Fields, c \in Technicians, n \in about[k[1]] : seen[g] = c => <<n, g>> \in wrote[c]
  <2> SUFFICES ASSUME k[2] = "options", NEW g \in Fields, NEW c \in Technicians, NEW n \in about[k[1]], seen[g] = c
               PROVE  <<n, g>> \in wrote[c]
    OBVIOUS
  <2>1. kind[k[1]] \in {"form", "create"} BY <1>2 DEF Fitting
  <2>2. n = p[1]
    <3>1. PICK m \in Numbers : about[k[1]] = {m} BY <2>1, CallsArePairs DEF FormsInv, FormFine
    <3> QED BY <1>2, <3>1
  <2>3. old[g] = c BY <1>6, FormsAssumption
  <2> QED BY <1>2, <1>4, <2>2, <2>3 DEF FormsInv, UserFine
<1>15. CallFine(k)'
  <2>1. CallFine(k) BY DEF FormsInv
  <2>2. kind' = kind /\ asked' = asked /\ about' = about /\ user' = user BY DEF form, phone
  <2>3. FieldsOf(k[1], k[2])' = FieldsOf(k[1], k[2]) BY <2>2 DEF FieldsOf, Core, Settings
  <2>4. k[2] = "options" =>
          \A g \in Fields, c \in Technicians, n \in about'[k[1]] : held'[k][g] = c => <<n, g>> \in wrote'[c]
    BY <1>8, <1>14, <2>2
  <2> QED BY <1>1, <1>9, <1>13, <2>1, <2>2, <2>3, <2>4 DEF CallFine
<1> QED BY <1>8, <1>15

LEMMA LookHolds == ASSUME FormsInv, NEW k \in Calls, NEW p \in todo[k], Look(k, p) PROVE FormsInv'
<1>1. /\ At(k, p) /\ job[k] = "running" /\ k[2] # "create" /\ p[2] \in ReadFirst
      /\ UNCHANGED <<phone, form, desk, job, known, wrote>>
  BY DEF Look, At
<1>2. UserFine' /\ WroteMore /\ GroupsStay BY <1>1, NothingWritten DEF phone, FormsInv
<1>3. UNCHANGED <<form, stage, told>> BY <1>1 DEF desk
<1>4. job[k] # "none" /\ job'[k] # "none" BY <1>1
<1>5. CASE /\ p[1] \in exists /\ ~Impossible(p[1], p[2])
           /\ held' = [held EXCEPT ![k] = WhatIsRead(p)]
           /\ UNCHANGED <<todo, did, refusals, mishaps>>
  <2>1. /\ held' \in [Calls -> Readings] /\ \A j \in Calls : j # k => held'[j] = held[j]
        /\ CallFine(k)'
    BY <1>1, <1>5, ReadHolds
  <2>2. FormsTypeOK' BY <1>1, <1>5, <2>1 DEF FormsInv, FormsTypeOK, phone, form, desk
  <2>3. \A j \in Calls : j # k => SameCall(j) BY <1>1, <1>5, <2>1 DEF SameCall
  <2> QED BY <1>2, <1>3, <1>4, <2>1, <2>2, <2>3, ToolGoesOn
<1>6. CASE PartRefused(k, p) /\ mishaps' \in 0 .. MaxMishaps
  <2>1. /\ todo' \in [Calls -> SUBSET (Numbers \X Fields)] /\ did' \in [Calls -> SUBSET (Numbers \X Fields)]
        /\ refusals' \in [Calls -> SUBSET (Numbers \X Fields)] /\ held' \in [Calls -> Readings]
        /\ todo'[k] = todo[k] \ {p} /\ held'[k] = Unread
        /\ \A j \in Calls : j # k => /\ todo'[j] = todo[j] /\ did'[j] = did[j]
                                     /\ refusals'[j] = refusals[j] /\ held'[j] = held[j]
    BY <1>4, <1>6, PartTyped
  <2>2. FormsTypeOK' BY <1>1, <1>6, <2>1 DEF FormsInv, FormsTypeOK, phone, form, desk
  <2>3. \A j \in Calls : j # k => SameCall(j) BY <1>1, <2>1 DEF SameCall
  <2>4. CallFine(k)'
    <3>1. refusals'[k] = refusals[k] \cup {p} /\ did'[k] = did[k]
      BY <1>6 DEF PartRefused, FormsInv, FormsTypeOK
    <3>2. k[2] # "update"
      <4>1. p[2] \in FieldsOf(k[1], k[2]) BY <1>4, PartIsAsked
      <4> QED BY <1>1, <4>1 DEF FieldsOf, Core, ReadFirst
    <3>3. p[2] = "role" => <<p[1], "department">> \notin todo[k] BY <1>1, DepartmentFirst
    <3> QED BY <1>1, <1>2, <2>1, <3>1, <3>2, <3>3, PartOver
  <2> QED BY <1>2, <1>3, <1>4, <2>2, <2>3, <2>4, ToolGoesOn
<1>7. mishaps' \in 0 .. MaxMishaps BY MishapTyped DEF Look, FormsInv, FormsTypeOK
<1> QED BY <1>5, <1>6, <1>7 DEF Look

LEMMA CheckRoleHolds == ASSUME FormsInv, NEW k \in Calls, NEW p \in todo[k], CheckRole(k, p) PROVE FormsInv'
<1>1. /\ job[k] = "checking" /\ p[2] = "role" /\ job' = [job EXCEPT ![k] = "running"]
      /\ UNCHANGED <<phone, form, desk, known, wrote>>
  BY DEF CheckRole
<1>2. UserFine' /\ WroteMore /\ GroupsStay BY <1>1, NothingWritten DEF phone, FormsInv
<1>3. UNCHANGED <<form, stage, told>> BY <1>1 DEF desk
<1>4. /\ job' \in [Calls -> {"none", "queued", "running", "checking", "answered", "failed"}]
      /\ \A j \in Calls : j # k => job'[j] = job[j]
      /\ job[k] # "none" /\ job'[k] = "running"
  BY <1>1 DEF FormsInv, FormsTypeOK
<1>5. mishaps' \in 0 .. MaxMishaps BY MishapTyped DEF CheckRole, FormsInv, FormsTypeOK
<1>6. PartDone(k, p) \/ PartRefused(k, p) BY DEF CheckRole
<1>7. /\ todo' \in [Calls -> SUBSET (Numbers \X Fields)] /\ did' \in [Calls -> SUBSET (Numbers \X Fields)]
      /\ refusals' \in [Calls -> SUBSET (Numbers \X Fields)] /\ held' \in [Calls -> Readings]
      /\ todo'[k] = todo[k] \ {p} /\ held'[k] = Unread
      /\ \A j \in Calls : j # k => /\ todo'[j] = todo[j] /\ did'[j] = did[j]
                                   /\ refusals'[j] = refusals[j] /\ held'[j] = held[j]
  BY <1>4, <1>6, PartTyped
<1>8. FormsTypeOK' BY <1>1, <1>4, <1>5, <1>7 DEF FormsInv, FormsTypeOK, phone, form, desk
<1>9. \A j \in Calls : j # k => SameCall(j) BY <1>1, <1>4, <1>7 DEF SameCall
<1>10. CallFine(k)'
  <2>1. p[1] \in Numbers /\ p[2] \in Fields /\ p = <<p[1], p[2]>> BY <1>4, PartIsAsked
  <2>2. k[2] = "options" /\ <<p[1], "department">> \notin todo[k] BY <1>1, <2>1 DEF FormsInv, CallFine
  <2>3. CASE PartDone(k, p) /\ user[p[1]]["role"] = k[1]
    <3>1. did'[k] = did[k] \cup {p} /\ refusals'[k] = refusals[k]
      BY <2>3 DEF PartDone, FormsInv, FormsTypeOK
    <3>2. p \in wrote'[k[1]] BY <1>1, <2>1, <2>3, CallsArePairs DEF FormsInv, UserFine
    <3>3. p[2] # "department" BY <1>1
    <3>4. known'[k] = known[k] BY <1>1
    <3> QED BY <1>1, <1>2, <1>4, <1>7, <2>2, <3>1, <3>2, <3>3, <3>4, PartOver
  <2>4. CASE PartRefused(k, p)
    <3>1. refusals'[k] = refusals[k] \cup {p} /\ did'[k] = did[k]
      BY <2>4 DEF PartRefused, FormsInv, FormsTypeOK
    <3>2. k[2] # "update" /\ known'[k] = known[k] BY <1>1, <2>2
    <3> QED BY <1>1, <1>2, <1>4, <1>7, <2>2, <3>1, <3>2, PartOver
  <2> QED BY <2>3, <2>4 DEF CheckRole
<1> QED BY <1>2, <1>3, <1>4, <1>8, <1>9, <1>10, ToolGoesOn

\* A role is written and will be looked at: there is no department left to set.
LEMMA CheckingFine ==
  ASSUME FormsInv, NEW k \in Calls, NEW p \in todo[k], At(k, p), p[2] = "role", job'[k] = "checking",
         UNCHANGED <<form, todo, known, held, did, refusals>>, WroteMore, GroupsStay
  PROVE  CallFine(k)'
<1>1. job[k] = "running" BY DEF At
<1>2. /\ p = <<p[1], p[2]>> /\ p[1] \in about[k[1]] /\ p[2] \in FieldsOf(k[1], k[2])
      /\ Fitting(kind[k[1]], k[2]) /\ k[1] \in Technicians
  BY <1>1, PartIsAsked, CallsArePairs
<1>3. k[2] = "options" BY <1>2 DEF FieldsOf, Core
<1>4. kind[k[1]] \in {"form", "create"} BY <1>2, <1>3 DEF Fitting
<1>5. PICK m \in Numbers : about[k[1]] = {m} BY <1>2, <1>4 DEF FormsInv, FormFine
<1>6. CallFine(k) BY DEF FormsInv
<1>7. todo[k] \subseteq about[k[1]] \X FieldsOf(k[1], k[2]) BY <1>1, <1>6 DEF CallFine
<1>8. ASSUME NEW n \in Numbers PROVE <<n, "department">> \notin todo[k]
  <2>1. <<p[1], "department">> \notin todo[k] BY DepartmentFirst
  <2>2. <<n, "department">> \in todo[k] => n = p[1] BY <1>2, <1>5, <1>7
  <2> QED BY <2>1, <2>2
<1>9. kind' = kind /\ asked' = asked /\ about' = about BY DEF form
<1>10. FieldsOf(k[1], k[2])' = FieldsOf(k[1], k[2]) BY <1>9 DEF FieldsOf, Core, Settings
<1>11. did'[k] \subseteq wrote'[k[1]] BY <1>2, <1>6 DEF CallFine, WroteMore
<1>12. \A n \in Numbers : <<n, "department">> \in did'[k] => user'[n]["department"] # "none"
  BY <1>6 DEF CallFine, GroupsStay
<1>13. \A g \in Fields, c \in Technicians, n \in about'[k[1]] : held'[k][g] = c => <<n, g>> \in wrote'[c]
  BY <1>3, <1>6, <1>9 DEF CallFine, WroteMore
<1> QED BY <1>1, <1>3, <1>6, <1>8, <1>9, <1>10, <1>11, <1>12, <1>13 DEF CallFine

\* A request did its work, was refused, or was taken and ignored.
WorkTyped == /\ exists' \subseteq Numbers /\ user' \in [Numbers -> Users]
             /\ wrote' \in [Technicians -> SUBSET (Numbers \X Fields)]
             /\ UserFine' /\ WroteMore /\ GroupsStay

LEMMA NoWork == ASSUME FormsInv, UNCHANGED <<phone, wrote>> PROVE WorkTyped
<1>1. exists' = exists /\ user' = user /\ wrote' = wrote BY DEF phone
<1> QED BY <1>1, NothingWritten DEF FormsInv, FormsTypeOK, WorkTyped

LEMMA WriteHolds == ASSUME FormsInv, NEW k \in Calls, NEW p \in todo[k], Write(k, p) PROVE FormsInv'
<1>1. /\ At(k, p) /\ job[k] = "running" /\ (k[2] # "create" /\ p[2] \in ReadFirst => held[k] # Unread)
      /\ UNCHANGED <<form, desk, known>>
  BY DEF Write, At
<1>2. UNCHANGED <<form, stage, told>> BY <1>1 DEF desk
<1>3. /\ kind' = kind /\ asked' = asked /\ about' = about /\ stage' = stage /\ told' = told /\ snag' = snag
      /\ known' = known
  BY <1>1 DEF form, desk
<1>4. mishaps' \in 0 .. MaxMishaps
  <2>1. Mishap \/ UNCHANGED mishaps BY DEF Write
  <2> QED BY <2>1, MishapTyped DEF FormsInv, FormsTypeOK
<1>5. Applied(k, p) /\ wrote' = [wrote EXCEPT ![k[1]] = @ \cup {p}] =>
        /\ WorkTyped /\ p \in wrote'[k[1]]
        /\ p[2] = "department" => user'[p[1]]["department"] # "none"
  BY <1>1, AppliedIs DEF WorkTyped
<1>6. UNCHANGED <<phone, wrote>> => WorkTyped BY NoWork
<1>7. CASE /\ WorkTyped /\ p[2] = "role" /\ job' = [job EXCEPT ![k] = "checking"]
           /\ UNCHANGED <<todo, held, did, refusals>>
  <2>1. /\ job' \in [Calls -> {"none", "queued", "running", "checking", "answered", "failed"}]
        /\ job'[k] = "checking" /\ \A j \in Calls : j # k => job'[j] = job[j]
    BY <1>7 DEF FormsInv, FormsTypeOK
  <2>2. FormsTypeOK' BY <1>3, <1>4, <1>7, <2>1 DEF FormsInv, FormsTypeOK, WorkTyped
  <2>3. CallFine(k)' BY <1>1, <1>7, <2>1, CheckingFine DEF WorkTyped
  <2>4. \A j \in Calls : j # k => SameCall(j) BY <1>3, <1>7, <2>1 DEF SameCall
  <2>5. UserFine' /\ WroteMore /\ GroupsStay /\ job[k] # "none" /\ job'[k] # "none" BY <1>1, <1>7, <2>1 DEF WorkTyped
  <2> QED BY <1>2, <2>2, <2>3, <2>4, <2>5, ToolGoesOn
<1>8. CASE /\ WorkTyped
           /\ \/ /\ PartDone(k, p) /\ UNCHANGED job /\ p \in wrote'[k[1]]
                 /\ p[2] = "department" => user'[p[1]]["department"] # "none"
              \/ PartRefused(k, p) /\ (IF k[2] = "update" THEN Fail(k) ELSE UNCHANGED job)
  <2>1. /\ job' \in [Calls -> {"none", "queued", "running", "checking", "answered", "failed"}]
        /\ job'[k] \in {"running", "failed"} /\ \A j \in Calls : j # k => job'[j] = job[j]
        /\ k[2] = "update" /\ PartRefused(k, p) /\ ~PartDone(k, p) => job'[k] = "failed"
    BY <1>1, <1>8 DEF FormsInv, FormsTypeOK, Fail
  <2>2. /\ todo' \in [Calls -> SUBSET (Numbers \X Fields)] /\ did' \in [Calls -> SUBSET (Numbers \X Fields)]
        /\ refusals' \in [Calls -> SUBSET (Numbers \X Fields)] /\ held' \in [Calls -> Readings]
        /\ todo'[k] = todo[k] \ {p} /\ held'[k] = Unread
        /\ \A j \in Calls : j # k => /\ todo'[j] = todo[j] /\ did'[j] = did[j]
                                     /\ refusals'[j] = refusals[j] /\ held'[j] = held[j]
    BY <1>1, <1>8, PartTyped
  <2>3. FormsTypeOK' BY <1>3, <1>4, <1>8, <2>1, <2>2 DEF FormsInv, FormsTypeOK, WorkTyped
  <2>4. p[2] = "role" => <<p[1], "department">> \notin todo[k] BY <1>1, DepartmentFirst
  <2>5. \/ /\ did'[k] = did[k] \cup {p} /\ refusals'[k] = refusals[k] /\ p \in wrote'[k[1]]
           /\ p[2] = "department" => user'[p[1]]["department"] # "none"
        \/ /\ did'[k] = did[k] /\ refusals'[k] = refusals[k] \cup {p}
           /\ k[2] = "update" => job'[k] = "failed"
    <3>1. CASE PartDone(k, p) /\ p \in wrote'[k[1]] /\ (p[2] = "department" => user'[p[1]]["department"] # "none")
      BY <3>1 DEF PartDone, FormsInv, FormsTypeOK
    <3>2. CASE PartRefused(k, p) /\ (IF k[2] = "update" THEN Fail(k) ELSE UNCHANGED job)
      BY <3>2 DEF PartRefused, Fail, FormsInv, FormsTypeOK
    <3> QED BY <1>8, <3>1, <3>2
  <2>6. WroteMore /\ GroupsStay /\ UserFine' BY <1>8 DEF WorkTyped
  <2>7. CallFine(k)' BY <1>1, <2>1, <2>2, <2>4, <2>5, <2>6, PartOver
  <2>8. \A j \in Calls : j # k => SameCall(j) BY <1>3, <2>1, <2>2 DEF SameCall
  <2>9. job[k] # "none" /\ job'[k] # "none" BY <1>1, <2>1
  <2> QED BY <1>2, <2>3, <2>6, <2>7, <2>8, <2>9, ToolGoesOn
<1>9. CASE /\ Takes(k, p)
           /\ \/ Applied(k, p) /\ wrote' = [wrote EXCEPT ![k[1]] = @ \cup {p}] /\ UNCHANGED mishaps
              \/ p[2] = "role" /\ Mishap /\ UNCHANGED <<phone, wrote>>
           /\ IF CheckedAfter(p[2])
              THEN job' = [job EXCEPT ![k] = "checking"] /\ UNCHANGED <<todo, held, did, refusals>>
              ELSE PartDone(k, p) /\ UNCHANGED job
  <2>1. WorkTyped BY <1>5, <1>6, <1>9
  <2>2. CASE p[2] = "role" BY <1>7, <1>9, <2>1, <2>2 DEF CheckedAfter
  <2>3. CASE p[2] # "role" BY <1>5, <1>8, <1>9, <2>1, <2>3 DEF CheckedAfter
  <2> QED BY <2>2, <2>3
<1>10. CASE /\ PartRefused(k, p)
            /\ IF k[2] = "update" THEN Fail(k) ELSE UNCHANGED job
            /\ \/ ~Takes(k, p) /\ UNCHANGED <<phone, wrote, mishaps>>
               \/ Mishap /\ UNCHANGED <<phone, wrote>>
               \/ Mishap /\ Takes(k, p) /\ Applied(k, p) /\ wrote' = [wrote EXCEPT ![k[1]] = @ \cup {p}]
  <2>1. WorkTyped BY <1>5, <1>6, <1>10
  <2> QED BY <1>8, <1>10, <2>1
<1> QED BY <1>9, <1>10 DEF Write

LEMMA ConsoleHolds == ASSUME FormsInv, AtTheConsole PROVE FormsInv'
<1>1. UNCHANGED <<form, desk, calls, wrote>> BY DEF AtTheConsole
<1>2. /\ kind' = kind /\ asked' = asked /\ about' = about /\ stage' = stage /\ told' = told /\ snag' = snag
      /\ job' = job /\ todo' = todo /\ known' = known /\ held' = held /\ did' = did /\ refusals' = refusals
      /\ wrote' = wrote
  BY <1>1 DEF form, desk, calls
<1>3. mishaps' \in 0 .. MaxMishaps BY MishapTyped DEF AtTheConsole, FormsInv, FormsTypeOK
<1>4. /\ exists' \subseteq Numbers /\ user' \in [Numbers -> Users]
      /\ \A n \in Numbers, f \in Fields : user'[n][f] \in {user[n][f], "console"}
  <2>1. PICK n \in exists :
          \/ \E f \in {"department", "away"} : user' = [user EXCEPT ![n][f] = "console"] /\ UNCHANGED exists
          \/ exists' = exists \ {n} /\ UNCHANGED user
    BY DEF AtTheConsole
  <2>2. CASE exists' = exists \ {n} /\ UNCHANGED user BY <2>2 DEF FormsInv, FormsTypeOK
  <2>3. ASSUME NEW f \in {"department", "away"}, user' = [user EXCEPT ![n][f] = "console"], UNCHANGED exists
        PROVE  /\ exists' \subseteq Numbers /\ user' \in [Numbers -> Users]
               /\ \A m \in Numbers, g \in Fields : user'[m][g] \in {user[m][g], "console"}
    <3>1. user[n] \in Users /\ user \in [Numbers -> Users] /\ n \in Numbers BY DEF FormsInv, FormsTypeOK
    <3>2. PICK new : new = [user[n] EXCEPT ![f] = "console"] OBVIOUS
    <3>3. new \in Users /\ \A g \in Fields : new[g] \in {user[n][g], "console"}
      BY <3>1, <3>2 DEF Users, Setters
    <3>4. user' = [user EXCEPT ![n] = new] BY <2>3, <3>2
    <3> QED BY <2>3, <3>1, <3>3, <3>4, ZenonT(60) DEF FormsInv, FormsTypeOK
  <2> QED BY <2>1, <2>2, <2>3
<1>5. FormsTypeOK' BY <1>2, <1>3, <1>4 DEF FormsInv, FormsTypeOK
<1>6. WroteMore BY <1>2 DEF WroteMore
<1>7. GroupsStay
  <2>1. "department" \in Fields BY DEF Fields
  <2> QED BY <1>4, <2>1 DEF GroupsStay
<1>8. UserFine' BY <1>2, <1>4, FormsAssumption DEF FormsInv, UserFine
<1>9. \A c \in Technicians : FormFine(c)' BY <1>1, FormsUntouched DEF FormsInv
<1>10. \A k \in Calls : CallFine(k)' BY <1>1, <1>2, <1>6, <1>7, CallUntouched DEF SameCall, FormsInv
<1>11. \A c \in Technicians : DeskFine(c)' BY <1>1, <1>2, <1>6, DeskUntouched DEF FormsInv
<1> QED BY <1>5, <1>8, <1>9, <1>10, <1>11 DEF FormsInv

(***************************************************************************)
(* Core goes on.                                                           *)
(***************************************************************************)

\* A technician's form goes on: of the calls only one of theirs may have changed.
LEMMA DeskGoesOn ==
  ASSUME FormsInv, FormsTypeOK', NEW c \in Technicians, UNCHANGED <<phone, form, wrote>>,
         \A d \in Technicians : d # c => stage'[d] = stage[d] /\ told'[d] = told[d],
         \A k \in Calls : SameCall(k) \/ (k[1] = c /\ CallFine(k)'),
         DeskFine(c)'
  PROVE  FormsInv'
<1>1. UserFine' /\ WroteMore /\ GroupsStay BY NothingWritten DEF phone, FormsInv
<1>2. \A d \in Technicians : FormFine(d)' BY FormsUntouched DEF FormsInv
<1>3. \A k \in Calls : CallFine(k)' BY <1>1, CallUntouched DEF FormsInv
<1>4. ASSUME NEW d \in Technicians, d # c PROVE DeskFine(d)'
  <2>1. ASSUME NEW t \in Tools PROVE job'[<<d, t>>] = job[<<d, t>>]
    <3>1. <<d, t>> \in Calls /\ <<d, t>>[1] # c BY <1>4 DEF Calls
    <3> QED BY <3>1 DEF SameCall
  <2>2. stage'[d] = stage[d] /\ told'[d] = told[d] BY <1>4
  <2>3. UNCHANGED form /\ DeskFine(d) BY DEF FormsInv
  <2>4. \A t \in Tools : job'[<<d, t>>] = "none" <=> job[<<d, t>>] = "none" BY <2>1
  <2> QED BY <1>1, <2>2, <2>3, <2>4, DeskUntouched
<1> QED BY <1>1, <1>2, <1>3, <1>4 DEF FormsInv

LEMMA SendHolds ==
  ASSUME FormsInv, NEW c \in Technicians, NEW t \in Tools, UNCHANGED <<phone, form, wrote>>,
         mishaps' \in 0 .. MaxMishaps, snag' \subseteq Technicians,
         Send(c, t, FieldsOf(c, t)), job[<<c, t>>] = "none", Fitting(kind[c], t),
         t = "create" => job[<<c, "update">>] = "none",
         t \in {"create", "update"} => job[<<c, "options">>] = "none",
         kind[c] = "form" /\ t = "options" => about[c] \X Core(c) \subseteq wrote[c]
  PROVE  FormsInv'
<1> DEFINE k == <<c, t>>
<1>1. k \in Calls /\ k[1] = c /\ k[2] = t BY DEF Calls
<1>2. /\ exists' = exists /\ user' = user /\ kind' = kind /\ asked' = asked /\ about' = about
      /\ wrote' = wrote /\ told' = told /\ known' = known /\ held' = held /\ did' = did /\ refusals' = refusals
  BY DEF phone, form, Send
<1>3. FieldsOf(c, t) \subseteq Fields
  BY DEF FieldsOf, Core, Settings, FormsInv, FormsTypeOK, Fields
<1>4. /\ stage' \in [Technicians -> Tools \cup {"idle", "over"}] /\ stage'[c] = t
      /\ \A d \in Technicians : d # c => stage'[d] = stage[d]
  BY DEF Send, FormsInv, FormsTypeOK
<1>5. /\ job' \in [Calls -> {"none", "queued", "running", "checking", "answered", "failed"}]
      /\ job'[k] = "queued" /\ \A j \in Calls : j # k => job'[j] = job[j]
  BY <1>1 DEF Send, FormsInv, FormsTypeOK
<1>6. about[c] \subseteq Numbers BY DEF FormsInv, FormsTypeOK
<1>7. /\ todo' \in [Calls -> SUBSET (Numbers \X Fields)]
      /\ todo'[k] = about[c] \X FieldsOf(c, t) /\ \A j \in Calls : j # k => todo'[j] = todo[j]
  <2>1. PICK all : all = about[c] \X FieldsOf(c, t) OBVIOUS
  <2>2. all \subseteq Numbers \X Fields BY <1>3, <1>6, <2>1
  <2>3. todo' = [todo EXCEPT ![k] = all] BY <2>1 DEF Send
  <2> QED BY <1>1, <2>1, <2>2, <2>3 DEF FormsInv, FormsTypeOK
<1>8. FormsTypeOK' BY <1>2, <1>4, <1>5, <1>7 DEF FormsInv, FormsTypeOK
<1>9. \A j \in Calls : j # k => SameCall(j) BY <1>2, <1>5, <1>7 DEF SameCall
<1>10. CallFine(k)'
  <2>1. CallFine(k) BY <1>1 DEF FormsInv
  <2>2. did'[k] = {} /\ refusals'[k] = {} /\ held'[k] = Unread BY <1>2, <2>1 DEF CallFine
  <2>3. FieldsOf(c, t)' = FieldsOf(c, t) BY <1>2 DEF FieldsOf, Core, Settings
  <2>4. \A g \in Fields, d \in Technicians : held'[k][g] # d BY <2>2, FormsAssumption DEF Unread
  <2>5. Fitting(kind'[c], t) BY <1>2
  <2>6. todo'[k] \cup did'[k] \cup refusals'[k] = about'[c] \X FieldsOf(c, t)' BY <1>2, <1>7, <2>2, <2>3
  <2> QED BY <1>1, <1>5, <2>2, <2>4, <2>5, <2>6 DEF CallFine
<1>11. DeskFine(c)'
  <2>1. DeskFine(c) BY DEF FormsInv
  <2>2. Core(c)' = Core(c) BY <1>2 DEF Core
  <2>3. t # "idle" BY DEF Tools
  <2>4. Fitting(kind'[c], t) BY <1>2
  <2>5. t = "create" => job'[<<c, "update">>] = "none"
    <3>1. <<c, "update">> \in Calls /\ (t = "create" => <<c, "update">> # k) BY DEF Calls, Tools
    <3> QED BY <1>5, <3>1
  <2>6. t \in {"create", "update"} => job'[<<c, "options">>] = "none"
    <3>1. <<c, "options">> \in Calls /\ (t \in {"create", "update"} => <<c, "options">> # k) BY DEF Calls, Tools
    <3> QED BY <1>5, <3>1
  <2> QED BY <1>2, <1>4, <1>5, <2>1, <2>2, <2>3, <2>4, <2>5, <2>6 DEF DeskFine
<1>12. \A d \in Technicians : d # c => stage'[d] = stage[d] /\ told'[d] = told[d] BY <1>2, <1>4
<1>13. \A j \in Calls : SameCall(j) \/ (j[1] = c /\ CallFine(j)') BY <1>1, <1>9, <1>10
<1> QED BY <1>8, <1>11, <1>12, <1>13, DeskGoesOn

LEMMA TellHolds ==
  ASSUME FormsInv, NEW c \in Technicians, NEW answer \in Told, UNCHANGED <<phone, form, wrote>>,
         mishaps' \in 0 .. MaxMishaps, snag' \subseteq Technicians, Tell(c, answer),
         answer = "changed" => about[c] \X asked[c] \subseteq wrote[c]
  PROVE  FormsInv'
<1>1. /\ exists' = exists /\ user' = user /\ kind' = kind /\ asked' = asked /\ about' = about
      /\ wrote' = wrote /\ job' = job /\ todo' = todo /\ known' = known /\ held' = held
      /\ did' = did /\ refusals' = refusals
  BY DEF phone, form, calls, Tell
<1>2. /\ stage' \in [Technicians -> Tools \cup {"idle", "over"}] /\ stage'[c] = "over"
      /\ told' \in [Technicians -> Told] /\ told'[c] = answer
      /\ \A d \in Technicians : d # c => stage'[d] = stage[d] /\ told'[d] = told[d]
  BY DEF Tell, FormsInv, FormsTypeOK
<1>3. FormsTypeOK' BY <1>1, <1>2 DEF FormsInv, FormsTypeOK
<1>4. DeskFine(c)'
  <2>1. "over" \notin Tools BY DEF Tools
  <2> QED BY <1>1, <1>2, <2>1 DEF DeskFine
<1>5. \A k \in Calls : SameCall(k) BY <1>1 DEF SameCall
<1> QED BY <1>2, <1>3, <1>4, <1>5, DeskGoesOn

LEMMA SendFormHolds ==
  ASSUME FormsInv, NEW c \in Technicians, UNCHANGED <<phone, form, wrote>>,
         mishaps' \in 0 .. MaxMishaps, snag' \subseteq Technicians, SendForm(c),
         kind[c] \in {"form", "create"}, job[<<c, "update">>] = "none", job[<<c, "options">>] = "none"
  PROVE  FormsInv'
<1>1. "update" \in Tools /\ "options" \in Tools BY DEF Tools
<1>2. CASE Core(c) # {}
  <2>1. Send(c, "update", FieldsOf(c, "update")) BY <1>2 DEF SendForm, FieldsOf
  <2>2. Fitting(kind[c], "update") BY DEF Fitting
  <2> QED BY <1>1, <2>1, <2>2, SendHolds
<1>3. CASE Core(c) = {}
  <2>1. Send(c, "options", FieldsOf(c, "options")) BY <1>3 DEF SendForm, FieldsOf
  <2>2. Fitting(kind[c], "options") BY DEF Fitting
  <2>3. about[c] \X Core(c) \subseteq wrote[c] BY <1>3
  <2> QED BY <1>1, <2>1, <2>2, <2>3, SendHolds
<1> QED BY <1>2, <1>3

LEMMA SubmitHolds == ASSUME FormsInv, NEW c \in Technicians, Submit(c) PROVE FormsInv'
<1>1. /\ stage[c] = "idle" /\ UNCHANGED <<phone, form, wrote>>
      /\ mishaps' \in 0 .. MaxMishaps /\ snag' \subseteq Technicians
  BY DEF Submit, FormsInv, FormsTypeOK
<1>2. \A t \in Tools : job[<<c, t>>] = "none" BY <1>1 DEF FormsInv, DeskFine
<1>3. {"update", "options", "create", "delete", "keys"} \subseteq Tools BY DEF Tools
<1>4. kind[c] \in Kinds BY DEF FormsInv, FormsTypeOK
<1>5. CASE kind[c] = "form"
  <2>1. SendForm(c) BY <1>5 DEF Submit
  <2> QED BY <1>1, <1>2, <1>3, <1>5, <2>1, SendFormHolds
<1>6. CASE kind[c] = "create"
  <2>1. Send(c, "create", FieldsOf(c, "create")) BY <1>6 DEF Submit, FieldsOf
  <2>2. Fitting(kind[c], "create") BY <1>6 DEF Fitting
  <2> QED BY <1>1, <1>2, <1>3, <2>1, <2>2, SendHolds
<1>7. CASE kind[c] = "remove"
  <2>1. Send(c, "delete", FieldsOf(c, "delete")) BY <1>7 DEF Submit, FieldsOf
  <2>2. Fitting(kind[c], "delete") BY <1>7 DEF Fitting
  <2> QED BY <1>1, <1>2, <1>3, <2>1, <2>2, SendHolds
<1>8. CASE kind[c] = "copy"
  <2>1. Send(c, "keys", FieldsOf(c, "keys")) BY <1>8 DEF Submit, FieldsOf
  <2>2. Fitting(kind[c], "keys") BY <1>8 DEF Fitting
  <2> QED BY <1>1, <1>2, <1>3, <2>1, <2>2, SendHolds
<1> QED BY <1>4, <1>5, <1>6, <1>7, <1>8 DEF Kinds

\* A call answered and nothing refused did all it was sent.
LEMMA AnsweredIsWritten ==
  ASSUME FormsInv, NEW k \in Calls, job[k] = "answered", refusals[k] = {}
  PROVE  about[k[1]] \X FieldsOf(k[1], k[2]) \subseteq wrote[k[1]]
BY DEF FormsInv, CallFine

LEMMA ProceedHolds ==
  ASSUME FormsInv, NEW c \in Technicians, NEW failed \in BOOLEAN, stage[c] \in Tools,
         ~failed => job[<<c, stage[c]>>] = "answered", Proceed(c, failed),
         UNCHANGED <<phone, form, wrote>>, mishaps' \in 0 .. MaxMishaps
  PROVE  FormsInv'
<1> DEFINE t == stage[c]
<1>1. /\ snag \subseteq Technicians /\ kind[c] \in Kinds /\ Fitting(kind[c], t) /\ DeskFine(c)
      /\ <<c, t>> \in Calls /\ <<c, t>>[1] = c /\ <<c, t>>[2] = t /\ CallFine(<<c, t>>)
  BY DEF FormsInv, FormsTypeOK, DeskFine, Calls
<1>2. {"update", "options", "create", "delete", "keys"} \subseteq Tools BY DEF Tools
<1>3. {"changed", "partly", "created", "removed", "badGateway"} \subseteq Told BY DEF Told
<1>4. CASE kind[c] = "form"
  <2>1. AfterForm(c, t, failed) BY <1>4 DEF Proceed
  <2>2. snag' \subseteq Technicians BY <1>1, <2>1 DEF AfterForm
  <2>3. asked[c] = Core(c) \cup Settings(c)
    <3>1. "keys" \notin asked[c] BY <1>4 DEF FormsInv, FormFine
    <3> QED BY <3>1 DEF Core, Settings
  <2>4. CASE Tell(c, "badGateway") BY <1>3, <2>2, <2>4, TellHolds
  <2>5. CASE /\ ~failed /\ t = "update"
             /\ IF Settings(c) # {} THEN Send(c, "options", Settings(c)) ELSE Tell(c, "changed")
    <3>1. about[c] \X Core(c) \subseteq wrote[c]
      <4>1. refusals[<<c, t>>] = {} BY <1>1, <2>5 DEF CallFine
      <4>2. FieldsOf(c, t) = Core(c) BY <2>5 DEF FieldsOf
      <4> QED BY <1>1, <2>5, <4>1, <4>2, AnsweredIsWritten
    <3>2. job[<<c, "options">>] = "none" BY <1>1, <2>5 DEF DeskFine
    <3>3. CASE Settings(c) # {}
      <4>1. Send(c, "options", FieldsOf(c, "options")) BY <2>5, <3>3 DEF FieldsOf
      <4>2. Fitting(kind[c], "options") BY <1>4 DEF Fitting
      <4> QED BY <1>2, <2>2, <3>1, <3>2, <4>1, <4>2, SendHolds
    <3>4. CASE Settings(c) = {}
      <4>1. about[c] \X asked[c] \subseteq wrote[c] BY <2>3, <3>1, <3>4
      <4> QED BY <1>3, <2>2, <2>5, <3>4, <4>1, TellHolds
    <3> QED BY <3>3, <3>4
  <2>6. CASE ~failed /\ t = "options" /\ ~Refused(c, t) /\ Tell(c, "changed")
    <3>1. about[c] \X Settings(c) \subseteq wrote[c]
      <4>1. refusals[<<c, t>>] = {} BY <2>6 DEF Refused
      <4>2. FieldsOf(c, t) = Settings(c) BY <2>6 DEF FieldsOf
      <4> QED BY <1>1, <2>6, <4>1, <4>2, AnsweredIsWritten
    <3>2. about[c] \X Core(c) \subseteq wrote[c] BY <1>1, <1>4, <2>6 DEF DeskFine
    <3>3. about[c] \X asked[c] \subseteq wrote[c] BY <2>3, <3>1, <3>2
    <3> QED BY <1>3, <2>2, <2>6, <3>3, TellHolds
  <2> QED BY <2>1, <2>4, <2>5, <2>6 DEF AfterForm
<1>5. CASE kind[c] = "create"
  <2>1. AfterCreate(c, t, failed) BY <1>5 DEF Proceed
  <2>2. snag' \subseteq Technicians BY <1>1, <2>1 DEF AfterCreate
  <2>3. CASE Tell(c, "badGateway") \/ Tell(c, "created") BY <1>3, <2>2, <2>3, TellHolds
  <2>4. CASE t = "create" /\ SendForm(c)
    <3>1. job[<<c, "update">>] = "none" /\ job[<<c, "options">>] = "none" BY <1>1, <2>4 DEF DeskFine
    <3> QED BY <1>5, <2>2, <2>4, <3>1, SendFormHolds
  <2>5. CASE t = "update" /\ Send(c, "options", Settings(c))
    <3>1. job[<<c, "options">>] = "none" BY <1>1, <2>5 DEF DeskFine
    <3>2. Send(c, "options", FieldsOf(c, "options")) BY <2>5 DEF FieldsOf
    <3>3. Fitting(kind[c], "options") BY <1>5 DEF Fitting
    <3> QED BY <1>2, <1>5, <2>2, <3>1, <3>2, <3>3, SendHolds
  <2> QED BY <2>1, <2>3, <2>4, <2>5 DEF AfterCreate
<1>6. CASE kind[c] = "remove"
  <2>1. (Tell(c, "badGateway") \/ Tell(c, "removed")) /\ UNCHANGED snag BY <1>6 DEF Proceed
  <2> QED BY <1>1, <1>3, <2>1, TellHolds
<1>7. CASE kind[c] = "copy"
  <2>1. /\ UNCHANGED snag
        /\ \/ Tell(c, "badGateway") \/ Tell(c, "partly")
           \/ Tell(c, "changed") /\ ~failed /\ ~Refused(c, t)
    BY <1>7 DEF Proceed
  <2>2. CASE Tell(c, "changed") /\ ~failed /\ ~Refused(c, t)
    <3>1. refusals[<<c, t>>] = {} BY <2>2 DEF Refused
    <3>2. FieldsOf(c, t) = asked[c]
      <4>1. t = "keys" BY <1>1, <1>7 DEF Fitting
      <4>2. asked[c] = {"keys"} BY <1>7 DEF FormsInv, FormFine
      <4> QED BY <4>1, <4>2 DEF FieldsOf
    <3>3. about[c] \X asked[c] \subseteq wrote[c] BY <1>1, <2>2, <3>1, <3>2, AnsweredIsWritten
    <3> QED BY <1>1, <1>3, <2>1, <2>2, <3>3, TellHolds
  <2> QED BY <1>1, <1>3, <2>1, <2>2, TellHolds
<1> QED BY <1>1, <1>4, <1>5, <1>6, <1>7 DEF Kinds

LEMMA HearHolds == ASSUME FormsInv, NEW c \in Technicians, Hear(c) PROVE FormsInv'
<1>1. PICK failed \in BOOLEAN : failed = (job[<<c, stage[c]>>] = "failed") OBVIOUS
<1>2. Proceed(c, failed) /\ (~failed => job[<<c, stage[c]>>] = "answered") BY <1>1 DEF Hear
<1>3. stage[c] \in Tools /\ UNCHANGED <<phone, form, wrote>> /\ mishaps' \in 0 .. MaxMishaps
  BY DEF Hear, FormsInv, FormsTypeOK
<1> QED BY <1>2, <1>3, ProceedHolds

LEMMA StopWaitingHolds == ASSUME FormsInv, NEW c \in Technicians, StopWaiting(c) PROVE FormsInv'
<1>1. stage[c] \in Tools /\ Proceed(c, TRUE) /\ UNCHANGED <<phone, form, wrote>> BY DEF StopWaiting
<1>2. mishaps' \in 0 .. MaxMishaps BY MishapTyped DEF StopWaiting, FormsInv, FormsTypeOK
<1> QED BY <1>1, <1>2, ProceedHolds

LEMMA FormsInitHolds == FormsInit => FormsInv
<1> SUFFICES ASSUME FormsInit PROVE FormsInv OBVIOUS
<1>1. ASSUME NEW n \in Numbers
      PROVE  user[n] \in Users /\ \A f \in Fields : user[n][f] \in {"was", "none"}
  <2>1. PICK g \in 0 .. 2, h \in BOOLEAN : user[n] = SetUp(g, h) BY DEF FormsInit
  <2>2. \A f \in Fields \cup {"second"} : SetUp(g, h)[f] \in {"was", "none"} BY DEF SetUp
  <2>3. SetUp(g, h) \in Users BY <2>2 DEF SetUp, Users, Setters
  <2> QED BY <2>1, <2>2, <2>3
<1>2. user \in [Numbers -> Users] BY <1>1 DEF FormsInit
<1>3. Unread \in Readings BY DEF Unread, Readings
<1>4. asked \in [Technicians -> SUBSET Fields] BY FormsAssumption DEF FormsInit
<1>5. FormsTypeOK BY <1>2, <1>3, <1>4, PhoneBounds DEF FormsInit, FormsTypeOK, Told
<1>6. \A c \in Technicians : FormFine(c) BY FormsAssumption DEF FormsInit, FormFine
<1>7. UserFine BY <1>1, FormsAssumption DEF UserFine
<1>8. ASSUME NEW k \in Calls PROVE CallFine(k)
  <2>1. /\ job[k] = "none" /\ todo[k] = {} /\ did[k] = {} /\ refusals[k] = {} /\ held[k] = Unread
    BY <1>8 DEF FormsInit
  <2>2. \A g \in Fields, d \in Technicians : held[k][g] # d BY <2>1, FormsAssumption DEF Unread
  <2> QED BY <2>1, <2>2 DEF CallFine
<1>9. ASSUME NEW c \in Technicians PROVE DeskFine(c)
  <2>1. stage[c] = "idle" /\ told[c] = "none" BY DEF FormsInit
  <2>2. \A t \in Tools : job[<<c, t>>] = "none" BY DEF FormsInit, Calls
  <2>3. "idle" \notin Tools BY DEF Tools
  <2> QED BY <2>1, <2>2, <2>3 DEF DeskFine
<1> QED BY <1>5, <1>6, <1>7, <1>8, <1>9 DEF FormsInv

LEMMA ToolHolds == ASSUME FormsInv, NEW k \in Calls, Tool(k) PROVE FormsInv'
<1>1. CASE Take(k) BY <1>1, TakeHolds
<1>2. CASE Answer(k) BY <1>2, AnswerHolds
<1>3. ASSUME NEW p \in todo[k], PassOver(k, p) \/ Look(k, p) \/ Write(k, p) \/ CheckRole(k, p) PROVE FormsInv'
  BY <1>3, PassOverHolds, LookHolds, WriteHolds, CheckRoleHolds
<1> QED BY <1>1, <1>2, <1>3 DEF Tool

LEMMA FormsStep == FormsInv /\ [FormsNext]_formVars => FormsInv'
<1> SUFFICES ASSUME FormsInv, [FormsNext]_formVars PROVE FormsInv' OBVIOUS
<1>1. CASE UNCHANGED formVars
  <2>1. /\ UNCHANGED <<phone, form, wrote, desk, calls, mishaps>> BY <1>1 DEF formVars
  <2>2. FormsTypeOK' BY <2>1 DEF FormsInv, FormsTypeOK, phone, form, desk, calls
  <2>3. UserFine' /\ WroteMore /\ GroupsStay BY <2>1, NothingWritten DEF phone, FormsInv
  <2>4. \A c \in Technicians : FormFine(c)' BY <2>1, FormsUntouched DEF FormsInv
  <2>5. \A k \in Calls : CallFine(k)' BY <2>1, <2>3, CallUntouched DEF FormsInv, SameCall, calls
  <2>6. \A c \in Technicians : DeskFine(c)' BY <2>1, <2>3, DeskUntouched DEF FormsInv, desk, calls
  <2> QED BY <2>2, <2>3, <2>4, <2>5, <2>6 DEF FormsInv
<1>2. ASSUME NEW c \in Technicians, Submit(c) \/ Hear(c) \/ StopWaiting(c) PROVE FormsInv'
  BY <1>2, SubmitHolds, HearHolds, StopWaitingHolds
<1>3. ASSUME NEW k \in Calls, Tool(k) PROVE FormsInv' BY <1>3, ToolHolds
<1>4. CASE AtTheConsole BY <1>4, ConsoleHolds
<1> QED BY <1>1, <1>2, <1>3, <1>4 DEF FormsNext

LEMMA FormsAlways == FormsSpec => []FormsInv
<1> QED BY FormsInitHolds, FormsStep, PTL DEF FormsSpec

LEMMA FormsInvSays == FormsInv => FormsKeepTheirWord
<1> SUFFICES ASSUME FormsInv PROVE FormsKeepTheirWord OBVIOUS
<1>1. SaidIsDone BY DEF FormsInv, CallFine, DeskFine, SaidIsDone
<1>2. RoleFindsItsGroup
  <2> SUFFICES ASSUME NEW k \in Calls, NEW n \in Numbers, <<n, "role">> \in refusals[k],
                      "department" \in asked[k[1]], user[n]["department"] = "none", n \in exists
               PROVE  <<n, "department">> \in refusals[k]
    BY DEF RoleFindsItsGroup
  <2>1. CallFine(k) BY DEF FormsInv
  <2>2. job[k] # "none" BY <2>1 DEF CallFine
  <2>3. todo[k] \cup did[k] \cup refusals[k] = about[k[1]] \X FieldsOf(k[1], k[2]) BY <2>1, <2>2 DEF CallFine
  <2>4. n \in about[k[1]] /\ "role" \in FieldsOf(k[1], k[2]) BY <2>3
  <2>5. "department" \in FieldsOf(k[1], k[2]) BY <2>4 DEF FieldsOf, Core, Settings
  <2>6. <<n, "department">> \in todo[k] \cup did[k] \cup refusals[k] BY <2>3, <2>4, <2>5
  <2>7. <<n, "department">> \notin todo[k] /\ <<n, "department">> \notin did[k] BY <2>1 DEF CallFine
  <2> QED BY <2>6, <2>7
<1> QED BY <1>1, <1>2 DEF FormsKeepTheirWord, FormsInv

(***************************************************************************)
(* What a form or a tool says it changed was changed, by whoever sent it,  *)
(* whatever else was written meanwhile and whichever answers were lost;    *)
(* and a role is refused for the lack of a department only when the        *)
(* department of the same form was refused.                                *)
(***************************************************************************)
THEOREM FormsKept == FormsSpec => []FormsKeepTheirWord
<1> QED BY FormsAlways, FormsInvSays, PTL

(***************************************************************************)
(* Only what was asked for is written.                                     *)
(***************************************************************************)

\* What a step may make of a field of an extension that was and is there.
AsAsked(n, f) ==
  \/ user'[n][f] \in {user[n][f], "console"}
  \/ f = "role" /\ user[n]["department"] = "none" /\ user'[n][f] = "default"
  \/ \E c \in Technicians : n \in about[c] /\ f \in asked[c] /\ user'[n][f] = c

LEMMA PatchedAsAsked ==
  ASSUME FormsInv, Untouched, NEW k \in Calls, NEW p \in todo[k], At(k, p), k[2] \notin {"create", "delete"},
         p[2] \in ReadFirst => held[k] # Unread,
         user' = [user EXCEPT ![p[1]] = Patched(k, p)], NEW f \in Fields
  PROVE  AsAsked(p[1], f)
<1>1. job[k] = "running" /\ k[1] \in Technicians BY CallsArePairs DEF At
<1>2. /\ p \in Numbers \X Fields /\ p[1] \in about[k[1]] /\ p[1] \in Numbers /\ p[2] \in Fields
      /\ p[2] \in FieldsOf(k[1], k[2]) /\ Fitting(kind[k[1]], k[2])
  BY <1>1, PartIsAsked DEF Part
<1>3. p[2] \in asked[k[1]]
  <2>1. k[2] \in {"update", "options", "keys"} BY CallsArePairs DEF Tools
  <2>2. k[2] = "keys" => asked[k[1]] = {"keys"} BY <1>1, <1>2 DEF Fitting, FormsInv, FormFine
  <2> QED BY <1>2, <2>1, <2>2 DEF FieldsOf, Core, Settings
<1>4. user'[p[1]] = Patched(k, p) BY <1>2 DEF FormsInv, FormsTypeOK
<1>5. CASE f = p[2]
  <2>1. user'[p[1]][f] = k[1] BY <1>4, <1>5, PatchedIs
  <2> QED BY <1>1, <1>2, <1>3, <1>5, <2>1 DEF AsAsked
<1>6. CASE f # p[2]
  <2>1. Whole(p[2]) # {} => p[2] \in ReadFirst BY <1>2 DEF Whole, Membership, Profiles, ReadFirst, Fields
  <2>2. p[2] \in ReadFirst => held[k] = WhatIsRead(p) BY <1>2 DEF Untouched
  <2>3. \A g \in Whole(p[2]) : g \in Fields => held[k][g] = user[p[1]][g] BY <2>1, <2>2 DEF WhatIsRead
  <2>4. p[2] = "department" => held[k]["department"] = user[p[1]]["department"]
    <3>1. "department" \in ReadFirst /\ "department" \in Fields BY DEF ReadFirst, Fields
    <3> QED BY <2>2, <3>1 DEF WhatIsRead
  <2>5. f # "second" BY DEF Fields
  <2>6. CASE p[2] = "department" /\ f = "role" /\ held[k]["department"] = "none"
    <3>1. Patched(k, p)[f] = "default" BY <1>6, <2>6 DEF Patched
    <3> QED BY <1>4, <2>4, <2>6, <3>1 DEF AsAsked
  <2>7. CASE ~(p[2] = "department" /\ f = "role" /\ held[k]["department"] = "none")
    <3>1. Patched(k, p)[f] = IF f \in Whole(p[2]) THEN held[k][f] ELSE user[p[1]][f]
      BY <1>6, <2>5, <2>7 DEF Patched
    <3>2. Patched(k, p)[f] = user[p[1]][f] BY <2>3, <3>1
    <3> QED BY <1>4, <3>2 DEF AsAsked
  <2> QED BY <2>6, <2>7
<1> QED BY <1>5, <1>6

LEMMA WriteAsAsked ==
  ASSUME FormsInv, Untouched, NEW k \in Calls, NEW p \in todo[k], Write(k, p),
         NEW n \in exists \cap exists', NEW f \in Fields
  PROVE  AsAsked(n, f)
<1>1. job[k] = "running" /\ At(k, p) /\ (k[2] # "create" /\ p[2] \in ReadFirst => held[k] # Unread)
  BY DEF Write, At
<1>2. p[1] \in Numbers /\ n \in Numbers BY <1>1, PartIsAsked DEF FormsInv, FormsTypeOK
<1>3. CASE UNCHANGED phone BY <1>3 DEF phone, AsAsked
<1>4. CASE Takes(k, p) /\ Applied(k, p)
  <2>1. CASE k[2] = "create"
    <3>1. n # p[1] BY <1>4, <2>1 DEF Takes
    <3>2. user'[n] = user[n] BY <1>2, <1>4, <2>1, <3>1 DEF Applied, FormsInv, FormsTypeOK
    <3> QED BY <3>2 DEF AsAsked
  <2>2. CASE k[2] = "delete" BY <1>4, <2>2 DEF Applied, AsAsked
  <2>3. CASE k[2] \notin {"create", "delete"}
    <3>1. user' = [user EXCEPT ![p[1]] = Patched(k, p)] BY <1>4, <2>3 DEF Applied
    <3>2. CASE n = p[1] BY <1>1, <2>3, <3>1, <3>2, PatchedAsAsked
    <3>3. CASE n # p[1]
      <4>1. user'[n] = user[n] BY <1>2, <3>1, <3>3 DEF FormsInv, FormsTypeOK
      <4> QED BY <4>1 DEF AsAsked
    <3> QED BY <3>2, <3>3
  <2> QED BY <2>1, <2>2, <2>3
<1> QED BY <1>3, <1>4 DEF Write

LEMMA ConsoleAsAsked ==
  ASSUME FormsInv, AtTheConsole, NEW n \in exists \cap exists', NEW f \in Fields
  PROVE  AsAsked(n, f)
<1>1. user \in [Numbers -> Users] /\ n \in Numbers BY DEF FormsInv, FormsTypeOK
<1>2. PICK m \in exists :
        \/ \E g \in {"department", "away"} : user' = [user EXCEPT ![m][g] = "console"]
        \/ UNCHANGED user
  BY DEF AtTheConsole
<1>3. ASSUME NEW g \in {"department", "away"}, user' = [user EXCEPT ![m][g] = "console"]
      PROVE  user'[n][f] \in {user[n][f], "console"}
  <2>1. user[m] \in Users /\ m \in Numbers BY DEF FormsInv, FormsTypeOK
  <2>2. PICK new : new = [user[m] EXCEPT ![g] = "console"] OBVIOUS
  <2>3. new[f] \in {user[m][f], "console"} BY <2>1, <2>2 DEF Users
  <2>4. user' = [user EXCEPT ![m] = new] BY <1>3, <2>2
  <2> QED BY <1>1, <2>1, <2>3, <2>4
<1> QED BY <1>2, <1>3 DEF AsAsked

(***************************************************************************)
(* Unless an extension was changed between the read and the write, a       *)
(* request changes of it what its form asked for and nothing else, however *)
(* many forms, tools and lost answers there are.                           *)
(***************************************************************************)
THEOREM OnlyAskedIsWritten == FormsSpec => OnlyAsked
<1>1. FormsInv /\ [FormsNext]_formVars =>
        (Untouched => \A n \in exists \cap exists', f \in Fields : AsAsked(n, f))
  <2> SUFFICES ASSUME FormsInv, [FormsNext]_formVars, Untouched,
                      NEW n \in exists \cap exists', NEW f \in Fields
               PROVE  AsAsked(n, f)
    OBVIOUS
  <2>1. CASE UNCHANGED phone BY <2>1 DEF phone, AsAsked
  <2>2. ASSUME NEW k \in Calls, Tool(k) PROVE AsAsked(n, f)
    <3>1. CASE UNCHANGED phone BY <2>1, <3>1
    <3>2. ASSUME NEW p \in todo[k], Write(k, p) PROVE AsAsked(n, f) BY <3>2, WriteAsAsked
    <3> QED BY <2>2, <3>1, <3>2 DEF Tool, Take, Answer, PassOver, Look, CheckRole
  <2>3. CASE AtTheConsole BY <2>3, ConsoleAsAsked
  <2> QED BY <2>1, <2>2, <2>3 DEF FormsNext, formVars, Submit, Hear, StopWaiting
<1>2. FormsInv /\ [FormsNext]_formVars =>
        [Untouched => \A n \in exists \cap exists', f \in Fields :
           \/ user'[n][f] \in {user[n][f], "console"}
           \/ f = "role" /\ user[n]["department"] = "none" /\ user'[n][f] = "default"
           \/ \E c \in Technicians : n \in about[c] /\ f \in asked[c] /\ user'[n][f] = c]_formVars
  BY <1>1 DEF AsAsked
<1> QED BY <1>2, FormsAlways, PTL DEF FormsSpec, OnlyAsked

(***************************************************************************)
(* Numbers of a trunk: the sheet without its repetitions.                  *)
(***************************************************************************)

\* Members of a finite set of numbers are counted off in their order.
LEMMA CountedOff ==
  ASSUME NEW top \in Nat, NEW S \in SUBSET (1 .. top)
  PROVE  LET upTo(k) == {j \in S : j <= k}
         IN  /\ IsFiniteSet(S) /\ Cardinality(S) \in Nat
             /\ \A k \in S : Cardinality(upTo(k)) \in 1 .. Cardinality(S)
             /\ \A k, l \in S : Cardinality(upTo(k)) = Cardinality(upTo(l)) => k = l
             /\ \A n \in 1 .. Cardinality(S) : \E k \in S : Cardinality(upTo(k)) = n
<1> DEFINE upTo(k) == {j \in S : j <= k}
           place == [k \in S |-> Cardinality(upTo(k))]
<1>1. IsFiniteSet(1 .. top) BY FS_Interval
<1>2. IsFiniteSet(S) BY <1>1, FS_Subset
<1>3. Cardinality(S) \in Nat BY <1>2, FS_CardinalityType
<1>4. ASSUME NEW k \in S
      PROVE  IsFiniteSet(upTo(k)) /\ Cardinality(upTo(k)) \in 1 .. Cardinality(S)
  <2>1. upTo(k) \in SUBSET S /\ k \in upTo(k) OBVIOUS
  <2>2. IsFiniteSet(upTo(k)) /\ Cardinality(upTo(k)) <= Cardinality(S) BY <1>2, <2>1, FS_Subset
  <2>3. Cardinality(upTo(k)) \in Nat BY <2>2, FS_CardinalityType
  <2>4. Cardinality(upTo(k)) # 0 BY <2>1, <2>2, FS_EmptySet
  <2> QED BY <1>3, <2>2, <2>3, <2>4
<1>5. ASSUME NEW k \in S, NEW l \in S, k <= l, Cardinality(upTo(k)) = Cardinality(upTo(l))
      PROVE  k = l
  <2>1. upTo(k) \in SUBSET upTo(l)
    <3>1. \A j \in S : j \in Nat OBVIOUS
    <3>2. \A j \in S : j <= k => j <= l BY ONLY <1>5, <3>1, k \in S, l \in S
    <3> QED BY <3>2
  <2>2. upTo(l) = upTo(k) BY <1>4, <1>5, <2>1, FS_Subset
  <2>3. l \in upTo(k) BY <2>2
  <2> QED BY <1>5, <2>3
<1>6. \A k, l \in S : Cardinality(upTo(k)) = Cardinality(upTo(l)) => k = l
  <2> SUFFICES ASSUME NEW k \in S, NEW l \in S, Cardinality(upTo(k)) = Cardinality(upTo(l)) PROVE k = l
    OBVIOUS
  <2>1. k <= l \/ l <= k OBVIOUS
  <2> QED BY <1>5, <2>1
<1>7. place \in [S -> 1 .. Cardinality(S)] BY <1>4
<1>8. \A k \in S : place[k] = Cardinality(upTo(k)) OBVIOUS
<1> HIDE DEF place, upTo
<1>9. place \in Injection(S, 1 .. Cardinality(S))
  <2>1. \A k, l \in S : place[k] = place[l] => k = l BY <1>6, <1>8
  <2>2. DOMAIN place = S BY <1>7
  <2> QED BY <1>7, <2>1, <2>2 DEF Injection, IsInjective
<1>10. IsFiniteSet(1 .. Cardinality(S)) /\ Cardinality(1 .. Cardinality(S)) = Cardinality(S)
  BY <1>3, FS_Interval
<1>11. place \in Surjection(S, 1 .. Cardinality(S)) BY <1>9, <1>10, FS_Injection
<1>12. \A n \in 1 .. Cardinality(S) : \E k \in S : Cardinality(upTo(k)) = n
  BY <1>8, <1>11 DEF Surjection
<1> QED BY <1>2, <1>3, <1>4, <1>6, <1>12 DEF upTo

LEMMA OneIsLeast ==
  ASSUME NEW top \in Nat, NEW S \in SUBSET (1 .. top), S # {}
  PROVE  \E k \in S : \A j \in S : k <= j
<1> DEFINE upTo(k) == {j \in S : j <= k}
<1>1. /\ IsFiniteSet(S) /\ Cardinality(S) \in Nat
      /\ \A n \in 1 .. Cardinality(S) : \E k \in S : Cardinality(upTo(k)) = n
  BY CountedOff
<1>2. Cardinality(S) # 0 BY <1>1, FS_EmptySet
<1>3. PICK k \in S : Cardinality(upTo(k)) = 1 BY <1>1, <1>2
<1>4. IsFiniteSet(upTo(k)) BY <1>1, FS_Subset
<1>5. PICK x : upTo(k) = {x} BY <1>3, <1>4, FS_Singleton
<1>6. k \in upTo(k) OBVIOUS
<1>7. ASSUME NEW j \in S, ~(k <= j) PROVE FALSE
  <2>1. j \in upTo(k) BY <1>7
  <2> QED BY <1>5, <1>6, <1>7, <2>1
<1> QED BY <1>7

Rows == Dids \X Ringable

\* The sheet's rows, each number as its first row says, and each once.
LEMMA ParsedKeeps ==
  ASSUME NEW sheet \in Seq(Rows)
  PROVE  /\ Parsed(sheet) \in Seq(Rows)
         /\ \A n \in DOMAIN Parsed(sheet) : \E k \in DOMAIN sheet : Parsed(sheet)[n] = sheet[k]
         /\ \A k \in DOMAIN sheet : \E n \in DOMAIN Parsed(sheet) : Did(Parsed(sheet)[n]) = Did(sheet[k])
         /\ \A m, n \in DOMAIN Parsed(sheet) : Did(Parsed(sheet)[m]) = Did(Parsed(sheet)[n]) => m = n
<1> DEFINE Again(k) == \E j \in 1 .. k - 1 : Did(sheet[j]) = Did(sheet[k])
           Firsts == {k \in DOMAIN sheet : ~Again(k)}
           place(k) == Cardinality({j \in Firsts : j <= k})
           Nth(n) == CHOOSE k \in Firsts : place(k) = n
           rows == [n \in 1 .. Cardinality(Firsts) |-> sheet[Nth(n)]]
<1>1. Parsed(sheet) = rows BY DEF Parsed
<1>2. Len(sheet) \in Nat /\ DOMAIN sheet = 1 .. Len(sheet) /\ \A k \in DOMAIN sheet : sheet[k] \in Rows
  BY LenProperties, ElementOfSeq
<1>3. Firsts \in SUBSET (1 .. Len(sheet)) BY <1>2
<1>4. /\ Cardinality(Firsts) \in Nat
      /\ \A k \in Firsts : place(k) \in 1 .. Cardinality(Firsts)
      /\ \A k, l \in Firsts : place(k) = place(l) => k = l
      /\ \A n \in 1 .. Cardinality(Firsts) : \E k \in Firsts : place(k) = n
  BY <1>2, <1>3, CountedOff
<1>5. \A k, l \in Firsts : Did(sheet[k]) = Did(sheet[l]) => k = l
  <2> SUFFICES ASSUME NEW k \in Firsts, NEW l \in Firsts, Did(sheet[k]) = Did(sheet[l]), k < l PROVE FALSE
    BY <1>2
  <2> QED BY <1>2
<1>6. ASSUME NEW k \in DOMAIN sheet PROVE \E f \in Firsts : Did(sheet[f]) = Did(sheet[k])
  <2> DEFINE Same == {j \in DOMAIN sheet : Did(sheet[j]) = Did(sheet[k])}
  <2>1. Same \in SUBSET (1 .. Len(sheet)) /\ Same # {} BY <1>2
  <2>2. PICK f \in Same : \A j \in Same : f <= j BY <1>2, <2>1, OneIsLeast
  <2>3. ~Again(f)
    <3> SUFFICES ASSUME NEW j \in 1 .. f - 1, Did(sheet[j]) = Did(sheet[f]) PROVE FALSE OBVIOUS
    <3>1. j \in DOMAIN sheet /\ f \in 1 .. Len(sheet) BY <1>2
    <3>2. j \in Same BY <3>1
    <3> QED BY <2>2, <3>1, <3>2
  <2> QED BY <2>2, <2>3
<1> HIDE DEF Firsts, place
<1>7. \A n \in 1 .. Cardinality(Firsts) : Nth(n) \in Firsts /\ place(Nth(n)) = n BY <1>4
<1> HIDE DEF Nth
<1>8. /\ DOMAIN rows = 1 .. Cardinality(Firsts) /\ \A n \in DOMAIN rows : rows[n] = sheet[Nth(n)]
      /\ Firsts \subseteq DOMAIN sheet
  BY DEF Firsts
<1>9. rows \in Seq(Rows)
  <2>1. \A n \in 1 .. Cardinality(Firsts) : sheet[Nth(n)] \in Rows BY <1>2, <1>7, <1>8
  <2> QED BY <1>4, <2>1, IsASeq
<1> HIDE DEF rows
<1>10. \A k \in DOMAIN sheet : \E n \in DOMAIN rows : Did(rows[n]) = Did(sheet[k])
  <2> SUFFICES ASSUME NEW k \in DOMAIN sheet PROVE \E n \in DOMAIN rows : Did(rows[n]) = Did(sheet[k])
    OBVIOUS
  <2>1. PICK f \in Firsts : Did(sheet[f]) = Did(sheet[k]) BY <1>6
  <2>2. place(f) \in DOMAIN rows BY <1>4, <1>8
  <2>3. Nth(place(f)) = f BY <1>4, <1>7
  <2> QED BY <1>8, <2>1, <2>2, <2>3
<1>11. \A m, n \in DOMAIN rows : Did(rows[m]) = Did(rows[n]) => m = n
  <2> SUFFICES ASSUME NEW m \in DOMAIN rows, NEW n \in DOMAIN rows, Did(rows[m]) = Did(rows[n]) PROVE m = n
    OBVIOUS
  <2>1. Nth(m) = Nth(n) BY <1>5, <1>7, <1>8
  <2> QED BY <1>7, <1>8, <2>1
<1> QED BY <1>1, <1>7, <1>8, <1>9, <1>10, <1>11

(***************************************************************************)
(* The inductive invariant.                                                *)
(***************************************************************************)

ImportAts == {"idle", "shown", "queued", "merging", "reading", "placing", "answered", "failed"}
Entries == [id : Nat, to : Targets]
ImportRecords ==
  [at : ImportAts, trunk : Trunks \cup {NewImport.trunk}, mode : {"append", "replace"},
   sheet : Seq(Rows), rows : Seq(Rows), current : BOOLEAN, screen : BOOLEAN,
   carried : SUBSET Dids, moving : SUBSET Nat, map : [Dids -> Entries],
   routed : SUBSET Dids, failed : SUBSET Dids, kept : SUBSET Dids]
RuleRecords == [id : Nat \ {0}, trunk : Trunks, did : Dids, to : Desks]

TrunksTyped ==
  /\ carries \in [Trunks -> SUBSET Dids]
  /\ rules \subseteq RuleRecords /\ lastRule \in Nat /\ troubles \in 0 .. MaxTroubles
  /\ changedUnder \subseteq Importers /\ disturbed \subseteq changedUnder /\ lost \subseteq Importers
  /\ import \in [Importers -> ImportRecords]

\* A rule keeps its id, its trunk and its number, and no other gets the id.
RulesKnown ==
  /\ \A r \in rules : r.id <= lastRule
  /\ \A r, q \in rules : r.id = q.id => r = q

OneAtWork == \A i, j \in Importers : import[i].at \in AtWork /\ import[j].at \in AtWork => i = j

OneRule ==
  lost = {} /\ disturbed = {} =>
    \A t \in Trunks, d \in Dids : \A r, q \in Numbered(t, d) : r = q

\* The rows are the sheet's, and until they are placed none of its numbers is
\* missing from them.
RowsAreTheSheets(b) ==
  /\ b.at \in {"shown", "queued", "merging", "reading", "placing"} =>
       \A m \in DOMAIN b.rows : \E k \in DOMAIN b.sheet : b.rows[m] = b.sheet[k]
  /\ b.at \in {"shown", "queued", "merging", "reading"} =>
       \A k \in DOMAIN b.sheet : \E m \in DOMAIN b.rows : Did(b.rows[m]) = Did(b.sheet[k])

\* An entry of the map is of the rule with its id, while there is one.
MapFits(b) ==
  /\ b.at # "idle" => b.trunk \in Trunks
  /\ b.at \in {"idle", "shown", "queued", "merging", "reading"} =>
       b.map = [d \in Dids |-> NoRule] /\ b.routed = {}
  /\ b.at = "idle" => b.current = FALSE
  /\ \A d \in Dids : /\ b.map[d].id <= lastRule
                     /\ \A r \in rules : r.id = b.map[d].id => r.trunk = b.trunk /\ r.did = d

\* Nobody but the console gets between reading the array and writing it, nor
\* between reading the rules and making one; unless an answer was lost.
StillAsRead(b, i) ==
  /\ b.at = "merging" /\ i \notin disturbed => b.carried = carries[b.trunk]
  /\ b.at = "placing" /\ i \notin disturbed \cup lost =>
       \A d \in Dids : b.map[d] = NoRule => Numbered(b.trunk, d) = {}

\* What was done is so, until it is changed.
DoneIsSo(b) ==
  /\ b.at \in {"reading", "placing", "answered"} =>
       \A k \in DOMAIN b.sheet : Did(b.sheet[k]) \in carries[b.trunk]
  /\ b.at \in {"placing", "answered"} =>
       \A d \in b.routed : \E r \in Numbered(b.trunk, d), k \in DOMAIN b.sheet : b.sheet[k] = <<d, r.to>>

\* The screen named every row that is left and would move a number.
NamedAll(b) ==
  b.current /\ b.at \in {"shown", "queued", "merging", "reading", "placing"} =>
    /\ \A m, n \in DOMAIN b.rows : Did(b.rows[m]) = Did(b.rows[n]) => m = n
    /\ \A m \in DOMAIN b.rows :
         To(b.rows[m]) # "blank" /\ (\E r \in Numbered(b.trunk, Did(b.rows[m])) : r.to # To(b.rows[m])) =>
           \E k \in b.moving : Parsed(b.sheet)[k] = b.rows[m]

ImportFine(b, i) ==
  /\ RowsAreTheSheets(b) /\ MapFits(b) /\ StillAsRead(b, i)
  /\ i \notin changedUnder => DoneIsSo(b) /\ NamedAll(b)

TrunksInv ==
  /\ TrunksTyped /\ RulesKnown /\ OneAtWork /\ OneRule
  /\ \A i \in Importers : ImportFine(import[i], i)

(***************************************************************************)
(* What stays as it was.                                                   *)
(***************************************************************************)

LEMMA NewImportIs ==
  /\ NewImport \in ImportRecords /\ NewImport.at = "idle"
  /\ NewImport.map = [d \in Dids |-> NoRule] /\ NewImport.routed = {} /\ NewImport.current = FALSE
<1> DEFINE none == [d \in Dids |-> NoRule]
<1>1. NoRule \in Entries BY DEF NoRule, Entries, Targets
<1>2. none \in [Dids -> Entries] BY <1>1
<1>3. <<>> \in Seq(Rows) BY EmptySeq
<1> DEFINE first == CHOOSE t \in Trunks : TRUE
<1>4. NewImport = [at |-> "idle", trunk |-> first, mode |-> "append",
                   sheet |-> << >>, rows |-> << >>, current |-> FALSE, screen |-> FALSE,
                   carried |-> {}, moving |-> {}, map |-> none,
                   routed |-> {}, failed |-> {}, kept |-> {}]
  BY DEF NewImport
<1> HIDE DEF none, first
<1>5. NewImport.trunk = first BY <1>4
<1>6. NewImport \in ImportRecords BY <1>2, <1>3, <1>4, <1>5 DEF ImportRecords, ImportAts
<1> QED BY <1>4, <1>6 DEF none

\* Rules keep their ids, and new ones get new ids.
RulesFollow ==
  /\ lastRule' \in Nat /\ lastRule <= lastRule'
  /\ \A r \in rules' :
       \/ \E q \in rules : q.id = r.id /\ q.trunk = r.trunk /\ q.did = r.did
       \/ r.id > lastRule

LEMMA MapStillFits ==
  ASSUME TrunksTyped, RulesFollow, NEW b \in ImportRecords, MapFits(b)
  PROVE  MapFits(b)'
<1>1. lastRule \in Nat BY DEF TrunksTyped
<1>2. ASSUME NEW d \in Dids
      PROVE  /\ b.map[d].id <= lastRule'
             /\ \A r \in rules' : r.id = b.map[d].id => r.trunk = b.trunk /\ r.did = d
  <2>1. b.map[d].id \in Nat /\ b.map[d].id <= lastRule BY DEF MapFits, ImportRecords, Entries
  <2>2. b.map[d].id <= lastRule' BY <1>1, <2>1 DEF RulesFollow
  <2>3. ASSUME NEW r \in rules', r.id = b.map[d].id PROVE r.trunk = b.trunk /\ r.did = d
    <3>1. ~(r.id > lastRule) BY <1>1, <2>1, <2>3
    <3>2. PICK q \in rules : q.id = r.id /\ q.trunk = r.trunk /\ q.did = r.did BY <3>1 DEF RulesFollow
    <3> QED BY <2>3, <3>2 DEF MapFits
  <2> QED BY <2>2, <2>3
<1> QED BY <1>2 DEF MapFits

\* Nothing changed on the phone system.
LEMMA ImportUntouched ==
  ASSUME TrunksTyped, NEW i \in Importers, ImportFine(import[i], i), import'[i] = import[i],
         UNCHANGED <<carries, rules, lastRule>>, changedUnder \subseteq changedUnder',
         disturbed \subseteq disturbed', lost \subseteq lost'
  PROVE  ImportFine(import[i], i)'
<1>1. PICK b \in ImportRecords : b = import[i] BY DEF TrunksTyped
<1>2. RowsAreTheSheets(b)' <=> RowsAreTheSheets(b) BY DEF RowsAreTheSheets
<1>3. MapFits(b)' <=> MapFits(b) BY DEF MapFits
<1>4. StillAsRead(b, i) => StillAsRead(b, i)' BY DEF StillAsRead, Numbered
<1>5. DoneIsSo(b)' <=> DoneIsSo(b) BY DEF DoneIsSo, Numbered
<1>6. NamedAll(b)' <=> NamedAll(b) BY DEF NamedAll, Numbered
<1>7. import'[i] = b /\ ImportFine(b, i) BY <1>1
<1>8. ImportFine(b, i)' BY <1>2, <1>3, <1>4, <1>5, <1>6, <1>7 DEF ImportFine
<1> QED BY <1>7, <1>8

\* Something did, and the import is known to have been changed under.
LEMMA ImportChangedUnder ==
  ASSUME TrunksTyped, RulesFollow, NEW i \in Importers, ImportFine(import[i], i), import'[i] = import[i],
         import[i].at \in AtWork => i \in disturbed',
         import[i].at \notin {"idle", "failed"} => i \in changedUnder'
  PROVE  ImportFine(import[i], i)'
<1>1. PICK b \in ImportRecords : b = import[i] BY DEF TrunksTyped
<1>2. import'[i] = b /\ ImportFine(b, i) /\ b.at = import[i].at BY <1>1
<1>3. RowsAreTheSheets(b)' BY <1>2 DEF ImportFine, RowsAreTheSheets
<1>4. MapFits(b)' BY <1>1, <1>2, MapStillFits DEF ImportFine
<1>5. StillAsRead(b, i)' BY <1>2 DEF StillAsRead, AtWork
<1>6. i \notin changedUnder' => DoneIsSo(b)' /\ NamedAll(b)' BY <1>2 DEF DoneIsSo, NamedAll
<1> QED BY <1>2, <1>3, <1>4, <1>5, <1>6 DEF ImportFine

\* An import goes on, and the rules and numbers stay as they are.
LEMMA ImportGoesOn ==
  ASSUME TrunksInv, NEW i \in Importers, NEW c \in ImportRecords,
         import' = [import EXCEPT ![i] = c], UNCHANGED <<carries, rules, lastRule, changedUnder, disturbed>>,
         lost \subseteq lost', lost' \subseteq Importers, troubles' \in 0 .. MaxTroubles,
         c.at \in AtWork => \A j \in Importers : import[j].at \in AtWork => j = i,
         ImportFine(c, i)'
  PROVE  TrunksInv'
<1>1. import' \in [Importers -> ImportRecords] /\ import'[i] = c
      /\ \A j \in Importers : j # i => import'[j] = import[j]
  BY DEF TrunksInv, TrunksTyped
<1>2. TrunksTyped' BY <1>1 DEF TrunksInv, TrunksTyped
<1>3. RulesKnown' BY DEF TrunksInv, RulesKnown
<1>4. OneAtWork' BY <1>1 DEF TrunksInv, OneAtWork
<1>5. OneRule' BY DEF TrunksInv, OneRule, Numbered
<1>6. \A j \in Importers : j # i => ImportFine(import[j], j)' BY <1>1, ImportUntouched DEF TrunksInv
<1> QED BY <1>1, <1>2, <1>3, <1>4, <1>5, <1>6 DEF TrunksInv

\* An import at work changes the phone system: for the others it changed under them.
LEMMA ImportChanges ==
  ASSUME TrunksInv, NEW i \in Importers, NEW c \in ImportRecords, import[i].at \in AtWork,
         import' = [import EXCEPT ![i] = c], ChangeUnder(Importers \ {i}), UNCHANGED disturbed,
         lost \subseteq lost', lost' \subseteq Importers, troubles' \in 0 .. MaxTroubles,
         carries' \in [Trunks -> SUBSET Dids], rules' \subseteq RuleRecords, RulesFollow,
         RulesKnown', OneRule', ImportFine(c, i)'
  PROVE  TrunksInv'
<1>1. import' \in [Importers -> ImportRecords] /\ import'[i] = c
      /\ \A j \in Importers : j # i => import'[j] = import[j]
  BY DEF TrunksInv, TrunksTyped
<1>2. changedUnder' \subseteq Importers /\ disturbed' \subseteq changedUnder'
  BY DEF ChangeUnder, TrunksInv, TrunksTyped
<1>3. TrunksTyped' BY <1>1, <1>2 DEF TrunksInv, TrunksTyped, RulesFollow
<1>4. \A j \in Importers : j # i => import[j].at \notin AtWork BY DEF TrunksInv, OneAtWork
<1>5. OneAtWork' BY <1>1, <1>4 DEF OneAtWork
<1>6. ASSUME NEW j \in Importers, j # i PROVE ImportFine(import[j], j)'
  <2>1. import[j].at \notin {"idle", "failed"} => j \in changedUnder' BY <1>6 DEF ChangeUnder
  <2> QED BY <1>1, <1>4, <1>6, <2>1, ImportChangedUnder DEF TrunksInv
<1> QED BY <1>1, <1>3, <1>5, <1>6 DEF TrunksInv

(***************************************************************************)
(* The steps of an import.                                                 *)
(***************************************************************************)

LEMMA TroubleTyped == ASSUME TrunksTyped, Trouble \/ UNCHANGED troubles PROVE troubles' \in 0 .. MaxTroubles
BY TroublesAssumption DEF TrunksTyped, Trouble

LEMMA SheetsAreRows == \A sheet \in Files : sheet \in Seq(Rows)
BY FilesAssumption DEF Rows

LEMMA PreviewHolds ==
  ASSUME TrunksInv, NEW i \in Importers, NEW t \in Trunks, NEW sheet \in Files, PreviewDids(i, t, sheet)
  PROVE  TrunksInv'
<1>0. PICK list :
        /\ CurrentTrunks(list)
        /\ import' = [import EXCEPT
             ![i].at = "shown", ![i].trunk = t, ![i].sheet = sheet, ![i].rows = Parsed(sheet),
                       ![i].current = (list = Listed), ![i].screen = TRUE,
                       ![i].moving = Moving(Parsed(sheet), t, list.rings)]
  BY DEF PreviewDids
<1>r. PICK rings : rings = list.rings OBVIOUS
<1>1. PICK current \in BOOLEAN :
        /\ Trouble \/ UNCHANGED troubles
        /\ current => rings = Rings
        /\ import' = [import EXCEPT
             ![i].at = "shown", ![i].trunk = t, ![i].sheet = sheet, ![i].rows = Parsed(sheet),
                       ![i].current = current, ![i].screen = TRUE,
                       ![i].moving = Moving(Parsed(sheet), t, rings)]
  <2>1. PICK current : current = (list = Listed) OBVIOUS
  <2>2. current \in BOOLEAN BY <2>1
  <2>3. list = Listed => rings = Rings BY <1>r DEF Listed
  <2>4. Trouble \/ UNCHANGED troubles BY <1>0 DEF CurrentTrunks, ReadTrunks
  <2> QED BY <1>0, <1>r, <2>1, <2>2, <2>3, <2>4
<1>2. import[i].at = "idle" /\ UNCHANGED <<carries, rules, lastRule, changedUnder, disturbed, lost>>
  BY DEF PreviewDids
<1>3. PICK old \in ImportRecords : old = import[i] BY DEF TrunksInv, TrunksTyped
<1>4. PICK rows \in Seq(Rows) : rows = Parsed(sheet) BY SheetsAreRows, ParsedKeeps
<1>5. PICK moving \in SUBSET Nat : moving = Moving(rows, t, rings)
  <2>1. Moving(rows, t, rings) \subseteq DOMAIN rows /\ DOMAIN rows \subseteq Nat BY <1>4, LenProperties DEF Moving
  <2> QED BY <2>1
<1>6. PICK c : c = [old EXCEPT !.at = "shown", !.trunk = t, !.sheet = sheet, !.rows = rows,
                               !.current = current, !.screen = TRUE, !.moving = moving]
  OBVIOUS
<1>7. /\ c \in ImportRecords /\ c.at = "shown" /\ c.trunk = t /\ c.sheet = sheet /\ c.rows = rows
      /\ c.current = current /\ c.moving = moving /\ c.map = old.map /\ c.routed = old.routed
  BY <1>1, <1>6, SheetsAreRows DEF ImportRecords, ImportAts
<1>8. import' = [import EXCEPT ![i] = c] BY <1>1, <1>3, <1>4, <1>5, <1>6
<1>9. troubles' \in 0 .. MaxTroubles BY <1>1, TroubleTyped DEF TrunksInv
<1>10. ImportFine(c, i)'
  <2>1. MapFits(old) /\ old.at = "idle" BY <1>2, <1>3 DEF TrunksInv, ImportFine
  <2>2. RowsAreTheSheets(c)' BY <1>4, <1>7, SheetsAreRows, ParsedKeeps DEF RowsAreTheSheets
  <2>3. MapFits(c)'
    <3>1. old.map = [d \in Dids |-> NoRule] /\ old.routed = {} BY <2>1 DEF MapFits
    <3>2. \A d \in Dids : old.map[d].id = 0 BY <3>1 DEF NoRule
    <3>3. lastRule \in Nat /\ \A r \in rules : r.id # 0 BY DEF TrunksInv, TrunksTyped, RuleRecords
    <3> QED BY <1>2, <1>7, <3>1, <3>2, <3>3 DEF MapFits
  <2>4. StillAsRead(c, i)' BY <1>7 DEF StillAsRead
  <2>5. DoneIsSo(c)' BY <1>7 DEF DoneIsSo
  <2>6. NamedAll(c)'
    <3> SUFFICES ASSUME current
                 PROVE  /\ \A m, n \in DOMAIN rows : Did(rows[m]) = Did(rows[n]) => m = n
                        /\ \A m \in DOMAIN rows :
                             To(rows[m]) # "blank" /\ (\E r \in Numbered(t, Did(rows[m]))' : r.to # To(rows[m])) =>
                               \E k \in moving : Parsed(sheet)[k] = rows[m]
      BY <1>7 DEF NamedAll
    <3>1. \A m, n \in DOMAIN rows : Did(rows[m]) = Did(rows[n]) => m = n
      BY <1>4, SheetsAreRows, ParsedKeeps
    <3>2. ASSUME NEW m \in DOMAIN rows, To(rows[m]) # "blank",
                 \E r \in Numbered(t, Did(rows[m]))' : r.to # To(rows[m])
          PROVE  m \in moving
      <4>1. PICK r \in rules : r.trunk = t /\ r.did = Did(rows[m]) /\ r.to # To(rows[m])
        BY <1>2, <3>2 DEF Numbered
      <4>2. PICK q : q = <<r.trunk, r.did, r.to>> OBVIOUS
      <4>3. q \in rings /\ q[1] = t /\ q[2] = Did(rows[m]) /\ q[3] # To(rows[m])
        BY <1>1, <4>1, <4>2 DEF Rings
      <4> QED BY <1>5, <3>2, <4>3 DEF Moving
    <3> QED BY <1>4, <3>1, <3>2
  <2> QED BY <2>2, <2>3, <2>4, <2>5, <2>6 DEF ImportFine
<1> QED BY <1>2, <1>7, <1>8, <1>9, <1>10, ImportGoesOn DEF AtWork, TrunksInv, TrunksTyped

LEMMA ProposeHolds ==
  ASSUME TrunksInv, NEW i \in Importers, NEW t \in Trunks, NEW sheet \in Files,
         NEW mode \in {"append", "replace"}, ProposeDids(i, t, sheet, mode)
  PROVE  TrunksInv'
<1>1. /\ import[i].at = "idle"
      /\ import' = [import EXCEPT
           ![i].at = "queued", ![i].trunk = t, ![i].sheet = sheet, ![i].rows = sheet, ![i].mode = mode]
      /\ UNCHANGED <<carries, rules, lastRule, changedUnder, disturbed, lost, troubles>>
  BY DEF ProposeDids
<1>2. PICK old \in ImportRecords : old = import[i] BY DEF TrunksInv, TrunksTyped
<1>3. PICK c : c = [old EXCEPT !.at = "queued", !.trunk = t, !.sheet = sheet, !.rows = sheet, !.mode = mode]
  OBVIOUS
<1>4. /\ c \in ImportRecords /\ c.at = "queued" /\ c.trunk = t /\ c.sheet = sheet /\ c.rows = sheet
      /\ c.map = old.map /\ c.routed = old.routed /\ c.current = old.current
  BY <1>3, SheetsAreRows DEF ImportRecords, ImportAts
<1>5. import' = [import EXCEPT ![i] = c] BY <1>1, <1>2, <1>3
<1>6. troubles' \in 0 .. MaxTroubles BY <1>1, TroubleTyped DEF TrunksInv
<1>7. ImportFine(c, i)'
  <2>1. MapFits(old) /\ old.at = "idle" BY <1>1, <1>2 DEF TrunksInv, ImportFine
  <2>2. old.current = FALSE BY <2>1 DEF MapFits
  <2>3. RowsAreTheSheets(c)' BY <1>4 DEF RowsAreTheSheets
  <2>4. MapFits(c)'
    <3>1. old.map = [d \in Dids |-> NoRule] /\ old.routed = {} BY <2>1 DEF MapFits
    <3>2. \A d \in Dids : old.map[d].id = 0 BY <3>1 DEF NoRule
    <3>3. lastRule \in Nat /\ \A r \in rules : r.id # 0 BY DEF TrunksInv, TrunksTyped, RuleRecords
    <3> QED BY <1>1, <1>4, <3>1, <3>2, <3>3 DEF MapFits
  <2>5. StillAsRead(c, i)' /\ DoneIsSo(c)' BY <1>4 DEF StillAsRead, DoneIsSo
  <2>6. NamedAll(c)' BY <1>4, <2>2 DEF NamedAll
  <2> QED BY <2>3, <2>4, <2>5, <2>6 DEF ImportFine
<1> QED BY <1>1, <1>4, <1>5, <1>6, <1>7, ImportGoesOn DEF AtWork, TrunksInv, TrunksTyped

\* What a row becomes, and what else of the import stays.
RowBecomes(i, outcome, entry, c, d) ==
  /\ d = Did(Head(import[i].rows)) /\ import' = [import EXCEPT ![i] = c]
  /\ c.at = import[i].at /\ c.trunk = import[i].trunk /\ c.mode = import[i].mode
  /\ c.sheet = import[i].sheet /\ c.current = import[i].current /\ c.moving = import[i].moving
  /\ c.rows = Tail(import[i].rows) /\ c.map = [import[i].map EXCEPT ![d] = entry]
  /\ c.routed = IF outcome = "routed" THEN import[i].routed \cup {d} ELSE import[i].routed

LEMMA RowIs ==
  ASSUME TrunksTyped, NEW i \in Importers, NEW outcome \in {"routed", "failed", "kept"}, NEW entry \in Entries,
         import[i].rows # << >>, Row(i, outcome, entry)
  PROVE  \E c \in ImportRecords, d \in Dids : RowBecomes(i, outcome, entry, c, d)
<1>1. PICK old \in ImportRecords : old = import[i] BY DEF TrunksTyped
<1>2. old.rows \in Seq(Rows) BY DEF ImportRecords
<1>3. Head(old.rows) \in Rows /\ Tail(old.rows) \in Seq(Rows) BY <1>1, <1>2, HeadTailProperties
<1>4. PICK d \in Dids : d = Did(Head(old.rows)) BY <1>3 DEF Rows, Did
<1>5. PICK rest \in Seq(Rows) : rest = Tail(old.rows) BY <1>3
<1>6. PICK map \in [Dids -> Entries] : map = [old.map EXCEPT ![d] = entry] BY DEF ImportRecords
<1> DEFINE Adding(list, S) == IF outcome = list THEN S \cup {d} ELSE S
<1>7. PICK routed \in SUBSET Dids : routed = Adding("routed", old.routed) BY DEF ImportRecords
<1>8. PICK failed \in SUBSET Dids : failed = Adding("failed", old.failed) BY DEF ImportRecords
<1>9. PICK kept \in SUBSET Dids : kept = Adding("kept", old.kept) BY DEF ImportRecords
<1>10. PICK c : c = [old EXCEPT !.rows = rest, !.map = map, !.routed = routed, !.failed = failed, !.kept = kept]
  OBVIOUS
<1>11. import' = [import EXCEPT ![i] = c] BY <1>1, <1>4, <1>5, <1>6, <1>7, <1>8, <1>9, <1>10 DEF Row
<1>12. /\ c \in ImportRecords /\ c.at = old.at /\ c.trunk = old.trunk /\ c.mode = old.mode
       /\ c.sheet = old.sheet /\ c.current = old.current /\ c.moving = old.moving
       /\ c.rows = rest /\ c.map = map /\ c.routed = routed
  BY <1>10 DEF ImportRecords
<1>13. RowBecomes(i, outcome, entry, c, d)
  <2>1. c.routed = IF outcome = "routed" THEN import[i].routed \cup {d} ELSE import[i].routed
    BY <1>1, <1>7, <1>12
  <2> QED BY <1>1, <1>4, <1>5, <1>6, <1>11, <1>12, <2>1 DEF RowBecomes
<1> QED BY <1>12, <1>13

\* The rows an import has left are rows it had.
LEMMA RowsLeft ==
  ASSUME NEW rows \in Seq(Rows), rows # << >>
  PROVE  /\ 1 \in DOMAIN rows /\ Head(rows) = rows[1] /\ Head(rows) \in Rows /\ Tail(rows) \in Seq(Rows)
         /\ \A m \in DOMAIN Tail(rows) : m + 1 \in DOMAIN rows /\ m + 1 # 1 /\ m \in Nat /\ Tail(rows)[m] = rows[m + 1]
<1>1. Len(rows) \in Nat /\ DOMAIN rows = 1 .. Len(rows) BY LenProperties
<1>2. Len(rows) # 0 BY EmptySeq
<1>3. Head(rows) = rows[1] /\ Head(rows) \in Rows BY HeadTailProperties
<1>4. /\ Tail(rows) \in Seq(Rows) /\ Len(Tail(rows)) = Len(rows) - 1
      /\ \A m \in 1 .. Len(Tail(rows)) : Tail(rows)[m] = rows[m + 1]
  BY HeadTailProperties
<1>5. DOMAIN Tail(rows) = 1 .. Len(rows) - 1 BY <1>4, LenProperties
<1>6. 1 \in DOMAIN rows BY <1>1, <1>2
<1>7. ASSUME NEW m \in DOMAIN Tail(rows) PROVE m + 1 \in DOMAIN rows /\ m + 1 # 1 /\ m \in Nat BY <1>1, <1>5
<1> QED BY <1>3, <1>4, <1>5, <1>6, <1>7

\* An import that has not come to its answer goes on with the rows it has.
LEMMA StepsOn ==
  ASSUME TrunksInv, NEW i \in Importers, NEW c \in ImportRecords,
         import[i].at \in {"shown", "queued", "merging"}, c.at \in {"queued", "merging", "reading"},
         c.trunk = import[i].trunk, c.sheet = import[i].sheet, c.rows = import[i].rows, c.map = import[i].map,
         c.current = import[i].current, c.moving = import[i].moving, c.routed = import[i].routed,
         UNCHANGED <<rules, lastRule>>, i \notin changedUnder' => i \notin changedUnder
  PROVE  RowsAreTheSheets(c)' /\ MapFits(c)' /\ (i \notin changedUnder' => NamedAll(c)')
<1>1. PICK old \in ImportRecords : old = import[i] BY DEF TrunksInv, TrunksTyped
<1>2. ImportFine(old, i) BY <1>1 DEF TrunksInv
<1>3. /\ old.at \in {"shown", "queued", "merging"} /\ c.trunk = old.trunk /\ c.sheet = old.sheet /\ c.rows = old.rows
      /\ c.map = old.map /\ c.current = old.current /\ c.moving = old.moving /\ c.routed = old.routed
  BY <1>1
<1>4. RowsAreTheSheets(c)' BY <1>2, <1>3 DEF ImportFine, RowsAreTheSheets
<1>5. MapFits(c)' BY <1>2, <1>3 DEF ImportFine, MapFits
<1>6. NamedAll(old) => NamedAll(c)' BY <1>3 DEF NamedAll, Numbered
<1> QED BY <1>2, <1>4, <1>5, <1>6 DEF ImportFine

LEMMA FailedIsFine ==
  ASSUME TrunksInv, NEW i \in Importers, NEW c \in ImportRecords, import[i].at # "idle", c.at = "failed",
         c.trunk = import[i].trunk, c.map = import[i].map, UNCHANGED <<rules, lastRule>>
  PROVE  ImportFine(c, i)'
<1>1. PICK old \in ImportRecords : old = import[i] BY DEF TrunksInv, TrunksTyped
<1>2. MapFits(old) /\ old.at # "idle" /\ c.trunk = old.trunk /\ c.map = old.map
  BY <1>1 DEF TrunksInv, ImportFine
<1>3. MapFits(c)' BY <1>2 DEF MapFits
<1> QED BY <1>3 DEF ImportFine, RowsAreTheSheets, StillAsRead, DoneIsSo, NamedAll

LEMMA ImportHolds ==
  ASSUME TrunksInv, NEW i \in Importers, NEW mode \in {"append", "replace"}, ImportDids(i, mode)
  PROVE  TrunksInv'
<1>1. /\ import[i].at = "shown" /\ import' = [import EXCEPT ![i].at = "queued", ![i].mode = mode]
      /\ UNCHANGED <<carries, rules, lastRule, changedUnder, disturbed, lost, troubles>>
  BY DEF ImportDids
<1>2. PICK old \in ImportRecords : old = import[i] BY DEF TrunksInv, TrunksTyped
<1>3. PICK c : c = [old EXCEPT !.at = "queued", !.mode = mode] OBVIOUS
<1>4. /\ c \in ImportRecords /\ c.at = "queued" /\ c.trunk = old.trunk /\ c.sheet = old.sheet /\ c.rows = old.rows
      /\ c.map = old.map /\ c.routed = old.routed /\ c.current = old.current /\ c.moving = old.moving
  BY <1>3 DEF ImportRecords, ImportAts
<1>5. import' = [import EXCEPT ![i] = c] BY <1>1, <1>2, <1>3
<1>6. RowsAreTheSheets(c)' /\ MapFits(c)' /\ (i \notin changedUnder' => NamedAll(c)')
  BY <1>1, <1>2, <1>4, StepsOn
<1>7. StillAsRead(c, i)' /\ DoneIsSo(c)' BY <1>4 DEF StillAsRead, DoneIsSo
<1>8. ImportFine(c, i)' BY <1>6, <1>7 DEF ImportFine
<1> QED BY <1>1, <1>4, <1>5, <1>8, ImportGoesOn DEF AtWork, TrunksInv, TrunksTyped

LEMMA FindHolds ==
  ASSUME TrunksInv, NEW i \in Importers, FindTrunk(i)
  PROVE  TrunksInv'
<1>1. /\ import[i].at = "queued" /\ \A j \in Importers : import[j].at \notin AtWork
      /\ UNCHANGED <<carries, rules, lastRule, changedUnder, disturbed, lost>>
  BY DEF FindTrunk
<1>2. PICK old \in ImportRecords : old = import[i] BY DEF TrunksInv, TrunksTyped
<1>3. old.trunk \in Trunks BY <1>1, <1>2 DEF TrunksInv, ImportFine, MapFits
<1>4. troubles' \in 0 .. MaxTroubles BY TroubleTyped DEF FindTrunk, TrunksInv
<1>5. CASE import' = [import EXCEPT ![i].at = "merging", ![i].carried = carries[import[i].trunk]]
  <2>1. PICK there \in SUBSET Dids : there = carries[old.trunk] BY <1>3 DEF TrunksInv, TrunksTyped
  <2>2. PICK c : c = [old EXCEPT !.at = "merging", !.carried = there] OBVIOUS
  <2>3. /\ c \in ImportRecords /\ c.at = "merging" /\ c.trunk = old.trunk /\ c.sheet = old.sheet /\ c.rows = old.rows
        /\ c.map = old.map /\ c.routed = old.routed /\ c.current = old.current /\ c.moving = old.moving
        /\ c.carried = there
    BY <2>2 DEF ImportRecords, ImportAts
  <2>4. import' = [import EXCEPT ![i] = c] BY <1>2, <1>5, <2>1, <2>2
  <2>5. RowsAreTheSheets(c)' /\ MapFits(c)' /\ (i \notin changedUnder' => NamedAll(c)')
    BY <1>1, <1>2, <2>3, StepsOn
  <2>6. StillAsRead(c, i)' BY <1>1, <2>1, <2>3 DEF StillAsRead
  <2>7. DoneIsSo(c)' BY <2>3 DEF DoneIsSo
  <2>8. ImportFine(c, i)' BY <2>5, <2>6, <2>7 DEF ImportFine
  <2> QED BY <1>1, <1>4, <2>3, <2>4, <2>8, ImportGoesOn DEF TrunksInv, TrunksTyped
<1>6. CASE GiveUp(i)
  <2>1. PICK c : c = [old EXCEPT !.at = "failed"] OBVIOUS
  <2>2. c \in ImportRecords /\ c.at = "failed" /\ c.trunk = old.trunk /\ c.map = old.map
    BY <2>1 DEF ImportRecords, ImportAts
  <2>3. import' = [import EXCEPT ![i] = c] BY <1>2, <1>6, <2>1 DEF GiveUp
  <2>4. ImportFine(c, i)' BY <1>1, <1>2, <2>2, FailedIsFine
  <2> QED BY <1>1, <1>4, <2>2, <2>3, <2>4, ImportGoesOn DEF AtWork, TrunksInv, TrunksTyped
<1> QED BY <1>5, <1>6 DEF FindTrunk

\* The numbers of a sheet are those its rows name.
LEMMA NamesAreAll ==
  ASSUME TrunksInv, NEW i \in Importers, import[i].at \in {"queued", "merging", "reading"}
  PROVE  Named(i) \subseteq Dids /\ \A k \in DOMAIN import[i].sheet : Did(import[i].sheet[k]) \in Named(i)
<1>1. PICK old \in ImportRecords : old = import[i] BY DEF TrunksInv, TrunksTyped
<1>2. RowsAreTheSheets(old) /\ old.at \in {"queued", "merging", "reading"}
  BY <1>1 DEF TrunksInv, ImportFine
<1>3. Named(i) = {Did(old.rows[m]) : m \in DOMAIN old.rows} BY <1>1 DEF Named
<1>4. old.rows \in Seq(Rows) BY DEF ImportRecords
<1>5. \A m \in DOMAIN old.rows : old.rows[m] \in Rows BY <1>4, LenProperties, ElementOfSeq
<1>6. \A m \in DOMAIN old.rows : Did(old.rows[m]) \in Dids BY <1>5 DEF Rows, Did
<1>7. \A k \in DOMAIN old.sheet : \E m \in DOMAIN old.rows : Did(old.rows[m]) = Did(old.sheet[k])
  BY <1>2 DEF RowsAreTheSheets
<1> QED BY <1>1, <1>3, <1>6, <1>7

LEMMA MergeHolds ==
  ASSUME TrunksInv, NEW i \in Importers, MergeDids(i)
  PROVE  TrunksInv'
<1>1. import[i].at = "merging" /\ UNCHANGED <<rules, lastRule, disturbed>> BY DEF MergeDids
<1>2. PICK old \in ImportRecords : old = import[i] BY DEF TrunksInv, TrunksTyped
<1>3. ImportFine(old, i) /\ old.at = "merging" BY <1>1, <1>2 DEF TrunksInv
<1>4. old.trunk \in Trunks BY <1>3 DEF ImportFine, MapFits
<1>5. troubles' \in 0 .. MaxTroubles BY TroubleTyped DEF MergeDids, TrunksInv
<1>6. Named(i) \subseteq Dids /\ \A k \in DOMAIN old.sheet : Did(old.sheet[k]) \in Named(i)
  BY <1>1, <1>2, NamesAreAll
<1>7. \A j \in Importers : import[j].at \in AtWork => j = i BY <1>1 DEF TrunksInv, OneAtWork, AtWork
<1>8. ASSUME PutNumbers(i)
      PROVE  /\ carries' \in [Trunks -> SUBSET Dids] /\ Named(i) \subseteq carries'[old.trunk]
             /\ ChangeUnder(Importers \ {i}) /\ (i \notin changedUnder' => i \notin changedUnder)
  <2>1. old.carried \subseteq Dids BY DEF ImportRecords
  <2>2. carries' = [carries EXCEPT ![old.trunk] = old.carried \cup Named(i)]
    BY <1>2, <1>8 DEF PutNumbers, Merged
  <2> QED BY <1>4, <1>6, <1>8, <2>1, <2>2 DEF PutNumbers, ChangeUnder, TrunksInv, TrunksTyped
<1>9. RulesFollow /\ rules' \subseteq RuleRecords /\ RulesKnown' /\ (lost \subseteq lost' => OneRule')
  <2>1. RulesFollow BY <1>1 DEF RulesFollow, TrunksInv, TrunksTyped
  <2>2. RulesKnown' /\ rules' \subseteq RuleRecords BY <1>1 DEF TrunksInv, TrunksTyped, RulesKnown
  <2>3. lost \subseteq lost' => OneRule' BY <1>1 DEF TrunksInv, OneRule, Numbered
  <2> QED BY <2>1, <2>2, <2>3
<1>10. CASE /\ IF Named(i) \subseteq import[i].carried THEN UNCHANGED <<carries, changedUnder>> ELSE PutNumbers(i)
            /\ import' = [import EXCEPT ![i].at = "reading"]
            /\ UNCHANGED <<troubles, lost>>
  <2>1. PICK c : c = [old EXCEPT !.at = "reading"] OBVIOUS
  <2>2. /\ c \in ImportRecords /\ c.at = "reading" /\ c.trunk = old.trunk /\ c.sheet = old.sheet /\ c.rows = old.rows
        /\ c.map = old.map /\ c.routed = old.routed /\ c.current = old.current /\ c.moving = old.moving
    BY <2>1 DEF ImportRecords, ImportAts
  <2>3. import' = [import EXCEPT ![i] = c] BY <1>2, <1>10, <2>1
  <2>4. i \notin changedUnder' => i \notin changedUnder BY <1>8, <1>10
  <2>5. RowsAreTheSheets(c)' /\ MapFits(c)' /\ (i \notin changedUnder' => NamedAll(c)')
    BY <1>1, <1>2, <2>2, <2>4, StepsOn
  <2>6. StillAsRead(c, i)' BY <2>2 DEF StillAsRead
  <2>7. i \notin changedUnder' => Named(i) \subseteq carries'[old.trunk]
    <3> SUFFICES ASSUME i \notin changedUnder', Named(i) \subseteq old.carried, UNCHANGED <<carries, changedUnder>>
                 PROVE  Named(i) \subseteq carries'[old.trunk]
      BY <1>2, <1>8, <1>10
    <3>1. i \notin disturbed BY DEF TrunksInv, TrunksTyped
    <3> QED BY <1>3, <3>1 DEF ImportFine, StillAsRead
  <2>8. i \notin changedUnder' => DoneIsSo(c)' BY <1>6, <2>2, <2>7 DEF DoneIsSo
  <2>9. ImportFine(c, i)' BY <2>5, <2>6, <2>8 DEF ImportFine
  <2>10. CASE UNCHANGED <<carries, changedUnder>>
    BY <1>1, <1>5, <1>7, <1>10, <2>2, <2>3, <2>9, <2>10, ImportGoesOn DEF TrunksInv, TrunksTyped
  <2>11. CASE PutNumbers(i)
    BY <1>1, <1>5, <1>8, <1>9, <1>10, <2>2, <2>3, <2>9, <2>11, ImportChanges DEF AtWork, TrunksInv, TrunksTyped
  <2> QED BY <1>10, <2>10, <2>11
<1>11. CASE /\ GiveUp(i)
            /\ \/ UNCHANGED <<carries, changedUnder, lost>>
               \/ PutNumbers(i) /\ lost' = lost \cup {i}
  <2>1. PICK c : c = [old EXCEPT !.at = "failed"] OBVIOUS
  <2>2. c \in ImportRecords /\ c.at = "failed" /\ c.trunk = old.trunk /\ c.map = old.map
    BY <2>1 DEF ImportRecords, ImportAts
  <2>3. import' = [import EXCEPT ![i] = c] BY <1>2, <1>11, <2>1 DEF GiveUp
  <2>4. ImportFine(c, i)' BY <1>1, <1>2, <2>2, FailedIsFine
  <2>5. CASE UNCHANGED <<carries, changedUnder, lost>>
    BY <1>1, <1>5, <2>2, <2>3, <2>4, <2>5, ImportGoesOn DEF AtWork, TrunksInv, TrunksTyped
  <2>6. CASE PutNumbers(i) /\ lost' = lost \cup {i}
    <3>1. lost \subseteq lost' /\ lost' \subseteq Importers BY <2>6 DEF TrunksInv, TrunksTyped
    <3> QED BY <1>1, <1>5, <1>8, <1>9, <2>2, <2>3, <2>4, <2>6, <3>1, ImportChanges DEF AtWork
  <2> QED BY <1>11, <2>5, <2>6
<1> QED BY <1>10, <1>11 DEF MergeDids

LEMMA ReadRulesHolds ==
  ASSUME TrunksInv, NEW i \in Importers, ReadRules(i)
  PROVE  TrunksInv'
<1>1. import[i].at = "reading" /\ UNCHANGED <<carries, rules, lastRule, changedUnder, disturbed, lost>>
  BY DEF ReadRules
<1>2. PICK old \in ImportRecords : old = import[i] BY DEF TrunksInv, TrunksTyped
<1>3. ImportFine(old, i) /\ old.at = "reading" BY <1>1, <1>2 DEF TrunksInv
<1>4. old.trunk \in Trunks /\ old.map = [d \in Dids |-> NoRule] /\ old.routed = {}
  BY <1>3 DEF ImportFine, MapFits
<1>5. troubles' \in 0 .. MaxTroubles BY TroubleTyped DEF ReadRules, TrunksInv
<1>6. \A j \in Importers : import[j].at \in AtWork => j = i BY <1>1 DEF TrunksInv, OneAtWork, AtWork
<1>7. ASSUME NEW c \in ImportRecords, c.at = "answered", c.trunk = old.trunk, c.sheet = old.sheet,
             c.map = old.map, c.routed = old.routed
      PROVE  ImportFine(c, i)'
  <2>1. MapFits(c)' BY <1>1, <1>3, <1>7 DEF ImportFine, MapFits
  <2>2. DoneIsSo(old) => DoneIsSo(c)' BY <1>1, <1>3, <1>4, <1>7 DEF DoneIsSo
  <2>3. RowsAreTheSheets(c)' /\ StillAsRead(c, i)' /\ NamedAll(c)'
    BY <1>7 DEF RowsAreTheSheets, StillAsRead, NamedAll
  <2> QED BY <1>1, <1>3, <2>1, <2>2, <2>3 DEF ImportFine
<1>8. CASE import' = [import EXCEPT ![i].at = "answered"]
  <2>1. PICK c : c = [old EXCEPT !.at = "answered"] OBVIOUS
  <2>2. /\ c \in ImportRecords /\ c.at = "answered" /\ c.trunk = old.trunk /\ c.sheet = old.sheet
        /\ c.map = old.map /\ c.routed = old.routed
    BY <2>1 DEF ImportRecords, ImportAts
  <2>3. import' = [import EXCEPT ![i] = c] BY <1>2, <1>8, <2>1
  <2>4. ImportFine(c, i)' BY <1>7, <2>2
  <2> QED BY <1>1, <1>5, <2>2, <2>3, <2>4, ImportGoesOn DEF AtWork, TrunksInv, TrunksTyped
<1>9. CASE import' = [import EXCEPT ![i].at = "answered",
                        ![i].failed = {Did(import[i].rows[k]) : k \in Placing(i)}]
  <2>1. PICK failed \in SUBSET Dids : failed = {Did(old.rows[k]) : k \in Placing(i)}
    <3>1. {Did(old.rows[k]) : k \in Placing(i)} \subseteq Named(i) BY <1>2 DEF Named, Placing
    <3>2. Named(i) \subseteq Dids BY <1>1, NamesAreAll
    <3> QED BY <3>1, <3>2
  <2>2. PICK c : c = [old EXCEPT !.at = "answered", !.failed = failed] OBVIOUS
  <2>3. /\ c \in ImportRecords /\ c.at = "answered" /\ c.trunk = old.trunk /\ c.sheet = old.sheet
        /\ c.map = old.map /\ c.routed = old.routed
    BY <2>2 DEF ImportRecords, ImportAts
  <2>4. import' = [import EXCEPT ![i] = c] BY <1>2, <1>9, <2>1, <2>2
  <2>5. ImportFine(c, i)' BY <1>7, <2>3
  <2> QED BY <1>1, <1>5, <2>3, <2>4, <2>5, ImportGoesOn DEF AtWork, TrunksInv, TrunksTyped
<1>10. ASSUME NEW read \in [Dids -> {[id |-> r.id, to |-> r.to] : r \in rules} \cup {NoRule}],
              \A d \in Dids :
                IF Numbered(import[i].trunk, d) = {} THEN read[d] = NoRule
                ELSE \E r \in Numbered(import[i].trunk, d) : read[d] = [id |-> r.id, to |-> r.to],
              import' = [import EXCEPT ![i].at = "placing", ![i].map = read]
       PROVE  TrunksInv'
  <2>1. \A d \in Dids :
          IF Numbered(old.trunk, d) = {} THEN read[d] = NoRule
          ELSE \E r \in Numbered(old.trunk, d) : read[d] = [id |-> r.id, to |-> r.to]
    BY <1>2, <1>10
  <2>2. rules \subseteq RuleRecords /\ lastRule \in Nat /\ (\A r \in rules : r.id <= lastRule)
        /\ \A r, q \in rules : r.id = q.id => r = q
    BY DEF TrunksInv, TrunksTyped, RulesKnown
  <2>3. ASSUME NEW d \in Dids
        PROVE  /\ read[d] \in Entries /\ read[d].id <= lastRule
               /\ \A r \in rules : r.id = read[d].id => r.trunk = old.trunk /\ r.did = d
               /\ read[d] = NoRule => Numbered(old.trunk, d) = {}
    <3>1. CASE Numbered(old.trunk, d) = {}
      <4>1. read[d] = NoRule BY <2>1, <3>1
      <4>2. read[d].id = 0 /\ read[d] \in Entries BY <4>1 DEF NoRule, Entries, Targets
      <4>3. \A r \in rules : r.id # 0 BY <2>2 DEF RuleRecords
      <4> QED BY <2>2, <3>1, <4>2, <4>3
    <3>2. CASE Numbered(old.trunk, d) # {}
      <4>1. PICK r \in Numbered(old.trunk, d) : read[d] = [id |-> r.id, to |-> r.to] BY <2>1, <3>2
      <4>2. r \in rules /\ r.trunk = old.trunk /\ r.did = d BY <4>1 DEF Numbered
      <4>3. r.id \in Nat /\ r.id # 0 /\ r.to \in Desks BY <2>2, <4>2 DEF RuleRecords
      <4>4. read[d] \in Entries /\ read[d].id = r.id BY <4>1, <4>3 DEF Entries, Targets
      <4>5. read[d] # NoRule BY <4>3, <4>4 DEF NoRule
      <4> QED BY <2>2, <4>2, <4>4, <4>5
    <3> QED BY <3>1, <3>2
  <2>4. PICK map \in [Dids -> Entries] : map = read BY <2>3
  <2>5. PICK c : c = [old EXCEPT !.at = "placing", !.map = map] OBVIOUS
  <2>6. /\ c \in ImportRecords /\ c.at = "placing" /\ c.trunk = old.trunk /\ c.sheet = old.sheet /\ c.rows = old.rows
        /\ c.map = map /\ c.routed = old.routed /\ c.current = old.current /\ c.moving = old.moving
    BY <2>5 DEF ImportRecords, ImportAts
  <2>7. import' = [import EXCEPT ![i] = c] BY <1>2, <1>10, <2>4, <2>5
  <2>8. RowsAreTheSheets(c)' BY <1>3, <2>6 DEF ImportFine, RowsAreTheSheets
  <2>9. MapFits(c)' BY <1>1, <1>4, <2>3, <2>4, <2>6 DEF MapFits
  <2>10. StillAsRead(c, i)' BY <1>1, <2>3, <2>4, <2>6 DEF StillAsRead, Numbered
  <2>11. DoneIsSo(old) => DoneIsSo(c)' BY <1>1, <1>3, <1>4, <2>6 DEF DoneIsSo
  <2>12. NamedAll(old) => NamedAll(c)' BY <1>1, <1>3, <2>6 DEF NamedAll, Numbered
  <2>13. ImportFine(c, i)' BY <1>1, <1>3, <2>8, <2>9, <2>10, <2>11, <2>12 DEF ImportFine
  <2> QED BY <1>1, <1>5, <1>6, <2>6, <2>7, <2>13, ImportGoesOn DEF TrunksInv, TrunksTyped
<1> QED BY <1>8, <1>9, <1>10 DEF ReadRules

\* A row has been dealt with: the rules of the numbers of the others are as they
\* were, and its own rings as the sheet says if the import says so.
LEMMA RowDone ==
  ASSUME TrunksInv, NEW i \in Importers, import[i].at = "placing", import[i].rows # << >>,
         NEW c \in ImportRecords, NEW d \in Dids, d = Did(Head(import[i].rows)),
         c.at = "placing", c.trunk = import[i].trunk, c.sheet = import[i].sheet, c.current = import[i].current,
         c.moving = import[i].moving, c.rows = Tail(import[i].rows), c.routed \subseteq import[i].routed \cup {d},
         UNCHANGED carries, i \notin changedUnder' => i \notin changedUnder,
         \A e \in Dids : e # d => Numbered(c.trunk, e)' = Numbered(c.trunk, e),
         d \in c.routed /\ i \notin changedUnder =>
           \E r \in Numbered(c.trunk, d)', k \in DOMAIN c.sheet : c.sheet[k] = <<d, r.to>>,
         MapFits(c)', StillAsRead(c, i)'
  PROVE  ImportFine(c, i)'
<1>1. PICK old \in ImportRecords : old = import[i] BY DEF TrunksInv, TrunksTyped
<1>2. ImportFine(old, i) /\ old.at = "placing" BY <1>1 DEF TrunksInv
<1>3. /\ c.trunk = old.trunk /\ c.sheet = old.sheet /\ c.current = old.current /\ c.moving = old.moving
      /\ c.rows = Tail(old.rows) /\ c.routed \subseteq old.routed \cup {d} /\ d = Did(Head(old.rows))
      /\ old.rows # << >>
  BY <1>1
<1>4. old.rows \in Seq(Rows) BY DEF ImportRecords
<1>5. /\ 1 \in DOMAIN old.rows /\ Head(old.rows) = old.rows[1]
      /\ \A m \in DOMAIN c.rows :
           m + 1 \in DOMAIN old.rows /\ m + 1 # 1 /\ m \in Nat /\ c.rows[m] = old.rows[m + 1]
  BY <1>3, <1>4, RowsLeft
<1>6. RowsAreTheSheets(c)' BY <1>2, <1>3, <1>5 DEF ImportFine, RowsAreTheSheets
<1>7. DoneIsSo(old) /\ i \notin changedUnder => DoneIsSo(c)'
  <2> SUFFICES ASSUME DoneIsSo(old), i \notin changedUnder PROVE DoneIsSo(c)' OBVIOUS
  <2>1. \A k \in DOMAIN c.sheet : Did(c.sheet[k]) \in carries'[c.trunk] BY <1>2, <1>3 DEF DoneIsSo
  <2>2. ASSUME NEW e \in c.routed
        PROVE  \E r \in Numbered(c.trunk, e)', k \in DOMAIN c.sheet : c.sheet[k] = <<e, r.to>>
    <3>1. CASE e = d BY <2>2, <3>1
    <3>2. CASE e # d
      <4>1. e \in old.routed /\ e \in Dids BY <1>3, <2>2, <3>2 DEF ImportRecords
      <4>2. \E r \in Numbered(old.trunk, e), k \in DOMAIN old.sheet : old.sheet[k] = <<e, r.to>>
        BY <1>2, <4>1 DEF DoneIsSo
      <4>3. Numbered(c.trunk, e)' = Numbered(old.trunk, e) BY <1>3, <3>2, <4>1
      <4> QED BY <1>3, <4>2, <4>3
    <3> QED BY <3>1, <3>2
  <2> QED BY <2>1, <2>2 DEF DoneIsSo
<1>8. NamedAll(old) => NamedAll(c)'
  <2> SUFFICES ASSUME NamedAll(old), old.current = TRUE
               PROVE  /\ \A m, n \in DOMAIN c.rows : Did(c.rows[m]) = Did(c.rows[n]) => m = n
                      /\ \A m \in DOMAIN c.rows :
                           (/\ To(c.rows[m]) # "blank"
                            /\ \E r \in Numbered(c.trunk, Did(c.rows[m]))' : r.to # To(c.rows[m])) =>
                             \E k \in c.moving : Parsed(c.sheet)[k] = c.rows[m]
    BY <1>3 DEF NamedAll
  <2>1. \A m, n \in DOMAIN old.rows : Did(old.rows[m]) = Did(old.rows[n]) => m = n
    BY <1>2 DEF NamedAll
  <2>2. \A m \in DOMAIN old.rows :
          (/\ To(old.rows[m]) # "blank"
           /\ \E r \in Numbered(old.trunk, Did(old.rows[m])) : r.to # To(old.rows[m])) =>
            \E k \in old.moving : Parsed(old.sheet)[k] = old.rows[m]
    BY <1>2 DEF NamedAll
  <2>3. \A m, n \in DOMAIN c.rows : Did(c.rows[m]) = Did(c.rows[n]) => m = n
    <3> SUFFICES ASSUME NEW m \in DOMAIN c.rows, NEW n \in DOMAIN c.rows, Did(c.rows[m]) = Did(c.rows[n])
                 PROVE  m = n
      OBVIOUS
    <3>1. m + 1 = n + 1 /\ m \in Nat /\ n \in Nat BY <1>5, <2>1
    <3> QED BY ONLY <3>1
  <2>4. ASSUME NEW m \in DOMAIN c.rows, To(c.rows[m]) # "blank",
               \E r \in Numbered(c.trunk, Did(c.rows[m]))' : r.to # To(c.rows[m])
        PROVE  \E k \in c.moving : Parsed(c.sheet)[k] = c.rows[m]
    <3>1. PICK n \in DOMAIN old.rows : n = m + 1 BY <1>5
    <3>2. c.rows[m] = old.rows[n] /\ n # 1 BY <1>5, <3>1
    <3>3. Did(old.rows[n]) # d BY <1>3, <1>5, <2>1, <3>2
    <3>4. Did(old.rows[n]) \in Dids BY <1>4, LenProperties, ElementOfSeq DEF Rows, Did
    <3>5. Numbered(c.trunk, Did(old.rows[n]))' = Numbered(old.trunk, Did(old.rows[n])) BY <1>3, <3>3, <3>4
    <3> QED BY <1>3, <2>2, <2>4, <3>2, <3>5
  <2> QED BY <2>3, <2>4
<1> QED BY <1>2, <1>6, <1>7, <1>8 DEF ImportFine

\* Nothing was done for the row.
LEMMA RowLeft ==
  ASSUME TrunksInv, NEW i \in Importers, import[i].at = "placing", import[i].rows # << >>,
         NEW outcome \in {"failed", "kept"}, Row(i, outcome, import[i].map[Did(Head(import[i].rows))]),
         RulesUntouched, UNCHANGED <<carries, disturbed, lost>>, Trouble \/ UNCHANGED troubles
  PROVE  TrunksInv'
<1>1. PICK old \in ImportRecords : old = import[i] BY DEF TrunksInv, TrunksTyped
<1>2. ImportFine(old, i) /\ old.at = "placing" /\ old.rows # << >> BY <1>1 DEF TrunksInv
<1>3. old.rows \in Seq(Rows) BY DEF ImportRecords
<1>4. Head(old.rows) \in Rows BY <1>2, <1>3, RowsLeft
<1>5. Did(Head(old.rows)) \in Dids BY <1>4 DEF Rows, Did
<1>6. PICK entry \in Entries : entry = old.map[Did(Head(old.rows))] BY <1>5 DEF ImportRecords
<1>7. PICK c \in ImportRecords, d \in Dids : RowBecomes(i, outcome, entry, c, d)
  <2>1. outcome \in {"routed", "failed", "kept"} /\ TrunksTyped BY DEF TrunksInv
  <2>2. Row(i, outcome, entry) BY <1>1, <1>6
  <2> QED BY <2>1, <2>2, RowIs
<1>8. c.map = old.map /\ c.routed = old.routed /\ c.at = "placing" /\ c.trunk = old.trunk /\ c.sheet = old.sheet
  <2>1. c.routed = old.routed /\ c.at = "placing" /\ c.trunk = old.trunk /\ c.sheet = old.sheet
    BY <1>1, <1>2, <1>7 DEF RowBecomes
  <2>2. c.map = [old.map EXCEPT ![d] = entry] /\ entry = old.map[d] BY <1>1, <1>6, <1>7 DEF RowBecomes
  <2>3. old.map \in [Dids -> Entries] BY DEF ImportRecords
  <2>4. c.map = old.map BY <2>2, <2>3
  <2> QED BY <2>1, <2>4
<1>9. UNCHANGED <<rules, lastRule, changedUnder>> BY DEF RulesUntouched
<1>10. \A e \in Dids : Numbered(c.trunk, e)' = Numbered(c.trunk, e) BY <1>9 DEF Numbered
<1>11. MapFits(c)' BY <1>2, <1>8, <1>9 DEF ImportFine, MapFits
<1>12. StillAsRead(c, i)' BY <1>2, <1>8, <1>9 DEF ImportFine, StillAsRead, Numbered
<1>13. d \in c.routed /\ i \notin changedUnder =>
         \E r \in Numbered(c.trunk, d)', k \in DOMAIN c.sheet : c.sheet[k] = <<d, r.to>>
  <2> SUFFICES ASSUME d \in old.routed, i \notin changedUnder
               PROVE  \E r \in Numbered(c.trunk, d)', k \in DOMAIN c.sheet : c.sheet[k] = <<d, r.to>>
    BY <1>8
  <2>1. \E r \in Numbered(old.trunk, d), k \in DOMAIN old.sheet : old.sheet[k] = <<d, r.to>>
    BY <1>2 DEF ImportFine, DoneIsSo
  <2>2. Numbered(c.trunk, d)' = Numbered(old.trunk, d) BY <1>8, <1>10
  <2> QED BY <1>8, <2>1, <2>2
<1>14. c.routed \subseteq import[i].routed \cup {d} BY <1>1, <1>8
<1>15. ImportFine(c, i)' BY <1>7, <1>8, <1>9, <1>10, <1>11, <1>12, <1>13, <1>14, RowDone DEF RowBecomes
<1>16. \A j \in Importers : import[j].at \in AtWork => j = i BY DEF TrunksInv, OneAtWork, AtWork
<1>17. troubles' \in 0 .. MaxTroubles BY TroubleTyped DEF TrunksInv
<1> QED BY <1>7, <1>9, <1>15, <1>16, <1>17, ImportGoesOn DEF RowBecomes, TrunksInv, TrunksTyped

\* The row's rule is pointed elsewhere, whether or not the answer comes back.
LEMMA RowRepoints ==
  ASSUME TrunksInv, NEW i \in Importers, import[i].at = "placing", import[i].rows # << >>,
         NEW c \in ImportRecords, NEW d \in Dids, NEW to \in Desks, NEW id,
         NEW outcome \in {"routed", "failed"}, NEW entry \in Entries,
         Row(i, outcome, entry), RowBecomes(i, outcome, entry, c, d), entry # NoRule, entry.id = id,
         to = To(Head(import[i].rows)), id = import[i].map[d].id, import[i].map[d] # NoRule,
         \E r \in rules : r.id = id, RepointRule(i, Head(import[i].rows), id),
         lost' = lost \/ lost' = lost \cup {i}, UNCHANGED <<carries, disturbed>>, Trouble \/ UNCHANGED troubles
  PROVE  TrunksInv'
<1>1. PICK old \in ImportRecords : old = import[i] BY DEF TrunksInv, TrunksTyped
<1>2. ImportFine(old, i) /\ old.at = "placing" /\ old.rows # << >> BY <1>1 DEF TrunksInv
<1>3. old.rows \in Seq(Rows) BY DEF ImportRecords
<1>4. /\ c.map = [old.map EXCEPT ![d] = entry] /\ c.at = "placing" /\ c.trunk = old.trunk /\ c.sheet = old.sheet
      /\ c.routed \subseteq old.routed \cup {d} /\ d = Did(Head(old.rows)) /\ to = To(Head(old.rows))
      /\ old.map \in [Dids -> Entries] /\ id = old.map[d].id /\ old.map[d] # NoRule
  BY <1>1, <1>2 DEF RowBecomes, ImportRecords
<1>5. rules' = {IF r.id = id THEN [r EXCEPT !.to = to] ELSE r : r \in rules}
      /\ UNCHANGED lastRule /\ ChangeUnder(Importers \ {i})
  BY DEF RepointRule
<1>6. lastRule \in Nat /\ rules \subseteq RuleRecords /\ (\A r \in rules : r.id <= lastRule)
      /\ (\A r, q \in rules : r.id = q.id => r = q)
  BY DEF TrunksInv, TrunksTyped, RulesKnown
<1>7. ASSUME NEW q \in rules'
      PROVE  \E r \in rules : /\ q.id = r.id /\ q.trunk = r.trunk /\ q.did = r.did /\ q \in RuleRecords
                              /\ r.id = id => q.to = to
                              /\ r.id # id => q = r
  <2>1. PICK r \in rules : q = IF r.id = id THEN [r EXCEPT !.to = to] ELSE r BY <1>5
  <2>2. r \in RuleRecords BY <1>6
  <2>3. CASE r.id = id
    <3>1. q = [r EXCEPT !.to = to] BY <2>1, <2>3
    <3>2. q \in RuleRecords /\ q.id = r.id /\ q.trunk = r.trunk /\ q.did = r.did /\ q.to = to
      BY <2>2, <3>1 DEF RuleRecords
    <3> QED BY <2>3, <3>2
  <2>4. CASE r.id # id BY <2>1, <2>2, <2>4
  <2> QED BY <2>3, <2>4
<1>8. ASSUME NEW r \in rules
      PROVE  \E q \in rules' : /\ q.id = r.id /\ q.trunk = r.trunk /\ q.did = r.did
                               /\ r.id = id => q.to = to
                               /\ r.id # id => q = r
  <2>1. r \in RuleRecords BY <1>6
  <2>2. CASE r.id = id
    <3>1. PICK q : q = [r EXCEPT !.to = to] OBVIOUS
    <3>2. q \in rules' BY <1>5, <2>2, <3>1
    <3>3. q.id = r.id /\ q.trunk = r.trunk /\ q.did = r.did /\ q.to = to BY <2>1, <3>1 DEF RuleRecords
    <3> QED BY <2>2, <3>2, <3>3
  <2>3. CASE r.id # id BY <1>5, <2>3
  <2> QED BY <2>2, <2>3
<1>9. RulesFollow BY <1>5, <1>6, <1>7 DEF RulesFollow
<1>10. rules' \subseteq RuleRecords BY <1>7
<1>11. \A r \in rules : r.id = id => r.trunk = old.trunk /\ r.did = d
  BY <1>2, <1>4 DEF ImportFine, MapFits
<1>12. ASSUME NEW r \in rules', NEW q \in rules', r.id = q.id PROVE r = q
  <2>1. PICK r0 \in rules : /\ r.id = r0.id /\ r.trunk = r0.trunk /\ r.did = r0.did /\ r \in RuleRecords
                            /\ r0.id = id => r.to = to
                            /\ r0.id # id => r = r0
    BY <1>7
  <2>2. PICK q0 \in rules : /\ q.id = q0.id /\ q.trunk = q0.trunk /\ q.did = q0.did /\ q \in RuleRecords
                            /\ q0.id = id => q.to = to
                            /\ q0.id # id => q = q0
    BY <1>7
  <2>3. r0 = q0 BY <1>6, <1>12, <2>1, <2>2
  <2>4. r.id = q.id /\ r.trunk = q.trunk /\ r.did = q.did /\ r.to = q.to BY <1>12, <2>1, <2>2, <2>3
  <2> QED BY <2>1, <2>2, <2>4 DEF RuleRecords
<1>13. RulesKnown' BY <1>5, <1>6, <1>7, <1>12 DEF RulesKnown
<1>14. OneRule'
  <2> SUFFICES ASSUME lost' = {}, disturbed' = {}, NEW t \in Trunks, NEW e \in Dids,
                      NEW r \in Numbered(t, e)', NEW q \in Numbered(t, e)'
               PROVE  r = q
    BY DEF OneRule
  <2>1. r \in rules' /\ q \in rules' /\ r.trunk = t /\ q.trunk = t /\ r.did = e /\ q.did = e BY DEF Numbered
  <2>2. PICK r0 \in rules : r.id = r0.id /\ r.trunk = r0.trunk /\ r.did = r0.did BY <1>7, <2>1
  <2>3. PICK q0 \in rules : q.id = q0.id /\ q.trunk = q0.trunk /\ q.did = q0.did BY <1>7, <2>1
  <2>4. r0 \in Numbered(t, e) /\ q0 \in Numbered(t, e) BY <2>1, <2>2, <2>3 DEF Numbered
  <2>5. r0 = q0 BY <2>4 DEF TrunksInv, OneRule
  <2> QED BY <1>12, <2>1, <2>2, <2>3, <2>5
<1>15. ASSUME NEW e \in Dids, e # d PROVE Numbered(c.trunk, e)' = Numbered(c.trunk, e)
  <2>1. ASSUME NEW q \in rules', q.did = e PROVE q \in rules
    <3>1. PICK r \in rules : q.did = r.did /\ (r.id # id => q = r) BY <1>7
    <3> QED BY <1>11, <1>15, <2>1, <3>1
  <2>2. ASSUME NEW r \in rules, r.did = e PROVE r \in rules' BY <1>8, <1>11, <1>15, <2>2
  <2> QED BY <2>1, <2>2 DEF Numbered
<1>16. MapFits(c)'
  <2>1. MapFits(c)
    <3>1. ASSUME NEW e \in Dids PROVE c.map[e].id = old.map[e].id BY <1>4
    <3> QED BY <1>2, <1>4, <3>1 DEF ImportFine, MapFits
  <2> QED BY <1>9, <2>1, MapStillFits DEF TrunksInv
<1>17. StillAsRead(c, i)'
  <2> SUFFICES ASSUME i \notin disturbed, i \notin lost, NEW e \in Dids, c.map[e] = NoRule
               PROVE  Numbered(c.trunk, e)' = {}
    BY <1>4 DEF StillAsRead
  <2>1. e # d BY <1>4
  <2>2. Numbered(old.trunk, e) = {} BY <1>2, <1>4, <2>1 DEF ImportFine, StillAsRead
  <2> QED BY <1>4, <1>15, <2>1, <2>2
<1>18. \E r \in Numbered(c.trunk, d)', k \in DOMAIN c.sheet : c.sheet[k] = <<d, r.to>>
  <2>1. PICK r0 \in rules : r0.id = id OBVIOUS
  <2>2. PICK r \in rules' : r.trunk = r0.trunk /\ r.did = r0.did /\ r.to = to BY <1>8, <2>1
  <2>3. r \in Numbered(c.trunk, d)' BY <1>4, <1>11, <2>1, <2>2 DEF Numbered
  <2>4. 1 \in DOMAIN old.rows /\ Head(old.rows) = old.rows[1] /\ Head(old.rows) \in Rows BY <1>2, <1>3, RowsLeft
  <2>5. PICK k \in DOMAIN old.sheet : old.sheet[k] = old.rows[1]
    BY <1>2, <2>4 DEF ImportFine, RowsAreTheSheets
  <2>6. old.rows[1] = <<d, to>>
    <3>1. PICK row \in Rows : row = old.rows[1] BY <2>4
    <3>2. row = <<row[1], row[2]>> BY DEF Rows
    <3>3. row[1] = d /\ row[2] = to BY <1>4, <2>4, <3>1 DEF Did, To
    <3> QED BY <3>1, <3>2, <3>3
  <2> QED BY <1>4, <2>2, <2>3, <2>5, <2>6
<1>19. i \notin changedUnder' => i \notin changedUnder BY <1>5 DEF ChangeUnder
<1>20. ImportFine(c, i)'
  BY <1>1, <1>4, <1>15, <1>16, <1>17, <1>18, <1>19, RowDone DEF RowBecomes
<1>21. troubles' \in 0 .. MaxTroubles BY TroubleTyped DEF TrunksInv
<1>22. lost \subseteq lost' /\ lost' \subseteq Importers BY DEF TrunksInv, TrunksTyped
<1>23. carries' \in [Trunks -> SUBSET Dids] BY DEF TrunksInv, TrunksTyped
<1>24. import' = [import EXCEPT ![i] = c] BY DEF RowBecomes
<1> QED BY <1>5, <1>9, <1>10, <1>13, <1>14, <1>20, <1>21, <1>22, <1>23, <1>24, ImportChanges DEF AtWork

\* A rule is made for the row, whether or not the answer comes back.
LEMMA RowCreates ==
  ASSUME TrunksInv, NEW i \in Importers, import[i].at = "placing", import[i].rows # << >>,
         NEW c \in ImportRecords, NEW d \in Dids, NEW to \in Desks,
         NEW outcome \in {"routed", "failed"}, NEW entry \in Entries,
         Row(i, outcome, entry), RowBecomes(i, outcome, entry, c, d), entry.id = 0,
         to = To(Head(import[i].rows)), import[i].map[d] = NoRule, CreateRule(i, Head(import[i].rows)),
         \/ lost' = lost /\ entry # NoRule
         \/ lost' = lost \cup {i},
         UNCHANGED <<carries, disturbed>>, Trouble \/ UNCHANGED troubles
  PROVE  TrunksInv'
<1>1. PICK old \in ImportRecords : old = import[i] BY DEF TrunksInv, TrunksTyped
<1>2. ImportFine(old, i) /\ old.at = "placing" /\ old.rows # << >> BY <1>1 DEF TrunksInv
<1>3. old.rows \in Seq(Rows) BY DEF ImportRecords
<1>4. /\ c.map = [old.map EXCEPT ![d] = entry] /\ c.at = "placing" /\ c.trunk = old.trunk /\ c.sheet = old.sheet
      /\ c.routed \subseteq old.routed \cup {d} /\ d = Did(Head(old.rows)) /\ to = To(Head(old.rows))
      /\ old.map \in [Dids -> Entries] /\ old.map[d] = NoRule
  BY <1>1, <1>2 DEF RowBecomes, ImportRecords
<1>5. old.trunk \in Trunks BY <1>2 DEF ImportFine, MapFits
<1>6. PICK made : made = [id |-> lastRule + 1, trunk |-> old.trunk, did |-> d, to |-> to] OBVIOUS
<1>7. /\ lastRule' = lastRule + 1 /\ rules' = rules \cup {made} /\ ChangeUnder(Importers \ {i})
  BY <1>1, <1>4, <1>6 DEF CreateRule
<1>8. lastRule \in Nat /\ rules \subseteq RuleRecords /\ (\A r \in rules : r.id <= lastRule)
      /\ (\A r, q \in rules : r.id = q.id => r = q)
  BY DEF TrunksInv, TrunksTyped, RulesKnown
<1>9. made \in RuleRecords /\ made.id = lastRule + 1 /\ made.trunk = old.trunk /\ made.did = d /\ made.to = to
  BY <1>5, <1>6, <1>8 DEF RuleRecords
<1>10. \A r \in rules : r.id \in Nat /\ r.id # 0 BY <1>8 DEF RuleRecords
<1>11. RulesFollow BY <1>7, <1>8, <1>9 DEF RulesFollow
<1>12. rules' \subseteq RuleRecords BY <1>7, <1>8, <1>9
<1>13. RulesKnown' BY <1>7, <1>8, <1>9, <1>10 DEF RulesKnown
<1>14. OneRule'
  <2> SUFFICES ASSUME lost' = {}, disturbed' = {}, NEW t \in Trunks, NEW e \in Dids,
                      NEW r \in Numbered(t, e)', NEW q \in Numbered(t, e)'
               PROVE  r = q
    BY DEF OneRule
  <2>1. lost = {} /\ disturbed = {} OBVIOUS
  <2>2. Numbered(old.trunk, d) = {} BY <1>2, <1>4, <2>1 DEF ImportFine, StillAsRead
  <2>3. \A x, y \in Numbered(t, e) : x = y BY <2>1 DEF TrunksInv, OneRule
  <2>4. \A x \in Numbered(t, e)' : x \in Numbered(t, e) \/ (x = made /\ t = old.trunk /\ e = d)
    BY <1>7, <1>9 DEF Numbered
  <2> QED BY <2>2, <2>3, <2>4
<1>15. ASSUME NEW e \in Dids, e # d PROVE Numbered(c.trunk, e)' = Numbered(c.trunk, e)
  BY <1>7, <1>9, <1>15 DEF Numbered
<1>16. MapFits(c)'
  <2>1. MapFits(c)
    <3>1. ASSUME NEW e \in Dids, e # d PROVE c.map[e] = old.map[e] BY <1>4, <3>1
    <3>2. c.map[d].id = 0 BY <1>4
    <3>3. ASSUME NEW e \in Dids
          PROVE  /\ c.map[e].id <= lastRule
                 /\ \A r \in rules : r.id = c.map[e].id => r.trunk = c.trunk /\ r.did = e
      <4>1. CASE e = d BY <1>8, <1>10, <3>2, <4>1
      <4>2. CASE e # d BY <1>2, <1>4, <3>1, <4>2 DEF ImportFine, MapFits
      <4> QED BY <4>1, <4>2
    <3> QED BY <1>4, <1>5, <3>3 DEF MapFits
  <2> QED BY <1>11, <2>1, MapStillFits DEF TrunksInv
<1>17. StillAsRead(c, i)'
  <2> SUFFICES ASSUME i \notin disturbed, i \notin lost', NEW e \in Dids, c.map[e] = NoRule
               PROVE  Numbered(c.trunk, e)' = {}
    BY <1>4 DEF StillAsRead
  <2>1. entry # NoRule /\ i \notin lost OBVIOUS
  <2>2. e # d BY <1>4, <2>1
  <2>3. old.map[e] = NoRule BY <1>4, <2>2
  <2>4. Numbered(old.trunk, e) = {} BY <1>2, <2>1, <2>3 DEF ImportFine, StillAsRead
  <2> QED BY <1>4, <1>15, <2>2, <2>4
<1>18. \E r \in Numbered(c.trunk, d)', k \in DOMAIN c.sheet : c.sheet[k] = <<d, r.to>>
  <2>1. made \in Numbered(c.trunk, d)' BY <1>4, <1>7, <1>9 DEF Numbered
  <2>2. 1 \in DOMAIN old.rows /\ Head(old.rows) = old.rows[1] /\ Head(old.rows) \in Rows BY <1>2, <1>3, RowsLeft
  <2>3. PICK k \in DOMAIN old.sheet : old.sheet[k] = old.rows[1]
    BY <1>2, <2>2 DEF ImportFine, RowsAreTheSheets
  <2>4. old.rows[1] = <<d, to>>
    <3>1. PICK row \in Rows : row = old.rows[1] BY <2>2
    <3>2. row = <<row[1], row[2]>> BY DEF Rows
    <3>3. row[1] = d /\ row[2] = to BY <1>4, <2>2, <3>1 DEF Did, To
    <3> QED BY <3>1, <3>2, <3>3
  <2> QED BY <1>4, <1>9, <2>1, <2>3, <2>4
<1>19. i \notin changedUnder' => i \notin changedUnder BY <1>7 DEF ChangeUnder
<1>20. ImportFine(c, i)'
  BY <1>1, <1>4, <1>15, <1>16, <1>17, <1>18, <1>19, RowDone DEF RowBecomes
<1>21. troubles' \in 0 .. MaxTroubles BY TroubleTyped DEF TrunksInv
<1>22. lost \subseteq lost' /\ lost' \subseteq Importers BY DEF TrunksInv, TrunksTyped
<1>23. carries' \in [Trunks -> SUBSET Dids] BY DEF TrunksInv, TrunksTyped
<1>24. import' = [import EXCEPT ![i] = c] BY DEF RowBecomes
<1> QED BY <1>7, <1>11, <1>12, <1>13, <1>14, <1>20, <1>21, <1>22, <1>23, <1>24, ImportChanges DEF AtWork

LEMMA RouteHolds ==
  ASSUME TrunksInv, NEW i \in Importers, RouteDid(i)
  PROVE  TrunksInv'
<1> DEFINE row == Head(import[i].rows)
           was == import[i].map[Did(row)]
<1>1. import[i].at = "placing" /\ import[i].rows # << >> /\ UNCHANGED <<carries, disturbed>> BY DEF RouteDid
<1>2. PICK old \in ImportRecords : old = import[i] BY DEF TrunksInv, TrunksTyped
<1>3. old.rows \in Seq(Rows) /\ old.rows # << >> BY <1>1, <1>2 DEF ImportRecords
<1>4. row \in Rows BY <1>2, <1>3, RowsLeft
<1>5. PICK d \in Dids : d = Did(row) BY <1>4 DEF Rows, Did
<1>6. was \in Entries /\ was = import[i].map[d] BY <1>2, <1>5 DEF ImportRecords
<1>7. TrunksTyped BY DEF TrunksInv
<1>8. ASSUME NEW outcome \in {"failed", "kept"}, Row(i, outcome, was), RulesUntouched, UNCHANGED lost,
             Trouble \/ UNCHANGED troubles
      PROVE  TrunksInv'
  BY <1>1, <1>8, RowLeft
<1>9. ASSUME NEW outcome \in {"routed", "failed"}, NEW entry \in Entries, Row(i, outcome, entry),
             entry # NoRule, entry.id = was.id, To(row) \in Desks, was # NoRule,
             \E r \in rules : r.id = was.id, RepointRule(i, row, was.id),
             lost' = lost \/ lost' = lost \cup {i}, Trouble \/ UNCHANGED troubles
      PROVE  TrunksInv'
  <2>1. PICK c \in ImportRecords, e \in Dids : RowBecomes(i, outcome, entry, c, e)
    BY <1>1, <1>7, <1>9, RowIs
  <2>2. e = d BY <1>5, <2>1 DEF RowBecomes
  <2>3. PICK id : id = was.id OBVIOUS
  <2>4. /\ RowBecomes(i, outcome, entry, c, d) /\ entry.id = id /\ id = import[i].map[d].id
        /\ import[i].map[d] # NoRule /\ RepointRule(i, row, id) /\ \E r \in rules : r.id = id
    BY <1>6, <1>9, <2>1, <2>2, <2>3
  <2> HIDE DEF was
  <2> QED BY <1>1, <1>9, <2>4, RowRepoints
<1>10. ASSUME NEW outcome \in {"routed", "failed"}, NEW entry \in Entries, Row(i, outcome, entry),
              entry.id = 0, To(row) \in Desks, was = NoRule, CreateRule(i, row),
              \/ lost' = lost /\ entry # NoRule
              \/ lost' = lost \cup {i},
              Trouble \/ UNCHANGED troubles
      PROVE  TrunksInv'
  <2>1. PICK c \in ImportRecords, e \in Dids : RowBecomes(i, outcome, entry, c, e)
    BY <1>1, <1>7, <1>10, RowIs
  <2>2. e = d BY <1>5, <2>1 DEF RowBecomes
  <2> QED BY <1>1, <1>6, <1>10, <2>1, <2>2, RowCreates
<1>11. CASE /\ RulesUntouched /\ UNCHANGED lost /\ (Trouble \/ UNCHANGED troubles)
            /\ (Row(i, "kept", was) \/ Row(i, "failed", was))
  BY <1>8, <1>11
<1>12. CASE /\ To(row) \in Desks /\ was # NoRule /\ \E r \in rules : r.id = was.id
            /\ RepointRule(i, row, was.id)
            /\ \/ Row(i, "routed", [id |-> was.id, to |-> To(row)]) /\ UNCHANGED <<troubles, lost>>
               \/ Row(i, "failed", was) /\ Trouble /\ lost' = lost \cup {i}
  <2>1. CASE Row(i, "routed", [id |-> was.id, to |-> To(row)]) /\ UNCHANGED <<troubles, lost>>
    <3>1. PICK entry : entry = [id |-> was.id, to |-> To(row)] OBVIOUS
    <3>2. entry \in Entries /\ entry.id = was.id /\ entry.to = To(row)
      BY <1>6, <1>12, <3>1 DEF Entries, Targets
    <3>3. entry # NoRule BY <1>12, <3>2, FilesAssumption DEF NoRule
    <3> QED BY <1>9, <1>12, <2>1, <3>1, <3>2, <3>3
  <2>2. CASE Row(i, "failed", was) /\ Trouble /\ lost' = lost \cup {i} BY <1>6, <1>9, <1>12, <2>2
  <2> QED BY <1>12, <2>1, <2>2
<1>13. CASE /\ To(row) \in Desks /\ was = NoRule /\ CreateRule(i, row)
            /\ \/ Row(i, "routed", Taken(i, To(row))) /\ UNCHANGED <<troubles, lost>>
               \/ Row(i, "failed", was) /\ Trouble /\ lost' = lost \cup {i}
  <2>1. CASE Row(i, "routed", Taken(i, To(row))) /\ UNCHANGED <<troubles, lost>>
    <3>1. PICK entry : entry = Taken(i, To(row)) OBVIOUS
    <3>2. entry \in Entries /\ entry.id = 0 /\ entry.to = To(row)
      BY <1>13, <3>1 DEF Taken, Entries, Targets
    <3>3. entry # NoRule BY <1>13, <3>2, FilesAssumption DEF NoRule
    <3> QED BY <1>10, <1>13, <2>1, <3>1, <3>2, <3>3
  <2>2. CASE Row(i, "failed", was) /\ Trouble /\ lost' = lost \cup {i}
    <3>1. was \in Entries /\ was.id = 0 BY <1>6, <1>13 DEF NoRule
    <3> QED BY <1>10, <1>13, <2>2, <3>1
  <2> QED BY <1>13, <2>1, <2>2
<1> QED BY <1>11, <1>12, <1>13 DEF RouteDid

LEMMA AnswerImportHolds ==
  ASSUME TrunksInv, NEW i \in Importers, AnswerImport(i)
  PROVE  TrunksInv'
<1>1. /\ import[i].at = "placing" /\ import' = [import EXCEPT ![i].at = "answered"]
      /\ UNCHANGED <<carries, rules, lastRule, changedUnder, disturbed, lost, troubles>>
  BY DEF AnswerImport
<1>2. PICK old \in ImportRecords : old = import[i] BY DEF TrunksInv, TrunksTyped
<1>3. ImportFine(old, i) /\ old.at = "placing" BY <1>1, <1>2 DEF TrunksInv
<1>4. PICK c : c = [old EXCEPT !.at = "answered"] OBVIOUS
<1>5. /\ c \in ImportRecords /\ c.at = "answered" /\ c.trunk = old.trunk /\ c.sheet = old.sheet
      /\ c.map = old.map /\ c.routed = old.routed
  BY <1>4 DEF ImportRecords, ImportAts
<1>6. import' = [import EXCEPT ![i] = c] BY <1>1, <1>2, <1>4
<1>7. MapFits(c)' BY <1>1, <1>3, <1>5 DEF ImportFine, MapFits
<1>8. DoneIsSo(old) => DoneIsSo(c)'
  <2>1. \A e : Numbered(old.trunk, e)' = Numbered(old.trunk, e) BY <1>1 DEF Numbered
  <2> QED BY <1>1, <1>3, <1>5, <2>1 DEF DoneIsSo
<1>9. RowsAreTheSheets(c)' /\ StillAsRead(c, i)' /\ NamedAll(c)'
  BY <1>5 DEF RowsAreTheSheets, StillAsRead, NamedAll
<1>10. ImportFine(c, i)' BY <1>1, <1>3, <1>7, <1>8, <1>9 DEF ImportFine
<1> QED BY <1>1, <1>5, <1>6, <1>10, ImportGoesOn DEF AtWork, TrunksInv, TrunksTyped

\* Nothing an import at work relies on survives the console, and it is known to
\* have been disturbed.
LEMMA ConsoleTrunksHolds ==
  ASSUME TrunksInv, ConsoleTrunks
  PROVE  TrunksInv'
<1>1. /\ disturbed' = disturbed \cup {i \in Importers : import[i].at \in AtWork}
      /\ ChangeUnder(Importers) /\ UNCHANGED <<import, lost>>
  BY DEF ConsoleTrunks
<1>2. PICK t \in Trunks, d \in Dids, to \in Desks :
       \/ /\ d \notin carries[t]
          /\ carries' = [carries EXCEPT ![t] = @ \cup {d}] /\ UNCHANGED <<rules, lastRule>>
       \/ /\ d \in carries[t]
          /\ carries' = [carries EXCEPT ![t] = @ \ {d}]
          /\ rules' = rules \ Numbered(t, d) /\ UNCHANGED lastRule
       \/ /\ Numbered(t, d) = {} /\ d \in carries[t] /\ lastRule' = lastRule + 1
          /\ rules' = rules \cup {[id |-> lastRule', trunk |-> t, did |-> d, to |-> to]}
          /\ UNCHANGED carries
       \/ \E r \in Numbered(t, d) :
            rules' = (rules \ {r}) \cup {[r EXCEPT !.to = to]} /\ UNCHANGED <<carries, lastRule>>
  BY DEF ConsoleTrunks
<1>3. /\ lastRule \in Nat /\ rules \subseteq RuleRecords /\ (\A r \in rules : r.id <= lastRule)
      /\ (\A r, q \in rules : r.id = q.id => r = q) /\ carries \in [Trunks -> SUBSET Dids]
  BY DEF TrunksInv, TrunksTyped, RulesKnown
<1>4. disturbed' = {} => OneRule BY <1>1 DEF TrunksInv
<1>5. changedUnder' \subseteq Importers /\ disturbed' \subseteq changedUnder'
  BY <1>1 DEF ChangeUnder, AtWork, TrunksInv, TrunksTyped
<1>6. troubles' \in 0 .. MaxTroubles BY TroubleTyped DEF ConsoleTrunks, TrunksInv
<1> DEFINE Rest == /\ rules' \subseteq RuleRecords /\ RulesFollow /\ RulesKnown'
                   /\ (lost = {} /\ disturbed = {}) => OneRule'
                   /\ carries' \in [Trunks -> SUBSET Dids]
<1>7. Rest
  <2>1. CASE rules' \subseteq rules /\ UNCHANGED lastRule /\ carries' \in [Trunks -> SUBSET Dids]
    <3>1. RulesFollow BY <1>3, <2>1 DEF RulesFollow
    <3>2. RulesKnown' BY <1>3, <2>1 DEF RulesKnown
    <3>3. (lost = {} /\ disturbed = {}) => OneRule' BY <2>1 DEF TrunksInv, OneRule, Numbered
    <3> QED BY <1>3, <2>1, <3>1, <3>2, <3>3
  <2>2. CASE /\ Numbered(t, d) = {} /\ lastRule' = lastRule + 1 /\ UNCHANGED carries
             /\ rules' = rules \cup {[id |-> lastRule', trunk |-> t, did |-> d, to |-> to]}
    <3>1. PICK made : made = [id |-> lastRule + 1, trunk |-> t, did |-> d, to |-> to] OBVIOUS
    <3>2. rules' = rules \cup {made} /\ lastRule' = lastRule + 1 BY <2>2, <3>1
    <3>3. made \in RuleRecords /\ made.id = lastRule + 1 /\ made.trunk = t /\ made.did = d
      BY <1>3, <3>1 DEF RuleRecords
    <3>4. \A r \in rules : r.id \in Nat BY <1>3 DEF RuleRecords
    <3>5. RulesFollow BY <1>3, <3>2, <3>3 DEF RulesFollow
    <3>6. RulesKnown' BY <1>3, <3>2, <3>3, <3>4 DEF RulesKnown
    <3>7. (lost = {} /\ disturbed = {}) => OneRule'
      <4> SUFFICES ASSUME lost = {}, disturbed = {}, NEW u \in Trunks, NEW e \in Dids,
                          NEW r \in Numbered(u, e)', NEW q \in Numbered(u, e)'
                   PROVE  r = q
        BY DEF OneRule
      <4>1. \A x, y \in Numbered(u, e) : x = y BY DEF TrunksInv, OneRule
      <4>2. \A x \in Numbered(u, e)' : x \in Numbered(u, e) \/ (x = made /\ u = t /\ e = d)
        BY <3>2, <3>3 DEF Numbered
      <4> QED BY <2>2, <4>1, <4>2
    <3> QED BY <1>3, <2>2, <3>2, <3>3, <3>5, <3>6, <3>7
  <2>3. ASSUME NEW r \in Numbered(t, d), rules' = (rules \ {r}) \cup {[r EXCEPT !.to = to]},
               UNCHANGED <<carries, lastRule>>
        PROVE  Rest
    <3>1. PICK moved : moved = [r EXCEPT !.to = to] OBVIOUS
    <3>2. r \in rules /\ r \in RuleRecords /\ r.trunk = t /\ r.did = d BY <1>3 DEF Numbered
    <3>3. rules' = (rules \ {r}) \cup {moved} BY <2>3, <3>1
    <3>4. moved \in RuleRecords /\ moved.id = r.id /\ moved.trunk = r.trunk /\ moved.did = r.did
      BY <3>1, <3>2 DEF RuleRecords
    <3>5. RulesFollow BY <1>3, <2>3, <3>2, <3>3, <3>4 DEF RulesFollow
    <3>6. RulesKnown' BY <1>3, <2>3, <3>2, <3>3, <3>4 DEF RulesKnown
    <3>7. (lost = {} /\ disturbed = {}) => OneRule'
      <4> SUFFICES ASSUME lost = {}, disturbed = {}, NEW u \in Trunks, NEW e \in Dids,
                          NEW x \in Numbered(u, e)', NEW y \in Numbered(u, e)'
                   PROVE  x = y
        BY DEF OneRule
      <4>1. \A v, w \in Numbered(u, e) : v = w BY DEF TrunksInv, OneRule
      <4>2. \A v \in Numbered(u, e)' : (v \in Numbered(u, e) /\ v # r) \/ (v = moved /\ r \in Numbered(u, e))
        BY <3>2, <3>3, <3>4 DEF Numbered
      <4> QED BY <4>1, <4>2
    <3> QED BY <1>3, <2>3, <3>3, <3>4, <3>5, <3>6, <3>7
  <2>4. CASE carries' = [carries EXCEPT ![t] = @ \cup {d}] /\ UNCHANGED <<rules, lastRule>>
    <3>1. carries' \in [Trunks -> SUBSET Dids] BY <1>3, <2>4
    <3> QED BY <2>1, <2>4, <3>1
  <2>5. CASE /\ carries' = [carries EXCEPT ![t] = @ \ {d}]
             /\ rules' = rules \ Numbered(t, d) /\ UNCHANGED lastRule
    <3>1. carries' \in [Trunks -> SUBSET Dids] /\ rules' \subseteq rules BY <1>3, <2>5
    <3> QED BY <2>1, <2>5, <3>1
  <2> QED BY <1>2, <2>2, <2>3, <2>4, <2>5
<1>8. OneRule' \/ disturbed' # {} \/ lost' # {}
  BY <1>1, <1>7
<1>9. OneRule' BY <1>8 DEF OneRule
<1>10. TrunksTyped' BY <1>1, <1>5, <1>6, <1>7 DEF TrunksInv, TrunksTyped, RulesFollow
<1>11. OneAtWork' BY <1>1 DEF TrunksInv, OneAtWork
<1>12. ASSUME NEW i \in Importers PROVE ImportFine(import[i], i)'
  <2>1. import[i].at \in AtWork => i \in disturbed' BY <1>1
  <2>2. import[i].at \notin {"idle", "failed"} => i \in changedUnder' BY <1>1 DEF ChangeUnder
  <2>3. TrunksTyped /\ RulesFollow /\ import'[i] = import[i] /\ ImportFine(import[i], i)
    BY <1>1, <1>7 DEF TrunksInv
  <2> QED BY <2>1, <2>2, <2>3, ImportChangedUnder
<1> QED BY <1>7, <1>9, <1>10, <1>11, <1>12 DEF TrunksInv

LEMMA FoundTrunks == TrunksInit => TrunksInv
<1> SUFFICES ASSUME TrunksInit PROVE TrunksInv OBVIOUS
<1>1. /\ carries \in [Trunks -> SUBSET Dids]
      /\ \/ rules = {}
         \/ \E t \in Trunks, to \in Desks : \E d \in carries[t] :
              rules = {[id |-> 1, trunk |-> t, did |-> d, to |-> to]}
  BY DEF TrunksInit
<1>2. /\ lastRule = 1 /\ import = [i \in Importers |-> NewImport]
      /\ changedUnder = {} /\ disturbed = {} /\ lost = {} /\ troubles = 0
  BY DEF TrunksInit
<1>3. \A r, q \in rules : r = q BY <1>1
<1>4. ASSUME NEW r \in rules PROVE r \in RuleRecords /\ r.id = 1
  <2>1. PICK t \in Trunks, to \in Desks : \E d \in carries[t] : rules = {[id |-> 1, trunk |-> t, did |-> d, to |-> to]}
    BY <1>1
  <2>2. PICK d \in carries[t] : rules = {[id |-> 1, trunk |-> t, did |-> d, to |-> to]} BY <2>1
  <2>3. d \in Dids /\ r = [id |-> 1, trunk |-> t, did |-> d, to |-> to] BY <1>1, <2>2
  <2> QED BY <2>3 DEF RuleRecords
<1>5. \A r \in rules : r \in RuleRecords /\ r.id = 1 BY <1>4
<1>6. TrunksTyped BY <1>1, <1>2, <1>5, NewImportIs, TroublesAssumption DEF TrunksTyped
<1>7. RulesKnown BY <1>2, <1>3, <1>5 DEF RulesKnown
<1>8. OneAtWork BY <1>2, NewImportIs DEF OneAtWork, AtWork
<1>9. OneRule BY <1>3 DEF OneRule, Numbered
<1>10. ASSUME NEW i \in Importers PROVE ImportFine(import[i], i)
  <2>1. PICK b : b = NewImport OBVIOUS
  <2>2. b.at = "idle" /\ b.map = [d \in Dids |-> NoRule] /\ b.routed = {} /\ b.current = FALSE
    BY <2>1, NewImportIs
  <2>3. \A d \in Dids : b.map[d].id = 0 BY <2>2 DEF NoRule
  <2>4. MapFits(b) BY <1>2, <1>5, <2>2, <2>3 DEF MapFits
  <2>5. RowsAreTheSheets(b) /\ StillAsRead(b, i) /\ DoneIsSo(b) /\ NamedAll(b)
    BY <2>2 DEF RowsAreTheSheets, StillAsRead, DoneIsSo, NamedAll
  <2>6. import[i] = b BY <1>2, <2>1
  <2> QED BY <2>4, <2>5, <2>6 DEF ImportFine
<1> QED BY <1>6, <1>7, <1>8, <1>9, <1>10 DEF TrunksInv

LEMMA TrunksStep == TrunksInv /\ [TrunksNext]_trunkVars => TrunksInv'
<1> SUFFICES ASSUME TrunksInv, [TrunksNext]_trunkVars PROVE TrunksInv' OBVIOUS
<1>1. ASSUME NEW i \in Importers, NEW t \in Trunks, NEW sheet \in Files, PreviewDids(i, t, sheet)
      PROVE  TrunksInv'
  BY <1>1, PreviewHolds
<1>2. ASSUME NEW i \in Importers, NEW t \in Trunks, NEW sheet \in Files,
             NEW mode \in {"append", "replace"}, ProposeDids(i, t, sheet, mode)
      PROVE  TrunksInv'
  BY <1>2, ProposeHolds
<1>3. ASSUME NEW i \in Importers, NEW mode \in {"append", "replace"}, ImportDids(i, mode) PROVE TrunksInv'
  BY <1>3, ImportHolds
<1>4. ASSUME NEW i \in Importers, FindTrunk(i) PROVE TrunksInv' BY <1>4, FindHolds
<1>5. ASSUME NEW i \in Importers, MergeDids(i) PROVE TrunksInv' BY <1>5, MergeHolds
<1>6. ASSUME NEW i \in Importers, ReadRules(i) PROVE TrunksInv' BY <1>6, ReadRulesHolds
<1>7. ASSUME NEW i \in Importers, RouteDid(i) PROVE TrunksInv' BY <1>7, RouteHolds
<1>8. ASSUME NEW i \in Importers, AnswerImport(i) PROVE TrunksInv' BY <1>8, AnswerImportHolds
<1>9. CASE ConsoleTrunks BY <1>9, ConsoleTrunksHolds
<1>10. CASE ListTrunks \/ UNCHANGED trunkVars
  <2>1. /\ UNCHANGED <<carries, rules, lastRule, import, changedUnder, disturbed, lost>>
        /\ troubles' \in 0 .. MaxTroubles
    <3>1. Trouble \/ UNCHANGED troubles BY <1>10 DEF trunkVars, ListTrunks, ReadTrunks
    <3> QED BY <1>10, <3>1, TroubleTyped DEF trunkVars, ListTrunks, TrunksInv
  <2>2. TrunksTyped' /\ RulesKnown' /\ OneAtWork' /\ OneRule'
    BY <2>1 DEF TrunksInv, TrunksTyped, RulesKnown, OneAtWork, OneRule, Numbered
  <2>3. \A i \in Importers : ImportFine(import[i], i)' BY <2>1, ImportUntouched DEF TrunksInv
  <2> QED BY <2>2, <2>3 DEF TrunksInv
<1> QED BY <1>1, <1>2, <1>3, <1>4, <1>5, <1>6, <1>7, <1>8, <1>9, <1>10 DEF TrunksNext

\* What is kept is one answer, and one that was given.
KeptOne == listKept = {} \/ \E list \in Lists : listKept = {list}

LEMMA KeptStays == TrunksInv /\ KeptOne /\ [TrunksNext]_trunkVars => KeptOne'
<1> SUFFICES ASSUME TrunksInv, KeptOne, [TrunksNext]_trunkVars PROVE KeptOne' OBVIOUS
<1>1. Listed \in Lists /\ Unlisted \in Lists
  <2>1. ASSUME NEW q \in Rings PROVE q \in Trunks \X Dids \X Desks
    <3>1. PICK r \in RuleRecords : q = <<r.trunk, r.did, r.to>> BY <2>1 DEF Rings, TrunksInv, TrunksTyped
    <3> QED BY <3>1 DEF RuleRecords
  <2>2. PICK rings \in SUBSET (Trunks \X Dids \X Desks) : rings = Rings BY <2>1
  <2> QED BY <2>2 DEF Listed, Unlisted, Lists
<1>2. CASE UNCHANGED listKept BY <1>2 DEF KeptOne
<1>3. CASE Forget BY <1>2, <1>3 DEF Forget, KeptOne
<1>4. ASSUME NEW list \in listKept \cup {Listed, Unlisted}, CurrentTrunks(list) PROVE KeptOne'
  <2>1. list \in Lists BY <1>1, <1>4 DEF KeptOne
  <2> QED BY <1>2, <1>4, <2>1 DEF CurrentTrunks, KeptOne
<1>5. CASE ListTrunks BY <1>1, <1>5 DEF ListTrunks, KeptOne
<1>6. ASSUME NEW i \in Importers, NEW t \in Trunks, NEW sheet \in Files,
             PreviewDids(i, t, sheet) \/ \E mode \in {"append", "replace"} : ProposeDids(i, t, sheet, mode)
      PROVE  KeptOne'
  BY <1>2, <1>4, <1>6 DEF PreviewDids, ProposeDids
<1>7. ASSUME NEW i \in Importers,
             \/ \E mode \in {"append", "replace"} : ImportDids(i, mode)
             \/ FindTrunk(i) \/ MergeDids(i)
      PROVE  KeptOne'
  BY <1>2, <1>7 DEF ImportDids, FindTrunk, MergeDids
<1>8. ASSUME NEW i \in Importers, ReadRules(i) PROVE KeptOne' BY <1>2, <1>3, <1>8 DEF ReadRules
<1>9. ASSUME NEW i \in Importers, RouteDid(i) \/ AnswerImport(i) PROVE KeptOne'
  BY <1>2, <1>3, <1>9 DEF RouteDid, AnswerImport
<1>10. CASE ConsoleTrunks BY <1>2, <1>10 DEF ConsoleTrunks
<1>11. CASE UNCHANGED trunkVars BY <1>2, <1>11 DEF trunkVars
<1> QED BY <1>5, <1>6, <1>7, <1>8, <1>9, <1>10, <1>11 DEF TrunksNext

LEMMA TrunksKnown == TrunksInv /\ KeptOne => TrunksKeepTheirWord
<1> SUFFICES ASSUME TrunksInv, KeptOne PROVE TrunksKeepTheirWord OBVIOUS
<1>1. TrunksTypeOK
  <2>1. rules \subseteq [id : 1 .. lastRule, trunk : Trunks, did : Dids, to : Desks]
    <3>1. ASSUME NEW r \in rules PROVE r \in [id : 1 .. lastRule, trunk : Trunks, did : Dids, to : Desks]
      <4>1. r \in RuleRecords /\ r.id <= lastRule BY DEF TrunksInv, TrunksTyped, RulesKnown
      <4>2. r.id \in 1 .. lastRule BY <4>1 DEF RuleRecords, TrunksInv, TrunksTyped
      <4> QED BY <4>1, <4>2 DEF RuleRecords
    <3> QED BY <3>1
  <2>2. ASSUME NEW i \in Importers
        PROVE  /\ import[i].at \in ImportAts /\ import[i].mode \in {"append", "replace"}
               /\ import[i].carried \subseteq Dids
               /\ \A d \in Dids : import[i].map[d] \in [id : 0 .. lastRule, to : Targets]
    <3>1. PICK b \in ImportRecords : b = import[i] BY DEF TrunksInv, TrunksTyped
    <3>2. MapFits(b) /\ lastRule \in Nat BY <3>1 DEF TrunksInv, TrunksTyped, ImportFine
    <3>3. ASSUME NEW d \in Dids PROVE b.map[d] \in [id : 0 .. lastRule, to : Targets]
      <4>1. b.map[d] \in Entries /\ b.map[d].id <= lastRule BY <3>2 DEF MapFits, ImportRecords
      <4> QED BY <3>2, <4>1 DEF Entries
    <3> QED BY <3>1, <3>3 DEF ImportRecords
  <2>3. listKept \subseteq Lists /\ Cardinality(listKept) <= 1
    <3>1. CASE listKept = {} BY <3>1, FS_EmptySet
    <3>2. ASSUME NEW list \in Lists, listKept = {list} PROVE listKept \subseteq Lists /\ Cardinality(listKept) <= 1
      BY <3>2, FS_Singleton
    <3> QED BY <3>1, <3>2 DEF KeptOne
  <2> QED BY <2>1, <2>2, <2>3 DEF TrunksInv, TrunksTyped, TrunksTypeOK, ImportAts
<1>2. OneRulePerNumberUndisturbed
  <2> SUFFICES ASSUME lost = {}, disturbed = {}, NEW t \in Trunks, NEW d \in Dids
               PROVE  Cardinality(Numbered(t, d)) <= 1
    BY DEF OneRulePerNumberUndisturbed
  <2>1. \A r, q \in Numbered(t, d) : r = q BY DEF TrunksInv, OneRule
  <2>2. CASE Numbered(t, d) = {} BY <2>2, FS_EmptySet
  <2>3. ASSUME NEW r \in Numbered(t, d) PROVE Cardinality(Numbered(t, d)) <= 1
    <3>1. Numbered(t, d) = {r} BY <2>1, <2>3
    <3>2. Cardinality({r}) = 1 BY FS_Singleton
    <3> QED BY <3>1, <3>2
  <2> QED BY <2>2, <2>3
<1>3. AnsweredIsDone
  <2> SUFFICES ASSUME NEW i \in Importers, import[i].at = "answered", i \notin changedUnder
               PROVE  /\ \A k \in DOMAIN import[i].sheet : Did(import[i].sheet[k]) \in carries[import[i].trunk]
                      /\ \A d \in import[i].routed :
                           \E r \in Numbered(import[i].trunk, d), k \in DOMAIN import[i].sheet :
                             import[i].sheet[k] = <<d, r.to>>
    BY DEF AnsweredIsDone
  <2>1. PICK b \in ImportRecords : b = import[i] BY DEF TrunksInv, TrunksTyped
  <2>2. DoneIsSo(b) /\ b.at = "answered" BY <2>1 DEF TrunksInv, ImportFine
  <2> QED BY <2>1, <2>2 DEF DoneIsSo
<1> QED BY <1>1, <1>2, <1>3 DEF TrunksKeepTheirWord

\* No rule of a trunk is moved, no number taken off: what the property says of a step.
Stays == \A t \in Trunks : \/ carries[t] \subseteq carries'[t]
                           \/ ConsoleTrunks
                           \/ \E i \in disturbed : import[i].at = "merging"
Moved == \A r \in rules, q \in rules' :
           r.id = q.id /\ r.to # q.to =>
             \/ ConsoleTrunks
             \/ \E i \in Importers :
                  /\ import[i].at = "placing" /\ import[i].mode = "replace"
                  /\ (import[i].current /\ i \notin changedUnder) =>
                       \E k \in import[i].moving : Parsed(import[i].sheet)[k] = <<r.did, q.to>>

LEMMA MergedStays == ASSUME TrunksInv, NEW i \in Importers, MergeDids(i) PROVE Stays
<1>1. PICK old \in ImportRecords : old = import[i] BY DEF TrunksInv, TrunksTyped
<1>2. StillAsRead(old, i) /\ old.at = "merging" BY <1>1 DEF MergeDids, TrunksInv, ImportFine
<1>3. CASE UNCHANGED carries BY <1>3 DEF Stays
<1>4. CASE PutNumbers(i)
  <2>1. carries' = [carries EXCEPT ![old.trunk] = old.carried \cup Named(i)] BY <1>1, <1>4 DEF PutNumbers, Merged
  <2>2. CASE i \in disturbed
    <3>1. import[i].at = "merging" BY <1>1, <1>2
    <3> QED BY <2>2, <3>1 DEF Stays
  <2>3. CASE i \notin disturbed
    <3>1. old.carried = carries[old.trunk] BY <1>2, <2>3 DEF StillAsRead
    <3>2. carries \in [Trunks -> SUBSET Dids] BY DEF TrunksInv, TrunksTyped
    <3>3. ASSUME NEW t \in Trunks PROVE carries[t] \subseteq carries'[t] BY <2>1, <3>1, <3>2
    <3> QED BY <3>3 DEF Stays
  <2> QED BY <2>2, <2>3
<1> QED BY <1>3, <1>4 DEF MergeDids

LEMMA SameRulesMoved == ASSUME TrunksInv, UNCHANGED rules PROVE Moved
BY DEF TrunksInv, RulesKnown, Moved

LEMMA CreatedMoved == ASSUME TrunksInv, NEW i \in Importers, CreateRule(i, Head(import[i].rows)) PROVE Moved
<1>1. PICK made : /\ made = [id |-> lastRule + 1, trunk |-> import[i].trunk, did |-> Did(Head(import[i].rows)),
                             to |-> To(Head(import[i].rows))]
  OBVIOUS
<1>2. rules' = rules \cup {made} /\ made.id = lastRule + 1 BY <1>1 DEF CreateRule
<1>3. /\ lastRule \in Nat /\ (\A r \in rules : r.id <= lastRule)
      /\ (\A r, q \in rules : r.id = q.id => r = q)
      /\ \A r \in rules : r.id \in Nat
  BY DEF TrunksInv, TrunksTyped, RulesKnown, RuleRecords
<1> QED BY <1>2, <1>3 DEF Moved

\* An import that points a rule elsewhere had said so of that row.
LEMMA RepointedMoved ==
  ASSUME TrunksInv, NEW i \in Importers, import[i].at = "placing", import[i].rows # << >>,
         import[i].mode = "replace", NEW d \in Dids, NEW to \in Desks, NEW id,
         d = Did(Head(import[i].rows)), to = To(Head(import[i].rows)), id = import[i].map[d].id,
         RepointRule(i, Head(import[i].rows), id)
  PROVE  Moved
<1>1. PICK old \in ImportRecords : old = import[i] BY DEF TrunksInv, TrunksTyped
<1>2. ImportFine(old, i) /\ old.at = "placing" /\ old.rows # << >> BY <1>1 DEF TrunksInv
<1>3. old.rows \in Seq(Rows) BY DEF ImportRecords
<1>4. 1 \in DOMAIN old.rows /\ Head(old.rows) = old.rows[1] /\ Head(old.rows) \in Rows BY <1>2, <1>3, RowsLeft
<1>5. PICK row \in Rows : row = old.rows[1] BY <1>4
<1>6. row = <<d, to>> /\ Did(row) = d /\ To(row) = to
  <2>1. row = <<row[1], row[2]>> BY DEF Rows
  <2>2. row[1] = d /\ row[2] = to BY <1>1, <1>4, <1>5 DEF Did, To
  <2> QED BY <2>1, <2>2 DEF Did, To
<1>7. rules' = {IF r.id = id THEN [r EXCEPT !.to = to] ELSE r : r \in rules} BY DEF RepointRule
<1>8. rules \subseteq RuleRecords /\ (\A r, q \in rules : r.id = q.id => r = q)
  BY DEF TrunksInv, TrunksTyped, RulesKnown
<1>9. to # "blank" BY FilesAssumption
<1> SUFFICES ASSUME NEW r \in rules, NEW q \in rules', r.id = q.id, r.to # q.to
             PROVE  (import[i].current /\ i \notin changedUnder) =>
                       \E k \in import[i].moving : Parsed(import[i].sheet)[k] = <<r.did, q.to>>
  BY DEF Moved
<1>10. r.id = id /\ q.to = to
  <2>1. PICK x \in rules : q = IF x.id = id THEN [x EXCEPT !.to = to] ELSE x BY <1>7
  <2>2. CASE x.id = id
    <3>1. x \in RuleRecords /\ q = [x EXCEPT !.to = to] BY <1>8, <2>1, <2>2
    <3>2. q.id = x.id /\ q.to = to BY <3>1 DEF RuleRecords
    <3> QED BY <2>2, <3>2
  <2>3. CASE x.id # id
    <3>1. q = x BY <2>1, <2>3
    <3>2. q = r BY <1>8, <3>1
    <3> QED BY <3>2
  <2> QED BY <2>2, <2>3
<1>11. r.trunk = old.trunk /\ r.did = d
  <2>1. id = old.map[d].id BY <1>1
  <2> QED BY <1>2, <1>10, <2>1 DEF ImportFine, MapFits
<1>12. (old.current /\ i \notin changedUnder) => \E k \in old.moving : Parsed(old.sheet)[k] = row
  <2> SUFFICES ASSUME old.current, i \notin changedUnder PROVE \E k \in old.moving : Parsed(old.sheet)[k] = row
    OBVIOUS
  <2>1. NamedAll(old) BY <1>2 DEF ImportFine
  <2>2. r \in Numbered(old.trunk, d) /\ r.to # To(row) BY <1>6, <1>10, <1>11 DEF Numbered
  <2> QED BY <1>2, <1>4, <1>5, <1>6, <1>9, <2>1, <2>2 DEF NamedAll
<1> QED BY <1>1, <1>6, <1>10, <1>11, <1>12

LEMMA RoutedMoved == ASSUME TrunksInv, NEW i \in Importers, RouteDid(i) PROVE Moved
<1> DEFINE row == Head(import[i].rows)
           was == import[i].map[Did(row)]
<1>1. import[i].at = "placing" /\ import[i].rows # << >> BY DEF RouteDid
<1>2. CASE UNCHANGED rules BY <1>2, SameRulesMoved
<1>3. CASE CreateRule(i, row) BY <1>3, CreatedMoved
<1>4. CASE RepointRule(i, row, was.id) /\ To(row) \in Desks /\ Repoints(import[i].mode)
  <2>1. PICK old \in ImportRecords : old = import[i] BY DEF TrunksInv, TrunksTyped
  <2>2. old.rows \in Seq(Rows) /\ old.rows # << >> BY <1>1, <2>1 DEF ImportRecords
  <2>3. row \in Rows BY <2>1, <2>2, RowsLeft
  <2>4. PICK d \in Dids : d = Did(row) BY <2>3 DEF Rows, Did
  <2>5. PICK to \in Desks : to = To(row) BY <1>4
  <2>6. PICK id : id = import[i].map[d].id OBVIOUS
  <2>7. RepointRule(i, row, id) /\ import[i].mode = "replace" BY <1>4, <2>4, <2>6 DEF Repoints
  <2> HIDE DEF was
  <2> QED BY <1>1, <2>4, <2>5, <2>6, <2>7, RepointedMoved
<1> QED BY <1>2, <1>3, <1>4 DEF RouteDid, RulesUntouched

LEMMA NumbersStep == TrunksInv /\ [TrunksNext]_trunkVars => (Stays /\ Moved) \/ UNCHANGED trunkVars
<1> SUFFICES ASSUME TrunksInv, TrunksNext PROVE Stays /\ Moved OBVIOUS
<1>1. CASE UNCHANGED <<carries, rules>>
  <2>1. Stays BY <1>1 DEF Stays
  <2> QED BY <1>1, <2>1, SameRulesMoved
<1>2. ASSUME NEW i \in Importers, MergeDids(i) PROVE Stays /\ Moved
  <2>1. UNCHANGED rules BY <1>2 DEF MergeDids
  <2> QED BY <1>2, <2>1, MergedStays, SameRulesMoved
<1>3. ASSUME NEW i \in Importers, RouteDid(i) PROVE Stays /\ Moved
  <2>1. UNCHANGED carries BY <1>3 DEF RouteDid
  <2>2. Stays BY <2>1 DEF Stays
  <2> QED BY <1>3, <2>2, RoutedMoved
<1>4. CASE ConsoleTrunks BY <1>4 DEF Stays, Moved
<1>5. ASSUME NEW i \in Importers, NEW t \in Trunks, NEW sheet \in Files,
             PreviewDids(i, t, sheet) \/ \E mode \in {"append", "replace"} : ProposeDids(i, t, sheet, mode)
      PROVE  UNCHANGED <<carries, rules>>
  BY <1>5 DEF PreviewDids, ProposeDids
<1>6. ASSUME NEW i \in Importers,
             \/ \E mode \in {"append", "replace"} : ImportDids(i, mode)
             \/ FindTrunk(i) \/ ReadRules(i) \/ AnswerImport(i)
      PROVE  UNCHANGED <<carries, rules>>
  BY <1>6 DEF ImportDids, FindTrunk, ReadRules, AnswerImport
<1>7. CASE ListTrunks BY <1>1, <1>7 DEF ListTrunks
<1> QED BY <1>1, <1>2, <1>3, <1>4, <1>5, <1>6, <1>7 DEF TrunksNext

\* An inbound number rings in one place, unless an answer was lost or somebody
\* at the console got into an import; and an import that answered did what it says.
THEOREM TrunksKept == TrunksSpec => []TrunksKeepTheirWord
<1>1. TrunksInv /\ [TrunksNext]_trunkVars => TrunksInv' BY TrunksStep
<1>2. TrunksInv /\ KeptOne /\ [TrunksNext]_trunkVars => KeptOne' BY KeptStays
<1>3. TrunksInit => KeptOne BY DEF TrunksInit, KeptOne
<1> QED BY <1>1, <1>2, <1>3, FoundTrunks, TrunksKnown, PTL DEF TrunksSpec

\* No import takes a number off a trunk that its merge has read, or points a
\* number elsewhere that its screen, given the rules as they were, did not say would
\* move.
THEOREM NumbersKept == TrunksSpec => NumbersMoveAsShown
<1>1. TrunksInv /\ [TrunksNext]_trunkVars => TrunksInv' BY TrunksStep
<1>2. TrunksInv /\ [TrunksNext]_trunkVars => [Stays]_trunkVars /\ [Moved]_trunkVars BY NumbersStep
<1>3. TrunksSpec => [][Stays]_trunkVars /\ [][Moved]_trunkVars
  BY <1>1, <1>2, FoundTrunks, PTL DEF TrunksSpec
<1> QED BY <1>3 DEF NumbersMoveAsShown, NumbersStay, MovedAsShown, Stays, Moved

=============================================================================
