----------------------------- MODULE MCHelpdesk -----------------------------
(***************************************************************************)
(* Screens, Recall and the helpdesk's plugin for TLC.  Each behaviour      *)
(* exercises one part of them, chosen at the beginning: the cache under    *)
(* every scope of forgetting, the webhook's address, the index of tickets, *)
(* writes with their retries, tokens that change, or what is put together  *)
(* from the helpdesk's lists.  (Screens_live.cfg checks the composition    *)
(* Screens itself.)                                                        *)
(***************************************************************************)
EXTENDS Screens, Recall, Syncro, Histories, SequencesExt, TLC

VARIABLE part

mcVars == <<part, vars, recallVars, syncroVars, deskVars>>

One(S) == CHOOSE x \in S : TRUE

MCInit ==
  /\ part \in {"cache", "forgetting", "addresses", "recall", "writes", "tokens", "timeline", "lists"}
  /\ CacheInit /\ LiveInit /\ RecallInit /\ SyncroInit
  /\ tickets = One(SetToSeqs(Tickets))
  /\ part # "timeline" => thread = <<>> /\ booked = <<>> /\ zone = 0
  /\ part # "lists" => pile = <<>> /\ owed = <<>>
  /\ HistoriesInit
  /\ pile = <<>> \/ owed = <<>>
  /\ part \notin {"writes", "tokens"} => saved = CHOOSE t \in Tokens : TRUE
  /\ part # "tokens" => grants = [t \in Tokens |-> {"tickets"}]
  /\ HookInit(FALSE)

\* One message, whoever wrote it and however it is marked, or two of which none of
\* ours is marked as a customer's (one that is may be added); time logged on this
\* ticket and others.
Said(hr, from) == [at |-> hr, from |-> from]
Logged(ours, hr) == [ours |-> ours, at |-> hr]
Plain == {o \in Origins : o.by = "tech" => ~o.says /\ o.named}
MCThreads == {<<>>} \cup {<<Said(1, f)>> : f \in Origins} \cup {<<Said(1, f), Said(2, g)>> : f \in Plain, g \in Plain}
MCBooks == {<<>>, <<Logged(TRUE, 1)>>, <<Logged(FALSE, 2), Logged(TRUE, 0)>>, <<Logged(TRUE, 2), Logged(TRUE, 1)>>,
            <<Logged(FALSE, 2), Logged(FALSE, 2), Logged(TRUE, 1)>>}

\* Two read at once, of which one by name; the other reads once.
Asks(r, by) ==
  /\ r # One(Readers) => by = "read" /\ ~reader[r].answered
  /\ \E e \in Entries : Ask(r, e, by)
ReadingPart ==
  /\ \/ \E r \in Readers : ReadStep(r) \/ RefreshStep(r)
     \/ \E r \in Readers, by \in Paths : Asks(r, by)
     \/ \E e \in Entries : Age(e) \/ Prune(e)
     \/ Change
  /\ UNCHANGED <<liveVars, hookVars>>

\* Beside changes made here, or beside changes nobody announces, deliveries and
\* disconnections.
WritingPart == (\E w \in Writers : Write(w) \/ AfterChange(w)) /\ UNCHANGED <<liveVars, hookVars>>
ForgettingPart ==
  /\ (\E w \in Writers : Invoke(w)) \/ \E S \in SUBSET Entries \ {{}} : ForgetSome(S)
  /\ UNCHANGED <<liveVars, hookVars>>

\* One ticket moves, or something fails.
RecallPart ==
  /\ RecallNext /\ (moved' = {} \/ mishaps' = 0) /\ Cardinality(moved') <= 1
  /\ (\E b \in Backfills : pass'[b].at # "idle") => pass'[One(Backfills)].at # "idle"

\* Calls while no token changes.
WritesPart ==
  \/ OrderNext
  \/ \E r \in Resources, answered \in BOOLEAN : Probe("guard", r, answered)

\* Tokens that change, at most one request without an answer, and one call that
\* only reads.
TokensPart ==
  /\ TokenNext \/ OrderNext \/ Minute
  /\ outages' <= 1
  /\ \A o \in Orders : order'[o].tool \in {"none", "search"} /\ order'[o].told # "silence"
  /\ \E o \in Orders : order'[o].at = "idle"

MCNext ==
  /\ UNCHANGED part
  /\ \/ part = "cache" /\ (ReadingPart \/ WritingPart) /\ UNCHANGED <<recallVars, syncroVars, deskVars>>
     \/ part = "cache" /\ (\E w \in Writers : WriteAnnounced(w)) /\ UNCHANGED <<recallVars, syncroVars, deskVars>>
     \/ part = "forgetting" /\ (ReadingPart \/ ForgettingPart) /\ UNCHANGED <<recallVars, syncroVars, deskVars>>
     \/ part = "addresses" /\ (\E a \in Askers : HooksAlone(a)) /\ UNCHANGED <<recallVars, syncroVars, deskVars>>
     \/ part = "recall" /\ RecallPart /\ UNCHANGED <<vars, syncroVars, deskVars>>
     \/ part = "writes" /\ WritesPart /\ UNCHANGED <<vars, recallVars, deskVars>>
     \/ part = "tokens" /\ TokensPart /\ UNCHANGED <<vars, recallVars, deskVars>>
     \/ part = "timeline" /\ (ReadTicket \/ (\E yes \in BOOLEAN : ReadTimers(yes) \/ Book(yes)) \/ \E from \in Origins : AddMessage(from))
        /\ UNCHANGED <<vars, recallVars, syncroVars>>
     \/ part = "lists" /\ (SearchOpen \/ ReadPage \/ ReadStanding \/ NewTicket \/ \E i \in DOMAIN pile, done \in BOOLEAN : Touch(i, done))
        /\ UNCHANGED <<vars, recallVars, syncroVars>>

MCSpec == MCInit /\ [][MCNext]_mcVars

=============================================================================
