---------------------------- MODULE OfficeProofs ----------------------------
(***************************************************************************)
(* Theorems about Settings, Registry, Conversation, Listings, Keys and     *)
(* PhoneLine, for any people, plugins, questions, phone systems and        *)
(* bounds: a stored secret can be opened, the settings and the write       *)
(* switch keep each other, and what was changed is used no more; a         *)
(* decision about a tool stands; a model that is stuck is stopped, and     *)
(* what was typed is kept; a list read a page at a time is whole or says   *)
(* that it is not; keys are written whole and in order; a request goes to  *)
(* the phone system it was meant for.                                      *)
(***************************************************************************)
EXTENDS Settings, Registry, Conversation, Listings, Keys, PhoneLine, FiniteSetTheorems, SequenceTheorems, TLAPS

(***************************************************************************)
(* The inductive invariant.                                                *)
(***************************************************************************)

\* The types of SettingsTypeOK, with changer and kept as functions.
IsChanger == [op : {"none", "settings", "switch", "put", "clear", "delete", "rotate"},
              at : {"idle", "entered", "loaded", "stored", "moving", "over"},
              secrets : SUBSET Secrets, to : BOOLEAN, seen : IsConfig, ref : Nat,
              todo : SUBSET [of : Secrets, was : IsRow]]
Typed ==
  /\ row \in [Secrets -> IsRow] /\ config \in IsConfig
  /\ keys \subseteq 1..MaxKeys /\ current \in keys
  /\ saves \in Nat /\ notices \in Nat /\ lapses \in 0..MaxLapses
  /\ changer \in [Changers -> IsChanger]
  /\ kept \in [Kinds -> {{}} \cup {{n} : n \in Nat}]
  /\ call \in [Calls -> [of : Kinds, at : {"idle", "asking", "holding", "over"}, got : Nat]]
  /\ rotated \in BOOLEAN /\ crossed \in BOOLEAN /\ mixed \subseteq Secrets
  /\ asked \in [value : Nat, writes : BOOLEAN] /\ floor \in [Kinds -> Nat]

\* A row carries the number of the save that made it and of the last one into
\* it, and is wrapped with a key that is loaded; the data key is the value's
\* own, unless a rotation met a save.
RowsOpen ==
  \A s \in Secrets :
    /\ row[s].value <= saves
    /\ row[s].id = 0 => row[s].value = 0
    /\ row[s].id # 0 =>
         /\ row[s].value > 0
         /\ row[s].under = row[s].version /\ row[s].version \in keys
         /\ row[s].dek = row[s].value \/ s \in mixed

\* What a rotation still has in hand: whatever is not on the current key, as it
\* was when it was read, with its own data key, unless it has changed since.
Moving(a) == changer[a].op = "rotate" /\ changer[a].at = "moving"
TodoIsTrue(a) ==
  /\ \A s \in Secrets : row[s].id # 0 /\ row[s].version # current =>
       \E p \in changer[a].todo : p.of = s /\ p.was.id = row[s].id
  /\ \A p \in changer[a].todo :
       /\ p.was.id # 0 /\ p.was.value > 0 /\ p.was.value <= saves
       /\ p.was.dek = p.was.value \/ p.of \in mixed \/ row[p.of].value # p.was.value
RotationsAreTrue ==
  /\ \A a \in Changers : Moving(a) => TodoIsTrue(a)
  /\ rotated => \A s \in Secrets : row[s].id # 0 => row[s].version = current

\* While saves do not overlap, whoever is about to replace the configuration
\* has read the one there is.
ReadersAreCurrent == ~crossed => \A a \in Replacing : changer[a].seen = config

\* What core can hand out, and what the plugin has of it, is never older than
\* the plugin may use.
AnswersAreRecent ==
  /\ config.rev >= floor["config"] /\ config.rev <= saves
  /\ \A s \in Secrets : /\ floor[s] <= saves + 1
                        /\ row[s].id # 0 => row[s].value >= floor[s]
  /\ \A c \in Calls : call[c].at = "holding" => call[c].got >= floor[call[c].of]

SettingsInv ==
  /\ Typed
  /\ RowsOpen
  /\ RotationsAreTrue
  /\ SettingsKeptUndisturbed
  /\ ReadersAreCurrent
  /\ AnswersAreRecent
  /\ ChangesReachPlugins

-----------------------------------------------------------------------------
(***************************************************************************)
(* Every step keeps the invariant.                                         *)
(***************************************************************************)

LEMMA SettingsStart == SettingsInit => SettingsInv
<1> SUFFICES ASSUME SettingsInit PROVE SettingsInv
  OBVIOUS
<1> USE SettingsAssumption DEF SettingsInit
<1>1. Typed
  <2>1. Idle \in IsChanger
    BY DEF Idle, IsChanger, IsConfig
  <2>2. rotated \in BOOLEAN /\ crossed \in BOOLEAN
    BY Zenon
  <2>3. kept \in [Kinds -> {{}} \cup {{n} : n \in Nat}]
    OBVIOUS
  <2>4. QED
    BY <2>1, <2>2, <2>3 DEF Typed, IsRow, NoRow, IsConfig, Kinds
<1>2. RowsOpen
  BY DEF RowsOpen, NoRow
<1>3. RotationsAreTrue
  BY DEF RotationsAreTrue, Moving, Idle
<1>4. SettingsKeptUndisturbed /\ ReadersAreCurrent
  BY DEF SettingsKeptUndisturbed, ReadersAreCurrent, Replacing, Idle
<1>5. AnswersAreRecent
  BY DEF AnswersAreRecent, Kinds, NoRow
<1>6. ChangesReachPlugins
  BY DEF ChangesReachPlugins
<1>7. QED
  BY <1>1, <1>2, <1>3, <1>4, <1>5, <1>6 DEF SettingsInv

\* One request becomes another record, the others stay.
LEMMA OneChanges ==
  ASSUME Typed, NEW a \in Changers, NEW c \in IsChanger, changer' = [changer EXCEPT ![a] = c]
  PROVE  /\ changer' \in [Changers -> IsChanger]
         /\ \A b \in Changers : changer'[b] = IF b = a THEN c ELSE changer[b]
BY DEF Typed

\* While no row changes, and no request becomes a rotation at work, what
\* rotations have in hand stays true.
LEMMA RotationsStay ==
  ASSUME Typed, RotationsAreTrue, UNCHANGED <<row, current, rotated, mixed>>,
         saves' \in {saves, saves + 1},
         \A b \in Changers : Moving(b)' => Moving(b) /\ changer'[b].todo = changer[b].todo
  PROVE  RotationsAreTrue'
<1>1. ASSUME NEW b \in Changers, Moving(b)'
      PROVE  TodoIsTrue(b)'
  <2>1. TodoIsTrue(b) /\ changer'[b].todo = changer[b].todo
    BY <1>1 DEF RotationsAreTrue
  <2>2. changer[b].todo \in SUBSET [of : Secrets, was : IsRow]
    BY DEF Typed, IsChanger
  <2>3. QED
    BY <2>1, <2>2 DEF TodoIsTrue, Typed, IsRow
<1>2. QED
  BY <1>1 DEF RotationsAreTrue

\* A request that reads, waits, fails or ends: it changes by itself, no rotation
\* begins, and it is about to replace the configuration only if it read it.
LEMMA RequestMoves ==
  ASSUME SettingsInv, NEW a \in Changers, NEW c \in IsChanger,
         changer' = [changer EXCEPT ![a] = c],
         c.op = "rotate" /\ c.at = "moving" =>
           changer[a].op = "rotate" /\ changer[a].at = "moving" /\ c.todo = changer[a].todo,
         c.op \in {"settings", "switch"} /\ c.at = "loaded" =>
           c.seen = config \/ (a \in Replacing /\ c.seen = changer[a].seen),
         UNCHANGED <<row, config, keys, current, rotated, saves, kept, call, floor, mixed, crossed, asked>>,
         notices' \in Nat, lapses' \in 0 .. MaxLapses
  PROVE  SettingsInv'
<1> USE DEF SettingsInv
<1>1. /\ changer' \in [Changers -> IsChanger]
      /\ \A b \in Changers : changer'[b] = IF b = a THEN c ELSE changer[b]
  BY OneChanges
<1>2. Typed' /\ RowsOpen'
  BY <1>1 DEF Typed, RowsOpen
<1>3. RotationsAreTrue'
  <2>1. \A b \in Changers : Moving(b)' => Moving(b) /\ changer'[b].todo = changer[b].todo
    BY <1>1 DEF Moving
  <2>2. QED
    BY <2>1, RotationsStay
<1>4. ReadersAreCurrent'
  BY <1>1 DEF ReadersAreCurrent, Replacing
<1>5. SettingsKeptUndisturbed' /\ AnswersAreRecent' /\ ChangesReachPlugins'
  BY DEF SettingsKeptUndisturbed, AnswersAreRecent, ChangesReachPlugins, Kinds
<1>6. QED
  BY <1>2, <1>3, <1>4, <1>5

\* A request arrives.
LEMMA SubmitKeeps ==
  ASSUME SettingsInv, NEW a \in Changers,
         NEW op \in {"settings", "switch", "put", "clear", "delete", "rotate"},
         NEW S \in SUBSET Secrets, NEW to \in BOOLEAN, Submit(a, op, S, to)
  PROVE  SettingsInv'
<1> DEFINE c == [Idle EXCEPT !.op = op, !.at = "entered", !.secrets = S, !.to = to]
<1>1. c \in IsChanger /\ c.at = "entered"
  BY DEF Idle, IsChanger, SettingsInv, Typed
<1>2. changer' = [changer EXCEPT ![a] = c]
  BY DEF Submit
<1>3. /\ UNCHANGED <<row, config, keys, current, rotated, saves, kept, call, floor, mixed, crossed, asked>>
      /\ notices' \in Nat /\ lapses' \in 0 .. MaxLapses
  BY DEF Submit, vaultVars, pluginVars, SettingsInv, Typed
<1> HIDE DEF c
<1>4. QED
  BY <1>1, <1>2, <1>3, RequestMoves

\* A request fails, reads the configuration, looks a row up, or tells the plugins.
LEMMA RequestReads ==
  ASSUME SettingsInv, NEW a \in Changers,
         Fail(a) \/ Load(a) \/ AnnounceChange(a) \/ \E s \in Secrets : FindRef(a, s)
  PROVE  SettingsInv'
<1> USE SettingsAssumption DEF vaultVars, pluginVars, Moves
<1>1. changer[a] \in IsChanger /\ config \in IsConfig /\ notices \in Nat /\ lapses \in 0 .. MaxLapses
  BY DEF SettingsInv, Typed
<1> DEFINE over == [changer[a] EXCEPT !.at = "over"]
<1>2. over \in IsChanger /\ over.at = "over"
  BY <1>1 DEF IsChanger
<1>3. CASE Fail(a)
  <2>1. changer' = [changer EXCEPT ![a] = over]
    BY <1>3 DEF Fail
  <2>2. /\ UNCHANGED <<row, config, keys, current, rotated, saves, kept, call, floor, mixed, crossed, asked>>
        /\ notices' \in Nat /\ lapses' \in 0 .. MaxLapses
    BY <1>1, <1>3 DEF Fail
  <2> HIDE DEF over
  <2>3. QED
    BY <1>2, <2>1, <2>2, RequestMoves
<1>4. CASE AnnounceChange(a)
  <2>1. changer' = [changer EXCEPT ![a] = over]
    BY <1>4 DEF AnnounceChange
  <2>2. /\ UNCHANGED <<row, config, keys, current, rotated, saves, kept, call, floor, mixed, crossed, asked>>
        /\ notices' \in Nat /\ lapses' \in 0 .. MaxLapses
    BY <1>1, <1>4 DEF AnnounceChange
  <2> HIDE DEF over
  <2>3. QED
    BY <1>2, <2>1, <2>2, RequestMoves
<1>5. CASE Load(a)
  <2>1. PICK c \in IsChanger : /\ c.at = "loaded" /\ c.seen = config
                               /\ changer' = [changer EXCEPT ![a] = c]
    <3>1. [changer[a] EXCEPT !.at = "loaded", !.seen = config] \in IsChanger
      BY <1>1 DEF IsChanger
    <3>2. /\ [changer[a] EXCEPT !.at = "loaded", !.seen = config].at = "loaded"
          /\ [changer[a] EXCEPT !.at = "loaded", !.seen = config].seen = config
      BY <1>1 DEF IsChanger
    <3>3. changer' = [changer EXCEPT ![a] = [changer[a] EXCEPT !.at = "loaded", !.seen = config]]
      BY <1>5 DEF Load
    <3>4. QED
      BY <3>1, <3>2, <3>3, Zenon
  <2>2. /\ UNCHANGED <<row, config, keys, current, rotated, saves, kept, call, floor, mixed, crossed, asked>>
        /\ notices' \in Nat /\ lapses' \in 0 .. MaxLapses
    BY <1>1, <1>5 DEF Load
  <2>3. c.op = "rotate" /\ c.at = "moving" =>
          changer[a].op = "rotate" /\ changer[a].at = "moving" /\ c.todo = changer[a].todo
    BY <2>1
  <2>4. c.op \in {"settings", "switch"} /\ c.at = "loaded" =>
          c.seen = config \/ (a \in Replacing /\ c.seen = changer[a].seen)
    BY <2>1
  <2>5. QED
    BY <2>1, <2>2, <2>3, <2>4, RequestMoves, Zenon
<1>6. ASSUME NEW s \in Secrets, FindRef(a, s)
      PROVE  SettingsInv'
  <2>1. /\ UNCHANGED <<row, config, keys, current, rotated, saves, kept, call, floor, mixed, crossed, asked>>
        /\ notices' \in Nat /\ lapses' \in 0 .. MaxLapses
    BY <1>1, <1>6 DEF FindRef
  <2>2. CASE row[s].id = 0
    <3>1. changer' = [changer EXCEPT ![a] = over]
      BY <1>6, <2>2 DEF FindRef
    <3> HIDE DEF over
    <3>2. QED
      BY <1>2, <2>1, <3>1, RequestMoves
  <2>3. CASE row[s].id # 0
    <3> DEFINE c == [changer[a] EXCEPT !.at = "loaded", !.ref = row[s].id]
    <3>1. changer' = [changer EXCEPT ![a] = c] /\ changer[a].op \in {"clear", "delete"}
      BY <1>6, <2>3 DEF FindRef
    <3>2. c \in IsChanger /\ c.at = "loaded" /\ c.op \in {"clear", "delete"}
      <4>1. row[s].id \in Nat
        BY DEF SettingsInv, Typed, IsRow
      <4>2. QED
        BY <1>1, <3>1, <4>1 DEF IsChanger
    <3> HIDE DEF c
    <3>3. QED
      BY <2>1, <3>1, <3>2, RequestMoves
  <2>4. QED
    BY <2>2, <2>3
<1>7. QED
  BY <1>3, <1>4, <1>5, <1>6

\* What storing one secret does, in a form or by itself.
LEMMA PutKeeps ==
  ASSUME SettingsInv, NEW s \in Secrets, Put(s),
         UNCHANGED <<config, keys, current, rotated, kept, call, floor, notices, crossed, asked, lapses>>,
         NEW a \in Changers, NEW c \in IsChanger, changer' = [changer EXCEPT ![a] = c],
         c.op # "rotate",
         c.op \in {"settings", "switch"} /\ c.at = "loaded" => a \in Replacing /\ c.seen = changer[a].seen
  PROVE  SettingsInv'
<1> USE SettingsAssumption DEF SettingsInv
<1>1. /\ changer' \in [Changers -> IsChanger]
      /\ \A b \in Changers : changer'[b] = IF b = a THEN c ELSE changer[b]
  BY OneChanges
<1> DEFINE new == [id |-> IF row[s].id = 0 THEN saves + 1 ELSE row[s].id, value |-> saves + 1,
                   dek |-> saves + 1, under |-> current, version |-> current]
<1>2. /\ row' = [row EXCEPT ![s] = new]
      /\ saves' = saves + 1 /\ mixed' = mixed \ {s}
  BY DEF Put, Upsert, Seal
<1>3. /\ new \in IsRow /\ new.id # 0 /\ (row[s].id # 0 => new.id = row[s].id)
      /\ new.value = saves + 1 /\ new.dek = saves + 1 /\ new.under = current /\ new.version = current
  BY DEF Typed, IsRow
<1> HIDE DEF new
<1>4. \A t \in Secrets : row'[t] = IF t = s THEN new ELSE row[t]
  BY <1>2 DEF Typed
<1>5. Typed'
  BY <1>1, <1>2, <1>3 DEF Typed
<1>6. RowsOpen'
  BY <1>2, <1>3, <1>4 DEF RowsOpen, Typed, IsRow
<1>7. RotationsAreTrue'
  <2>1. ASSUME NEW b \in Changers, Moving(b)'
        PROVE  TodoIsTrue(b)'
    <3>1. Moving(b) /\ changer'[b] = changer[b] /\ TodoIsTrue(b)
      BY <1>1, <2>1 DEF Moving, RotationsAreTrue
    <3>2. ASSUME NEW t \in Secrets, row'[t].id # 0, row'[t].version # current'
          PROVE  \E p \in changer'[b].todo : p.of = t /\ p.was.id = row'[t].id
      <4>1. row'[t] = row[t]
        BY <1>3, <1>4, <3>2
      <4>2. QED
        BY <3>1, <3>2, <4>1 DEF TodoIsTrue
    <3>3. ASSUME NEW p \in changer'[b].todo
          PROVE  /\ p.was.id # 0 /\ p.was.value > 0 /\ p.was.value <= saves'
                 /\ p.was.dek = p.was.value \/ p.of \in mixed' \/ row'[p.of].value # p.was.value
      <4>1. p \in [of : Secrets, was : IsRow]
        BY <1>1, <3>3 DEF IsChanger
      <4>2. /\ p.was.id # 0 /\ p.was.value > 0 /\ p.was.value <= saves
            /\ p.was.dek = p.was.value \/ p.of \in mixed \/ row[p.of].value # p.was.value
        BY <3>1, <3>3 DEF TodoIsTrue
      <4>3. p.of \in Secrets /\ p.was.value \in Nat /\ saves \in Nat
        BY <4>1 DEF IsRow, Typed
      <4>4. CASE p.of = s
        BY <1>2, <1>3, <1>4, <4>2, <4>3, <4>4
      <4>5. CASE p.of # s
        BY <1>2, <1>4, <4>2, <4>3, <4>5
      <4>6. QED
        BY <4>4, <4>5
    <3>4. QED
      BY <3>2, <3>3 DEF TodoIsTrue
  <2>2. rotated' => \A t \in Secrets : row'[t].id # 0 => row'[t].version = current'
    BY <1>3, <1>4 DEF RotationsAreTrue
  <2>3. QED
    BY <2>1, <2>2 DEF RotationsAreTrue
<1>8. ReadersAreCurrent' /\ SettingsKeptUndisturbed'
  BY <1>1 DEF ReadersAreCurrent, Replacing, SettingsKeptUndisturbed
<1>9. AnswersAreRecent'
  <2>1. config.rev \in Nat /\ saves \in Nat
    BY DEF Typed, IsConfig
  <2>2. \A t \in Secrets : floor[t] \in Nat /\ floor[t] <= saves'
    BY <1>2, <2>1 DEF AnswersAreRecent, Typed, Kinds
  <2>3. \A t \in Secrets : floor[t] <= saves' + 1 /\ (row'[t].id # 0 => row'[t].value >= floor[t])
    BY <1>2, <1>3, <1>4, <2>1, <2>2 DEF AnswersAreRecent
  <2>4. QED
    BY <1>2, <2>1, <2>3 DEF AnswersAreRecent
<1>10. ChangesReachPlugins'
  BY DEF ChangesReachPlugins, Kinds
<1>11. QED
  BY <1>5, <1>6, <1>7, <1>8, <1>9, <1>10

\* A form stores its secrets one by one, a credential is stored by itself.
LEMMA StoringKeeps ==
  ASSUME SettingsInv, NEW a \in Changers, PutCredential(a) \/ \E s \in Secrets : PutOne(a, s)
  PROVE  SettingsInv'
<1> USE DEF vaultVars, pluginVars
<1>1. changer[a] \in IsChanger
  BY DEF SettingsInv, Typed
<1>2. CASE PutCredential(a)
  <2> DEFINE c == [changer[a] EXCEPT !.at = "stored"]
  <2>1. c \in IsChanger /\ c.at = "stored" /\ c.op = "put"
    BY <1>1, <1>2 DEF IsChanger, PutCredential, Doing
  <2>2. changer' = [changer EXCEPT ![a] = c]
    BY <1>2 DEF PutCredential, Moves
  <2>3. PICK s \in changer[a].secrets : Put(s)
    BY <1>2 DEF PutCredential
  <2>4. s \in Secrets
    BY <1>1 DEF IsChanger
  <2>5. UNCHANGED <<config, keys, current, rotated, kept, call, floor, notices, crossed, asked, lapses>>
    BY <1>2 DEF PutCredential
  <2> HIDE DEF c
  <2>6. QED
    BY <2>1, <2>2, <2>3, <2>4, <2>5, PutKeeps
<1>3. ASSUME NEW s \in Secrets, PutOne(a, s)
      PROVE  SettingsInv'
  <2> DEFINE c == [changer[a] EXCEPT !.secrets = @ \ {s}]
  <2>1. c \in IsChanger /\ c.op = "settings" /\ c.seen = changer[a].seen /\ a \in Replacing
    BY <1>1, <1>3 DEF IsChanger, PutOne, Doing, Replacing
  <2>2. changer' = [changer EXCEPT ![a] = c] /\ Put(s)
    BY <1>3 DEF PutOne
  <2>3. UNCHANGED <<config, keys, current, rotated, kept, call, floor, notices, crossed, asked, lapses>>
    BY <1>3 DEF PutOne
  <2> HIDE DEF c
  <2>4. QED
    BY <2>1, <2>2, <2>3, PutKeeps
<1>4. QED
  BY <1>2, <1>3

\* The configuration is replaced by what was read and what was asked.
LEMMA SaveKeeps ==
  ASSUME SettingsInv, NEW a \in Changers, Save(a)
  PROVE  SettingsInv'
<1> USE DEF SettingsInv, vaultVars, pluginVars
<1> DEFINE c == [changer[a] EXCEPT !.at = "stored"]
<1>1. changer[a] \in IsChanger /\ saves \in Nat /\ config \in IsConfig
  BY DEF Typed
<1>2. c \in IsChanger /\ c.at = "stored" /\ changer' = [changer EXCEPT ![a] = c]
  BY <1>1 DEF IsChanger, Save, Moves
<1> HIDE DEF c
<1>3. /\ changer' \in [Changers -> IsChanger]
      /\ \A b \in Changers : changer'[b] = IF b = a THEN c ELSE changer[b]
  BY <1>2, OneChanges
<1>4. /\ UNCHANGED <<row, keys, current, rotated, kept, call, floor, notices, mixed, lapses>>
      /\ saves' = saves + 1
  BY DEF Save
<1>5. config' \in IsConfig /\ config'.rev = saves + 1
  BY <1>1 DEF Save, IsConfig, IsChanger, CoreOwned
<1>6. asked' \in [value : Nat, writes : BOOLEAN]
  BY <1>1 DEF Save, IsChanger, Typed
<1>7. Typed' /\ RowsOpen'
  <2>1. crossed' \in BOOLEAN
    BY Zenon DEF Save, Typed
  <2>2. QED
    BY <1>1, <1>3, <1>4, <1>5, <1>6, <2>1 DEF Typed, RowsOpen, IsRow
<1>8. RotationsAreTrue'
  <2>1. \A b \in Changers : Moving(b)' => Moving(b) /\ changer'[b].todo = changer[b].todo
    BY <1>2, <1>3 DEF Moving
  <2>2. QED
    BY <1>4, <2>1, RotationsStay
<1>9. ASSUME ~crossed'
      PROVE  ~crossed /\ Replacing = {a} /\ changer[a].seen = config
  BY <1>9 DEF Save, ReadersAreCurrent
<1>10. SettingsKeptUndisturbed'
  <2>1. SUFFICES ASSUME ~crossed' PROVE config'.value = asked'.value /\ config'.writes = asked'.writes
    BY DEF SettingsKeptUndisturbed
  <2>2. config.value = asked.value /\ config.writes = asked.writes /\ changer[a].seen = config
    BY <1>9, <2>1 DEF SettingsKeptUndisturbed
  <2>3. QED
    BY <2>2 DEF Save, CoreOwned, Typed
<1>11. ReadersAreCurrent'
  <2>1. SUFFICES ASSUME ~crossed', NEW b \in Replacing' PROVE FALSE
    BY DEF ReadersAreCurrent
  <2>2. b \in Replacing /\ b # a
    BY <1>2, <1>3, <2>1 DEF Replacing
  <2>3. QED
    BY <1>9, <2>1, <2>2
<1>12. AnswersAreRecent' /\ ChangesReachPlugins'
  <2>1. config.rev \in Nat /\ floor \in [Kinds -> Nat]
    BY <1>1 DEF IsConfig, Typed
  <2>2. AnswersAreRecent'
    BY <1>1, <1>4, <1>5, <2>1 DEF AnswersAreRecent, Kinds
  <2>3. QED
    BY <1>4, <2>2 DEF ChangesReachPlugins
<1>13. QED
  BY <1>7, <1>8, <1>10, <1>11, <1>12

\* Deleting takes rows away, and changes none.
LEMMA DeletingKeeps ==
  ASSUME SettingsInv, NEW a \in Changers, DeleteRef(a)
  PROVE  SettingsInv'
<1> USE DEF SettingsInv, vaultVars, pluginVars
<1>1. changer[a] \in IsChanger /\ changer[a].op \in {"clear", "delete"}
  BY DEF Typed, DeleteRef
<1>2. PICK c \in IsChanger : c.at \in {"over", "stored"} /\ changer' = [changer EXCEPT ![a] = c]
  <2>1. \E at \in {"over", "stored"} : changer' = [changer EXCEPT ![a] = [changer[a] EXCEPT !.at = at]]
    BY DEF DeleteRef, Moves
  <2>2. \A at \in {"over", "stored"} :
          [changer[a] EXCEPT !.at = at] \in IsChanger /\ [changer[a] EXCEPT !.at = at].at = at
    BY <1>1 DEF IsChanger
  <2>3. QED
    BY <2>1, <2>2
<1>3. /\ changer' \in [Changers -> IsChanger]
      /\ \A b \in Changers : changer'[b] = IF b = a THEN c ELSE changer[b]
  BY <1>2, OneChanges
<1>4. \A s \in Secrets : row'[s] \in {row[s], NoRow}
  BY DEF DeleteRef
<1>5. UNCHANGED <<config, keys, current, rotated, saves, kept, call, floor, notices, mixed, crossed, asked, lapses>>
  BY DEF DeleteRef
<1>6. Typed'
  <2>1. NoRow \in IsRow
    BY DEF NoRow, IsRow
  <2>2. row' \in [Secrets -> IsRow]
    BY <2>1 DEF DeleteRef, Typed
  <2>3. QED
    BY <1>3, <1>5, <2>2 DEF Typed
<1>7. RowsOpen'
  BY <1>4, <1>5 DEF RowsOpen, NoRow, Typed
<1>8. RotationsAreTrue'
  <2>1. ASSUME NEW b \in Changers, Moving(b)'
        PROVE  TodoIsTrue(b)'
    <3>1. Moving(b) /\ changer'[b] = changer[b] /\ TodoIsTrue(b)
      BY <1>2, <1>3, <2>1 DEF Moving, RotationsAreTrue
    <3>2. changer[b].todo \subseteq [of : Secrets, was : IsRow]
      BY DEF Typed, IsChanger
    <3>3. QED
      BY <1>4, <1>5, <3>1, <3>2 DEF TodoIsTrue, NoRow, IsRow
  <2>2. rotated' => \A t \in Secrets : row'[t].id # 0 => row'[t].version = current'
    BY <1>4, <1>5 DEF RotationsAreTrue, NoRow
  <2>3. QED
    BY <2>1, <2>2 DEF RotationsAreTrue
<1>9. ReadersAreCurrent' /\ SettingsKeptUndisturbed'
  BY <1>2, <1>3, <1>5 DEF ReadersAreCurrent, Replacing, SettingsKeptUndisturbed
<1>10. AnswersAreRecent' /\ ChangesReachPlugins'
  BY <1>4, <1>5 DEF AnswersAreRecent, ChangesReachPlugins, NoRow, Kinds
<1>11. QED
  BY <1>6, <1>7, <1>8, <1>9, <1>10

\* A rotation takes in hand every row that is not on the current key.
LEMMA ScanKeeps ==
  ASSUME SettingsInv, NEW a \in Changers, Scan(a)
  PROVE  SettingsInv'
<1> USE DEF SettingsInv, vaultVars, pluginVars
<1> DEFINE T == {[of |-> s, was |-> row[s]] : s \in {t \in Secrets : row[t].id # 0 /\ row[t].version # current}}
           c == [changer[a] EXCEPT !.at = "moving", !.todo = T]
<1>1. changer[a] \in IsChanger /\ T \subseteq [of : Secrets, was : IsRow]
  BY DEF Typed
<1>2. c \in IsChanger /\ c.at = "moving" /\ c.op = "rotate" /\ c.todo = T
  BY <1>1 DEF IsChanger, Scan, Doing
<1>3. changer' = [changer EXCEPT ![a] = c]
  BY DEF Scan
<1>4. UNCHANGED <<row, config, keys, current, rotated, saves, kept, call, floor, notices, mixed, crossed, asked, lapses>>
  BY DEF Scan
<1> HIDE DEF c
<1>5. /\ changer' \in [Changers -> IsChanger]
      /\ \A b \in Changers : changer'[b] = IF b = a THEN c ELSE changer[b]
  BY <1>2, <1>3, OneChanges
<1>6. Typed' /\ RowsOpen'
  BY <1>4, <1>5 DEF Typed, RowsOpen
<1>7. RotationsAreTrue'
  <2>1. ASSUME NEW b \in Changers, Moving(b)'
        PROVE  TodoIsTrue(b)'
    <3>1. CASE b = a
      <4>1. changer'[b].todo = T
        BY <1>2, <1>5, <3>1
      <4>2. \A s \in Secrets : row[s].id # 0 /\ row[s].version # current =>
              [of |-> s, was |-> row[s]] \in T
        OBVIOUS
      <4>3. ASSUME NEW p \in T
            PROVE  /\ p.was.id # 0 /\ p.was.value > 0 /\ p.was.value <= saves
                   /\ p.was.dek = p.was.value \/ p.of \in mixed
        BY <4>3 DEF RowsOpen
      <4>4. ASSUME NEW s \in Secrets, row'[s].id # 0, row'[s].version # current'
            PROVE  \E p \in changer'[b].todo : p.of = s /\ p.was.id = row'[s].id
        <5>1. [of |-> s, was |-> row[s]] \in changer'[b].todo
          BY <1>4, <4>1, <4>2, <4>4
        <5>2. QED
          BY <1>4, <5>1
      <4>5. QED
        BY <1>4, <4>1, <4>3, <4>4 DEF TodoIsTrue
    <3>2. CASE b # a
      BY <1>4, <1>5, <2>1, <3>2 DEF Moving, RotationsAreTrue, TodoIsTrue
    <3>3. QED
      BY <3>1, <3>2
  <2>2. QED
    BY <1>4, <2>1 DEF RotationsAreTrue
<1>8. ReadersAreCurrent' /\ SettingsKeptUndisturbed'
  BY <1>2, <1>4, <1>5 DEF ReadersAreCurrent, Replacing, SettingsKeptUndisturbed
<1>9. AnswersAreRecent' /\ ChangesReachPlugins'
  BY <1>4 DEF AnswersAreRecent, ChangesReachPlugins, Kinds
<1>10. QED
  BY <1>6, <1>7, <1>8, <1>9

\* A rotation moves one data key: to the value it was made for, or into a row
\* that was replaced since, which is then mixed.
LEMMA MovingKeeps ==
  ASSUME SettingsInv, NEW a \in Changers, NEW p \in changer[a].todo, MoveOne(a, p)
  PROVE  SettingsInv'
<1> USE DEF SettingsInv, vaultVars, pluginVars
<1>1. changer[a] \in IsChanger /\ p \in [of : Secrets, was : IsRow] /\ Moving(a)
  BY DEF Typed, IsChanger, MoveOne, Doing, Moving
<1>2. UNCHANGED <<config, keys, current, rotated, saves, kept, call, floor, notices, crossed, asked, lapses>>
  BY DEF MoveOne
<1>3. CASE ~(p.was.version \in keys /\ p.was.under = p.was.version)
  <2> DEFINE c == [changer[a] EXCEPT !.at = "over"]
  <2>1. c \in IsChanger /\ c.at = "over"
    BY <1>1 DEF IsChanger
  <2>2. changer' = [changer EXCEPT ![a] = c] /\ UNCHANGED <<row, mixed>>
    BY <1>3 DEF MoveOne, Moves
  <2>3. notices' \in Nat /\ lapses' \in 0 .. MaxLapses
    BY <1>2 DEF Typed
  <2> HIDE DEF c
  <2>4. QED
    BY <1>2, <2>1, <2>2, <2>3, RequestMoves
<1>4. CASE p.was.version \in keys /\ p.was.under = p.was.version
  <2> DEFINE s == p.of
             same == row[s].id = p.was.id
             new == [row[s] EXCEPT !.dek = p.was.dek, !.under = current, !.version = current]
             c == [changer[a] EXCEPT !.todo = @ \ {p}]
  <2>1. c \in IsChanger /\ c.op = changer[a].op /\ c.at = changer[a].at /\ c.todo = changer[a].todo \ {p}
    BY <1>1 DEF IsChanger
  <2>2. changer' = [changer EXCEPT ![a] = c]
    BY <1>4 DEF MoveOne
  <2>3. row' = [row EXCEPT ![s] = IF same THEN new ELSE row[s]]
    BY <1>4 DEF MoveOne, Rewrap
  <2>4. mixed' = IF same /\ row[s].value # p.was.value THEN mixed \cup {s} ELSE mixed
    BY <1>4 DEF MoveOne
  <2>5. s \in Secrets /\ row[s] \in IsRow /\ p.was \in IsRow /\ current \in Nat
    <3>1. s \in Secrets /\ p.was \in IsRow BY <1>1
    <3>2. row[s] \in IsRow BY <3>1 DEF Typed
    <3>3. current \in Nat BY SettingsAssumption DEF Typed
    <3> QED BY <3>1, <3>2, <3>3
  <2>6. /\ new \in IsRow /\ new.id = row[s].id /\ new.value = row[s].value
        /\ new.dek = p.was.dek /\ new.under = current /\ new.version = current
    BY <2>5 DEF IsRow
  <2>7. /\ p.was.id # 0 /\ p.was.value > 0
        /\ p.was.dek = p.was.value \/ s \in mixed \/ row[s].value # p.was.value
    BY <1>1 DEF RotationsAreTrue, TodoIsTrue
  <2> HIDE DEF c, new, s
  <2>8. /\ changer' \in [Changers -> IsChanger]
        /\ \A b \in Changers : changer'[b] = IF b = a THEN c ELSE changer[b]
    BY <2>1, <2>2, OneChanges
  <2>9. \A t \in Secrets : row'[t] = IF t = s /\ same THEN new ELSE row[t]
    BY <2>3 DEF Typed
  <2>10. Typed'
    BY <1>2, <2>3, <2>4, <2>5, <2>6, <2>8 DEF Typed
  <2>11. RowsOpen'
    <3>1. ASSUME NEW t \in Secrets
          PROVE  /\ row'[t].value <= saves'
                 /\ row'[t].id = 0 => row'[t].value = 0
                 /\ row'[t].id # 0 =>
                      /\ row'[t].value > 0
                      /\ row'[t].under = row'[t].version /\ row'[t].version \in keys'
                      /\ row'[t].dek = row'[t].value \/ t \in mixed'
      <4>1. CASE t = s /\ same
        BY <1>2, <2>4, <2>6, <2>7, <2>9, <4>1 DEF RowsOpen, Typed
      <4>2. CASE ~(t = s /\ same)
        BY <1>2, <2>4, <2>9, <4>2 DEF RowsOpen
      <4>3. QED
        BY <4>1, <4>2
    <3>2. QED
      BY <3>1 DEF RowsOpen
  <2>12. RotationsAreTrue'
    <3>1. ASSUME NEW b \in Changers, Moving(b)'
          PROVE  TodoIsTrue(b)'
      <4>1. Moving(b) /\ TodoIsTrue(b) /\ changer'[b].todo \subseteq changer[b].todo
        BY <2>1, <2>8, <3>1, <1>1 DEF Moving, RotationsAreTrue
      <4>2. ASSUME NEW t \in Secrets, row'[t].id # 0, row'[t].version # current'
            PROVE  \E q \in changer'[b].todo : q.of = t /\ q.was.id = row'[t].id
        <5>1. row'[t] = row[t] /\ ~(t = s /\ same)
          BY <1>2, <2>6, <2>9, <4>2
        <5>2. PICK q \in changer[b].todo : q.of = t /\ q.was.id = row[t].id
          BY <1>2, <4>1, <4>2, <5>1 DEF TodoIsTrue
        <5>3. q # p
          BY <5>1, <5>2 DEF s
        <5>4. QED
          BY <2>1, <2>8, <5>1, <5>2, <5>3
      <4>3. ASSUME NEW q \in changer'[b].todo
            PROVE  /\ q.was.id # 0 /\ q.was.value > 0 /\ q.was.value <= saves'
                   /\ q.was.dek = q.was.value \/ q.of \in mixed' \/ row'[q.of].value # q.was.value
        <5>1. q \in changer[b].todo /\ q.of \in Secrets
          BY <4>1, <4>3 DEF Typed, IsChanger
        <5>2. row'[q.of].value = row[q.of].value
          BY <2>6, <2>9, <5>1
        <5>3. mixed \subseteq mixed'
          BY <2>4
        <5>4. QED
          BY <1>2, <4>1, <5>1, <5>2, <5>3 DEF TodoIsTrue
      <4>4. QED
        BY <4>2, <4>3 DEF TodoIsTrue
    <3>2. rotated' => \A t \in Secrets : row'[t].id # 0 => row'[t].version = current'
      BY <1>2, <2>6, <2>9 DEF RotationsAreTrue
    <3>3. QED
      BY <3>1, <3>2 DEF RotationsAreTrue
  <2>13. ReadersAreCurrent' /\ SettingsKeptUndisturbed'
    BY <1>1, <1>2, <2>1, <2>8 DEF ReadersAreCurrent, Replacing, SettingsKeptUndisturbed, Moving
  <2>14. AnswersAreRecent'
    <3>1. \A t \in Secrets : row'[t].id = row[t].id /\ row'[t].value = row[t].value
      BY <2>6, <2>9
    <3>2. QED
      BY <1>2, <3>1 DEF AnswersAreRecent
  <2>15. ChangesReachPlugins'
    BY <1>2 DEF ChangesReachPlugins, Kinds
  <2>16. QED
    BY <2>10, <2>11, <2>12, <2>13, <2>14, <2>15
<1>5. QED
  BY <1>3, <1>4

\* A rotation with nothing left in hand left nothing on another key.
LEMMA RotatedKeeps ==
  ASSUME SettingsInv, NEW a \in Changers, Rotated(a)
  PROVE  SettingsInv'
<1> USE DEF SettingsInv, vaultVars, pluginVars
<1> DEFINE c == [changer[a] EXCEPT !.at = "over"]
<1>1. changer[a] \in IsChanger /\ Moving(a) /\ changer[a].todo = {}
  BY DEF Typed, Rotated, Doing, Moving
<1>2. c \in IsChanger /\ c.at = "over" /\ changer' = [changer EXCEPT ![a] = c]
  BY <1>1 DEF IsChanger, Rotated, Moves
<1> HIDE DEF c
<1>3. /\ changer' \in [Changers -> IsChanger]
      /\ \A b \in Changers : changer'[b] = IF b = a THEN c ELSE changer[b]
  BY <1>2, OneChanges
<1>4. UNCHANGED <<row, config, keys, current, saves, kept, call, floor, notices, mixed, crossed, asked, lapses>>
  BY DEF Rotated
<1>5. \A s \in Secrets : row[s].id # 0 => row[s].version = current
  BY <1>1 DEF RotationsAreTrue, TodoIsTrue
<1>6. Typed' /\ RowsOpen'
  <2>1. rotated' \in BOOLEAN
    BY DEF Rotated
  <2>2. QED
    BY <1>3, <1>4, <2>1 DEF Typed, RowsOpen
<1>7. RotationsAreTrue'
  <2>1. ASSUME NEW b \in Changers, Moving(b)'
        PROVE  TodoIsTrue(b)'
    BY <1>2, <1>3, <1>4, <2>1 DEF Moving, RotationsAreTrue, TodoIsTrue
  <2>2. QED
    BY <1>4, <1>5, <2>1 DEF RotationsAreTrue
<1>8. ReadersAreCurrent' /\ SettingsKeptUndisturbed'
  BY <1>2, <1>3, <1>4 DEF ReadersAreCurrent, Replacing, SettingsKeptUndisturbed
<1>9. AnswersAreRecent' /\ ChangesReachPlugins'
  BY <1>4 DEF AnswersAreRecent, ChangesReachPlugins, Kinds
<1>10. QED
  BY <1>6, <1>7, <1>8, <1>9

\* Core starts again: keys are added, or those nothing is wrapped with are gone.
LEMMA RestartKeeps == ASSUME SettingsInv, Restart PROVE SettingsInv'
<1> USE SettingsAssumption DEF SettingsInv, Restart, vaultVars, pluginVars
<1>1. \A b \in Changers : changer'[b].at \in {"idle", "over"} /\ changer'[b] \in IsChanger
  <2>1. SUFFICES ASSUME NEW b \in Changers
                 PROVE  changer'[b].at \in {"idle", "over"} /\ changer'[b] \in IsChanger
    OBVIOUS
  <2> DEFINE over == [changer[b] EXCEPT !.at = "over", !.todo = {}]
  <2>2. changer[b] \in IsChanger
    BY DEF Typed
  <2>3. over \in IsChanger /\ over.at = "over"
    BY <2>2 DEF IsChanger
  <2>4. changer'[b] = IF changer[b].at = "idle" THEN changer[b] ELSE over
    OBVIOUS
  <2> HIDE DEF over
  <2>5. QED
    BY <2>2, <2>3, <2>4
<1>2. changer' \in [Changers -> IsChanger]
  BY <1>1
<1>3. (current' \in keys' /\ keys' \subseteq 1 .. MaxKeys) /\ rotated' \in BOOLEAN
  <2> HIDE DEF Restart, SettingsInv
  <2>1. current \in 1 .. MaxKeys /\ keys \subseteq 1 .. MaxKeys
    BY DEF SettingsInv, Typed
  <2>2. ASSUME current < MaxKeys, keys' = keys \cup {current + 1}, current' = current + 1
        PROVE  current' \in keys' /\ keys' \subseteq 1 .. MaxKeys
    BY <2>1, <2>2
  <2>3. ASSUME keys' = {current}, UNCHANGED current
        PROVE  current' \in keys' /\ keys' \subseteq 1 .. MaxKeys
    BY <2>1, <2>3
  <2>4. current' \in keys' /\ keys' \subseteq 1 .. MaxKeys
    BY <2>2, <2>3, Zenon DEF Restart
  <2>5. QED
    BY <2>4, Zenon DEF Restart
<1>4. Typed'
  BY <1>2, <1>3 DEF Typed
<1>5. RowsOpen'
  BY DEF RowsOpen, RotationsAreTrue
<1>6. RotationsAreTrue'
  BY <1>1 DEF RotationsAreTrue, Moving
<1>7. ReadersAreCurrent' /\ SettingsKeptUndisturbed'
  BY <1>1 DEF ReadersAreCurrent, Replacing, SettingsKeptUndisturbed
<1>8. AnswersAreRecent' /\ ChangesReachPlugins'
  BY DEF AnswersAreRecent, ChangesReachPlugins, Kinds
<1>9. QED
  BY <1>4, <1>5, <1>6, <1>7, <1>8

\* What the plugin does with its caches; core's state stays.
LEMMA PluginKeeps == ASSUME SettingsInv, PluginStep PROVE SettingsInv'
<1> USE SettingsAssumption DEF SettingsInv, vaultVars, pluginVars
<1>1. /\ UNCHANGED <<row, config, keys, current, rotated, saves, changer, mixed, crossed, asked, lapses>>
      /\ notices' \in Nat
  <2>1. notices \in Nat
    BY DEF Typed
  <2>2. CASE Hear
    BY <2>1, <2>2 DEF Hear
  <2>3. CASE \E k \in Kinds : Expire(k)
    BY <2>1, <2>3 DEF Expire
  <2>4. CASE \E c \in Calls : Resolve(c) \/ Keep(c) \/ \E k \in Kinds : Use(c, k)
    BY <2>1, <2>4 DEF Use, Resolve, Keep
  <2>5. QED
    BY <2>2, <2>3, <2>4 DEF PluginStep
<1>2. RowsOpen' /\ RotationsAreTrue' /\ ReadersAreCurrent' /\ SettingsKeptUndisturbed'
  BY <1>1 DEF RowsOpen, RotationsAreTrue, Moving, TodoIsTrue, ReadersAreCurrent, Replacing,
              SettingsKeptUndisturbed
<1>3. ASSUME Typed', AnswersAreRecent', ChangesReachPlugins' PROVE SettingsInv'
  BY <1>2, <1>3
<1>4. /\ config.rev \in Nat /\ saves \in Nat /\ floor \in [Kinds -> Nat]
      /\ \A s \in Secrets : row[s].id \in Nat /\ row[s].value \in Nat /\ row[s].value <= saves
  BY DEF Typed, IsConfig, IsRow, RowsOpen
<1>5. \A k \in Kinds : \A n \in Stored(k) : n \in Nat /\ n >= floor[k]
  BY <1>4 DEF Stored, AnswersAreRecent, Kinds
<1>6. ASSUME NEW k \in Kinds, NEW c \in Calls, Use(c, k)
      PROVE  SettingsInv'
  <2>1. ASSUME kept[k] # {} PROVE (CHOOSE n \in kept[k] : TRUE) \in Nat
    BY <2>1 DEF Typed
  <2>2. call' \in [Calls -> [of : Kinds, at : {"idle", "asking", "holding", "over"}, got : Nat]]
    BY <1>6, <2>1 DEF Use, Typed
  <2>3. \A d \in Calls : call'[d].at = "holding" => call'[d] = call[d]
    BY <1>6 DEF Use, Typed
  <2>4. QED
    BY <1>1, <1>3, <1>6, <2>2, <2>3 DEF Use, Typed, AnswersAreRecent, ChangesReachPlugins
<1>7. ASSUME NEW c \in Calls, Resolve(c)
      PROVE  SettingsInv'
  <2>1. call[c].of \in Kinds /\ \A n \in Stored(call[c].of) : n \in Nat /\ n >= floor[call[c].of]
    BY <1>5 DEF Typed
  <2>2. call' \in [Calls -> [of : Kinds, at : {"idle", "asking", "holding", "over"}, got : Nat]]
    BY <1>7, <2>1 DEF Resolve, Typed
  <2>3. \A d \in Calls : call'[d].at = "holding" => call'[d].got >= floor[call'[d].of]
    BY <1>7, <2>1 DEF Resolve, Typed, AnswersAreRecent
  <2>4. QED
    BY <1>1, <1>3, <1>7, <2>2, <2>3 DEF Resolve, Typed, AnswersAreRecent, ChangesReachPlugins
<1>8. ASSUME NEW c \in Calls, Keep(c)
      PROVE  SettingsInv'
  <2>1. call[c].of \in Kinds /\ call[c].got \in Nat /\ call[c].got >= floor[call[c].of]
    BY <1>8 DEF Keep, Typed, AnswersAreRecent
  <2>2. call' \in [Calls -> [of : Kinds, at : {"idle", "asking", "holding", "over"}, got : Nat]]
    BY <1>8 DEF Keep, Typed
  <2>3. \A d \in Calls : call'[d].at = "holding" => call'[d] = call[d]
    BY <1>8 DEF Keep, Typed
  <2>4. kept' \in [Kinds -> {{}} \cup {{n} : n \in Nat}] /\ ChangesReachPlugins'
    BY <1>8, <2>1 DEF Keep, Typed, ChangesReachPlugins
  <2>5. QED
    BY <1>1, <1>3, <1>8, <2>2, <2>3, <2>4 DEF Keep, Typed, AnswersAreRecent
<1>9. ASSUME NEW k \in Kinds, Expire(k)
      PROVE  SettingsInv'
  <2>1. kept' \in [Kinds -> {{}} \cup {{n} : n \in Nat}] /\ ChangesReachPlugins'
    BY <1>9 DEF Expire, Typed, ChangesReachPlugins
  <2>2. QED
    BY <1>1, <1>3, <1>9, <2>1 DEF Expire, Typed, AnswersAreRecent
<1>10. ASSUME Hear PROVE SettingsInv'
  <2>1. /\ kept' = [k \in Kinds |-> {}] /\ call' = call
        /\ floor' = [k \in Kinds |-> IF InHand(k) THEN floor[k] ELSE Oldest(k)]
    BY <1>10 DEF Hear, Dropped
  <2>2. \A k \in Kinds : Oldest(k) \in Nat
    BY <1>4 DEF Oldest, Kinds
  <2>3. Typed'
    BY <1>1, <1>4, <2>1, <2>2 DEF Typed
  <2>4. config.rev >= floor'["config"]
    BY <1>4, <2>1 DEF Oldest, Kinds, AnswersAreRecent
  <2>5. ASSUME NEW s \in Secrets
        PROVE  floor'[s] <= saves + 1 /\ (row[s].id # 0 => row[s].value >= floor'[s])
    <3>1. floor'[s] = IF InHand(s) THEN floor[s] ELSE Oldest(s)
      BY <2>1 DEF Kinds
    <3>2. Oldest(s) = IF row[s].id = 0 THEN saves + 1 ELSE row[s].value
      BY DEF Oldest
    <3>3. QED
      BY <1>4, <3>1, <3>2 DEF AnswersAreRecent
  <2>6. \A d \in Calls : call[d].at = "holding" => call[d].got >= floor'[call[d].of]
    BY <2>1 DEF InHand, Typed, AnswersAreRecent
  <2>7. AnswersAreRecent'
    BY <1>1, <2>1, <2>4, <2>5, <2>6 DEF AnswersAreRecent
  <2>8. QED
    BY <1>3, <2>1, <2>3, <2>7 DEF ChangesReachPlugins
<1>11. QED
  BY <1>6, <1>7, <1>8, <1>9, <1>10 DEF PluginStep

LEMMA SettingsStep == SettingsInv /\ [SettingsNext]_setVars => SettingsInv'
<1> SUFFICES ASSUME SettingsInv, [SettingsNext]_setVars PROVE SettingsInv'
  OBVIOUS
<1>1. CASE UNCHANGED setVars
  <2>1. UNCHANGED <<row, config, keys, current, saves, changer, kept, call, notices,
                    rotated, mixed, crossed, asked, floor, lapses>>
    BY <1>1 DEF setVars
  <2>2. Typed' /\ RowsOpen' /\ RotationsAreTrue'
    BY <2>1 DEF SettingsInv, Typed, RowsOpen, RotationsAreTrue, Moving, TodoIsTrue
  <2>3. SettingsKeptUndisturbed' /\ ReadersAreCurrent' /\ AnswersAreRecent' /\ ChangesReachPlugins'
    BY <2>1 DEF SettingsInv, SettingsKeptUndisturbed, ReadersAreCurrent, Replacing,
                AnswersAreRecent, ChangesReachPlugins
  <2>4. QED
    BY <2>2, <2>3 DEF SettingsInv
<1>2. ASSUME NEW a \in Changers, Ask(a)
      PROVE  SettingsInv'
  BY <1>2, SubmitKeeps DEF Ask
<1>3. ASSUME NEW a \in Changers, Request(a)
      PROVE  SettingsInv'
  BY <1>3, RequestReads, StoringKeeps, SaveKeeps, DeletingKeeps, ScanKeeps, MovingKeeps, RotatedKeeps
  DEF Request
<1>4. QED
  BY <1>1, <1>2, <1>3, RestartKeeps, PluginKeeps DEF SettingsNext

-----------------------------------------------------------------------------

LEMMA SettingsInvImplies == SettingsInv => SettingsAreKept
<1> SUFFICES ASSUME SettingsInv PROVE SettingsAreKept
  OBVIOUS
<1>1. \A k \in Kinds : kept[k] \subseteq Nat /\ Cardinality(kept[k]) <= 1
  <2>1. SUFFICES ASSUME NEW k \in Kinds PROVE kept[k] \subseteq Nat /\ Cardinality(kept[k]) <= 1
    OBVIOUS
  <2>2. kept[k] = {} \/ \E n \in Nat : kept[k] = {n}
    <3>1. kept[k] \in {{}} \cup {{n} : n \in Nat}
      BY DEF SettingsInv, Typed
    <3>2. QED
      BY <3>1, Zenon
  <2>3. Cardinality(kept[k]) \in {0, 1}
    BY <2>2, FS_EmptySet, FS_Singleton
  <2>4. QED
    BY <2>2, <2>3
<1>2. SettingsTypeOK
  <2>1. \A a \in Changers : changer[a] \in IsChanger
    BY DEF SettingsInv, Typed
  <2>2. QED
    BY <1>1, <2>1 DEF SettingsInv, Typed, SettingsTypeOK, IsChanger
<1>3. CredentialsOpenUndisturbed
  BY DEF SettingsInv, RowsOpen, CredentialsOpenUndisturbed, Opens
<1>4. QED
  BY <1>2, <1>3 DEF SettingsInv, SettingsAreKept

\* Whatever administrators save, switch, delete and rotate at the same time, and
\* wherever core is started again: a stored secret opens, the settings form and
\* the write switch keep each other while saves do not overlap, and a plugin
\* that heard of a change uses nothing older (settings.go, credentials.go,
\* pkg/plugin/vault.go, config.go).
THEOREM SettingsKept == SettingsSpec => []SettingsAreKept
<1>1. SettingsSpec => []SettingsInv
  BY SettingsStart, SettingsStep, PTL DEF SettingsSpec
<1>2. QED
  BY <1>1, SettingsInvImplies, PTL

-----------------------------------------------------------------------------
(***************************************************************************)
(* Registry.                                                               *)
(***************************************************************************)

IsSweep == [at : {"waiting", "asking", "unanswered", "observing"}, found : SUBSET Plugins,
            rest : SUBSET Plugins, who : SUBSET Plugins, tools : SUBSET Offers]
IsDecision == [status : {"none", "pending", "approved", "rejected"}, old : BOOLEAN]
RegistryTyped ==
  /\ process \in [Plugins -> {"up", "frozen", "exited"}]
  /\ delay \in [Plugins -> 0 .. MaxDelay] /\ exits \in 0 .. MaxExits
  /\ unguarded \subseteq Plugins
  /\ sweep \in IsSweep /\ offered \subseteq Offers
  /\ decision \in [Plugins -> IsDecision]
  /\ faults \in 0 .. MaxFaults

LEMMA RegistryStart == RegistryInit => RegistryTyped
<1> SUFFICES ASSUME RegistryInit PROVE RegistryTyped
  OBVIOUS
<1>1. Waiting \in IsSweep /\ Unseen \in IsDecision
  BY DEF Waiting, Unseen, IsSweep, IsDecision
<1>2. QED
  BY <1>1, RegistryAssumption DEF RegistryInit, RegistryTyped

LEMMA OffersOf == ASSUME NEW p \in Plugins, NEW b \in BOOLEAN PROVE Offer(p, b) \subseteq Offers
BY DEF Offer, Offers

\* What each step makes of decisions: they keep their type, and what was decided.
LEMMA RegistryStep ==
  ASSUME RegistryTyped, [RegistryNext]_registryVars
  PROVE  /\ RegistryTyped'
         /\ \A p \in Plugins :
              decision[p].status \in {"approved", "rejected"} /\ decision'[p].status # decision[p].status
                => \/ \E t \in {"pending", "approved", "rejected"} : Decide(p, t)
                   \/ ForgetRetired /\ decision[p] = [status |-> "approved", old |-> TRUE]
<1> DEFINE stands ==
      \A p \in Plugins :
        decision[p].status \in {"approved", "rejected"} /\ decision'[p].status # decision[p].status
          => \/ \E t \in {"pending", "approved", "rejected"} : Decide(p, t)
             \/ ForgetRetired /\ decision[p] = [status |-> "approved", old |-> TRUE]
<1> USE DEF RegistryTyped
<1>1. ASSUME UNCHANGED <<process, delay, exits, unguarded, decision, faults>>,
             offered' \subseteq Offers, sweep' \in IsSweep
      PROVE  RegistryTyped' /\ stands
  BY <1>1
<1>2. ASSUME Discover PROVE RegistryTyped' /\ stands
  <2>1. PICK F \in SUBSET Plugins :
          sweep' = [Waiting EXCEPT !.at = "asking", !.found = F, !.rest = F]
    BY <1>2 DEF Discover
  <2>2. Waiting \in IsSweep
    BY DEF Waiting, IsSweep
  <2>3. sweep' \in IsSweep
    BY <2>1, <2>2 DEF IsSweep
  <2>4. QED
    BY <1>1, <1>2, <2>3 DEF Discover
<1>3. ASSUME Publish PROVE RegistryTyped' /\ stands
  <2>1. {o.plugin : o \in sweep.tools} \subseteq Plugins /\ sweep.tools \subseteq Offers
    BY DEF IsSweep, Offers
  <2> DEFINE R == {o.plugin : o \in sweep.tools}
  <2>2. sweep' = [sweep EXCEPT !.at = "observing", !.rest = R] /\ offered' = sweep.tools
    BY <1>3 DEF Publish
  <2>3. R \subseteq Plugins
    BY <2>1
  <2> HIDE DEF R
  <2>4. sweep' \in IsSweep
    BY <2>2, <2>3 DEF IsSweep
  <2>5. QED
    BY <1>1, <1>3, <2>1, <2>2, <2>4 DEF Publish
<1>4. ASSUME SweepDone PROVE RegistryTyped' /\ stands
  BY <1>1, <1>4 DEF SweepDone, Waiting, IsSweep
<1>5. ASSUME NEW p \in Plugins, AskNobody(p) \/ AskHealth(p) \/ HearHealth(p)
      PROVE  RegistryTyped' /\ stands
  <2>1. PICK rest \in SUBSET Plugins, who \in SUBSET Plugins, tools \in SUBSET Offers :
          \/ sweep' = [sweep EXCEPT !.rest = rest, !.tools = tools]
          \/ sweep' = [sweep EXCEPT !.rest = rest, !.who = who]
          \/ sweep' = [sweep EXCEPT !.who = who, !.tools = tools]
    <3>1. \A b \in BOOLEAN : sweep.tools \cup Offer(p, b) \in SUBSET Offers
      BY OffersOf DEF IsSweep
    <3>2. sweep.rest \ {p} \in SUBSET Plugins /\ {p} \in SUBSET Plugins /\ {} \in SUBSET Plugins
      BY DEF IsSweep
    <3>3. CASE AskNobody(p)
      BY <3>1, <3>2, <3>3 DEF AskNobody
    <3>4. CASE AskHealth(p)
      BY <3>1, <3>2, <3>4 DEF AskHealth
    <3>5. CASE HearHealth(p)
      BY <3>1, <3>2, <3>5 DEF HearHealth
    <3>6. QED
      BY <1>5, <3>3, <3>4, <3>5
  <2>2. sweep' \in IsSweep
    BY <2>1, ZenonT(60) DEF IsSweep
  <2>3. QED
    BY <1>1, <1>5, <2>2 DEF AskNobody, AskHealth, HearHealth
<1>6. ASSUME NEW p \in Plugins, Observe(p) PROVE RegistryTyped' /\ stands
  <2>1. sweep' \in IsSweep
    BY <1>6 DEF Observe, IsSweep
  <2>2. faults' \in 0 .. MaxFaults
    BY <1>6, RegistryAssumption DEF Observe
  <2>3. decision[p] \in IsDecision /\ Observed(decision[p]) \in IsDecision
        /\ (decision[p].status # "none" => Observed(decision[p]).status = decision[p].status)
    BY DEF IsDecision, Observed
  <2>4. decision' = [decision EXCEPT ![p] = Observed(decision[p])] \/ decision' = decision
    BY <1>6 DEF Observe
  <2>5. /\ decision' \in [Plugins -> IsDecision]
        /\ \A q \in Plugins : q # p => decision'[q] = decision[q]
        /\ decision'[p] \in {decision[p], Observed(decision[p])}
    BY <2>3, <2>4
  <2>6. stands
    BY <2>3, <2>5
  <2>7. QED
    BY <1>6, <2>1, <2>2, <2>5, <2>6 DEF Observe
<1>7. ASSUME NEW p \in Plugins, StartProcess(p) \/ Freeze(p) PROVE RegistryTyped' /\ stands
  BY <1>7, RegistryAssumption DEF StartProcess, Freeze
<1>8. ASSUME NEW p \in Plugins, NEW b \in BOOLEAN, ExitProcess(p, b) PROVE RegistryTyped' /\ stands
  <2>1. PICK d \in 0 .. MaxDelay : delay' = [delay EXCEPT ![p] = d]
    <3>1. delay[p] \in 0 .. MaxDelay /\ MaxDelay \in Nat
      BY RegistryAssumption
    <3>2. \A d \in 0 .. MaxDelay : (IF d < MaxDelay THEN d + 1 ELSE d) \in 0 .. MaxDelay
      BY <3>1
    <3> DEFINE e == IF b THEN 0 ELSE delay[p]
    <3>3. delay' = [delay EXCEPT ![p] = IF e < MaxDelay THEN e + 1 ELSE e]
      BY <1>8 DEF ExitProcess
    <3>4. e \in 0 .. MaxDelay
      BY <3>1
    <3> HIDE DEF e
    <3>5. QED
      BY <3>2, <3>3, <3>4
  <2>2. sweep' \in IsSweep
    BY <1>8 DEF ExitProcess, IsSweep
  <2>3. QED
    BY <1>8, <2>1, <2>2, RegistryAssumption DEF ExitProcess
<1>9. ASSUME NEW p \in Plugins, NEW t \in {"pending", "approved", "rejected"}, Decide(p, t)
      PROVE  RegistryTyped' /\ stands
  <2>1. decision' \in [Plugins -> IsDecision] /\ \A q \in Plugins : q # p => decision'[q] = decision[q]
    BY <1>9 DEF Decide, IsDecision
  <2>2. QED
    BY <1>9, <2>1 DEF Decide
<1>10. ASSUME NEW p \in Plugins, Month(p) PROVE RegistryTyped' /\ stands
  <2>1. decision' \in [Plugins -> IsDecision] /\ \A q \in Plugins : decision'[q].status = decision[q].status
    BY <1>10 DEF Month, IsDecision
  <2>2. QED
    BY <1>10, <2>1 DEF Month
<1>11. ASSUME ForgetRetired PROVE RegistryTyped' /\ stands
  <2>1. decision' = [p \in Plugins |-> IF Forgettable(decision[p]) THEN Unseen ELSE decision[p]]
    BY <1>11 DEF ForgetRetired
  <2>2. Unseen \in IsDecision
    BY DEF Unseen, IsDecision
  <2>3. decision' \in [Plugins -> IsDecision]
    BY <2>1, <2>2
  <2>4. ASSUME NEW p \in Plugins, decision[p].status \in {"approved", "rejected"},
               decision'[p].status # decision[p].status
        PROVE  decision[p] = [status |-> "approved", old |-> TRUE]
    <3>1. Forgettable(decision[p])
      BY <2>1, <2>4
    <3>2. decision[p] \in IsDecision /\ decision[p].status = "approved" /\ decision[p].old
      BY <2>4, <3>1 DEF Forgettable
    <3>3. QED
      BY <3>2 DEF IsDecision
  <2>5. QED
    BY <1>11, <2>3, <2>4 DEF ForgetRetired
<1>12. ASSUME UNCHANGED registryVars PROVE RegistryTyped' /\ stands
  BY <1>12 DEF registryVars
<1>13. QED
  BY <1>2, <1>3, <1>4, <1>5, <1>6, <1>7, <1>8, <1>9, <1>10, <1>11, <1>12
     DEF RegistryNext, SweepStep, ProcessStep, DecisionStep

\* Whatever processes do and sweeps find, for any plugins: what an administrator
\* decided about a tool stays until they decide again, but for an approval of a
\* tool nobody observed for a month (capabilities.go, main.go).
THEOREM DecisionsKept == RegistrySpec => DecisionsStand
<1> DEFINE stands ==
      \A p \in Plugins :
        decision[p].status \in {"approved", "rejected"} /\ decision'[p].status # decision[p].status
          => \/ \E s \in Statuses : Decide(p, s)
             \/ ForgetRetired /\ decision[p] = [status |-> "approved", old |-> TRUE]
<1>1. RegistryTyped => RegistryTypeOK
  BY DEF RegistryTyped, RegistryTypeOK, IsSweep, IsDecision
<1>2. RegistryTyped /\ [RegistryNext]_registryVars => RegistryTyped'
  BY RegistryStep
<1>3. RegistryTyped /\ [RegistryNext]_registryVars => [stands]_registryVars
  <2>1. RegistryTyped /\ [RegistryNext]_registryVars => stands
    BY RegistryStep DEF Statuses
  <2> HIDE DEF stands
  <2>2. QED
    BY <2>1
<1>4. RegistrySpec => []RegistryTyped
  BY RegistryStart, <1>2, PTL DEF RegistrySpec
<1>5. RegistrySpec => [][stands]_registryVars
  <2> HIDE DEF stands
  <2>1. QED
    BY <1>3, <1>4, PTL DEF RegistrySpec
<1>6. RegistrySpec => []RegistryTypeOK
  BY <1>1, <1>4, PTL
<1>7. QED
  BY <1>5, <1>6, PTL DEF DecisionsStand

-----------------------------------------------------------------------------
(***************************************************************************)
(* Conversation.                                                           *)
(***************************************************************************)

IsAsk == [at : {"idle", "entered", "asked", "thinking", "looking", "answered", "failed", "replied"},
          turns : Seq(Said), model : {"default", "chosen"}, want : SUBSET Lookups,
          fresh : BOOLEAN, seen : SUBSET Lookups, steps : Nat, repeats : 0 .. RepeatLimit]
ConversationTyped ==
  /\ chat \in [is : BOOLEAN, model : {"default", "chosen"}, said : Seq(Said)]
  /\ settings \in [enabled : BOOLEAN, key : BOOLEAN, free : BOOLEAN]
  /\ ask \in [Asks -> IsAsk]
  /\ reached \in [Asks -> [Lookups -> Nat]] /\ replies \in [Asks -> Nat]
  /\ proposals \subseteq Asks \X Proposing /\ switches \in 0 .. MaxSwitches

\* What a plugin answered is known, and asked once.
ReachedOnce(a) == \A l \in Lookups : reached[a][l] = 0 \/ (reached[a][l] = 1 /\ l \in ask[a].seen)

\* Every reply so far that brought something new took a step, of which there are
\* not more than the cap; between two of them there are fewer than the limit.
Capped(n) == IF n < RunawayCap THEN n ELSE RunawayCap
RoundsOf(c, n) ==
  /\ c.at \in {"idle", "entered", "asked"} => n = 0 /\ c.steps = 0 /\ c.repeats = 0
  /\ c.at = "thinking" => n <= Capped(c.steps) * RepeatLimit + c.repeats
  /\ c.at = "looking" /\ ~c.fresh => /\ c.repeats < RepeatLimit /\ c.steps < RunawayCap
                                     /\ n <= Capped(c.steps) * RepeatLimit + c.repeats + 1
  /\ c.at = "looking" /\ c.fresh => n <= Capped(c.steps) * RepeatLimit
  /\ c.at \in {"answered", "failed", "replied"} => n <= (RunawayCap + 1) * RepeatLimit + 1

\* A question's reply is in the chat when it was stored, not before.
RepliesAreLast ==
  \A a \in Asks : \A i \in 1 .. Len(chat.said) :
    chat.said[i] = [role |-> "assistant", of |-> a] => ask[a].at = "replied"

\* What was said holds a's question, and no reply of a's before it.
Asked(said, a) ==
  \E i \in 1 .. Len(said) : /\ said[i] = [role |-> "user", of |-> a]
                           /\ \A j \in 1 .. i : said[j] # [role |-> "assistant", of |-> a]
QuestionsAreIn ==
  \A a \in Asks :
    chat.is /\ ask[a].at \in {"thinking", "looking", "answered", "replied"} => Asked(chat.said, a)

ConversationInv ==
  /\ ConversationTyped
  /\ \A a \in Asks : ReachedOnce(a) /\ RoundsOf(ask[a], replies[a])
  /\ RepliesAreLast
  /\ QuestionsAreIn

LEMMA CapKeeps ==
  ASSUME NEW m \in Nat, NEW n \in Nat, m <= n
  PROVE  Capped(m) * RepeatLimit <= Capped(n) * RepeatLimit
<1>0. RepeatLimit \in Nat /\ RunawayCap \in Nat
  BY ConversationAssumption
<1>1. Capped(m) \in Nat /\ Capped(n) \in Nat /\ Capped(m) <= Capped(n)
  BY <1>0 DEF Capped
<1> HIDE DEF Capped
<1>2. QED
  BY <1>0, <1>1

LEMMA CapGrows ==
  ASSUME NEW m \in Nat, NEW n \in Nat, m < n, m < RunawayCap
  PROVE  Capped(m) * RepeatLimit + RepeatLimit <= Capped(n) * RepeatLimit
<1>0. RepeatLimit \in Nat /\ RunawayCap \in Nat
  BY ConversationAssumption
<1>1. Capped(m) \in Nat /\ Capped(n) \in Nat /\ Capped(m) + 1 <= Capped(n)
  BY <1>0 DEF Capped
<1> HIDE DEF Capped
<1>2. QED
  BY <1>0, <1>1

LEMMA CapEnds ==
  ASSUME NEW n \in Nat
  PROVE  /\ Capped(n) * RepeatLimit + RepeatLimit <= (RunawayCap + 1) * RepeatLimit
         /\ Capped(n) * RepeatLimit \in Nat /\ (RunawayCap + 1) * RepeatLimit \in Nat
<1>0. RepeatLimit \in Nat /\ RunawayCap \in Nat
  BY ConversationAssumption
<1>1. Capped(n) \in Nat /\ Capped(n) <= RunawayCap
  BY <1>0 DEF Capped
<1> HIDE DEF Capped
<1>2. QED
  BY <1>0, <1>1

LEMMA ConversationStart == ConversationInit => ConversationInv
<1> SUFFICES ASSUME ConversationInit PROVE ConversationInv
  OBVIOUS
<1>0. <<>> \in Seq(Said) /\ Len(<<>>) = 0
  OBVIOUS
<1>a. chat.said = <<>> /\ chat \in [is : BOOLEAN, model : {"default", "chosen"}, said : Seq(Said)]
  BY <1>0 DEF ConversationInit
<1>b. \A a \in Asks : ask[a] = Quiet /\ replies[a] = 0 /\ \A l \in Lookups : reached[a][l] = 0
  BY DEF ConversationInit
<1>1. chat.said = <<>> /\ \A a \in Asks : ask[a] = Quiet /\ replies[a] = 0 /\ \A l \in Lookups : reached[a][l] = 0
  BY <1>a, <1>b
<1>2. Quiet \in IsAsk /\ Quiet.at = "idle" /\ Quiet.steps = 0 /\ Quiet.repeats = 0
  BY ConversationAssumption DEF Quiet, IsAsk
<1>3. ConversationTyped
  <2>1. /\ ask \in [Asks -> IsAsk] /\ reached \in [Asks -> [Lookups -> Nat]] /\ replies \in [Asks -> Nat]
        /\ settings \in [enabled : BOOLEAN, key : BOOLEAN, free : BOOLEAN]
    BY <1>2 DEF ConversationInit
  <2>2. proposals \subseteq Asks \X Proposing /\ switches \in 0 .. MaxSwitches
    BY ConversationAssumption DEF ConversationInit
  <2>3. QED
    BY <1>a, <2>1, <2>2 DEF ConversationTyped
<1>4. \A a \in Asks : ReachedOnce(a) /\ RoundsOf(ask[a], replies[a])
  BY <1>1, <1>2 DEF ReachedOnce, RoundsOf
<1>5. RepliesAreLast /\ QuestionsAreIn
  BY <1>0, <1>1, <1>2 DEF RepliesAreLast, QuestionsAreIn
<1>6. QED
  BY <1>3, <1>4, <1>5 DEF ConversationInv

\* One question goes on, and the chat stays as it is.
LEMMA QuestionGoesOn ==
  ASSUME ConversationInv, NEW a \in Asks, NEW c \in IsAsk, ask' = [ask EXCEPT ![a] = c],
         NEW r \in [Lookups -> Nat], reached' = [reached EXCEPT ![a] = r],
         NEW n \in Nat, replies' = [replies EXCEPT ![a] = n],
         proposals' \subseteq Asks \X Proposing, UNCHANGED <<chat, settings, switches>>,
         \A l \in Lookups : r[l] = 0 \/ (r[l] = 1 /\ l \in c.seen),
         RoundsOf(c, n), ask[a].at # "replied",
         c.at \in {"thinking", "looking", "answered", "replied"} =>
           ask[a].at \in {"thinking", "looking", "answered"}
  PROVE  ConversationInv'
<1> USE DEF ConversationInv
<1>1. \A b \in Asks : /\ ask'[b] = IF b = a THEN c ELSE ask[b]
                      /\ reached'[b] = IF b = a THEN r ELSE reached[b]
                      /\ replies'[b] = IF b = a THEN n ELSE replies[b]
  BY DEF ConversationTyped
<1>2. ConversationTyped'
  BY DEF ConversationTyped
<1>3. ASSUME NEW b \in Asks PROVE (ReachedOnce(b) /\ RoundsOf(ask[b], replies[b]))'
  <2>1. CASE b = a
    BY <1>1, <2>1 DEF ReachedOnce, RoundsOf
  <2>2. CASE b # a
    BY <1>1, <2>2 DEF ReachedOnce, RoundsOf
  <2>3. QED
    BY <2>1, <2>2
<1>c. chat' = chat
  OBVIOUS
<1>4. RepliesAreLast'
  <2> SUFFICES ASSUME NEW b \in Asks, NEW i \in 1 .. Len(chat.said),
                      chat.said[i] = [role |-> "assistant", of |-> b]
               PROVE  ask'[b].at = "replied"
    BY <1>c DEF RepliesAreLast
  <2>1. ask[b].at = "replied"
    BY DEF RepliesAreLast
  <2>2. QED
    BY <1>1, <2>1
<1>5. QuestionsAreIn'
  <2>1. ASSUME NEW b \in Asks, ask'[b].at \in {"thinking", "looking", "answered", "replied"}
        PROVE  ask[b].at \in {"thinking", "looking", "answered", "replied"}
    <3>1. CASE b = a
      BY <1>1, <2>1, <3>1
    <3>2. CASE b # a
      BY <1>1, <2>1, <3>2
    <3>3. QED
      BY <3>1, <3>2
  <2>2. QuestionsAreIn
    OBVIOUS
  <2>3. QED
    BY <1>c, <2>1, <2>2 DEF QuestionsAreIn
<1>6. QED
  BY <1>2, <1>3, <1>4, <1>5

LEMMA OneQuestion ==
  ASSUME ConversationInv, NEW a \in Asks
  PROVE  /\ ask[a] \in IsAsk /\ reached[a] \in [Lookups -> Nat] /\ replies[a] \in Nat
         /\ \A l \in Lookups : reached[a][l] = 0 \/ (reached[a][l] = 1 /\ l \in ask[a].seen)
         /\ RoundsOf(ask[a], replies[a])
         /\ reached = [reached EXCEPT ![a] = reached[a]]
         /\ replies = [replies EXCEPT ![a] = replies[a]]
         /\ proposals \subseteq Asks \X Proposing
<1>1. /\ ask \in [Asks -> IsAsk] /\ reached \in [Asks -> [Lookups -> Nat]] /\ replies \in [Asks -> Nat]
      /\ proposals \subseteq Asks \X Proposing
  BY DEF ConversationInv, ConversationTyped
<1>2. ReachedOnce(a) /\ RoundsOf(ask[a], replies[a])
  BY DEF ConversationInv
<1>3. /\ reached = [reached EXCEPT ![a] = reached[a]] /\ replies = [replies EXCEPT ![a] = replies[a]]
  BY <1>1
<1>4. QED
  BY <1>1, <1>2, <1>3 DEF ReachedOnce

\* It goes on without reaching a plugin.
LEMMA QuestionTurns ==
  ASSUME ConversationInv, NEW a \in Asks, NEW c \in IsAsk, ask' = [ask EXCEPT ![a] = c],
         NEW n \in Nat, replies' = [replies EXCEPT ![a] = n],
         UNCHANGED <<chat, settings, reached, proposals, switches>>,
         c.seen = ask[a].seen, RoundsOf(c, n), ask[a].at # "replied",
         c.at \in {"thinking", "looking", "answered", "replied"} =>
           ask[a].at \in {"thinking", "looking", "answered"}
  PROVE  ConversationInv'
<1> DEFINE r == reached[a]
<1>1. /\ r \in [Lookups -> Nat] /\ reached' = [reached EXCEPT ![a] = r]
      /\ proposals' \subseteq Asks \X Proposing /\ UNCHANGED <<chat, settings, switches>>
  BY OneQuestion
<1>2. \A l \in Lookups : r[l] = 0 \/ (r[l] = 1 /\ l \in c.seen)
  BY OneQuestion
<1> HIDE DEF r
<1>3. QED
  BY <1>1, <1>2, QuestionGoesOn

LEMMA AskQuestionKeeps == ASSUME ConversationInv, NEW a \in Asks, AskQuestion(a) PROVE ConversationInv'
<1>1. /\ ask[a] \in IsAsk /\ ask[a].at = "idle" /\ UNCHANGED <<chat, settings, reached, replies, proposals, switches>>
      /\ ask[a].steps = 0 /\ ask[a].repeats = 0 /\ replies[a] = 0
  BY OneQuestion DEF AskQuestion, RoundsOf
<1>2. CASE chat.is /\ settings.enabled /\ settings.key
  <2> DEFINE m == IF MayUse(chat.model) THEN chat.model ELSE "default"
             c == [ask[a] EXCEPT !.at = "entered", !.model = m]
  <2>1. ask' = [ask EXCEPT ![a] = c]
    BY <1>2 DEF AskQuestion
  <2>2. m \in {"default", "chosen"}
    BY DEF ConversationInv, ConversationTyped, MayUse
  <2> HIDE DEF m
  <2>3. /\ c \in IsAsk /\ c.at = "entered" /\ c.seen = ask[a].seen /\ c.steps = ask[a].steps
        /\ c.repeats = ask[a].repeats
    BY <1>1, <2>2 DEF IsAsk
  <2> HIDE DEF c
  <2>4. RoundsOf(c, replies[a])
    BY <1>1, <2>3 DEF RoundsOf
  <2>5. QED
    BY <1>1, <2>1, <2>3, <2>4, OneQuestion, QuestionTurns
<1>3. CASE ~(chat.is /\ settings.enabled /\ settings.key)
  <2> DEFINE c == [ask[a] EXCEPT !.at = "failed"]
  <2>1. ask' = [ask EXCEPT ![a] = c]
    BY <1>3 DEF AskQuestion, Turns
  <2>3. c \in IsAsk /\ c.at = "failed" /\ c.seen = ask[a].seen
    BY <1>1 DEF IsAsk
  <2> HIDE DEF c
  <2>4. RoundsOf(c, replies[a])
    BY <1>1, <2>3, CapEnds DEF RoundsOf
  <2>5. QED
    BY <1>1, <2>1, <2>3, <2>4, OneQuestion, QuestionTurns
<1>4. QED
  BY <1>2, <1>3

LEMMA ReadHistoryKeeps == ASSUME ConversationInv, NEW a \in Asks, ReadHistory(a) PROVE ConversationInv'
<1>1. /\ ask[a] \in IsAsk /\ ask[a].at = "entered" /\ UNCHANGED <<chat, settings, reached, replies, proposals, switches>>
      /\ ask[a].steps = 0 /\ ask[a].repeats = 0 /\ replies[a] = 0
  BY OneQuestion DEF ReadHistory, RoundsOf
<1> DEFINE s == Append(chat.said, [role |-> "user", of |-> a])
           h == LastTurns(s)
           c == [ask[a] EXCEPT !.at = "asked", !.turns = h]
<1>2. s \in Seq(Said)
  BY DEF ConversationInv, ConversationTyped, Said
<1> HIDE DEF s
<1>3. h \in Seq(Said)
  BY <1>2, ConversationAssumption DEF LastTurns
<1>4. ask' = [ask EXCEPT ![a] = c]
  BY DEF ReadHistory, s
<1> HIDE DEF h
<1>5. /\ c \in IsAsk /\ c.at = "asked" /\ c.seen = ask[a].seen /\ c.steps = ask[a].steps
      /\ c.repeats = ask[a].repeats
  BY <1>1, <1>3 DEF IsAsk
<1> HIDE DEF c
<1>6. RoundsOf(c, replies[a])
  BY <1>1, <1>5 DEF RoundsOf
<1>7. QED
  BY <1>1, <1>4, <1>5, <1>6, OneQuestion, QuestionTurns

\* The model replied for the last time, or not at all.
LEMMA LastReplyKeeps ==
  ASSUME ConversationInv, NEW a \in Asks, ask[a].at = "thinking", NEW at \in {"answered", "failed"}, Turns(a, at),
         replies' = [replies EXCEPT ![a] = @ + 1], UNCHANGED <<chat, settings, reached, proposals, switches>>
  PROVE  ConversationInv'
<1> DEFINE c == [ask[a] EXCEPT !.at = at]
           n == replies[a] + 1
<1>1. ask[a] \in IsAsk /\ ask[a].steps \in Nat /\ ask[a].repeats \in 0 .. RepeatLimit /\ replies[a] \in Nat
  BY OneQuestion DEF IsAsk
<1>2. /\ ask' = [ask EXCEPT ![a] = c] /\ replies' = [replies EXCEPT ![a] = n] /\ n \in Nat
  BY <1>1 DEF Turns
<1>3. c \in IsAsk /\ c.at = at /\ c.seen = ask[a].seen
  BY <1>1 DEF IsAsk
<1>4. n <= Capped(ask[a].steps) * RepeatLimit + ask[a].repeats + 1
  <2>1. replies[a] <= Capped(ask[a].steps) * RepeatLimit + ask[a].repeats
    BY OneQuestion DEF RoundsOf
  <2>2. Capped(ask[a].steps) * RepeatLimit \in Nat
    BY <1>1, CapEnds
  <2>3. QED
    BY <1>1, <2>1, <2>2
<1> HIDE DEF c, n
<1>5. RoundsOf(c, n)
  <2>1. n <= (RunawayCap + 1) * RepeatLimit + 1
    BY <1>1, <1>2, <1>4, CapEnds, ConversationAssumption
  <2>2. QED
    BY <1>3, <2>1 DEF RoundsOf
<1>6. QED
  BY <1>1, <1>2, <1>3, <1>5, OneQuestion, QuestionTurns

LEMMA AsksForKeeps ==
  ASSUME ConversationInv, NEW a \in Asks, NEW W \in SUBSET Lookups, AsksFor(a, W) PROVE ConversationInv'
<1> DEFINE c == [ask[a] EXCEPT !.at = "looking", !.want = W, !.fresh = FALSE]
           n == replies[a] + 1
<1>1. /\ ask[a] \in IsAsk /\ ask[a].steps \in Nat /\ ask[a].repeats \in 0 .. RepeatLimit /\ replies[a] \in Nat
      /\ ask[a].at = "thinking"
  BY OneQuestion DEF IsAsk, AsksFor
<1>2. ask' = [ask EXCEPT ![a] = c]
  BY DEF AsksFor
<1>8. replies' = [replies EXCEPT ![a] = n] /\ n \in Nat /\ UNCHANGED <<chat, settings, reached, proposals, switches>>
  BY <1>1 DEF AsksFor
<1>3. /\ c \in IsAsk /\ c.at = "looking" /\ c.seen = ask[a].seen /\ c.fresh = FALSE
      /\ c.steps = ask[a].steps /\ c.repeats = ask[a].repeats
  BY <1>1 DEF IsAsk
<1>4. n <= Capped(ask[a].steps) * RepeatLimit + ask[a].repeats + 1
  <2>1. replies[a] <= Capped(ask[a].steps) * RepeatLimit + ask[a].repeats
    BY <1>1, OneQuestion DEF RoundsOf
  <2>2. Capped(ask[a].steps) * RepeatLimit \in Nat
    BY <1>1, CapEnds
  <2>3. QED
    BY <1>1, <2>1, <2>2
<1>5. ask[a].repeats < RepeatLimit /\ ask[a].steps < RunawayCap
  <2>1. RepeatLimit \in Nat /\ RunawayCap \in Nat
    BY ConversationAssumption
  <2>2. QED
    BY <1>1, <2>1 DEF AsksFor, LastCall
<1> HIDE DEF c, n
<1>6. RoundsOf(c, n)
  BY <1>3, <1>4, <1>5 DEF RoundsOf
<1>7. QED
  BY <1>1, <1>2, <1>8, <1>3, <1>6, OneQuestion, QuestionTurns

LEMMA LookAgainKeeps ==
  ASSUME ConversationInv, NEW a \in Asks, NEW l \in Lookups, LookAgain(a, l) PROVE ConversationInv'
<1> DEFINE c == [ask[a] EXCEPT !.want = @ \ {l}]
<1>1. ask[a] \in IsAsk /\ ask[a].at = "looking"
  BY OneQuestion DEF LookAgain
<1>2. ask' = [ask EXCEPT ![a] = c] /\ UNCHANGED <<chat, settings, reached, replies, proposals, switches>>
  BY DEF LookAgain
<1>3. /\ c \in IsAsk /\ c.at = "looking" /\ c.seen = ask[a].seen /\ c.fresh = ask[a].fresh
      /\ c.steps = ask[a].steps /\ c.repeats = ask[a].repeats
  BY <1>1 DEF IsAsk
<1> HIDE DEF c
<1>4. RoundsOf(c, replies[a])
  BY <1>1, <1>3, OneQuestion DEF RoundsOf
<1>5. QED
  BY <1>1, <1>2, <1>3, <1>4, OneQuestion, QuestionTurns

LEMMA LookKeeps == ASSUME ConversationInv, NEW a \in Asks, NEW l \in Lookups, Look(a, l) PROVE ConversationInv'
<1>1. /\ ask[a] \in IsAsk /\ ask[a].at = "looking" /\ l \notin ask[a].seen /\ ask[a].fresh \in BOOLEAN
      /\ ask[a].steps \in Nat /\ ask[a].repeats \in 0 .. RepeatLimit /\ replies[a] \in Nat
      /\ ask[a].want \subseteq Lookups /\ ask[a].seen \subseteq Lookups
  BY OneQuestion DEF IsAsk, Look, Known
<1>2. PICK found \in BOOLEAN :
        /\ ask' = [ask EXCEPT ![a].want = @ \ {l}, ![a].fresh = TRUE, ![a].steps = @ + 1,
                              ![a].seen = IF found THEN @ \cup {l} ELSE @]
        /\ reached' = IF found /\ l \notin Proposing THEN [reached EXCEPT ![a][l] = @ + 1] ELSE reached
        /\ proposals' = IF found /\ l \in Proposing THEN proposals \cup {<<a, l>>} ELSE proposals
  BY DEF Look, Resolves
<1>3. UNCHANGED <<chat, settings, replies, switches>>
  BY DEF Look
<1> DEFINE seen == IF found THEN ask[a].seen \cup {l} ELSE ask[a].seen
           steps == ask[a].steps + 1
           want == ask[a].want \ {l}
           c == [ask[a] EXCEPT !.want = want, !.fresh = TRUE, !.steps = steps, !.seen = seen]
           r == IF found /\ l \notin Proposing THEN [reached[a] EXCEPT ![l] = @ + 1] ELSE reached[a]
<1>4. ask' = [ask EXCEPT ![a] = c]
  BY <1>2
<1>5. reached' = [reached EXCEPT ![a] = r]
  BY <1>2, OneQuestion
<1>6. proposals' \subseteq Asks \X Proposing
  BY <1>2, OneQuestion
<1>7. /\ seen \subseteq Lookups /\ steps \in Nat /\ want \subseteq Lookups
      /\ ask[a].steps < steps /\ ask[a].seen \subseteq seen /\ (found => l \in seen)
  BY <1>1
<1>8. r \in [Lookups -> Nat] /\ \A k \in Lookups : r[k] = 0 \/ (r[k] = 1 /\ k \in seen)
  <2>1. /\ reached[a] \in [Lookups -> Nat] /\ reached[a][l] = 0
        /\ \A k \in Lookups : reached[a][k] = 0 \/ (reached[a][k] = 1 /\ k \in seen)
    BY <1>1, <1>7, OneQuestion
  <2> HIDE DEF seen
  <2>2. CASE found /\ l \notin Proposing
    <3>1. r = [reached[a] EXCEPT ![l] = 1]
      BY <2>1, <2>2
    <3> HIDE DEF r
    <3>2. QED
      BY <1>7, <2>1, <2>2, <3>1
  <2>3. CASE ~(found /\ l \notin Proposing)
    BY <2>1, <2>3
  <2>4. QED
    BY <2>2, <2>3
<1> HIDE DEF seen, steps, want, r
<1>9. /\ c \in IsAsk /\ c.at = "looking" /\ c.seen = seen /\ c.fresh = TRUE
      /\ c.steps = steps /\ c.repeats = ask[a].repeats
  BY <1>1, <1>7 DEF IsAsk
<1> HIDE DEF c
<1>10. replies[a] <= Capped(steps) * RepeatLimit
  <2>1. CASE ask[a].fresh
    <3>1. replies[a] <= Capped(ask[a].steps) * RepeatLimit
      BY <1>1, <2>1, OneQuestion DEF RoundsOf
    <3>2. Capped(ask[a].steps) * RepeatLimit <= Capped(steps) * RepeatLimit
      BY <1>1, <1>7, CapKeeps
    <3>3. Capped(ask[a].steps) * RepeatLimit \in Nat /\ Capped(steps) * RepeatLimit \in Nat
      BY <1>1, <1>7, CapEnds
    <3>4. QED
      BY <1>1, <3>1, <3>2, <3>3
  <2>2. CASE ~ask[a].fresh
    <3>1. /\ ask[a].repeats < RepeatLimit /\ ask[a].steps < RunawayCap
          /\ replies[a] <= Capped(ask[a].steps) * RepeatLimit + ask[a].repeats + 1
      BY <1>1, <2>2, OneQuestion DEF RoundsOf
    <3>2. Capped(ask[a].steps) * RepeatLimit + RepeatLimit <= Capped(steps) * RepeatLimit
      BY <1>1, <1>7, <3>1, CapGrows
    <3>3. Capped(ask[a].steps) * RepeatLimit \in Nat /\ Capped(steps) * RepeatLimit \in Nat /\ RepeatLimit \in Nat
      BY <1>1, <1>7, CapEnds, ConversationAssumption
    <3>4. QED
      BY <1>1, <3>1, <3>2, <3>3
  <2>3. QED
    BY <1>1, <2>1, <2>2
<1>11. RoundsOf(c, replies[a])
  BY <1>9, <1>10 DEF RoundsOf
<1>12. /\ replies' = [replies EXCEPT ![a] = replies[a]] /\ UNCHANGED <<chat, settings, switches>>
       /\ \A k \in Lookups : r[k] = 0 \/ (r[k] = 1 /\ k \in c.seen)
  BY <1>3, <1>8, <1>9, OneQuestion
<1>13. QED
  BY <1>1, <1>4, <1>5, <1>6, <1>8, <1>9, <1>11, <1>12, QuestionGoesOn

LEMMA NextReplyKeeps == ASSUME ConversationInv, NEW a \in Asks, NextReply(a) PROVE ConversationInv'
<1> DEFINE n == Repeats(a)
           c == [ask[a] EXCEPT !.at = "thinking", !.repeats = n]
<1>1. /\ ask[a] \in IsAsk /\ ask[a].at = "looking" /\ ask[a].fresh \in BOOLEAN /\ ask[a].repeats \in 0 .. RepeatLimit
      /\ ask[a].steps \in Nat /\ replies[a] \in Nat /\ RepeatLimit \in Nat
  BY OneQuestion, ConversationAssumption DEF IsAsk, NextReply
<1>2. ask' = [ask EXCEPT ![a] = c]
  BY DEF NextReply
<1>3. UNCHANGED <<chat, settings, reached, replies, proposals, switches>>
  BY DEF NextReply
<1>4. n \in 0 .. RepeatLimit /\ replies[a] <= Capped(ask[a].steps) * RepeatLimit + n
  <2>1. Capped(ask[a].steps) * RepeatLimit \in Nat
    BY <1>1, CapEnds
  <2>2. CASE ask[a].fresh
    <3>1. replies[a] <= Capped(ask[a].steps) * RepeatLimit
      BY <1>1, <2>2, OneQuestion DEF RoundsOf
    <3>2. QED
      BY <1>1, <2>1, <2>2, <3>1 DEF Repeats
  <2>3. CASE ~ask[a].fresh
    <3>1. /\ ask[a].repeats < RepeatLimit
          /\ replies[a] <= Capped(ask[a].steps) * RepeatLimit + ask[a].repeats + 1
      BY <1>1, <2>3, OneQuestion DEF RoundsOf
    <3>2. QED
      BY <1>1, <2>1, <2>3, <3>1 DEF Repeats
  <2>4. QED
    BY <1>1, <2>2, <2>3
<1> HIDE DEF n
<1>5. /\ c \in IsAsk /\ c.at = "thinking" /\ c.seen = ask[a].seen /\ c.steps = ask[a].steps /\ c.repeats = n
  BY <1>1, <1>4 DEF IsAsk
<1> HIDE DEF c
<1>6. RoundsOf(c, replies[a])
  BY <1>4, <1>5 DEF RoundsOf
<1>7. QED
  BY <1>1, <1>2, <1>3, <1>5, <1>6, OneQuestion, QuestionTurns

LEMMA AskedStays ==
  ASSUME NEW s \in Seq(Said), NEW e \in Said, NEW a \in Asks, Asked(s, a)
  PROVE  Asked(Append(s, e), a)
<1>1. PICK i \in 1 .. Len(s) : /\ s[i] = [role |-> "user", of |-> a]
                               /\ \A j \in 1 .. i : s[j] # [role |-> "assistant", of |-> a]
  BY DEF Asked
<1>2. /\ i \in 1 .. Len(Append(s, e)) /\ \A j \in 1 .. i : Append(s, e)[j] = s[j]
  OBVIOUS
<1>3. i \in 1 .. i
  OBVIOUS
<1>4. QED
  BY <1>1, <1>2, <1>3 DEF Asked

LEMMA NowAsked ==
  ASSUME NEW s \in Seq(Said), NEW a \in Asks, \A i \in 1 .. Len(s) : s[i] # [role |-> "assistant", of |-> a]
  PROVE  Asked(Append(s, [role |-> "user", of |-> a]), a)
<1> DEFINE e == [role |-> "user", of |-> a]
           n == Len(s) + 1
<1>1. e # [role |-> "assistant", of |-> a]
  OBVIOUS
<1> HIDE DEF e
<1>2. /\ n \in 1 .. Len(Append(s, e)) /\ Append(s, e)[n] = e
      /\ \A j \in 1 .. n : j = n \/ (j \in 1 .. Len(s) /\ Append(s, e)[j] = s[j])
  OBVIOUS
<1>3. \A j \in 1 .. n : Append(s, e)[j] # [role |-> "assistant", of |-> a]
  BY <1>1, <1>2
<1>4. QED
  BY <1>2, <1>3 DEF Asked, e

\* A message is added to the chat.
LEMMA MessageIsStored ==
  ASSUME ConversationInv, NEW a \in Asks, NEW role \in {"user", "assistant"}, NEW at, Turns(a, at),
         chat' = Says(role, a), UNCHANGED <<settings, reached, replies, proposals, switches>>,
         \/ /\ role = "user" /\ at = "thinking" /\ ask[a].at = "asked"
         \/ /\ role = "assistant" /\ at = "replied" /\ ask[a].at = "answered"
  PROVE  ConversationInv'
<1> DEFINE c == [ask[a] EXCEPT !.at = at]
           e == [role |-> role, of |-> a]
           said == chat.said
<1>1. /\ ask[a] \in IsAsk /\ RoundsOf(ask[a], replies[a]) /\ replies[a] \in Nat
      /\ \A l \in Lookups : reached[a][l] = 0 \/ (reached[a][l] = 1 /\ l \in ask[a].seen)
  BY OneQuestion
<1>2. /\ ask \in [Asks -> IsAsk]
      /\ chat \in [is : BOOLEAN, model : {"default", "chosen"}, said : Seq(Said)]
      /\ said \in Seq(Said) /\ e \in Said
  BY DEF ConversationInv, ConversationTyped, Said
<1>3. ask' = [ask EXCEPT ![a] = c]
  BY DEF Turns
<1>4. /\ chat' \in [is : BOOLEAN, model : {"default", "chosen"}, said : Seq(Said)]
      /\ chat'.is = chat.is /\ chat'.said = Append(said, e)
  <2> DEFINE q == Append(said, e)
  <2>1. q \in Seq(Said) /\ chat' = [chat EXCEPT !.said = q]
    BY <1>2 DEF Says
  <2> HIDE DEF q, said, e
  <2>2. chat' \in [is : BOOLEAN, model : {"default", "chosen"}, said : Seq(Said)] /\ chat'.is = chat.is /\ chat'.said = q
    BY <1>2, <2>1
  <2>3. QED
    BY <2>2 DEF q
<1>5. /\ c \in IsAsk /\ c.at = at /\ c.seen = ask[a].seen /\ c.steps = ask[a].steps /\ c.repeats = ask[a].repeats
      /\ c.fresh = ask[a].fresh
  BY <1>1 DEF IsAsk
<1> HIDE DEF c, e, said
<1>6. \A b \in Asks : ask'[b] = IF b = a THEN c ELSE ask[b]
  BY <1>2, <1>3
<1>7. ask' \in [Asks -> IsAsk]
  BY <1>2, <1>3, <1>5
<1>8. ConversationTyped'
  BY <1>4, <1>7 DEF ConversationInv, ConversationTyped
<1>9. RoundsOf(c, replies[a])
  <2>1. CASE role = "user"
    <3>1. replies[a] = 0 /\ ask[a].steps = 0 /\ ask[a].repeats = 0 /\ at = "thinking"
      BY <1>1, <2>1 DEF RoundsOf
    <3>2. Capped(0) * RepeatLimit \in Nat
      BY CapEnds
    <3>3. QED
      BY <1>5, <3>1, <3>2 DEF RoundsOf
  <2>2. CASE role = "assistant"
    <3>1. at = "replied" /\ replies[a] <= (RunawayCap + 1) * RepeatLimit + 1
      BY <1>1, <2>2 DEF RoundsOf
    <3>2. QED
      BY <1>5, <3>1 DEF RoundsOf
  <2>3. QED
    BY <2>1, <2>2
<1>10. ASSUME NEW b \in Asks PROVE (ReachedOnce(b) /\ RoundsOf(ask[b], replies[b]))'
  <2>1. CASE b = a
    BY <1>1, <1>5, <1>6, <1>9, <2>1 DEF ReachedOnce
  <2>2. CASE b # a
    <3>1. ask'[b] = ask[b] /\ ReachedOnce(b) /\ RoundsOf(ask[b], replies[b])
      BY <1>6, <2>2 DEF ConversationInv
    <3>2. QED
      BY <3>1 DEF ReachedOnce
  <2>3. QED
    BY <2>1, <2>2
<1>11. ASSUME NEW b \in Asks, NEW i \in 1 .. Len(said), said[i] = [role |-> "assistant", of |-> b]
       PROVE  ask[b].at = "replied" /\ b # a
  <2>1. ask[b].at = "replied"
    BY <1>11 DEF ConversationInv, RepliesAreLast, said
  <2>2. QED
    BY <2>1
<1>12. RepliesAreLast'
  <2> SUFFICES ASSUME NEW b \in Asks, NEW i \in 1 .. Len(Append(said, e)),
                      Append(said, e)[i] = [role |-> "assistant", of |-> b]
               PROVE  ask'[b].at = "replied"
    BY <1>4 DEF RepliesAreLast
  <2>1. CASE i \in 1 .. Len(said)
    <3>1. said[i] = [role |-> "assistant", of |-> b]
      BY <1>2, <2>1
    <3>2. QED
      BY <1>6, <1>11, <2>1, <3>1
  <2>2. CASE i = Len(said) + 1
    <3>1. e = [role |-> "assistant", of |-> b]
      BY <1>2, <2>2
    <3>2. b = a /\ role = "assistant"
      BY <3>1 DEF e
    <3>3. QED
      BY <1>5, <1>6, <3>2
  <2>3. QED
    BY <1>2, <2>1, <2>2
<1>13. QuestionsAreIn'
  <2> SUFFICES ASSUME NEW b \in Asks, chat.is,
                      ask'[b].at \in {"thinking", "looking", "answered", "replied"}
               PROVE  Asked(Append(said, e), b)
    BY <1>4 DEF QuestionsAreIn
  <2>1. CASE b = a /\ role = "user"
    <3>1. \A i \in 1 .. Len(said) : said[i] # [role |-> "assistant", of |-> a]
      BY <1>11
    <3>2. QED
      BY <1>2, <2>1, <3>1, NowAsked DEF e
  <2>2. CASE ~(b = a /\ role = "user")
    <3>1. ask[b].at \in {"thinking", "looking", "answered", "replied"}
      BY <1>6, <2>2
    <3>2. Asked(said, b)
      BY <3>1 DEF ConversationInv, QuestionsAreIn, said
    <3>3. QED
      BY <1>2, <3>2, AskedStays
  <2>3. QED
    BY <2>1, <2>2
<1>14. QED
  BY <1>8, <1>10, <1>12, <1>13 DEF ConversationInv

LEMMA ChatIsGone ==
  ASSUME ConversationInv, NEW a \in Asks, ask[a].at \in {"asked", "answered"}, Turns(a, "failed"),
         UNCHANGED <<chat, settings, reached, replies, proposals, switches>>
  PROVE  ConversationInv'
<1> DEFINE c == [ask[a] EXCEPT !.at = "failed"]
<1>1. ask[a] \in IsAsk /\ RoundsOf(ask[a], replies[a]) /\ replies[a] \in Nat
  BY OneQuestion
<1>2. ask' = [ask EXCEPT ![a] = c] /\ c \in IsAsk /\ c.at = "failed" /\ c.seen = ask[a].seen
  BY <1>1 DEF Turns, IsAsk
<1> HIDE DEF c
<1>3. replies[a] <= (RunawayCap + 1) * RepeatLimit + 1
  BY <1>1, CapEnds DEF RoundsOf
<1>4. RoundsOf(c, replies[a])
  BY <1>2, <1>3 DEF RoundsOf
<1>5. QED
  BY <1>1, <1>2, <1>4, OneQuestion, QuestionTurns

LEMMA DeleteChatKeeps == ASSUME ConversationInv, DeleteChat PROVE ConversationInv'
<1>1. UNCHANGED <<settings, ask, reached, replies, proposals, switches>>
  BY DEF DeleteChat
<1>0. <<>> \in Seq(Said) /\ Len(<<>>) = 0
  OBVIOUS
<1>2. chat'.is = FALSE /\ chat'.said = <<>> /\ chat' \in [is : BOOLEAN, model : {"default", "chosen"}, said : Seq(Said)]
  BY <1>0 DEF DeleteChat, ConversationInv, ConversationTyped
<1>3. ConversationTyped'
  BY <1>1, <1>2 DEF ConversationInv, ConversationTyped
<1>4. RepliesAreLast' /\ QuestionsAreIn'
  BY <1>0, <1>2 DEF RepliesAreLast, QuestionsAreIn
<1>5. \A a \in Asks : (ReachedOnce(a) /\ RoundsOf(ask[a], replies[a]))'
  BY <1>1 DEF ConversationInv, ReachedOnce
<1>6. QED
  BY <1>3, <1>4, <1>5 DEF ConversationInv

LEMMA ConversationKept == ASSUME ConversationInv, [ConversationNext]_chatVars PROVE ConversationInv'
<1>1. CASE UNCHANGED chatVars
  BY <1>1 DEF chatVars, ConversationInv, ConversationTyped, ReachedOnce, RepliesAreLast, QuestionsAreIn
<1>2. CASE DeleteChat
  BY <1>2, DeleteChatKeeps
<1>3. CASE \E c \in [enabled : BOOLEAN, key : BOOLEAN, free : BOOLEAN] : Configure(c)
  <2>1. /\ UNCHANGED <<chat, ask, reached, replies, proposals>>
        /\ settings' \in [enabled : BOOLEAN, key : BOOLEAN, free : BOOLEAN]
        /\ switches < MaxSwitches /\ switches' = switches + 1
    BY <1>3 DEF Configure
  <2>2. switches' \in 0 .. MaxSwitches
    BY <2>1, ConversationAssumption DEF ConversationInv, ConversationTyped
  <2>3. QED
    BY <2>1, <2>2 DEF ConversationInv, ConversationTyped, ReachedOnce, RepliesAreLast, QuestionsAreIn
<1>4. CASE \E a \in Asks : AskStep(a)
  <2> SUFFICES ASSUME NEW a \in Asks, AskStep(a) PROVE ConversationInv'
    BY <1>4
  <2>1. CASE AskQuestion(a)
    BY <2>1, AskQuestionKeeps
  <2>2. CASE ReadHistory(a)
    BY <2>2, ReadHistoryKeeps
  <2>3. CASE StoreQuestion(a)
    <3>1. CASE chat.is
      BY <2>3, <3>1, MessageIsStored DEF StoreQuestion
    <3>2. CASE ~chat.is
      BY <2>3, <3>2, ChatIsGone DEF StoreQuestion
    <3>3. QED
      BY <3>1, <3>2
  <2>4. CASE ProviderFails(a)
    BY <2>4, LastReplyKeeps DEF ProviderFails
  <2>5. CASE Answers(a)
    BY <2>5, LastReplyKeeps DEF Answers
  <2>6. CASE NextReply(a)
    BY <2>6, NextReplyKeeps
  <2>7. CASE StoreReply(a)
    <3>1. CASE chat.is
      BY <2>7, <3>1, MessageIsStored DEF StoreReply
    <3>2. CASE ~chat.is
      BY <2>7, <3>2, ChatIsGone DEF StoreReply
    <3>3. QED
      BY <3>1, <3>2
  <2>8. CASE \E W \in SUBSET Lookups : AsksFor(a, W)
    BY <2>8, AsksForKeeps
  <2>9. CASE \E l \in Lookups : LookAgain(a, l) \/ Look(a, l)
    BY <2>9, LookAgainKeeps, LookKeeps
  <2>10. QED
    BY <2>1, <2>2, <2>3, <2>4, <2>5, <2>6, <2>7, <2>8, <2>9 DEF AskStep
<1>5. QED
  BY <1>1, <1>2, <1>3, <1>4 DEF ConversationNext

LEMMA ConversationHolds == ASSUME ConversationInv PROVE ChatIsKept
<1>1. ConversationTypeOK
  BY DEF ConversationInv, ConversationTyped, ConversationTypeOK, IsAsk
<1>2. StuckModelIsStopped
  <2> SUFFICES ASSUME NEW a \in Asks
               PROVE  /\ \A l \in Lookups : reached[a][l] <= 1
                      /\ replies[a] <= (RunawayCap + 1) * RepeatLimit + 1
    BY DEF StuckModelIsStopped
  <2>1. ask[a] \in IsAsk /\ ask[a].steps \in Nat /\ ask[a].repeats \in 0 .. RepeatLimit /\ replies[a] \in Nat
    BY OneQuestion DEF IsAsk
  <2>2. RepeatLimit \in Nat /\ RepeatLimit >= 1
    BY ConversationAssumption
  <2>3. /\ Capped(ask[a].steps) * RepeatLimit + RepeatLimit <= (RunawayCap + 1) * RepeatLimit
        /\ Capped(ask[a].steps) * RepeatLimit \in Nat /\ (RunawayCap + 1) * RepeatLimit \in Nat
    BY <2>1, CapEnds
  <2>4. replies[a] <= (RunawayCap + 1) * RepeatLimit + 1
    <3>1. ask[a].at \in {"idle", "entered", "asked"} => replies[a] = 0
      BY OneQuestion DEF RoundsOf
    <3>2. ask[a].at = "thinking" => replies[a] <= Capped(ask[a].steps) * RepeatLimit + ask[a].repeats
      BY OneQuestion DEF RoundsOf
    <3>3. ask[a].at = "looking" => replies[a] <= Capped(ask[a].steps) * RepeatLimit + RepeatLimit
      BY <2>1, <2>2, <2>3, OneQuestion DEF RoundsOf
    <3>4. ask[a].at \in {"answered", "failed", "replied"} => replies[a] <= (RunawayCap + 1) * RepeatLimit + 1
      BY OneQuestion DEF RoundsOf
    <3>5. ask[a].at \in {"idle", "entered", "asked", "thinking", "looking", "answered", "failed", "replied"}
      BY <2>1 DEF IsAsk
    <3>6. QED
      BY <2>1, <2>2, <2>3, <3>1, <3>2, <3>3, <3>4, <3>5
  <2>5. \A l \in Lookups : reached[a][l] <= 1
    BY OneQuestion
  <2>6. QED
    BY <2>4, <2>5
<1>3. QuestionsAreKept
  BY DEF ConversationInv, QuestionsAreIn, Asked, QuestionsAreKept
<1>4. QED
  BY <1>1, <1>2, <1>3 DEF ChatIsKept

(***************************************************************************)
(* However often a model asks for the same, and whatever it asks for, the  *)
(* plugin is reached once for a lookup and the model is asked a bounded    *)
(* number of times; what somebody typed stays in a chat that is there,     *)
(* before its reply.                                                       *)
(***************************************************************************)
THEOREM ChatKept == ConversationSpec => []ChatIsKept
<1>1. ConversationInv /\ [ConversationNext]_chatVars => ConversationInv'
  BY ConversationKept
<1>2. ConversationInv => ChatIsKept
  BY ConversationHolds
<1>3. QED
  BY ConversationStart, <1>1, <1>2, PTL DEF ConversationSpec

-----------------------------------------------------------------------------
(***************************************************************************)
(* Listings: what is read a page at a time while rows come and go.         *)
(***************************************************************************)

\* How many members come before one of them.
Below(E, f, e) == Cardinality({d \in E : f[d] < f[e]})

\* Members of a finite set that are told apart by a number are ranked by it, and
\* every rank below their count is taken.
LEMMA EveryRankIsTaken ==
  ASSUME NEW E, IsFiniteSet(E), NEW f \in [E -> Nat], \A d, e \in E : f[d] = f[e] => d = e
  PROVE  /\ Cardinality(E) \in Nat
         /\ \A e \in E : Below(E, f, e) \in 0 .. Cardinality(E) - 1
         /\ \A d, e \in E : Below(E, f, d) = Below(E, f, e) => d = e
         /\ \A n \in 0 .. Cardinality(E) - 1 : \E e \in E : Below(E, f, e) = n
<1> DEFINE lower(e) == {d \in E : f[d] < f[e]}
           below(e) == Cardinality(lower(e))
           place == [e \in E |-> below(e)]
           top == Cardinality(E) - 1
<1>1. Cardinality(E) \in Nat BY FS_CardinalityType
<1>2. ASSUME NEW e \in E PROVE IsFiniteSet(lower(e)) /\ below(e) \in 0 .. top
  <2>1. lower(e) \in SUBSET E /\ e \notin lower(e)
    <3>1. f[e] \in Nat OBVIOUS
    <3> QED BY <3>1
  <2>2. IsFiniteSet(lower(e)) /\ below(e) <= Cardinality(E) /\ (Cardinality(E) = below(e) => E = lower(e))
    BY <2>1, FS_Subset
  <2>3. below(e) \in Nat BY <2>2, FS_CardinalityType
  <2>4. below(e) # Cardinality(E) BY <2>1, <2>2
  <2> HIDE DEF below
  <2> QED BY <1>1, <2>2, <2>3, <2>4
<1>3. ASSUME NEW d \in E, NEW e \in E, f[d] < f[e] PROVE below(d) # below(e)
  <2>1. lower(d) \in SUBSET lower(e)
    <3>1. \A x \in E : f[x] \in Nat OBVIOUS
    <3> QED BY <1>3, <3>1
  <2>2. d \in lower(e) /\ d \notin lower(d)
    <3>1. f[d] \in Nat OBVIOUS
    <3> QED BY <1>3, <3>1
  <2>3. IsFiniteSet(lower(e)) BY <1>2
  <2>4. below(e) = below(d) => lower(e) = lower(d) BY <2>1, <2>3, FS_Subset
  <2> QED BY <2>2, <2>4
<1>4. ASSUME NEW d \in E, NEW e \in E, below(d) = below(e) PROVE d = e
  <2>1. f[d] \in Nat /\ f[e] \in Nat OBVIOUS
  <2>2. f[d] = f[e] \/ f[d] < f[e] \/ f[e] < f[d] BY <2>1
  <2> QED BY <1>3, <1>4, <2>2
<1>5. place \in [E -> 0 .. top] BY <1>2
<1>6. DOMAIN place = E /\ \A e \in E : place[e] = below(e) OBVIOUS
<1> HIDE DEF place, below
<1>7. place \in Injection(E, 0 .. top) BY <1>4, <1>5, <1>6 DEF Injection, IsInjective
<1>8. IsFiniteSet(0 .. top) /\ Cardinality(0 .. top) = Cardinality(E)
  <2>1. top \in Int /\ IsFiniteSet(0 .. top) /\ Cardinality(0 .. top) = (IF 0 > top THEN 0 ELSE top - 0 + 1)
    BY <1>1, FS_Interval
  <2> QED BY <1>1, <2>1
<1>9. place \in Surjection(E, 0 .. top) BY <1>7, <1>8, FS_Injection
<1>10. \A n \in 0 .. top : \E e \in E : place[e] = n BY <1>9 DEF Surjection
<1>11. \A e \in E : below(e) = Below(E, f, e) BY DEF below, Below
<1>12. \A e \in E : Below(E, f, e) \in 0 .. Cardinality(E) - 1 BY <1>2, <1>11
<1>13. \A d, e \in E : Below(E, f, d) = Below(E, f, e) => d = e BY <1>4, <1>11
<1>14. \A n \in 0 .. Cardinality(E) - 1 : \E e \in E : Below(E, f, e) = n BY <1>6, <1>10, <1>11
<1> QED BY <1>1, <1>12, <1>13, <1>14

\* Each extension has its own id.
OwnIds == \A m, n \in There : extension[m] = extension[n] => m = n

\* The rows of a list, each at its own place of the order.
LEMMA EntriesAre ==
  ASSUME extension \in [Rows -> 0 .. ids], ids \in Nat, OwnIds
  PROVE  /\ IsFiniteSet(Entries) /\ Entries \subseteq Rows \X (1 .. ids)
         /\ \A e \in Entries : e[1] \in There /\ e = <<e[1], extension[e[1]]>>
         /\ \A n \in There : <<n, extension[n]>> \in Entries
         /\ \A kind : \A e \in Entries : Key(kind, e) \in Nat
         /\ \A kind : \A d, e \in Entries : Key(kind, d) = Key(kind, e) => d = e
<1>1. There \in SUBSET Rows /\ \A n \in There : extension[n] \in 1 .. ids BY DEF There
<1>2. Entries \subseteq Rows \X (1 .. ids) BY <1>1 DEF Entries
<1>3. \A n \in There : <<n, extension[n]>> \in Entries BY DEF Entries
<1>4. \A e \in Entries : e[1] \in There /\ e = <<e[1], extension[e[1]]>> BY DEF Entries
<1>5. IsFiniteSet(Entries)
  <2>1. IsFiniteSet(Rows) BY ListingsAssumption, FS_Interval DEF Rows
  <2>2. IsFiniteSet(There) BY <1>1, <2>1, FS_Subset
  <2> DEFINE f == [n \in There |-> <<n, extension[n]>>]
  <2>3. f \in Surjection(There, Entries) BY <1>3, <1>4 DEF Surjection
  <2> QED BY <2>2, <2>3, FS_Surjection
<1>6. \A kind : \A e \in Entries : Key(kind, e) \in Nat BY <1>2 DEF Key, Rows
<1>7. \A kind : \A d, e \in Entries : Key(kind, d) = Key(kind, e) => d = e
  <2> SUFFICES ASSUME NEW kind, NEW d \in Entries, NEW e \in Entries, Key(kind, d) = Key(kind, e) PROVE d = e
    OBVIOUS
  <2>1. /\ d[1] \in There /\ d = <<d[1], extension[d[1]]>> /\ e[1] \in There /\ e = <<e[1], extension[e[1]]>>
    BY <1>4
  <2>2. d[2] = extension[d[1]] /\ e[2] = extension[e[1]] BY <1>2, <2>1
  <2>3. d[1] = e[1] BY <2>1, <2>2 DEF Key, OwnIds
  <2> QED BY <2>1, <2>3
<1> QED BY <1>2, <1>3, <1>4, <1>5, <1>6, <1>7

\* A page that is not full is the last: no row ranks behind it.
LEMMA NothingBehind ==
  ASSUME extension \in [Rows -> 0 .. ids], ids \in Nat, OwnIds,
         NEW kind, NEW skip \in Nat, LastPage(Page(kind, skip)), NEW e \in Entries
  PROVE  Rank(kind, e) < skip + PageSize
<1>1. /\ IsFiniteSet(Entries)
      /\ \A x \in Entries : Key(kind, x) \in Nat
      /\ \A d, x \in Entries : Key(kind, d) = Key(kind, x) => d = x
  BY EntriesAre
<1>2. PICK E : E = Entries OBVIOUS
<1>3. PICK f : f = [x \in E |-> Key(kind, x)] OBVIOUS
<1>4. f \in [E -> Nat] /\ \A d, x \in E : f[d] = f[x] => d = x BY <1>1, <1>2, <1>3
<1> DEFINE below(x) == Below(E, f, x)
<1>5. /\ Cardinality(E) \in Nat
      /\ \A x \in E : below(x) \in 0 .. Cardinality(E) - 1
      /\ \A d, x \in E : below(d) = below(x) => d = x
      /\ \A n \in 0 .. Cardinality(E) - 1 : \E x \in E : below(x) = n
  BY <1>1, <1>2, <1>4, EveryRankIsTaken
<1>6. ASSUME NEW x \in E PROVE Rank(kind, x) = below(x)
  <2>1. \A d \in E : f[d] = Key(kind, d) BY <1>3
  <2>2. {d \in E : f[d] < f[x]} = {d \in Entries : Key(kind, d) < Key(kind, x)} BY <1>2, <2>1
  <2> QED BY <2>2 DEF Rank, Below
<1> HIDE DEF below
<1>7. SUFFICES ASSUME ~(Rank(kind, e) < skip + PageSize) PROVE FALSE OBVIOUS
<1>8. PICK P : P = Page(kind, skip) OBVIOUS
<1>9. PICK I : I = skip .. skip + PageSize - 1 OBVIOUS
<1>10. PageSize \in Nat \ {0} /\ IsFiniteSet(I) /\ Cardinality(I) = PageSize
  <2>1. PageSize \in Nat \ {0} BY ListingsAssumption
  <2>2. /\ IsFiniteSet(skip .. skip + PageSize - 1)
        /\ Cardinality(skip .. skip + PageSize - 1)
             = IF skip > skip + PageSize - 1 THEN 0 ELSE (skip + PageSize - 1) - skip + 1
    BY <2>1, FS_Interval
  <2> QED BY <1>9, <2>1, <2>2
<1>11. P = {x \in E : below(x) \in I} BY <1>2, <1>6, <1>8, <1>9 DEF Page
<1>12. I \subseteq 0 .. Cardinality(E) - 1
  <2>1. below(e) \in 0 .. Cardinality(E) - 1 /\ ~(below(e) < skip + PageSize) BY <1>2, <1>5, <1>6, <1>7
  <2> QED BY <1>5, <1>9, <1>10, <2>1
<1> DEFINE place == [x \in P |-> below(x)]
<1>13. place \in [P -> I] /\ DOMAIN place = P /\ \A x \in P : place[x] = below(x) BY <1>11
<1> HIDE DEF place
<1>14. place \in Injection(P, I) BY <1>5, <1>11, <1>13 DEF Injection, IsInjective
<1>15. place \in Surjection(P, I)
  <2>1. \A n \in I : \E x \in P : place[x] = n BY <1>5, <1>11, <1>12, <1>13
  <2> QED BY <1>13, <2>1 DEF Surjection
<1>16. ExistsBijection(P, I) BY <1>14, <1>15 DEF ExistsBijection, Bijection
<1>17. IsFiniteSet(P) BY <1>1, <1>2, <1>11, FS_Subset
<1>18. Cardinality(P) = PageSize BY <1>10, <1>16, <1>17, FS_Bijection
<1> QED BY <1>8, <1>10, <1>18 DEF LastPage

\* A call: what it is of, and its answer.
Readings == [kind : ListKinds, asked : Seq(Nat), todo : Seq(Nat), at : Places, skip : 0 .. MaxRead,
             got : SUBSET (Rows \X Nat), whole : BOOLEAN, id : Nat]
Outcomes == [done : SUBSET Nat, changed : SUBSET Nat, failed : SUBSET Nat, missing : SUBSET Nat, lost : BOOLEAN]

ListTyped ==
  /\ ids \in Nat /\ extension \in [Rows -> 0 .. ids] /\ approved \in BOOLEAN
  /\ \A g \in groups : g.number \in Nat /\ g.members \subseteq 1 .. ids
  /\ reading \in [Readers -> Readings] /\ result \in [Readers -> Outcomes]
  /\ stayed \in [Readers -> SUBSET Rows] /\ gone \in [Readers -> SUBSET (Rows \X (1 .. ids))]
  /\ edits \in 0 .. MaxEdits /\ gaps \in 0 .. MaxGaps

\* A row before this one was taken away.
Ahead(kind, gn, n) == \E e \in gn : Key(kind, e) < Key(kind, <<n, extension[n]>>)

\* What a reader has of the rows that stayed (st), of those before which none was
\* taken away (gn): all before its place, or all.
SoFar(b, st, gn) ==
  /\ b.at = "reading" /\ b.kind # "ungroup" =>
       \A n \in st : Rank(b.kind, <<n, extension[n]>>) < b.skip => n \in Numbers(b.got) \/ Ahead(b.kind, gn, n)
  /\ b.at = "read" /\ b.whole => \A n \in st : n \in Numbers(b.got) \/ Ahead(b.kind, gn, n)
Unlisted(b, st, gn, o) ==
  \A n \in o.missing \cap Rows : b.kind \in {"select", "group"} => n \notin st \/ Ahead(b.kind, gn, n) \/ ~b.whole

\* What a call says, by its kind.
Told(b, o) ==
  /\ b.at # "over" /\ b.kind # "bulk" => o = NoResult
  /\ b.kind = "select" =>
       /\ Len(b.asked) = 2
       /\ b.at = "over" /\ ~TooMany(b.asked) =>
            o.changed \cap o.missing = {} /\ Span(b.asked) \subseteq o.changed \cup o.missing
  /\ b.kind \in {"group", "ungroup"} => b.asked # <<>>
  /\ b.kind = "group" /\ o.changed # {} => Range(Tail(b.asked)) \subseteq Numbers(b.got) /\ o.missing = {}
  /\ b.kind = "bulk" =>
       /\ b.at \in {"finding", "writing", "over"}
       /\ o.changed \subseteq o.done /\ (o.done \ o.changed # {} => o.lost)
       /\ b.at \in {"finding", "writing"} => Range(b.asked) = Range(b.todo) \cup o.changed \cup o.failed
       /\ b.at = "writing" => b.todo # <<>>
       /\ b.at = "over" => Range(b.asked) = o.changed \cup o.failed
  /\ b.at \in {"finding", "writing"} => b.kind = "bulk"
  /\ b.at = "idle" => b = NoReading

Given(b) == b.id \in 0 .. ids /\ \A e \in b.got : e[2] \in 1 .. ids

ReaderFine(b, st, gn, o) ==
  /\ st \subseteq There
  /\ b.at \notin {"read", "over"} => b.whole = FALSE
  /\ SoFar(b, st, gn) /\ Unlisted(b, st, gn, o) /\ Told(b, o) /\ Given(b)

ListInv ==
  /\ ListTyped /\ OwnIds
  /\ \A r \in Readers : ReaderFine(reading[r], stayed[r], gone[r], result[r])

\* Nothing was read at the start.
LEMMA ListStart == ListingsInit => ListInv
<1> SUFFICES ASSUME ListingsInit PROVE ListInv OBVIOUS
<1>1. <<>> \in Seq(Nat) BY EmptySeq
<1>2. LastNumber \in Nat /\ MaxRead \in Nat BY ListingsAssumption
<1>3. NoReading \in Readings BY <1>1, <1>2 DEF NoReading, Readings, ListKinds, Places
<1>4. NoResult \in Outcomes BY DEF NoResult, Outcomes
<1>5. extension \in [Rows -> 0 .. ids] /\ \A n \in Rows : extension[n] \in {0, n}
  <2>1. PICK S \in SUBSET Rows : extension = [n \in Rows |-> IF n \in S THEN n ELSE 0] BY DEF ListingsInit
  <2>2. ids = LastNumber /\ \A n \in Rows : n \in 0 .. ids /\ 0 \in 0 .. ids BY <1>2 DEF ListingsInit, Rows
  <2> QED BY <2>1, <2>2
<1>6. OwnIds BY <1>5 DEF OwnIds, There
<1>7. ListTyped BY <1>2, <1>3, <1>4, <1>5, ListingsAssumption DEF ListingsInit, ListTyped
<1>8. ReaderFine(NoReading, {}, {}, NoResult)
  <2>1. Given(NoReading) BY <1>2 DEF Given, NoReading, ListingsInit
  <2>2. Told(NoReading, NoResult) BY DEF Told, NoReading, NoResult
  <2>3. SoFar(NoReading, {}, {}) BY DEF SoFar, NoReading
  <2>4. Unlisted(NoReading, {}, {}, NoResult) BY DEF Unlisted, NoResult
  <2> QED BY <2>1, <2>2, <2>3, <2>4 DEF ReaderFine, NoReading
<1>9. \A r \in Readers : reading[r] = NoReading /\ stayed[r] = {} /\ gone[r] = {} /\ result[r] = NoResult
  BY DEF ListingsInit
<1> QED BY <1>6, <1>7, <1>8, <1>9 DEF ListInv

\* What holds of a call depends on the extensions only.
LEMMA FineStays ==
  ASSUME extension' = extension, ids' = ids, NEW CONSTANT b, NEW CONSTANT st, NEW CONSTANT gn, NEW CONSTANT o
  PROVE  ReaderFine(b, st, gn, o)' <=> ReaderFine(b, st, gn, o)
<1>1. There' = There /\ Entries' = Entries BY DEF There, Entries
<1>2. \A kind, e : Rank(kind, e)' = Rank(kind, e) BY <1>1 DEF Rank, Key
<1>3. \A n : Ahead(b.kind, gn, n)' <=> Ahead(b.kind, gn, n) BY DEF Ahead, Key
<1>4. SoFar(b, st, gn)' <=> SoFar(b, st, gn) BY <1>2, <1>3 DEF SoFar, Numbers
<1>5. Unlisted(b, st, gn, o)' <=> Unlisted(b, st, gn, o) BY <1>3 DEF Unlisted
<1>6. Given(b)' <=> Given(b) BY DEF Given
<1> QED BY <1>1, <1>4, <1>5, <1>6 DEF ReaderFine

\* One call goes on while nothing is done at the console.
LEMMA ReaderGoesOn ==
  ASSUME ListInv, NEW r \in Readers, UNCHANGED <<extension, ids, approved, edits>>,
         \A g \in groups' : g.number \in Nat /\ g.members \subseteq 1 .. ids,
         gaps' \in 0 .. MaxGaps,
         NEW c \in Readings, NEW st \in SUBSET Rows, NEW gn \in SUBSET (Rows \X (1 .. ids)), NEW o \in Outcomes,
         reading' = [reading EXCEPT ![r] = c], stayed' = [stayed EXCEPT ![r] = st],
         gone' = [gone EXCEPT ![r] = gn], result' = [result EXCEPT ![r] = o],
         ReaderFine(c, st, gn, o)
  PROVE  ListInv'
<1>1. ListTyped' BY DEF ListInv, ListTyped
<1>2. OwnIds' BY DEF ListInv, OwnIds, There
<1>3. \A p \in Readers : /\ reading'[p] = IF p = r THEN c ELSE reading[p]
                         /\ stayed'[p] = IF p = r THEN st ELSE stayed[p]
                         /\ gone'[p] = IF p = r THEN gn ELSE gone[p]
                         /\ result'[p] = IF p = r THEN o ELSE result[p]
  BY DEF ListInv, ListTyped
<1>4. ASSUME NEW p \in Readers PROVE ReaderFine(reading[p], stayed[p], gone[p], result[p])'
  <2>1. PICK b, s, g, u : b = reading'[p] /\ s = stayed'[p] /\ g = gone'[p] /\ u = result'[p] OBVIOUS
  <2>2. ReaderFine(b, s, g, u) BY <1>3, <2>1 DEF ListInv
  <2>3. ReaderFine(b, s, g, u)' BY <2>2, FineStays
  <2> QED BY <2>1, <2>3
<1> QED BY <1>1, <1>2, <1>4 DEF ListInv

\* A call, with what is known of it.
LEMMA TheReader ==
  ASSUME ListInv, NEW r \in Readers
  PROVE  /\ reading[r] \in Readings /\ result[r] \in Outcomes
         /\ stayed[r] \in SUBSET Rows /\ gone[r] \in SUBSET (Rows \X (1 .. ids))
         /\ ReaderFine(reading[r], stayed[r], gone[r], result[r])
         /\ stayed = [stayed EXCEPT ![r] = stayed[r]] /\ gone = [gone EXCEPT ![r] = gone[r]]
         /\ result = [result EXCEPT ![r] = result[r]]
BY DEF ListInv, ListTyped

\* The place of a row is a number.
LEMMA RankIsNumber ==
  ASSUME ListInv, NEW kind, NEW e PROVE Rank(kind, e) \in Nat
<1>1. IsFiniteSet(Entries) BY EntriesAre DEF ListInv, ListTyped
<1>2. {f \in Entries : Key(kind, f) < Key(kind, e)} \in SUBSET Entries OBVIOUS
<1> QED BY <1>1, <1>2, FS_Subset, FS_CardinalityType DEF Rank

\* What a page adds to what was read.
Adds(b, st, gn, page) ==
  /\ page \in SUBSET (Rows \X Nat) /\ \A e \in page : e[2] \in 1 .. ids
  /\ \A n \in st : Rank(b.kind, <<n, extension[n]>>) < b.skip + PageSize
       => n \in Numbers(b.got \cup page) \/ Ahead(b.kind, gn, n)

\* A page adds the rows of its places.
LEMMA PageAdds ==
  ASSUME ListInv, NEW b \in Readings, NEW st \in SUBSET There, NEW gn, SoFar(b, st, gn),
         b.at = "reading", b.kind # "ungroup", NEW page, page = Page(b.kind, b.skip)
  PROVE  Adds(b, st, gn, page)
<1>1. /\ Entries \subseteq Rows \X (1 .. ids) /\ \A n \in There : <<n, extension[n]>> \in Entries
  BY EntriesAre DEF ListInv, ListTyped
<1>2. page \subseteq Entries BY DEF Page
<1>3. page \in SUBSET (Rows \X Nat) /\ \A e \in page : e[2] \in 1 .. ids BY <1>1, <1>2 DEF ListInv, ListTyped
<1>5. b.skip \in Nat /\ PageSize \in Nat BY ListingsAssumption DEF Readings
<1>7. ASSUME NEW n \in st, Rank(b.kind, <<n, extension[n]>>) < b.skip + PageSize
      PROVE  n \in Numbers(b.got \cup page) \/ Ahead(b.kind, gn, n)
  <2>1. PICK e : e = <<n, extension[n]>> OBVIOUS
  <2>2. e \in Entries /\ e[1] = n BY <1>1, <2>1
  <2>3. Rank(b.kind, e) \in Nat BY RankIsNumber
  <2>4. CASE Rank(b.kind, e) < b.skip
    <3>1. n \in Numbers(b.got) \/ Ahead(b.kind, gn, n) BY <2>1, <2>4 DEF SoFar
    <3> QED BY <3>1 DEF Numbers
  <2>5. CASE ~(Rank(b.kind, e) < b.skip)
    <3>1. Rank(b.kind, e) \in b.skip .. b.skip + PageSize - 1 BY <1>5, <1>7, <2>1, <2>3, <2>5
    <3>2. e \in page BY <2>2, <3>1 DEF Page
    <3> QED BY <2>2, <3>2 DEF Numbers
  <2> QED BY <2>4, <2>5
<1> QED BY <1>3, <1>7 DEF Adds

\* A call reads on: its result is as it was.
LEMMA ReadsOn ==
  ASSUME ListInv, NEW r \in Readers, UNCHANGED <<extension, ids, approved, edits, groups, result>>,
         gaps' \in 0 .. MaxGaps,
         NEW b \in Readings, b = reading[r], b.at \in {"reading", "falling back"}, b.kind # "bulk",
         NEW c \in Readings, c.kind = b.kind, c.asked = b.asked, Given(c),
         c.at \in {"reading", "falling back", "read"}, c.at # "read" => c.whole = FALSE,
         NEW st \in SUBSET There, NEW gn \in SUBSET (Rows \X (1 .. ids)), SoFar(c, st, gn),
         reading' = [reading EXCEPT ![r] = c], stayed' = [stayed EXCEPT ![r] = st], gone' = [gone EXCEPT ![r] = gn]
  PROVE  ListInv'
<1>1. PICK o \in Outcomes : o = result[r] /\ result = [result EXCEPT ![r] = o] BY TheReader
<1>2. Told(b, o) BY <1>1, TheReader DEF ReaderFine
<1>3. o = NoResult BY <1>2 DEF Told
<1>4. Told(c, o)
  <2>1. b.kind = "select" => Len(b.asked) = 2 BY <1>2 DEF Told
  <2>2. b.kind \in {"group", "ungroup"} => b.asked # <<>> BY <1>2 DEF Told
  <2>3. o.changed = {} BY <1>3 DEF NoResult
  <2>4. c.at # "over" /\ c.at # "idle" /\ c.at # "finding" /\ c.at # "writing" /\ c.kind # "bulk" OBVIOUS
  <2> QED BY <1>3, <2>1, <2>2, <2>3, <2>4 DEF Told
<1>5. Unlisted(c, st, gn, o) BY <1>3 DEF Unlisted, NoResult
<1>6. c.at \notin {"read", "over"} => c.whole = FALSE OBVIOUS
<1>7. ReaderFine(c, st, gn, o) BY <1>4, <1>5, <1>6 DEF ReaderFine
<1>8. st \in SUBSET Rows BY DEF There
<1>9. \A g \in groups' : g.number \in Nat /\ g.members \subseteq 1 .. ids BY DEF ListInv, ListTyped
<1>10. result' = [result EXCEPT ![r] = o] BY <1>1
<1>11. UNCHANGED <<extension, ids, approved, edits>> OBVIOUS
<1> QED BY <1>7, <1>8, <1>9, <1>10, <1>11, ReaderGoesOn

\* What is known of a call that reads.
LEMMA WhoReads ==
  ASSUME ListInv, NEW r \in Readers, reading[r].at \in {"reading", "falling back"}
  PROVE  \E b \in Readings, st \in SUBSET There, gn \in SUBSET (Rows \X (1 .. ids)) :
           /\ b = reading[r] /\ st = stayed[r] /\ gn = gone[r] /\ b.kind # "bulk" /\ b.whole = FALSE
           /\ SoFar(b, st, gn) /\ Given(b)
           /\ stayed = [stayed EXCEPT ![r] = st] /\ gone = [gone EXCEPT ![r] = gn]
<1>1. PICK b \in Readings, o \in Outcomes : b = reading[r] /\ o = result[r] BY TheReader
<1>2. PICK st, gn : st = stayed[r] /\ gn = gone[r] OBVIOUS
<1>3. ReaderFine(b, st, gn, o) /\ gn \in SUBSET (Rows \X (1 .. ids)) BY <1>1, <1>2, TheReader
<1>4. st \in SUBSET There /\ SoFar(b, st, gn) /\ Given(b) /\ Told(b, o) BY <1>3 DEF ReaderFine
<1>5. b.whole = FALSE BY <1>1, <1>3 DEF ReaderFine
<1>6. b.kind # "bulk" BY <1>1, <1>4 DEF Told
<1>7. stayed = [stayed EXCEPT ![r] = st] /\ gone = [gone EXCEPT ![r] = gn] BY <1>2, TheReader
<1> QED BY <1>1, <1>2, <1>3, <1>4, <1>5, <1>6, <1>7

\* A page is read.
LEMMA ReadPageKeeps ==
  ASSUME ListInv, NEW r \in Readers, ReadPage(r)
  PROVE  ListInv'
<1>0. reading[r].at \in {"reading", "falling back"} BY DEF ReadPage
<1>1. PICK b \in Readings, st \in SUBSET There, gn \in SUBSET (Rows \X (1 .. ids)) :
           /\ b = reading[r] /\ st = stayed[r] /\ gn = gone[r] /\ b.kind # "bulk" /\ b.whole = FALSE
           /\ SoFar(b, st, gn) /\ Given(b)
           /\ stayed = [stayed EXCEPT ![r] = st] /\ gone = [gone EXCEPT ![r] = gn]
  BY <1>0, WhoReads
<1>2. b.at = "reading" /\ b.kind # "ungroup" BY <1>1 DEF ReadPage
<1>3. PICK page, next, got : page = Page(b.kind, b.skip) /\ next = b.skip + PageSize /\ got = b.got \cup page OBVIOUS
<1>4. reading' = [reading EXCEPT ![r] =
           IF LastPage(page) THEN [b EXCEPT !.got = got, !.at = "read", !.whole = TRUE]
           ELSE IF next >= MaxRead THEN [b EXCEPT !.got = got, !.at = "read"]
           ELSE [b EXCEPT !.got = got, !.skip = next]]
  BY <1>1, <1>3 DEF ReadPage
<1>5. /\ page \in SUBSET (Rows \X Nat) /\ \A e \in page : e[2] \in 1 .. ids
      /\ \A n \in st : Rank(b.kind, <<n, extension[n]>>) < b.skip + PageSize
              => n \in Numbers(got) \/ Ahead(b.kind, gn, n)
  <2>1. page = Page(b.kind, b.skip) BY <1>3
  <2>2. Adds(b, st, gn, page) BY <1>1, <1>2, <2>1, PageAdds
  <2> QED BY <1>3, <2>2 DEF Adds
<1>6. got \in SUBSET (Rows \X Nat) BY <1>3, <1>5 DEF Readings
<1>7. b.id \in 0 .. ids /\ \A e \in got : e[2] \in 1 .. ids BY <1>1, <1>3, <1>5 DEF Given
<1>8. /\ UNCHANGED <<extension, ids, approved, edits, groups, result>>
      /\ gaps' \in 0 .. MaxGaps
      /\ stayed' = [stayed EXCEPT ![r] = st] /\ gone' = [gone EXCEPT ![r] = gn]
  BY <1>1 DEF ReadPage, siteVars, ListInv, ListTyped
<1>9. ASSUME NEW c \in Readings, c.kind = b.kind, c.asked = b.asked, c.id = b.id, c.got = got,
             c.at \in {"reading", "read"}, c.at = "reading" => c.whole = FALSE,
             reading' = [reading EXCEPT ![r] = c], SoFar(c, st, gn)
      PROVE  ListInv'
  <2>1. Given(c) BY <1>7, <1>9 DEF Given
  <2>2. c.at \in {"reading", "falling back", "read"} /\ (c.at # "read" => c.whole = FALSE) BY <1>9
  <2>3. b.at \in {"reading", "falling back"} BY <1>2
  <2> QED BY <1>1, <1>8, <1>9, <2>1, <2>2, <2>3, ReadsOn
<1>10. CASE LastPage(page)
  <2>1. PICK c : c = [b EXCEPT !.got = got, !.at = "read", !.whole = TRUE] OBVIOUS
  <2>2. c \in Readings BY <1>6, <2>1 DEF Readings, Places
  <2>3. /\ c.kind = b.kind /\ c.asked = b.asked /\ c.id = b.id /\ c.got = got /\ c.at = "read" /\ c.whole = TRUE
    BY <2>1 DEF Readings
  <2>4. reading' = [reading EXCEPT ![r] = c] BY <1>4, <1>10, <2>1
  <2>5. SoFar(c, st, gn)
    <3> SUFFICES ASSUME NEW n \in st PROVE n \in Numbers(c.got) \/ Ahead(c.kind, gn, n) BY <2>3 DEF SoFar
    <3>1. <<n, extension[n]>> \in Entries BY DEF Entries
    <3>2. b.skip \in Nat BY ListingsAssumption DEF Readings
    <3>3. extension \in [Rows -> 0 .. ids] /\ ids \in Nat /\ OwnIds BY DEF ListInv, ListTyped
    <3>4. LastPage(Page(b.kind, b.skip)) BY <1>3, <1>10
    <3>5. Rank(b.kind, <<n, extension[n]>>) < b.skip + PageSize BY <3>1, <3>2, <3>3, <3>4, NothingBehind
    <3> QED BY <1>5, <2>3, <3>5
  <2>6. c.at \in {"reading", "read"} /\ (c.at = "reading" => c.whole = FALSE) BY <2>3
  <2> QED BY <1>9, <2>2, <2>3, <2>4, <2>5, <2>6
<1>11. CASE ~LastPage(page) /\ next >= MaxRead
  <2>1. PICK c : c = [b EXCEPT !.got = got, !.at = "read"] OBVIOUS
  <2>2. c \in Readings BY <1>6, <2>1 DEF Readings, Places
  <2>3. /\ c.kind = b.kind /\ c.asked = b.asked /\ c.id = b.id /\ c.got = got /\ c.at = "read" /\ c.whole = FALSE
    BY <1>1, <2>1 DEF Readings
  <2>4. reading' = [reading EXCEPT ![r] = c] BY <1>4, <1>11, <2>1
  <2>5. SoFar(c, st, gn) BY <2>3 DEF SoFar
  <2>6. c.at \in {"reading", "read"} /\ (c.at = "reading" => c.whole = FALSE) BY <2>3
  <2> QED BY <1>9, <2>2, <2>3, <2>4, <2>5, <2>6
<1>12. CASE ~LastPage(page) /\ ~(next >= MaxRead)
  <2>1. PICK c : c = [b EXCEPT !.got = got, !.skip = next] OBVIOUS
  <2>2. next \in 0 .. MaxRead BY <1>3, <1>12, ListingsAssumption DEF Readings
  <2>3. c \in Readings BY <1>6, <2>1, <2>2 DEF Readings
  <2>4. /\ c.kind = b.kind /\ c.asked = b.asked /\ c.id = b.id /\ c.got = got /\ c.at = "reading" /\ c.whole = FALSE
        /\ c.skip = next
    BY <1>1, <1>2, <2>1 DEF Readings
  <2>5. reading' = [reading EXCEPT ![r] = c] BY <1>4, <1>12, <2>1
  <2>6. SoFar(c, st, gn) BY <1>3, <1>5, <2>4 DEF SoFar
  <2>7. c.at \in {"reading", "read"} /\ (c.at = "reading" => c.whole = FALSE) BY <2>4
  <2> QED BY <1>9, <2>3, <2>4, <2>5, <2>6, <2>7
<1> QED BY <1>10, <1>11, <1>12

\* Core gives the settings up, or starts its list again.
LEMMA FallBackKeeps ==
  ASSUME ListInv, NEW r \in Readers, NoSettings(r) \/ FallBack(r)
  PROVE  ListInv'
<1>0. reading[r].at \in {"reading", "falling back"} BY DEF NoSettings, FallBack
<1>1. PICK b \in Readings, st \in SUBSET There, gn \in SUBSET (Rows \X (1 .. ids)) :
           /\ b = reading[r] /\ st = stayed[r] /\ gn = gone[r] /\ b.kind # "bulk" /\ b.whole = FALSE
           /\ SoFar(b, st, gn) /\ Given(b)
           /\ stayed = [stayed EXCEPT ![r] = st] /\ gone = [gone EXCEPT ![r] = gn]
  BY <1>0, WhoReads
<1>2. b.at \in {"reading", "falling back"} BY <1>0, <1>1
<1>3. UNCHANGED <<extension, ids, approved, edits, groups, result>> BY DEF NoSettings, FallBack, siteVars
<1>4. gaps' \in 0 .. MaxGaps
  <2>1. gaps' = gaps \/ (gaps < MaxGaps /\ gaps' = gaps + 1) BY DEF NoSettings, FallBack
  <2> QED BY <2>1, ListingsAssumption DEF ListInv, ListTyped
<1>5. CASE NoSettings(r)
  <2>1. PICK c : c = [b EXCEPT !.at = "falling back"] OBVIOUS
  <2>2. c \in Readings BY <2>1 DEF Readings, Places
  <2>3. c.kind = b.kind /\ c.asked = b.asked /\ c.id = b.id /\ c.got = b.got /\ c.at = "falling back" /\ c.whole = FALSE
    BY <1>1, <2>1 DEF Readings
  <2>4. reading' = [reading EXCEPT ![r] = c] BY <1>1, <1>5, <2>1 DEF NoSettings
  <2>5. Given(c) BY <1>1, <2>3 DEF Given
  <2>6. SoFar(c, st, gn) BY <2>3 DEF SoFar
  <2>7. stayed' = [stayed EXCEPT ![r] = st] /\ gone' = [gone EXCEPT ![r] = gn] BY <1>1, <1>5 DEF NoSettings
  <2>8. c.at \in {"reading", "falling back", "read"} /\ (c.at # "read" => c.whole = FALSE) BY <2>3
  <2> QED BY <1>1, <1>2, <1>3, <1>4, <2>2, <2>3, <2>4, <2>5, <2>6, <2>7, <2>8, ReadsOn
<1>6. CASE FallBack(r)
  <2>1. PICK c : c = [b EXCEPT !.at = "reading", !.skip = 0, !.got = {}] OBVIOUS
  <2>2. 0 \in 0 .. MaxRead /\ {} \in SUBSET (Rows \X Nat) BY ListingsAssumption
  <2>3. c \in Readings BY <2>1, <2>2 DEF Readings, Places
  <2>4. c.kind = b.kind /\ c.asked = b.asked /\ c.id = b.id /\ c.got = {} /\ c.at = "reading" /\ c.whole = FALSE /\ c.skip = 0
    BY <1>1, <2>1 DEF Readings
  <2>5. reading' = [reading EXCEPT ![r] = c] BY <1>1, <1>6, <2>1 DEF FallBack, ListInv, ListTyped, Readings
  <2>6. Given(c) BY <1>1, <2>4 DEF Given
  <2>7. SoFar(c, There, {})
    <3>1. \A n : ~(Rank(c.kind, <<n, extension[n]>>) < 0)
      <4> SUFFICES ASSUME NEW n PROVE ~(Rank(c.kind, <<n, extension[n]>>) < 0) OBVIOUS
      <4>1. Rank(c.kind, <<n, extension[n]>>) \in Nat BY RankIsNumber
      <4> QED BY <4>1
    <3> QED BY <2>4, <3>1 DEF SoFar
  <2>8. PICK s, g : s = There /\ g = {} OBVIOUS
  <2>9. s \in SUBSET There /\ g \in SUBSET (Rows \X (1 .. ids)) /\ SoFar(c, s, g) BY <2>7, <2>8
  <2>10. stayed' = [stayed EXCEPT ![r] = s] /\ gone' = [gone EXCEPT ![r] = g] BY <1>6, <2>8 DEF FallBack
  <2>11. c.at \in {"reading", "falling back", "read"} /\ (c.at # "read" => c.whole = FALSE) BY <2>4
  <2> QED BY <1>1, <1>2, <1>3, <1>4, <2>3, <2>4, <2>5, <2>6, <2>9, <2>10, <2>11, ReadsOn
<1> QED BY <1>5, <1>6

\* What a sequence of numbers names.
LEMMA NamedNumbers ==
  ASSUME NEW s \in Seq(Nat)
  PROVE  /\ Range(s) \subseteq Nat
         /\ s # <<>> => Head(s) \in Nat /\ Tail(s) \in Seq(Nat) /\ Range(s) = {Head(s)} \cup Range(Tail(s))
<1>1. s \in [1 .. Len(s) -> Nat] /\ Len(s) \in Nat BY LenProperties
<1>2. Range(s) \subseteq Nat BY <1>1 DEF Range
<1>3. ASSUME s # <<>> PROVE Head(s) \in Nat /\ Tail(s) \in Seq(Nat) /\ Range(s) = {Head(s)} \cup Range(Tail(s))
  <2>1. /\ Head(s) \in Nat /\ Tail(s) \in Seq(Nat) /\ Len(Tail(s)) = Len(s) - 1
        /\ \A i \in 1 .. Len(Tail(s)) : Tail(s)[i] = s[i + 1]
    BY <1>3, HeadTailProperties
  <2>2. DOMAIN s = 1 .. Len(s) /\ DOMAIN Tail(s) = 1 .. Len(Tail(s)) BY <1>1, <2>1, LenProperties
  <2>3. 1 \in DOMAIN s /\ Head(s) = s[1]
    <3>1. Len(s) # 0 BY <1>3, EmptySeq
    <3> QED BY <1>1, <2>2, <3>1
  <2>4. Range(s) \subseteq {Head(s)} \cup Range(Tail(s))
    <3> SUFFICES ASSUME NEW i \in DOMAIN s, i # 1 PROVE s[i] \in Range(Tail(s)) BY <2>3 DEF Range
    <3>1. i - 1 \in 1 .. Len(Tail(s)) BY <1>1, <2>1, <2>2
    <3>2. Tail(s)[i - 1] = s[i] BY <2>1, <2>2, <3>1, <1>1
    <3> QED BY <2>2, <3>1, <3>2 DEF Range
  <2>5. \A i \in DOMAIN Tail(s) : Tail(s)[i] \in Range(s)
    <3> SUFFICES ASSUME NEW i \in DOMAIN Tail(s) PROVE Tail(s)[i] \in Range(s) OBVIOUS
    <3>1. Tail(s)[i] = s[i + 1] /\ i + 1 \in DOMAIN s BY <1>1, <2>1, <2>2
    <3> QED BY <3>1 DEF Range
  <2>6. Head(s) \in Range(s) BY <2>3 DEF Range
  <2>7. Range(Tail(s)) \subseteq Range(s) BY <2>5 DEF Range
  <2> QED BY <2>1, <2>4, <2>6, <2>7
<1> QED BY <1>2, <1>3

\* A call that has read what it reads goes on, or ends.
LEMMA CallGoesOn ==
  ASSUME ListInv, NEW r \in Readers, UNCHANGED <<extension, ids, approved, stayed, gone, edits>>,
         \A g \in groups' : g.number \in Nat /\ g.members \subseteq 1 .. ids,
         gaps' = gaps \/ (gaps < MaxGaps /\ gaps' = gaps + 1),
         NEW c \in Readings, NEW o \in Outcomes,
         reading' = [reading EXCEPT ![r] = c], result' = [result EXCEPT ![r] = o],
         c.at \in {"finding", "writing", "over"}, c.at # "over" => c.whole = FALSE,
         Told(c, o), Given(c), Unlisted(c, stayed[r], gone[r], o)
  PROVE  ListInv'
<1>1. PICK st \in SUBSET Rows, gn \in SUBSET (Rows \X (1 .. ids)) :
        /\ st = stayed[r] /\ gn = gone[r] /\ st \subseteq There
        /\ stayed = [stayed EXCEPT ![r] = st] /\ gone = [gone EXCEPT ![r] = gn]
  BY TheReader DEF ReaderFine
<1>2. SoFar(c, st, gn) BY DEF SoFar
<1>3. Unlisted(c, st, gn, o) BY <1>1
<1>4. c.at \notin {"read", "over"} => c.whole = FALSE OBVIOUS
<1>5. ReaderFine(c, st, gn, o) BY <1>1, <1>2, <1>3, <1>4 DEF ReaderFine
<1>6. gaps' \in 0 .. MaxGaps BY ListingsAssumption DEF ListInv, ListTyped
<1>7. stayed' = [stayed EXCEPT ![r] = st] /\ gone' = [gone EXCEPT ![r] = gn] BY <1>1
<1>8. UNCHANGED <<extension, ids, approved, edits>> OBVIOUS
<1> QED BY <1>5, <1>6, <1>7, <1>8, ReaderGoesOn

\* What is known of a call.
LEMMA WhoCalls ==
  ASSUME ListInv, NEW r \in Readers
  PROVE  \E b \in Readings, o \in Outcomes :
           /\ b = reading[r] /\ o = result[r] /\ Told(b, o) /\ Given(b)
           /\ SoFar(b, stayed[r], gone[r]) /\ Unlisted(b, stayed[r], gone[r], o)
           /\ b.at \notin {"read", "over"} => b.whole = FALSE
           /\ result = [result EXCEPT ![r] = o]
<1>1. PICK b \in Readings, o \in Outcomes : b = reading[r] /\ o = result[r] /\ result = [result EXCEPT ![r] = o]
  BY TheReader
<1>2. ReaderFine(b, stayed[r], gone[r], o) BY <1>1, TheReader
<1> QED BY <1>1, <1>2 DEF ReaderFine

\* A call is over.
LEMMA OverIs ==
  ASSUME ListInv, NEW r \in Readers, NEW b \in Readings, b = reading[r],
         reading' = [reading EXCEPT ![r].at = "over"]
  PROVE  \E c \in Readings : /\ reading' = [reading EXCEPT ![r] = c] /\ c.at = "over" /\ c.kind = b.kind
                             /\ c.asked = b.asked /\ c.got = b.got /\ c.whole = b.whole /\ c.id = b.id
<1>1. PICK c : c = [b EXCEPT !.at = "over"] OBVIOUS
<1>2. c \in Readings BY <1>1 DEF Readings, Places
<1>3. /\ c.at = "over" /\ c.kind = b.kind /\ c.asked = b.asked /\ c.got = b.got /\ c.whole = b.whole /\ c.id = b.id
  BY <1>1 DEF Readings
<1>4. reading' = [reading EXCEPT ![r] = c] BY <1>1
<1> QED BY <1>2, <1>3, <1>4

\* A selection: each number of the range is there or named.
LEMMA SelectKeeps ==
  ASSUME ListInv, NEW r \in Readers, Select(r)
  PROVE  ListInv'
<1>1. PICK b \in Readings, o \in Outcomes :
        /\ b = reading[r] /\ o = result[r] /\ Told(b, o) /\ Given(b) /\ SoFar(b, stayed[r], gone[r])
        /\ result = [result EXCEPT ![r] = o]
  BY WhoCalls
<1>2. b.at = "read" /\ b.kind = "select" BY <1>1 DEF Select
<1>3. PICK c \in Readings : /\ reading' = [reading EXCEPT ![r] = c] /\ c.at = "over" /\ c.kind = b.kind
                            /\ c.asked = b.asked /\ c.got = b.got /\ c.whole = b.whole /\ c.id = b.id
  <2>1. reading' = [reading EXCEPT ![r].at = "over"] BY DEF Select
  <2> QED BY <1>1, <2>1, OverIs
<1>4. o = NoResult /\ Len(b.asked) = 2 BY <1>1, <1>2 DEF Told
<1>5. PICK want : want = Span(b.asked) OBVIOUS
<1>6. want \subseteq Nat
  <2>1. b.asked \in Seq(Nat) BY DEF Readings
  <2>2. b.asked[1] \in Nat /\ b.asked[2] \in Nat BY <1>4, <2>1, ElementOfSeq
  <2> QED BY <1>5, <2>2 DEF Span
<1>7. Given(c) BY <1>1, <1>3 DEF Given
<1>8. /\ UNCHANGED <<extension, ids, approved, stayed, gone, edits, gaps>>
      /\ \A g \in groups' : g.number \in Nat /\ g.members \subseteq 1 .. ids
  BY DEF Select, siteVars, ListInv, ListTyped
<1>9. c.kind = "select" /\ c.at = "over" BY <1>2, <1>3
<1>10. CASE TooMany(b.asked)
  <2>1. result' = [result EXCEPT ![r] = o] BY <1>1, <1>10 DEF Select
  <2>2. Told(c, o) BY <1>3, <1>4, <1>9, <1>10 DEF Told
  <2>3. Unlisted(c, stayed[r], gone[r], o) BY <1>4 DEF Unlisted, NoResult
  <2> QED BY <1>3, <1>7, <1>8, <1>9, <2>1, <2>2, <2>3, CallGoesOn
<1>11. CASE ~TooMany(b.asked)
  <2>1. PICK u : u = [o EXCEPT !.changed = want \cap Numbers(b.got), !.missing = want \ Numbers(b.got)] OBVIOUS
  <2>2. u \in Outcomes BY <1>6, <2>1 DEF Outcomes
  <2>3. u.changed = want \cap Numbers(b.got) /\ u.missing = want \ Numbers(b.got) BY <2>1 DEF Outcomes
  <2>4. result' = [result EXCEPT ![r] = u]
    <3>1. result' = [result EXCEPT ![r].changed = want \cap Numbers(b.got), ![r].missing = want \ Numbers(b.got)]
      BY <1>1, <1>5, <1>11 DEF Select
    <3> QED BY <1>1, <2>1, <3>1 DEF ListInv, ListTyped, Outcomes
  <2>5. Told(c, u)
    <3>1. u.changed \cap u.missing = {} /\ Span(c.asked) \subseteq u.changed \cup u.missing BY <1>3, <1>5, <2>3
    <3>2. Len(c.asked) = 2 BY <1>3, <1>4
    <3> QED BY <1>9, <3>1, <3>2 DEF Told
  <2>6. Unlisted(c, stayed[r], gone[r], u)
    <3> SUFFICES ASSUME NEW n \in u.missing \cap Rows, n \in stayed[r], b.whole PROVE Ahead(b.kind, gone[r], n)
      BY <1>3 DEF Unlisted
    <3>1. n \notin Numbers(b.got) BY <2>3
    <3> QED BY <1>1, <1>2, <3>1 DEF SoFar
  <2> QED BY <1>3, <1>7, <1>8, <1>9, <2>2, <2>4, <2>5, <2>6, CallGoesOn
<1> QED BY <1>10, <1>11

\* A call about a ring group ends.
LEMMA GroupCallEnds ==
  ASSUME ListInv, NEW r \in Readers, reading[r].kind \in {"group", "ungroup"}, reading[r].at \in {"reading", "read"},
         UNCHANGED <<extension, ids, approved, stayed, gone, edits>>,
         \A g \in groups' : g.number \in Nat /\ g.members \subseteq 1 .. ids,
         gaps' = gaps \/ (gaps < MaxGaps /\ gaps' = gaps + 1),
         NEW o \in Outcomes, Ends(r, o), Unlisted(reading[r], stayed[r], gone[r], o),
         reading[r].kind = "group" /\ o.changed # {} => Unknown(r) = {} /\ o.missing = {}
  PROVE  ListInv'
<1>1. PICK b \in Readings, u \in Outcomes : b = reading[r] /\ u = result[r] /\ Told(b, u) /\ Given(b)
  BY WhoCalls
<1>2. PICK c \in Readings : /\ reading' = [reading EXCEPT ![r] = c] /\ c.at = "over" /\ c.kind = b.kind
                            /\ c.asked = b.asked /\ c.got = b.got /\ c.whole = b.whole /\ c.id = b.id
  <2>1. reading' = [reading EXCEPT ![r].at = "over"] BY DEF Ends
  <2> QED BY <1>1, <2>1, OverIs
<1>3. result' = [result EXCEPT ![r] = o] BY DEF Ends
<1>4. b.asked # <<>> BY <1>1 DEF Told
<1>5. c.kind \in {"group", "ungroup"} /\ c.at = "over" BY <1>1, <1>2
<1>6. c.kind = "group" /\ o.changed # {} => Range(Tail(c.asked)) \subseteq Numbers(c.got) /\ o.missing = {}
  BY <1>1, <1>2 DEF Unknown, Members
<1>7. Told(c, o) BY <1>2, <1>4, <1>5, <1>6 DEF Told
<1>8. Given(c) BY <1>1, <1>2 DEF Given
<1>9. Unlisted(b, stayed[r], gone[r], o) BY <1>1
<1>10. Unlisted(c, stayed[r], gone[r], o) BY <1>2, <1>9 DEF Unlisted
<1> QED BY <1>2, <1>3, <1>5, <1>7, <1>8, <1>10, CallGoesOn

\* What a call about a ring group names.
LEMMA GroupAsks ==
  ASSUME ListInv, NEW r \in Readers, reading[r].kind \in {"group", "ungroup"}
  PROVE  Range(reading[r].asked) \subseteq Nat /\ Head(reading[r].asked) \in Nat /\ Members(r) \subseteq Nat
<1>1. PICK b \in Readings, u \in Outcomes : b = reading[r] /\ u = result[r] /\ Told(b, u) BY WhoCalls
<1>2. b.asked \in Seq(Nat) /\ b.asked # <<>> BY <1>1 DEF Told, Readings
<1>3. /\ Range(b.asked) \subseteq Nat /\ Head(b.asked) \in Nat
      /\ Range(b.asked) = {Head(b.asked)} \cup Range(Tail(b.asked))
  BY <1>2, NamedNumbers
<1> QED BY <1>1, <1>3 DEF Members

\* A request of it is refused.
LEMMA FailsKeeps ==
  ASSUME ListInv, NEW r \in Readers, Fails(r)
  PROVE  ListInv'
<1>1. reading[r].kind \in {"group", "ungroup"} /\ reading[r].at \in {"reading", "read"} BY DEF Fails
<1>2. PICK o : o = [NoResult EXCEPT !.failed = Range(reading[r].asked)] OBVIOUS
<1>3. o \in Outcomes /\ o.changed = {} /\ o.missing = {} BY <1>1, <1>2, GroupAsks DEF NoResult, Outcomes
<1>4. Ends(r, o) BY <1>2 DEF Fails
<1>5. Unlisted(reading[r], stayed[r], gone[r], o) BY <1>3 DEF Unlisted
<1>6. UNCHANGED <<extension, ids, approved, stayed, gone, edits>> BY DEF Fails, siteVars
<1>7. \A g \in groups' : g.number \in Nat /\ g.members \subseteq 1 .. ids BY DEF Fails, siteVars, ListInv, ListTyped
<1>8. gaps' = gaps \/ (gaps < MaxGaps /\ gaps' = gaps + 1) BY DEF Fails
<1> QED BY <1>1, <1>3, <1>4, <1>5, <1>6, <1>7, <1>8, GroupCallEnds

\* A group is made of everybody it was to have, or not made.
LEMMA CreateGroupKeeps ==
  ASSUME ListInv, NEW r \in Readers, CreateGroup(r)
  PROVE  ListInv'
<1>1. reading[r].kind = "group" /\ reading[r].at = "read" BY DEF CreateGroup
<1>2. PICK b \in Readings, u \in Outcomes :
        b = reading[r] /\ u = result[r] /\ Told(b, u) /\ Given(b) /\ SoFar(b, stayed[r], gone[r])
  BY WhoCalls
<1>3. PICK number, members : number = Head(reading[r].asked)
                             /\ members = {e[2] : e \in {f \in reading[r].got : f[1] \in Members(r)}}
  OBVIOUS
<1>4. number \in Nat /\ Members(r) \subseteq Nat BY <1>1, <1>3, GroupAsks
<1>5. members \subseteq 1 .. ids BY <1>2, <1>3 DEF Given
<1>6. UNCHANGED <<extension, ids, approved, stayed, gone, edits>> BY DEF CreateGroup
<1>7. ASSUME Unknown(r) # {}, Ends(r, [NoResult EXCEPT !.missing = Unknown(r)]), UNCHANGED <<groups, gaps>>
      PROVE  ListInv'
  <2>1. PICK o : o = [NoResult EXCEPT !.missing = Unknown(r)] OBVIOUS
  <2>2. o \in Outcomes /\ o.changed = {} /\ o.missing = Unknown(r) BY <1>4, <2>1 DEF NoResult, Outcomes, Unknown
  <2>3. Ends(r, o) BY <1>7, <2>1
  <2>4. Unlisted(b, stayed[r], gone[r], o)
    <3> SUFFICES ASSUME NEW n \in o.missing \cap Rows, n \in stayed[r], b.whole PROVE Ahead(b.kind, gone[r], n)
      BY DEF Unlisted
    <3>1. n \notin Numbers(b.got) BY <1>2, <2>2 DEF Unknown
    <3> QED BY <1>1, <1>2, <3>1 DEF SoFar
  <2>5. Unlisted(reading[r], stayed[r], gone[r], o) BY <1>2, <2>4
  <2>6. \A g \in groups' : g.number \in Nat /\ g.members \subseteq 1 .. ids BY <1>7 DEF ListInv, ListTyped
  <2>7. gaps' = gaps BY <1>7
  <2> QED BY <1>1, <1>6, <2>2, <2>3, <2>5, <2>6, <2>7, GroupCallEnds
<1>8. ASSUME NEW o \in Outcomes, Unknown(r) = {}, Ends(r, o), o.missing = {},
             groups' = groups \cup {[number |-> number, members |-> members]} \/ groups' = groups,
             gaps' = gaps \/ (gaps < MaxGaps /\ gaps' = gaps + 1)
      PROVE  ListInv'
  <2>1. Unlisted(reading[r], stayed[r], gone[r], o) BY <1>8 DEF Unlisted
  <2>2. \A g \in groups : g.number \in Nat /\ g.members \subseteq 1 .. ids BY DEF ListInv, ListTyped
  <2>4. PICK h : h = [number |-> number, members |-> members] OBVIOUS
  <2>5. h.number = number /\ h.members = members BY <2>4
  <2>6. groups' \subseteq groups \cup {h} BY <1>8, <2>4
  <2>3. \A g \in groups' : g.number \in Nat /\ g.members \subseteq 1 .. ids BY <1>4, <1>5, <2>2, <2>5, <2>6
  <2> QED BY <1>1, <1>6, <1>8, <2>1, <2>3, GroupCallEnds
<1>9. ASSUME Unknown(r) = {}, groups' = groups \cup {[number |-> number, members |-> members]},
             \/ Ends(r, [NoResult EXCEPT !.done = Members(r), !.changed = {number}]) /\ UNCHANGED gaps
             \/ /\ gaps < MaxGaps /\ gaps' = gaps + 1
                /\ Ends(r, [NoResult EXCEPT !.done = Members(r), !.failed = {number}, !.lost = TRUE])
      PROVE  ListInv'
  <2>1. PICK o : /\ Ends(r, o)
                 /\ \/ o = [NoResult EXCEPT !.done = Members(r), !.changed = {number}]
                    \/ o = [NoResult EXCEPT !.done = Members(r), !.failed = {number}, !.lost = TRUE]
    BY <1>9
  <2>4. {number} \in SUBSET Nat /\ Members(r) \in SUBSET Nat /\ {} \in SUBSET Nat BY <1>4
  <2>5. ASSUME o = [NoResult EXCEPT !.done = Members(r), !.changed = {number}]
        PROVE  o \in Outcomes /\ o.missing = {}
    BY <2>4, <2>5 DEF NoResult, Outcomes
  <2>6. ASSUME o = [NoResult EXCEPT !.done = Members(r), !.failed = {number}, !.lost = TRUE]
        PROVE  o \in Outcomes /\ o.missing = {}
    BY <2>4, <2>6 DEF NoResult, Outcomes
  <2>2. o \in Outcomes /\ o.missing = {} BY <2>1, <2>5, <2>6
  <2>3. gaps' = gaps \/ (gaps < MaxGaps /\ gaps' = gaps + 1) BY <1>9
  <2> QED BY <1>8, <1>9, <2>1, <2>2, <2>3
<1>10. ASSUME Unknown(r) = {}, Ends(r, [NoResult EXCEPT !.failed = {number}]), UNCHANGED <<groups, gaps>>
       PROVE  ListInv'
  <2>1. PICK o : o = [NoResult EXCEPT !.failed = {number}] OBVIOUS
  <2>2. o \in Outcomes /\ o.missing = {} BY <1>4, <2>1 DEF NoResult, Outcomes
  <2>3. Ends(r, o) BY <1>10, <2>1
  <2> QED BY <1>8, <1>10, <2>2, <2>3
<1>11. \/ /\ Unknown(r) # {} /\ Ends(r, [NoResult EXCEPT !.missing = Unknown(r)]) /\ UNCHANGED <<groups, gaps>>
       \/ /\ Unknown(r) = {} /\ groups' = groups \cup {[number |-> number, members |-> members]}
          /\ \/ Ends(r, [NoResult EXCEPT !.done = Members(r), !.changed = {number}]) /\ UNCHANGED gaps
             \/ /\ gaps < MaxGaps /\ gaps' = gaps + 1
                /\ Ends(r, [NoResult EXCEPT !.done = Members(r), !.failed = {number}, !.lost = TRUE])
       \/ Unknown(r) = {} /\ Ends(r, [NoResult EXCEPT !.failed = {number}]) /\ UNCHANGED <<groups, gaps>>
  BY <1>3 DEF CreateGroup
<1> QED BY <1>7, <1>9, <1>10, <1>11

\* A group is taken away.
LEMMA RemoveGroupKeeps ==
  ASSUME ListInv, NEW r \in Readers, RemoveGroup(r)
  PROVE  ListInv'
<1>1. reading[r].kind = "ungroup" /\ reading[r].at = "reading" BY DEF RemoveGroup
<1>2. PICK b \in Readings, u \in Outcomes : b = reading[r] /\ u = result[r]
                                            /\ (b.at \notin {"read", "over"} => b.whole = FALSE)
  BY WhoCalls
<1>3. PICK number : number = Head(reading[r].asked) OBVIOUS
<1>4. number \in Nat BY <1>1, <1>3, GroupAsks
<1>5. PICK o : /\ Ends(r, o)
               /\ \/ o = [NoResult EXCEPT !.missing = {number}]
                  \/ o = [NoResult EXCEPT !.done = {number}, !.changed = {number}]
  BY <1>3 DEF RemoveGroup
<1>6. o \in Outcomes
  <2>1. {number} \in SUBSET Nat /\ {} \in SUBSET Nat BY <1>4
  <2>2. ASSUME o = [NoResult EXCEPT !.missing = {number}] PROVE o \in Outcomes BY <2>1, <2>2 DEF NoResult, Outcomes
  <2>3. ASSUME o = [NoResult EXCEPT !.done = {number}, !.changed = {number}] PROVE o \in Outcomes
    BY <2>1, <2>3 DEF NoResult, Outcomes
  <2> QED BY <1>5, <2>2, <2>3
<1>7. Unlisted(b, stayed[r], gone[r], o) BY <1>1, <1>2 DEF Unlisted
<1>8. Unlisted(reading[r], stayed[r], gone[r], o) BY <1>2, <1>7
<1>9. groups' \subseteq groups BY DEF RemoveGroup
<1>10. \A g \in groups' : g.number \in Nat /\ g.members \subseteq 1 .. ids BY <1>9 DEF ListInv, ListTyped
<1>11. UNCHANGED <<extension, ids, approved, stayed, gone, edits>> /\ gaps' = gaps BY DEF RemoveGroup
<1>12. reading[r].kind = "group" /\ o.changed # {} => Unknown(r) = {} /\ o.missing = {} BY <1>1
<1> QED BY <1>1, <1>5, <1>6, <1>8, <1>10, <1>11, <1>12, GroupCallEnds

\* One change to several extensions: what is still to do, with what was done.
Bulky(b, o) ==
  /\ b.kind = "bulk" /\ b.whole = FALSE /\ Given(b)
  /\ o.changed \subseteq o.done /\ (o.done \ o.changed # {} => o.lost)
  /\ Range(b.asked) = Range(b.todo) \cup o.changed \cup o.failed
  /\ b.at = "writing" => b.todo # <<>>

\* A call that looks or writes is one.
LEMMA BulkIs ==
  ASSUME ListInv, NEW r \in Readers, reading[r].at \in {"finding", "writing"}
  PROVE  \E b \in Readings, o \in Outcomes :
           /\ b = reading[r] /\ o = result[r] /\ result = [result EXCEPT ![r] = o] /\ Bulky(b, o)
<1>1. PICK b \in Readings, o \in Outcomes :
        /\ b = reading[r] /\ o = result[r] /\ Told(b, o) /\ Given(b) /\ result = [result EXCEPT ![r] = o]
        /\ b.at \notin {"read", "over"} => b.whole = FALSE
  BY WhoCalls
<1>2. b.kind = "bulk" BY <1>1 DEF Told
<1>3. /\ o.changed \subseteq o.done /\ (o.done \ o.changed # {} => o.lost)
      /\ Range(b.asked) = Range(b.todo) \cup o.changed \cup o.failed
      /\ b.at = "writing" => b.todo # <<>>
  BY <1>1, <1>2 DEF Told
<1>4. Bulky(b, o) BY <1>1, <1>2, <1>3 DEF Bulky
<1> QED BY <1>1, <1>4

\* It goes on.
LEMMA BulkGoesOn ==
  ASSUME ListInv, NEW r \in Readers, UNCHANGED <<extension, ids, groups, approved, stayed, gone, edits>>,
         gaps' = gaps \/ (gaps < MaxGaps /\ gaps' = gaps + 1),
         NEW c \in Readings, NEW o \in Outcomes,
         reading' = [reading EXCEPT ![r] = c], result' = [result EXCEPT ![r] = o],
         c.at \in {"finding", "writing", "over"}, c.whole = FALSE, c.kind = "bulk", Given(c),
         o.changed \subseteq o.done, o.done \ o.changed # {} => o.lost,
         Range(c.asked) = Range(c.todo) \cup o.changed \cup o.failed,
         c.at = "writing" => c.todo # <<>>, c.at = "over" => c.todo = <<>>
  PROVE  ListInv'
<1>1. c.at = "over" => Range(c.asked) = o.changed \cup o.failed
  <2>1. Range(<<>>) = {} BY DEF Range
  <2> QED BY <2>1
<1>2. Told(c, o) BY <1>1 DEF Told
<1>3. Unlisted(c, stayed[r], gone[r], o) BY DEF Unlisted
<1>4. \A g \in groups' : g.number \in Nat /\ g.members \subseteq 1 .. ids BY DEF ListInv, ListTyped
<1>5. UNCHANGED <<extension, ids, approved, stayed, gone, edits>> OBVIOUS
<1>6. c.at # "over" => c.whole = FALSE OBVIOUS
<1> QED BY <1>2, <1>3, <1>4, <1>5, <1>6, CallGoesOn

\* The next of them.
LEMMA RestIs ==
  ASSUME ListInv, NEW r \in Readers, NEW b \in Readings, b = reading[r], b.todo # <<>>, reading' = Rest(r)
  PROVE  \E c \in Readings :
           /\ reading' = [reading EXCEPT ![r] = c] /\ c.at = "finding" /\ c.kind = b.kind /\ c.asked = b.asked
           /\ c.got = b.got /\ c.whole = b.whole /\ c.id = 0 /\ c.todo = Tail(b.todo)
<1>1. PICK c : c = [b EXCEPT !.todo = Tail(b.todo), !.at = "finding", !.id = 0] OBVIOUS
<1>2. Tail(b.todo) \in Seq(Nat) BY HeadTailProperties DEF Readings
<1>3. c \in Readings BY <1>1, <1>2 DEF Readings, Places
<1>4. /\ c.at = "finding" /\ c.kind = b.kind /\ c.asked = b.asked
      /\ c.got = b.got /\ c.whole = b.whole /\ c.id = 0 /\ c.todo = Tail(b.todo)
  BY <1>1 DEF Readings
<1>5. reading' = [reading EXCEPT ![r] = c]
  BY <1>1 DEF Rest, ListInv, ListTyped, Readings
<1> QED BY <1>3, <1>4, <1>5

\* One of them was attempted: it is named, with what was changed or what failed.
LEMMA OneAttempted ==
  ASSUME ListInv, NEW r \in Readers, reading[r].at \in {"finding", "writing"}, reading[r].todo # <<>>,
         UNCHANGED <<extension, ids, groups, approved, stayed, gone, edits>>,
         gaps' = gaps \/ (gaps < MaxGaps /\ gaps' = gaps + 1), reading' = Rest(r),
         NEW n, n = Head(reading[r].todo),
         \/ result' = [result EXCEPT ![r].done = @ \cup {n}, ![r].changed = @ \cup {n}]
         \/ result' = [result EXCEPT ![r].failed = @ \cup {n}]
         \/ result' = [result EXCEPT ![r].done = @ \cup {n}, ![r].failed = @ \cup {n}, ![r].lost = TRUE]
  PROVE  ListInv'
<1>1. PICK b \in Readings, o \in Outcomes :
           /\ b = reading[r] /\ o = result[r] /\ result = [result EXCEPT ![r] = o] /\ Bulky(b, o)
  BY BulkIs
<1>0. /\ b.kind = "bulk" /\ b.whole = FALSE /\ Given(b)
      /\ o.changed \subseteq o.done /\ (o.done \ o.changed # {} => o.lost)
      /\ Range(b.asked) = Range(b.todo) \cup o.changed \cup o.failed
  BY <1>1 DEF Bulky
<1>2. PICK c \in Readings :
           /\ reading' = [reading EXCEPT ![r] = c] /\ c.at = "finding" /\ c.kind = b.kind /\ c.asked = b.asked
           /\ c.got = b.got /\ c.whole = b.whole /\ c.id = 0 /\ c.todo = Tail(b.todo)
  BY <1>1, RestIs
<1>3. n \in Nat /\ Range(b.todo) = {n} \cup Range(c.todo)
  <2>1. b.todo \in Seq(Nat) /\ b.todo # <<>> BY <1>1 DEF Readings
  <2>2. Head(b.todo) \in Nat /\ Range(b.todo) = {Head(b.todo)} \cup Range(Tail(b.todo)) BY <2>1, NamedNumbers
  <2> QED BY <1>1, <1>2, <2>2
<1>4. Given(c)
  <2>1. 0 \in 0 .. ids BY DEF ListInv, ListTyped
  <2> QED BY <1>0, <1>1, <1>2, <2>1 DEF Given
<1>5. /\ o.done \cup {n} \in SUBSET Nat /\ o.changed \cup {n} \in SUBSET Nat /\ o.failed \cup {n} \in SUBSET Nat
  BY <1>3 DEF Outcomes
<1>6. ASSUME NEW u \in Outcomes, result' = [result EXCEPT ![r] = u],
             u.changed \subseteq u.done, u.done \ u.changed # {} => u.lost,
             u.changed \cup u.failed = o.changed \cup o.failed \cup {n}
      PROVE  ListInv'
  <2>1. Range(c.asked) = Range(c.todo) \cup u.changed \cup u.failed BY <1>0, <1>2, <1>3, <1>6
  <2>2. c.at \in {"finding", "writing", "over"} /\ c.at # "writing" /\ c.at # "over" BY <1>2
  <2>3. c.kind = "bulk" /\ c.whole = FALSE BY <1>0, <1>2
  <2> QED BY <1>2, <1>4, <1>6, <2>1, <2>2, <2>3, BulkGoesOn
<1>7. ASSUME result' = [result EXCEPT ![r].done = @ \cup {n}, ![r].changed = @ \cup {n}] PROVE ListInv'
  <2>1. PICK u : u = [o EXCEPT !.done = o.done \cup {n}, !.changed = o.changed \cup {n}] OBVIOUS
  <2>2. u \in Outcomes BY <1>5, <2>1 DEF Outcomes
  <2>3. u.done = o.done \cup {n} /\ u.changed = o.changed \cup {n} /\ u.failed = o.failed /\ u.lost = o.lost
    BY <2>1 DEF Outcomes
  <2>4. result' = [result EXCEPT ![r] = u] BY <1>1, <1>7, <2>1 DEF ListInv, ListTyped, Outcomes
  <2>5. u.changed \subseteq u.done /\ (u.done \ u.changed # {} => u.lost) BY <1>0, <2>3
  <2>6. u.changed \cup u.failed = o.changed \cup o.failed \cup {n} BY <2>3
  <2> QED BY <1>6, <2>2, <2>4, <2>5, <2>6
<1>8. ASSUME result' = [result EXCEPT ![r].failed = @ \cup {n}] PROVE ListInv'
  <2>1. PICK u : u = [o EXCEPT !.failed = o.failed \cup {n}] OBVIOUS
  <2>2. u \in Outcomes BY <1>5, <2>1 DEF Outcomes
  <2>3. u.done = o.done /\ u.changed = o.changed /\ u.failed = o.failed \cup {n} /\ u.lost = o.lost
    BY <2>1 DEF Outcomes
  <2>4. result' = [result EXCEPT ![r] = u] BY <1>1, <1>8, <2>1
  <2>5. u.changed \subseteq u.done /\ (u.done \ u.changed # {} => u.lost) BY <1>0, <2>3
  <2>6. u.changed \cup u.failed = o.changed \cup o.failed \cup {n} BY <2>3
  <2> QED BY <1>6, <2>2, <2>4, <2>5, <2>6
<1>9. ASSUME result' = [result EXCEPT ![r].done = @ \cup {n}, ![r].failed = @ \cup {n}, ![r].lost = TRUE]
      PROVE  ListInv'
  <2>1. PICK u : u = [o EXCEPT !.done = o.done \cup {n}, !.failed = o.failed \cup {n}, !.lost = TRUE] OBVIOUS
  <2>2. u \in Outcomes BY <1>5, <2>1 DEF Outcomes
  <2>3. u.done = o.done \cup {n} /\ u.changed = o.changed /\ u.failed = o.failed \cup {n} /\ u.lost = TRUE
    BY <2>1 DEF Outcomes
  <2>4. result' = [result EXCEPT ![r] = u] BY <1>1, <1>9, <2>1 DEF ListInv, ListTyped, Outcomes
  <2>5. u.changed \subseteq u.done /\ (u.done \ u.changed # {} => u.lost) BY <1>0, <2>3
  <2>6. u.changed \cup u.failed = o.changed \cup o.failed \cup {n} BY <2>3
  <2> QED BY <1>6, <2>2, <2>4, <2>5, <2>6
<1> QED BY <1>7, <1>8, <1>9

\* An extension is looked up.
LEMMA FindKeeps ==
  ASSUME ListInv, NEW r \in Readers, FindExtension(r)
  PROVE  ListInv'
<1>1. PICK n : n = Head(reading[r].todo) OBVIOUS
<1>2. /\ reading[r].at = "finding" /\ reading[r].todo # <<>>
      /\ UNCHANGED <<extension, ids, groups, approved, stayed, gone, edits>>
  BY DEF FindExtension, siteVars
<1>3. \/ /\ n \in There
         /\ reading' = [reading EXCEPT ![r].at = "writing", ![r].id = extension[n]]
         /\ UNCHANGED <<result, gaps>>
      \/ /\ result' = [result EXCEPT ![r].failed = @ \cup {n}] /\ reading' = Rest(r)
         /\ gaps' = gaps \/ (gaps < MaxGaps /\ gaps' = gaps + 1)
  BY <1>1 DEF FindExtension
<1>4. ASSUME n \in There, reading' = [reading EXCEPT ![r].at = "writing", ![r].id = extension[n]],
             UNCHANGED <<result, gaps>>
      PROVE  ListInv'
  <2>1. PICK b \in Readings, o \in Outcomes :
           /\ b = reading[r] /\ o = result[r] /\ result = [result EXCEPT ![r] = o] /\ Bulky(b, o)
    BY <1>2, BulkIs
  <2>0. /\ b.kind = "bulk" /\ b.whole = FALSE /\ Given(b)
        /\ o.changed \subseteq o.done /\ (o.done \ o.changed # {} => o.lost)
        /\ Range(b.asked) = Range(b.todo) \cup o.changed \cup o.failed
    BY <2>1 DEF Bulky
  <2>2. PICK c : c = [b EXCEPT !.at = "writing", !.id = extension[n]] OBVIOUS
  <2>3. extension[n] \in 0 .. ids /\ extension[n] \in Nat BY <1>4 DEF There, ListInv, ListTyped
  <2>4. c \in Readings BY <2>2, <2>3 DEF Readings, Places
  <2>5. /\ c.at = "writing" /\ c.id = extension[n] /\ c.kind = b.kind /\ c.asked = b.asked /\ c.todo = b.todo
        /\ c.got = b.got /\ c.whole = b.whole
    BY <2>2 DEF Readings
  <2>6. reading' = [reading EXCEPT ![r] = c] BY <1>4, <2>1, <2>2 DEF ListInv, ListTyped, Readings
  <2>7. Given(c) BY <2>0, <2>3, <2>5 DEF Given
  <2>8. result' = [result EXCEPT ![r] = o] /\ gaps' = gaps BY <1>4, <2>1
  <2>9. /\ c.at \in {"finding", "writing", "over"} /\ c.at # "over" /\ c.kind = "bulk" /\ c.whole = FALSE
        /\ c.todo # <<>> /\ Range(c.asked) = Range(c.todo) \cup o.changed \cup o.failed
    BY <1>2, <2>0, <2>1, <2>5
  <2> QED BY <1>2, <2>0, <2>4, <2>6, <2>7, <2>8, <2>9, BulkGoesOn
<1>5. ASSUME result' = [result EXCEPT ![r].failed = @ \cup {n}], reading' = Rest(r),
             gaps' = gaps \/ (gaps < MaxGaps /\ gaps' = gaps + 1)
      PROVE  ListInv'
  <2>1. reading[r].at \in {"finding", "writing"} BY <1>2
  <2> QED BY <1>1, <1>2, <1>5, <2>1, OneAttempted
<1> QED BY <1>3, <1>4, <1>5

\* An extension is changed, or not, or nobody is told.
LEMMA PatchKeeps ==
  ASSUME ListInv, NEW r \in Readers, PatchExtension(r)
  PROVE  ListInv'
<1>1. PICK n : n = Head(reading[r].todo) OBVIOUS
<1>2. /\ reading[r].at = "writing" /\ reading[r].at \in {"finding", "writing"}
      /\ UNCHANGED <<extension, ids, groups, approved, stayed, gone, edits>> /\ reading' = Rest(r)
  BY DEF PatchExtension, siteVars
<1>3. reading[r].todo # <<>>
  <2>1. PICK b \in Readings, o \in Outcomes :
           /\ b = reading[r] /\ o = result[r] /\ result = [result EXCEPT ![r] = o] /\ Bulky(b, o)
    BY <1>2, BulkIs
  <2> QED BY <1>2, <2>1 DEF Bulky
<1>4. gaps' = gaps \/ (gaps < MaxGaps /\ gaps' = gaps + 1) BY DEF PatchExtension
<1>5. \/ result' = [result EXCEPT ![r].done = @ \cup {n}, ![r].changed = @ \cup {n}]
      \/ result' = [result EXCEPT ![r].failed = @ \cup {n}]
      \/ result' = [result EXCEPT ![r].done = @ \cup {n}, ![r].failed = @ \cup {n}, ![r].lost = TRUE]
  BY <1>1 DEF PatchExtension
<1> QED BY <1>1, <1>2, <1>3, <1>4, <1>5, OneAttempted

\* All were.
LEMMA BulkDoneKeeps ==
  ASSUME ListInv, NEW r \in Readers, BulkDone(r)
  PROVE  ListInv'
<1>1. /\ reading[r].at = "finding" /\ reading[r].at \in {"finding", "writing"} /\ reading[r].todo = <<>>
      /\ UNCHANGED <<extension, ids, groups, approved, stayed, gone, edits>>
      /\ gaps' = gaps /\ result' = result /\ reading' = [reading EXCEPT ![r].at = "over"]
  BY DEF BulkDone, siteVars
<1>2. PICK b \in Readings, o \in Outcomes :
           /\ b = reading[r] /\ o = result[r] /\ result = [result EXCEPT ![r] = o] /\ Bulky(b, o)
  BY <1>1, BulkIs
<1>0. /\ b.kind = "bulk" /\ b.whole = FALSE /\ Given(b)
      /\ o.changed \subseteq o.done /\ (o.done \ o.changed # {} => o.lost)
      /\ Range(b.asked) = Range(b.todo) \cup o.changed \cup o.failed
  BY <1>2 DEF Bulky
<1>3. PICK c : c = [b EXCEPT !.at = "over"] OBVIOUS
<1>4. c \in Readings BY <1>3 DEF Readings, Places
<1>5. /\ c.at = "over" /\ c.kind = b.kind /\ c.asked = b.asked /\ c.todo = b.todo
      /\ c.got = b.got /\ c.whole = b.whole /\ c.id = b.id
  BY <1>3 DEF Readings
<1>6. reading' = [reading EXCEPT ![r] = c] BY <1>1, <1>2, <1>3
<1>7. Given(c) BY <1>0, <1>5 DEF Given
<1>8. result' = [result EXCEPT ![r] = o] BY <1>1, <1>2
<1>9. /\ c.at \in {"finding", "writing", "over"} /\ c.at # "writing" /\ c.kind = "bulk" /\ c.whole = FALSE
      /\ c.todo = <<>> /\ Range(c.asked) = Range(c.todo) \cup o.changed \cup o.failed
  BY <1>0, <1>1, <1>2, <1>5
<1> QED BY <1>0, <1>1, <1>4, <1>6, <1>7, <1>8, <1>9, BulkGoesOn

\* A call begins.
LEMMA BeginKeeps ==
  ASSUME ListInv, NEW r \in Readers, NEW q \in Requests, Begin(r, q[1], q[2])
  PROVE  ListInv'
<1>1. PICK b \in Readings, o \in Outcomes :
        b = reading[r] /\ o = result[r] /\ Told(b, o) /\ result = [result EXCEPT ![r] = o]
  BY WhoCalls
<1>2. b = NoReading BY <1>1 DEF Begin, Told
<1>3. o = NoResult BY <1>1, <1>2 DEF Told, NoReading
<1>4. PICK kind, what, at : kind = q[1] /\ what = q[2] /\ at = IF kind = "bulk" THEN "finding" ELSE "reading"
  OBVIOUS
<1>5. /\ kind \in {"select", "group", "ungroup", "bulk"} /\ what \in Seq(Nat)
      /\ kind = "select" => Len(what) = 2
      /\ kind \in {"group", "ungroup"} => what # <<>>
  BY <1>4, ListingsAssumption
<1>6. PICK c : c = [NoReading EXCEPT !.kind = kind, !.asked = what, !.todo = what, !.at = at] OBVIOUS
<1>7. c \in Readings
  <2>1. 0 \in 0 .. MaxRead /\ {} \in SUBSET (Rows \X Nat) BY ListingsAssumption
  <2>2. kind \in ListKinds /\ at \in Places BY <1>4, <1>5 DEF ListKinds, Places
  <2> QED BY <1>5, <1>6, <2>1, <2>2 DEF NoReading, Readings
<1>8. /\ c.kind = kind /\ c.asked = what /\ c.todo = what /\ c.at = at /\ c.skip = 0 /\ c.got = {}
      /\ c.whole = FALSE /\ c.id = 0
  BY <1>6 DEF NoReading
<1>9. reading' = [reading EXCEPT ![r] = c] BY <1>4, <1>6 DEF Begin
<1>10. PICK st, gn : st = There /\ gn = {} OBVIOUS
<1>11. st \in SUBSET Rows /\ st \subseteq There /\ gn \in SUBSET (Rows \X (1 .. ids)) BY <1>10 DEF There
<1>12. stayed' = [stayed EXCEPT ![r] = st] /\ gone' = [gone EXCEPT ![r] = gn] BY <1>10 DEF Begin
<1>13. /\ result' = [result EXCEPT ![r] = o] /\ UNCHANGED <<extension, ids, approved, edits>>
  BY <1>1 DEF Begin, siteVars
<1>14. gaps' \in 0 .. MaxGaps BY DEF Begin, ListInv, ListTyped
<1>15. \A g \in groups' : g.number \in Nat /\ g.members \subseteq 1 .. ids BY DEF Begin, siteVars, ListInv, ListTyped
<1>16. SoFar(c, st, gn)
  <2>1. \A n : ~(Rank(c.kind, <<n, extension[n]>>) < 0)
    <3> SUFFICES ASSUME NEW n PROVE ~(Rank(c.kind, <<n, extension[n]>>) < 0) OBVIOUS
    <3>1. Rank(c.kind, <<n, extension[n]>>) \in Nat BY RankIsNumber
    <3> QED BY <3>1
  <2>2. c.at # "read" BY <1>4, <1>8
  <2> QED BY <1>8, <2>1, <2>2 DEF SoFar
<1>17. Unlisted(c, st, gn, o) BY <1>3 DEF Unlisted, NoResult
<1>18. Given(c)
  <2>1. 0 \in 0 .. ids BY DEF ListInv, ListTyped
  <2> QED BY <1>8, <2>1 DEF Given
<1>19. Told(c, o)
  <2>1. /\ o.changed = {} /\ o.done = {} /\ o.failed = {} BY <1>3 DEF NoResult
  <2>2. CASE kind = "bulk"
    <3>1. c.kind = "bulk" /\ c.at = "finding" BY <1>4, <1>8, <2>2
    <3>2. Range(c.asked) = Range(c.todo) \cup o.changed \cup o.failed BY <1>8, <2>1
    <3> QED BY <2>1, <3>1, <3>2 DEF Told
  <2>3. CASE kind # "bulk"
    <3>1. c.kind # "bulk" /\ c.at = "reading" BY <1>4, <1>8, <2>3
    <3>2. (c.kind = "select" => Len(c.asked) = 2) /\ (c.kind \in {"group", "ungroup"} => c.asked # <<>>)
      BY <1>5, <1>8
    <3> QED BY <1>3, <2>1, <3>1, <3>2 DEF Told
  <2> QED BY <2>2, <2>3
<1>20. ReaderFine(c, st, gn, o) BY <1>8, <1>11, <1>16, <1>17, <1>18, <1>19 DEF ReaderFine
<1> QED BY <1>7, <1>9, <1>11, <1>12, <1>13, <1>14, <1>15, <1>20, ReaderGoesOn

\* A row that comes moves no other towards the front.
LEMMA AddedRow ==
  ASSUME ListInv, NEW n \in Rows, AddRow(n)
  PROVE  /\ There' = There \cup {n} /\ n \notin There /\ OwnIds' /\ ids' = ids + 1
         /\ extension' \in [Rows -> 0 .. ids'] /\ \A m \in There : extension'[m] = extension[m]
         /\ \A kind, e : Rank(kind, e) \in Nat /\ Rank(kind, e)' \in Nat /\ Rank(kind, e) <= Rank(kind, e)'
<1>1. /\ extension[n] = 0 /\ ids' = ids + 1 /\ extension' = [extension EXCEPT ![n] = ids + 1]
      /\ ids \in Nat /\ extension \in [Rows -> 0 .. ids] /\ OwnIds
  BY DEF AddRow, ListInv, ListTyped
<1>2. \A m \in Rows : extension'[m] = IF m = n THEN ids + 1 ELSE extension[m] BY <1>1
<1>3. There' = There \cup {n} /\ n \notin There BY <1>1, <1>2 DEF There
<1>4. \A m \in There : m \in Rows /\ m # n /\ extension'[m] = extension[m] /\ extension[m] \in 1 .. ids
  BY <1>1, <1>2, <1>3 DEF There
<1>5. OwnIds'
  <2> SUFFICES ASSUME NEW m \in There', NEW k \in There', extension'[m] = extension'[k] PROVE m = k
    BY DEF OwnIds
  <2>1. ids + 1 \notin 1 .. ids BY <1>1
  <2>2. extension'[n] = ids + 1 BY <1>2
  <2> QED BY <1>1, <1>3, <1>4, <2>1, <2>2 DEF OwnIds
<1>6. extension' \in [Rows -> 0 .. ids']
  <2>1. \A m \in Rows : extension'[m] \in 0 .. ids' BY <1>1, <1>2
  <2>2. extension' = [m \in Rows |-> extension'[m]] BY <1>1
  <2> QED BY <2>1, <2>2
<1>7. IsFiniteSet(Entries) BY <1>1, EntriesAre
<1>8. Entries' = Entries \cup {<<n, ids + 1>>}
  <2>1. extension'[n] = ids + 1 BY <1>2
  <2>2. Entries' = {<<m, extension'[m]>> : m \in There'} BY DEF Entries
  <2>3. \A m \in There : <<m, extension'[m]>> = <<m, extension[m]>> BY <1>4
  <2> QED BY <1>3, <2>1, <2>2, <2>3 DEF Entries
<1>9. IsFiniteSet(Entries') BY <1>7, <1>8, FS_AddElement
<1>10. ASSUME NEW kind, NEW e
       PROVE  Rank(kind, e) \in Nat /\ Rank(kind, e)' \in Nat /\ Rank(kind, e) <= Rank(kind, e)'
  <2>1. PICK E, F : E = Entries /\ F = Entries' OBVIOUS
  <2>2. PICK A, B : A = {f \in E : Key(kind, f) < Key(kind, e)} /\ B = {f \in F : Key(kind, f) < Key(kind, e)}
    OBVIOUS
  <2>3. Rank(kind, e) = Cardinality(A) /\ Rank(kind, e)' = Cardinality(B) BY <2>1, <2>2 DEF Rank, Key
  <2>4. A \subseteq B /\ B \subseteq F BY <1>8, <2>1, <2>2
  <2>5. IsFiniteSet(B) BY <1>9, <2>1, <2>4, FS_Subset
  <2>6. IsFiniteSet(A) /\ Cardinality(A) <= Cardinality(B) BY <2>4, <2>5, FS_Subset
  <2> QED BY <2>3, <2>5, <2>6, FS_CardinalityType
<1> QED BY <1>1, <1>3, <1>4, <1>5, <1>6, <1>10

\* What was read holds while a row comes.
LEMMA AddRowKeeps ==
  ASSUME ListInv, NEW n \in Rows, AddRow(n)
  PROVE  ListInv'
<1>1. /\ There' = There \cup {n} /\ n \notin There /\ OwnIds' /\ ids' = ids + 1
      /\ extension' \in [Rows -> 0 .. ids'] /\ \A m \in There : extension'[m] = extension[m]
      /\ \A kind, e : Rank(kind, e) \in Nat /\ Rank(kind, e)' \in Nat /\ Rank(kind, e) <= Rank(kind, e)'
  BY AddedRow
<1>2. /\ UNCHANGED <<groups, approved, reading, stayed, gone, result, gaps>>
      /\ edits' = edits \/ (edits < MaxEdits /\ edits' = edits + 1)
  BY DEF AddRow, callVars
<1>3. ids \in Nat /\ ids' \in Nat /\ 1 .. ids \subseteq 1 .. ids' /\ 0 .. ids \subseteq 0 .. ids'
  BY <1>1 DEF ListInv, ListTyped
<1>4. edits' \in 0 .. MaxEdits BY <1>2, ListingsAssumption DEF ListInv, ListTyped
<1>5. \A g \in groups' : g.number \in Nat /\ g.members \subseteq 1 .. ids'
  <2>1. \A g \in groups : g.number \in Nat /\ g.members \subseteq 1 .. ids BY DEF ListInv, ListTyped
  <2> QED BY <1>2, <1>3, <2>1
<1>6. gone' \in [Readers -> SUBSET (Rows \X (1 .. ids'))]
  <2>1. gone \in [Readers -> SUBSET (Rows \X (1 .. ids))] BY DEF ListInv, ListTyped
  <2>2. SUBSET (Rows \X (1 .. ids)) \subseteq SUBSET (Rows \X (1 .. ids')) BY <1>3
  <2> QED BY <1>2, <2>1, <2>2
<1>7. ListTyped'
  <2>1. /\ approved' \in BOOLEAN /\ reading' \in [Readers -> Readings] /\ result' \in [Readers -> Outcomes]
        /\ stayed' \in [Readers -> SUBSET Rows] /\ gaps' \in 0 .. MaxGaps
    BY <1>2 DEF ListInv, ListTyped
  <2> QED BY <1>1, <1>3, <1>4, <1>5, <1>6, <2>1 DEF ListTyped
<1>8. ASSUME NEW r \in Readers PROVE ReaderFine(reading[r], stayed[r], gone[r], result[r])'
  <2>1. PICK b, o, st, gn : b = reading[r] /\ o = result[r] /\ st = stayed[r] /\ gn = gone[r] OBVIOUS
  <2>2. ReaderFine(b, st, gn, o) BY <2>1, TheReader
  <2>3. b.skip \in Nat
    <3>1. b \in Readings BY <2>1, TheReader
    <3> QED BY <3>1, ListingsAssumption DEF Readings
  <2>4. \A m \in st : /\ <<m, extension[m]>>' = <<m, extension[m]>>
                      /\ Ahead(b.kind, gn, m)' <=> Ahead(b.kind, gn, m)
    <3> SUFFICES ASSUME NEW m \in st
                 PROVE  <<m, extension[m]>>' = <<m, extension[m]>> /\ (Ahead(b.kind, gn, m)' <=> Ahead(b.kind, gn, m))
      OBVIOUS
    <3>1. extension'[m] = extension[m] BY <1>1, <2>2 DEF ReaderFine
    <3> QED BY <3>1 DEF Ahead, Key
  <2>5. SoFar(b, st, gn)'
    <3>1. ASSUME b.at = "reading", b.kind # "ungroup", NEW m \in st, Rank(b.kind, <<m, extension[m]>>)' < b.skip
          PROVE  m \in Numbers(b.got) \/ Ahead(b.kind, gn, m)'
      <4>1. PICK e : e = <<m, extension[m]>> OBVIOUS
      <4>2. Rank(b.kind, <<m, extension[m]>>)' = Rank(b.kind, e)' BY <2>4, <4>1
      <4>3. Rank(b.kind, e) < b.skip BY <1>1, <2>3, <3>1, <4>2
      <4> QED BY <2>2, <2>4, <3>1, <4>1, <4>3 DEF ReaderFine, SoFar
    <3>2. ASSUME b.at = "read", b.whole, NEW m \in st PROVE m \in Numbers(b.got) \/ Ahead(b.kind, gn, m)'
      BY <2>2, <2>4, <3>2 DEF ReaderFine, SoFar
    <3> QED BY <3>1, <3>2 DEF SoFar, Numbers
  <2>6. Unlisted(b, st, gn, o)' BY <2>2, <2>4 DEF ReaderFine, Unlisted
  <2>7. Given(b)' BY <1>3, <2>2 DEF ReaderFine, Given
  <2>8. st \subseteq There' BY <1>1, <2>2 DEF ReaderFine
  <2>9. ReaderFine(b, st, gn, o)' BY <2>2, <2>5, <2>6, <2>7, <2>8 DEF ReaderFine
  <2> QED BY <1>2, <2>1, <2>9
<1> QED BY <1>1, <1>7, <1>8 DEF ListInv

\* A row that goes moves those behind it, and nobody else, a place up.
LEMMA RemovedRow ==
  ASSUME ListInv, NEW n \in Rows, RemoveRow(n)
  PROVE  /\ There' = There \ {n} /\ n \in There /\ OwnIds'
         /\ extension' \in [Rows -> 0 .. ids] /\ \A m \in There : m # n => extension'[m] = extension[m]
         /\ \A kind, e : Key(kind, <<n, extension[n]>>) < Key(kind, e) \/ Rank(kind, e)' = Rank(kind, e)
<1>1. /\ extension[n] # 0 /\ extension' = [extension EXCEPT ![n] = 0]
      /\ ids \in Nat /\ extension \in [Rows -> 0 .. ids] /\ OwnIds
  BY DEF RemoveRow, ListInv, ListTyped
<1>2. \A m \in Rows : extension'[m] = IF m = n THEN 0 ELSE extension[m] BY <1>1
<1>3. There' = There \ {n} /\ n \in There BY <1>1, <1>2 DEF There
<1>4. \A m \in There : m # n => extension'[m] = extension[m] BY <1>2 DEF There
<1>5. OwnIds' BY <1>1, <1>3, <1>4 DEF OwnIds
<1>6. extension' \in [Rows -> 0 .. ids]
  <2>1. \A m \in Rows : extension'[m] \in 0 .. ids BY <1>1, <1>2
  <2>2. extension' = [m \in Rows |-> extension'[m]] BY <1>1
  <2> QED BY <2>1, <2>2
<1>7. Entries' = Entries \ {<<n, extension[n]>>}
  <2>1. Entries' = {<<m, extension'[m]>> : m \in There'} BY DEF Entries
  <2>2. \A m \in There : m # n => <<m, extension'[m]>> = <<m, extension[m]>> BY <1>4
  <2>3. \A m \in There : <<m, extension[m]>> = <<n, extension[n]>> => m = n OBVIOUS
  <2> QED BY <1>3, <2>1, <2>2, <2>3 DEF Entries
<1>8. ASSUME NEW kind, NEW e, ~(Key(kind, <<n, extension[n]>>) < Key(kind, e)) PROVE Rank(kind, e)' = Rank(kind, e)
  <2>1. PICK E, F, x : E = Entries /\ F = Entries' /\ x = <<n, extension[n]>> OBVIOUS
  <2>2. F = E \ {x} /\ ~(Key(kind, x) < Key(kind, e)) BY <1>7, <1>8, <2>1
  <2>3. {f \in F : Key(kind, f) < Key(kind, e)} = {f \in E : Key(kind, f) < Key(kind, e)} BY <2>2
  <2> QED BY <2>1, <2>3 DEF Rank, Key
<1> QED BY <1>1, <1>3, <1>4, <1>5, <1>6, <1>8

\* What was read holds while a row goes, but for those behind it.
LEMMA RemoveRowKeeps ==
  ASSUME ListInv, NEW n \in Rows, RemoveRow(n)
  PROVE  ListInv'
<1>1. /\ There' = There \ {n} /\ n \in There /\ OwnIds'
      /\ extension' \in [Rows -> 0 .. ids] /\ \A m \in There : m # n => extension'[m] = extension[m]
      /\ \A kind, e : Key(kind, <<n, extension[n]>>) < Key(kind, e) \/ Rank(kind, e)' = Rank(kind, e)
  BY RemovedRow
<1>2. /\ UNCHANGED <<ids, groups, approved, reading, result, gaps>>
      /\ edits' = edits \/ (edits < MaxEdits /\ edits' = edits + 1)
  BY DEF RemoveRow
<1>3. PICK x : x = <<n, extension[n]>> OBVIOUS
<1>4. x \in Rows \X (1 .. ids) /\ ids \in Nat
  <2>1. extension[n] \in 1 .. ids BY <1>1 DEF There, ListInv, ListTyped
  <2> QED BY <1>3, <2>1 DEF ListInv, ListTyped
<1>5. /\ stayed' = [r \in Readers |-> stayed[r] \ {n}] /\ gone' = [r \in Readers |-> gone[r] \cup {x}]
  BY <1>3 DEF RemoveRow
<1>6. edits' \in 0 .. MaxEdits BY <1>2, ListingsAssumption DEF ListInv, ListTyped
<1>7. ListTyped'
  <2>1. /\ ids' \in Nat /\ approved' \in BOOLEAN /\ reading' \in [Readers -> Readings] /\ result' \in [Readers -> Outcomes]
        /\ gaps' \in 0 .. MaxGaps /\ \A g \in groups' : g.number \in Nat /\ g.members \subseteq 1 .. ids'
    BY <1>2 DEF ListInv, ListTyped
  <2>2. stayed' \in [Readers -> SUBSET Rows]
    <3>1. \A r \in Readers : stayed[r] \ {n} \in SUBSET Rows BY DEF ListInv, ListTyped
    <3> QED BY <1>5, <3>1
  <2>3. gone' \in [Readers -> SUBSET (Rows \X (1 .. ids'))]
    <3>1. \A r \in Readers : gone[r] \cup {x} \in SUBSET (Rows \X (1 .. ids)) BY <1>4 DEF ListInv, ListTyped
    <3> QED BY <1>2, <1>5, <3>1
  <2>4. extension' \in [Rows -> 0 .. ids'] BY <1>1, <1>2
  <2> QED BY <1>6, <2>1, <2>2, <2>3, <2>4 DEF ListTyped
<1>8. ASSUME NEW r \in Readers PROVE ReaderFine(reading[r], stayed[r], gone[r], result[r])'
  <2>1. PICK b, o, st, gn : b = reading[r] /\ o = result[r] /\ st = stayed[r] /\ gn = gone[r] OBVIOUS
  <2>2. ReaderFine(b, st, gn, o) BY <2>1, TheReader
  <2>3. PICK sa, ga : sa = st \ {n} /\ ga = gn \cup {x} OBVIOUS
  <2>4. \A m \in sa : /\ m \in There /\ m # n /\ <<m, extension[m]>>' = <<m, extension[m]>>
                      /\ Ahead(b.kind, gn, m) => Ahead(b.kind, ga, m)'
    <3> SUFFICES ASSUME NEW m \in sa
                 PROVE  /\ m \in There /\ m # n /\ <<m, extension[m]>>' = <<m, extension[m]>>
                        /\ Ahead(b.kind, gn, m) => Ahead(b.kind, ga, m)'
      OBVIOUS
    <3>1. m \in There /\ m # n BY <2>2, <2>3 DEF ReaderFine
    <3>2. extension'[m] = extension[m] BY <1>1, <3>1
    <3> QED BY <2>3, <3>1, <3>2 DEF Ahead, Key
  <2>5. SoFar(b, sa, ga)'
    <3>1. ASSUME b.at = "reading", b.kind # "ungroup", NEW m \in sa, Rank(b.kind, <<m, extension[m]>>)' < b.skip
          PROVE  m \in Numbers(b.got) \/ Ahead(b.kind, ga, m)'
      <4>1. PICK e : e = <<m, extension[m]>> OBVIOUS
      <4>2. Rank(b.kind, <<m, extension[m]>>)' = Rank(b.kind, e)' BY <2>4, <4>1
      <4>3. CASE Key(b.kind, x) < Key(b.kind, e)
        <5>1. e = <<m, extension'[m]>> BY <2>4, <4>1
        <5> QED BY <2>3, <4>3, <5>1 DEF Ahead, Key
      <4>4. CASE ~(Key(b.kind, x) < Key(b.kind, e))
        <5>1. Rank(b.kind, e)' = Rank(b.kind, e) BY <1>1, <1>3, <4>4
        <5>2. Rank(b.kind, e) < b.skip BY <3>1, <4>2, <5>1
        <5> QED BY <2>2, <2>3, <2>4, <3>1, <4>1, <5>2 DEF ReaderFine, SoFar
      <4> QED BY <4>3, <4>4
    <3>2. ASSUME b.at = "read", b.whole, NEW m \in sa PROVE m \in Numbers(b.got) \/ Ahead(b.kind, ga, m)'
      BY <2>2, <2>3, <2>4, <3>2 DEF ReaderFine, SoFar
    <3> QED BY <3>1, <3>2 DEF SoFar, Numbers
  <2>6. Unlisted(b, sa, ga, o)' BY <2>2, <2>3, <2>4 DEF ReaderFine, Unlisted
  <2>7. Given(b)' BY <1>2, <2>2 DEF ReaderFine, Given
  <2>8. sa \subseteq There' BY <1>1, <2>2, <2>3 DEF ReaderFine
  <2>9. ReaderFine(b, sa, ga, o)' BY <2>2, <2>5, <2>6, <2>7, <2>8 DEF ReaderFine
  <2>10. reading'[r] = b /\ result'[r] = o /\ stayed'[r] = sa /\ gone'[r] = ga BY <1>2, <1>5, <2>1, <2>3
  <2> QED BY <2>9, <2>10
<1> QED BY <1>1, <1>7, <1>8 DEF ListInv

\* Each step keeps it.
LEMMA ListStep == ListInv /\ [ListingsNext]_listVars => ListInv'
<1> SUFFICES ASSUME ListInv, [ListingsNext]_listVars PROVE ListInv' OBVIOUS
<1>1. CASE UNCHANGED listVars
  <2>1. ListTyped' BY <1>1 DEF ListInv, ListTyped, listVars
  <2>2. OwnIds' BY <1>1 DEF ListInv, OwnIds, There, listVars
  <2>3. extension' = extension /\ ids' = ids /\ UNCHANGED <<reading, stayed, gone, result>> BY <1>1 DEF listVars
  <2>4. ASSUME NEW r \in Readers PROVE ReaderFine(reading[r], stayed[r], gone[r], result[r])'
    <3>1. PICK b, o, st, gn : b = reading[r] /\ o = result[r] /\ st = stayed[r] /\ gn = gone[r] OBVIOUS
    <3>2. ReaderFine(b, st, gn, o) BY <3>1, TheReader
    <3>3. ReaderFine(b, st, gn, o)' BY <2>3, <3>2, FineStays
    <3> QED BY <2>3, <3>1, <3>3
  <2> QED BY <2>1, <2>2, <2>4 DEF ListInv
<1>2. ASSUME NEW r \in Readers, ReadStep(r) \/ WriteStep(r) PROVE ListInv'
  BY <1>2, ReadPageKeeps, FallBackKeeps, SelectKeeps, FailsKeeps, CreateGroupKeeps, RemoveGroupKeeps,
     FindKeeps, PatchKeeps, BulkDoneKeeps DEF ReadStep, WriteStep
<1>3. ASSUME NEW r \in Readers, NEW q \in Requests, Begin(r, q[1], q[2]) PROVE ListInv' BY <1>3, BeginKeeps
<1>4. ASSUME NEW n \in Rows, AddRow(n) \/ RemoveRow(n) PROVE ListInv' BY <1>4, AddRowKeeps, RemoveRowKeeps
<1> QED BY <1>1, <1>2, <1>3, <1>4 DEF ListingsNext

\* It says what the run checks.
LEMMA ListHolds == ListInv => ListsAreWhole
<1> SUFFICES ASSUME ListInv PROVE ListsAreWhole OBVIOUS
<1>1. ListingsTypeOK
  <2>1. ASSUME NEW r \in Readers
        PROVE  /\ reading[r].kind \in ListKinds /\ reading[r].at \in Places
               /\ reading[r].skip \in 0 .. MaxRead /\ reading[r].whole \in BOOLEAN /\ reading[r].id \in 0 .. ids
               /\ \A e \in reading[r].got : e[1] \in Rows /\ e[2] \in 1 .. ids
               /\ DOMAIN result[r] = DOMAIN NoResult
    <3>1. PICK b \in Readings, o \in Outcomes : b = reading[r] /\ o = result[r] /\ Given(b) BY WhoCalls
    <3>2. b.kind \in ListKinds /\ b.at \in Places /\ b.skip \in 0 .. MaxRead /\ b.whole \in BOOLEAN
      BY DEF Readings
    <3>3. b.id \in 0 .. ids /\ \A e \in b.got : e[1] \in Rows /\ e[2] \in 1 .. ids BY <3>1 DEF Given, Readings
    <3>4. DOMAIN o = DOMAIN NoResult BY DEF Outcomes, NoResult
    <3> QED BY <3>1, <3>2, <3>3, <3>4
  <2> QED BY <2>1 DEF ListInv, ListTyped, ListingsTypeOK
<1>2. ASSUME NEW r \in Readers
      PROVE  /\ \A n \in result[r].missing \cap Rows : reading[r].kind \in {"select", "group"} => Skipped(r, n)
             /\ reading[r].kind = "select" /\ reading[r].at = "over" /\ ~TooMany(reading[r].asked) =>
                  /\ result[r].changed \cap result[r].missing = {}
                  /\ \A n \in 1 .. reading[r].asked[1] + reading[r].asked[2] :
                       (\E a, b \in Range(reading[r].asked) : a <= n /\ n <= b)
                         => n \in result[r].changed \cup result[r].missing
  <2>1. PICK b \in Readings, o \in Outcomes :
          b = reading[r] /\ o = result[r] /\ Told(b, o) /\ Unlisted(b, stayed[r], gone[r], o)
    BY WhoCalls
  <2>2. ASSUME NEW n \in o.missing \cap Rows, b.kind \in {"select", "group"} PROVE Skipped(r, n)
    BY <2>1, <2>2 DEF Unlisted, Skipped, Ahead
  <2>3. ASSUME b.kind = "select", b.at = "over", ~TooMany(b.asked)
        PROVE  /\ o.changed \cap o.missing = {}
               /\ \A n \in 1 .. b.asked[1] + b.asked[2] :
                    (\E x, y \in Range(b.asked) : x <= n /\ n <= y) => n \in o.changed \cup o.missing
    <3>1. /\ Len(b.asked) = 2 /\ o.changed \cap o.missing = {}
          /\ Span(b.asked) \subseteq o.changed \cup o.missing
      BY <2>1, <2>3 DEF Told
    <3>2. b.asked \in Seq(Nat) BY DEF Readings
    <3>3. b.asked[1] \in Nat /\ b.asked[2] \in Nat BY <3>1, <3>2, ElementOfSeq
    <3>4. \A x \in Range(b.asked) : x \in {b.asked[1], b.asked[2]}
      <4>1. DOMAIN b.asked = 1 .. 2 BY <3>1, <3>2, LenProperties
      <4>2. 1 .. 2 = {1, 2} OBVIOUS
      <4> QED BY <4>1, <4>2 DEF Range
    <3>5. ASSUME NEW n \in 1 .. b.asked[1] + b.asked[2], NEW x \in Range(b.asked), NEW y \in Range(b.asked), x <= n, n <= y
          PROVE  n \in Span(b.asked)
      <4>1. n \in Nat BY <3>3
      <4>2. x \in {b.asked[1], b.asked[2]} /\ y \in {b.asked[1], b.asked[2]} BY <3>4
      <4> QED BY <3>3, <3>5, <4>1, <4>2 DEF Span
    <3> QED BY <3>1, <3>5
  <2> QED BY <2>1, <2>2, <2>3
<1>3. MissingIsMissingUndisturbed BY <1>2 DEF MissingIsMissingUndisturbed
<1>4. GroupsAreWhole
  <2> SUFFICES ASSUME NEW r \in Readers, reading[r].kind = "group", result[r].changed # {}
               PROVE  Members(r) \subseteq Numbers(reading[r].got) /\ result[r].missing = {}
    BY DEF GroupsAreWhole
  <2>1. PICK b \in Readings, o \in Outcomes : b = reading[r] /\ o = result[r] /\ Told(b, o) BY WhoCalls
  <2>2. Range(Tail(b.asked)) \subseteq Numbers(b.got) /\ o.missing = {} BY <2>1 DEF Told
  <2> QED BY <2>1, <2>2 DEF Members
<1>5. EachIsTold
  <2> SUFFICES ASSUME NEW r \in Readers, reading[r].kind = "bulk"
               PROVE  /\ result[r].changed \subseteq result[r].done
                      /\ result[r].done \ result[r].changed # {} => result[r].lost
                      /\ reading[r].at = "over" => Range(reading[r].asked) = result[r].changed \cup result[r].failed
    BY DEF EachIsTold
  <2>1. PICK b \in Readings, o \in Outcomes : b = reading[r] /\ o = result[r] /\ Told(b, o) BY WhoCalls
  <2>2. /\ o.changed \subseteq o.done /\ (o.done \ o.changed # {} => o.lost)
        /\ b.at = "over" => Range(b.asked) = o.changed \cup o.failed
    BY <2>1 DEF Told
  <2> QED BY <2>1, <2>2
<1> QED BY <1>1, <1>3, <1>4, <1>5 DEF ListsAreWhole

\* A list that was read a page at a time is whole, or says that it is not; a ring
\* group has everybody it was to have; and each of many changes is told of: always
\* (cmd/plugin-3cx/extensions.go, ringgroups.go; internal/api/phone.go,
\* extensions.go).
THEOREM ListsKept == ListingsSpec => []ListsAreWhole
<1>1. ListingsInit => ListInv BY ListStart
<1>2. ListInv /\ [ListingsNext]_listVars => ListInv' BY ListStep
<1>3. ListInv => ListsAreWhole BY ListHolds
<1> QED BY <1>1, <1>2, <1>3, PTL DEF ListingsSpec

-----------------------------------------------------------------------------
(***************************************************************************)
(* Keys: what setExtensionKeys writes is whole, in order and in its place. *)
(***************************************************************************)

\* What Parse makes of an extension's layout.
Shown == {strip \in Seq(Buttoned) : Parsed(strip)}

\* The layout of an extension starts at its first key.
LEMMA StartIsFirst ==
  ASSUME NEW strip \in Shown
  PROVE  /\ StartsAt(strip) \in Nat \ {0}
         /\ strip # <<>> => 1 \in DOMAIN strip /\ StartsAt(strip) = strip[1].no
<1>1. Len(strip) \in Nat /\ DOMAIN strip = 1 .. Len(strip) /\ \A i \in DOMAIN strip : strip[i] \in Buttoned
  BY LenProperties, ElementOfSeq DEF Shown
<1>2. CASE strip = <<>>
  BY <1>2 DEF StartsAt
<1>3. ASSUME strip # <<>>
      PROVE  /\ StartsAt(strip) \in Nat \ {0}
             /\ 1 \in DOMAIN strip /\ StartsAt(strip) = strip[1].no
  <2>1. 1 \in DOMAIN strip BY <1>1, <1>3, EmptySeq DEF Shown
  <2>2. \A i \in DOMAIN strip : strip[i].no \in Nat /\ strip[i].no >= 1 BY <1>1 DEF Buttoned, Shown, Parsed
  <2>3. \A i \in DOMAIN strip : strip[1].no <= strip[i].no
    <3>1. \A i \in DOMAIN strip : 1 < i => strip[1].no < strip[i].no BY <2>1 DEF Shown, Parsed
    <3>2. \A i \in DOMAIN strip : i = 1 \/ 1 < i BY <1>1
    <3> QED BY <2>1, <2>2, <3>1, <3>2
  <2>4. strip[1].no \in NumbersOf(strip) /\ \A m \in NumbersOf(strip) : m \in Nat /\ strip[1].no <= m
    BY <2>1, <2>2, <2>3 DEF NumbersOf
  <2>5. \A n \in NumbersOf(strip) : (\A m \in NumbersOf(strip) : n <= m) => n = strip[1].no BY <2>4
  <2>6. StartsAt(strip) = strip[1].no BY <1>3, <2>4, <2>5 DEF StartsAt
  <2> QED BY <2>1, <2>2, <2>6
<1> QED BY <1>2, <1>3

\* A layout renumbered starts where it was to start, has no gap, and carries the
\* same keys in the same order.
LEMMA RenumberedKeys ==
  ASSUME NEW strip \in Seq(Buttoned), NEW first \in Nat \ {0}, NEW new, new = Renumber(strip, first)
  PROVE  /\ new \in Shown /\ Gapless(new)
         /\ [i \in DOMAIN new |-> [new[i] EXCEPT !.no = 0]] = [i \in DOMAIN strip |-> [strip[i] EXCEPT !.no = 0]]
         /\ StartsAt(new) = IF strip = <<>> THEN 1 ELSE first
<1>1. Len(strip) \in Nat /\ DOMAIN strip = 1 .. Len(strip) /\ \A i \in DOMAIN strip : strip[i] \in Buttoned
  BY LenProperties, ElementOfSeq
<1>2. DOMAIN new = DOMAIN strip /\ \A i \in DOMAIN strip : new[i] = [strip[i] EXCEPT !.no = first + i - 1]
  BY DEF Renumber
<1>3. \A i \in DOMAIN strip : first + i - 1 \in Nat /\ first + i - 1 >= 1 BY <1>1
<1>4. ASSUME NEW i \in DOMAIN strip
      PROVE  /\ new[i] \in Buttoned /\ new[i].no = first + i - 1
             /\ [new[i] EXCEPT !.no = 0] = [strip[i] EXCEPT !.no = 0]
  <2>1. PICK b \in Buttoned : b = strip[i] BY <1>1
  <2>2. PICK c : c = new[i] OBVIOUS
  <2>3. c = [b EXCEPT !.no = first + i - 1] BY <1>2, <2>1, <2>2
  <2>4. c \in Buttoned /\ c.no = first + i - 1 BY <1>3, <2>3 DEF Buttoned
  <2>5. [c EXCEPT !.no = 0] = [b EXCEPT !.no = 0] BY <2>3 DEF Buttoned
  <2> QED BY <2>1, <2>2, <2>4, <2>5
<1>5. new \in Seq(Buttoned) /\ Len(new) = Len(strip)
  <2>1. new = [i \in 1 .. Len(strip) |-> new[i]] BY <1>1 DEF Renumber
  <2>2. \A i \in 1 .. Len(strip) : new[i] \in Buttoned BY <1>1, <1>4
  <2>3. new \in Seq(Buttoned) BY <1>1, <2>1, <2>2, IsASeq
  <2>4. DOMAIN new = 1 .. Len(new) /\ Len(new) \in Nat BY <2>3, LenProperties
  <2> QED BY <1>1, <1>2, <2>3, <2>4
<1>6. Parsed(new)
  <2>1. \A i \in DOMAIN new : i \in Nat /\ new[i].no = first + i - 1 BY <1>1, <1>2, <1>4
  <2>2. \A i \in DOMAIN new : new[i].no >= 1 BY <1>2, <1>3, <2>1
  <2>3. \A i, j \in DOMAIN new : i < j => new[i].no < new[j].no BY <2>1
  <2> QED BY <2>2, <2>3 DEF Parsed
<1>7. [i \in DOMAIN new |-> [new[i] EXCEPT !.no = 0]] = [i \in DOMAIN strip |-> [strip[i] EXCEPT !.no = 0]]
  BY <1>2, <1>4
<1>8. new \in Shown BY <1>5, <1>6 DEF Shown
<1>9. StartsAt(new) = IF strip = <<>> THEN 1 ELSE first
  <2>1. CASE strip = <<>>
    <3>1. new = <<>> BY <1>5, <2>1, EmptySeq
    <3> QED BY <2>1, <3>1 DEF StartsAt
  <2>2. CASE strip # <<>>
    <3>1. 1 \in DOMAIN strip BY <1>1, <2>2, EmptySeq
    <3>2. new # <<>> BY <1>2, <3>1
    <3>3. StartsAt(new) = new[1].no BY <1>8, <3>2, StartIsFirst
    <3>4. new[1].no = first + 1 - 1 BY <1>4, <3>1
    <3> QED BY <2>2, <3>3, <3>4
  <2> QED BY <2>1, <2>2
<1>10. NumbersOf(new) = {first + i - 1 : i \in 1 .. Len(strip)} BY <1>1, <1>2, <1>4 DEF NumbersOf
<1>11. Gapless(new)
  <2>1. CASE strip = <<>>
    <3>1. Len(strip) = 0 BY <2>1
    <3>2. NumbersOf(new) = {} BY <1>10, <3>1
    <3>3. StartsAt(new) .. StartsAt(new) + Len(new) - 1 = {} BY <1>5, <1>9, <2>1, <3>1
    <3> QED BY <3>2, <3>3 DEF Gapless
  <2>2. CASE strip # <<>>
    <3>1. {first + i - 1 : i \in 1 .. Len(strip)} = first .. first + Len(strip) - 1
      <4>1. ASSUME NEW n \in first .. first + Len(strip) - 1 PROVE \E i \in 1 .. Len(strip) : n = first + i - 1
        <5>1. n - first + 1 \in 1 .. Len(strip) /\ n = first + (n - first + 1) - 1 BY <1>1
        <5> QED BY <5>1
      <4>2. \A i \in 1 .. Len(strip) : first + i - 1 \in first .. first + Len(strip) - 1 BY <1>1
      <4> QED BY <4>1, <4>2
    <3> QED BY <1>5, <1>9, <1>10, <2>2, <3>1 DEF Gapless
  <2> QED BY <2>1, <2>2
<1> QED BY <1>7, <1>8, <1>9, <1>11

\* A layout without a gap, numbered again from its own start, is what it was:
\* the keys up to one of them take the numbers up to its number, so there are as
\* many of the one as of the other.
LEMMA GaplessIsItself ==
  ASSUME NEW strip \in Shown, Gapless(strip)
  PROVE  Renumber(strip, StartsAt(strip)) = strip
<1> DEFINE s == StartsAt(strip)
<1>1. Len(strip) \in Nat /\ DOMAIN strip = 1 .. Len(strip) /\ \A i \in DOMAIN strip : strip[i] \in Buttoned
  BY LenProperties, ElementOfSeq DEF Shown
<1>2. s \in Nat BY StartIsFirst
<1>3. \A i \in DOMAIN strip : strip[i].no \in Nat BY <1>1 DEF Buttoned
<1>4. \A i, j \in DOMAIN strip : i < j => strip[i].no < strip[j].no BY DEF Shown, Parsed
<1>5. {strip[i].no : i \in DOMAIN strip} = s .. s + Len(strip) - 1 BY DEF Gapless, NumbersOf
<1> HIDE DEF s
<1>6. ASSUME NEW i \in DOMAIN strip PROVE strip[i].no = s + i - 1
  <2> DEFINE f == [j \in 1 .. i |-> strip[j].no]
  <2>1. i \in Nat /\ 1 .. i \subseteq DOMAIN strip BY <1>1
  <2>2. strip[i].no \in s .. s + Len(strip) - 1 BY <1>5
  <2>3. \A j \in 1 .. i : strip[j].no \in s .. strip[i].no
    <3> SUFFICES ASSUME NEW j \in 1 .. i PROVE strip[j].no \in s .. strip[i].no OBVIOUS
    <3>1. j \in DOMAIN strip /\ (j = i \/ j < i) BY <2>1
    <3>2. strip[j].no \in s .. s + Len(strip) - 1 BY <1>5, <3>1
    <3>3. strip[j].no <= strip[i].no BY <1>3, <1>4, <3>1
    <3> QED BY <1>1, <1>2, <1>3, <3>1, <3>2, <3>3
  <2>4. f \in [1 .. i -> s .. strip[i].no] BY <2>3
  <2>5. \A j, k \in 1 .. i : f[j] = f[k] => j = k
    <3> SUFFICES ASSUME NEW j \in 1 .. i, NEW k \in 1 .. i, f[j] = f[k], j # k PROVE FALSE OBVIOUS
    <3>1. strip[j].no = strip[k].no OBVIOUS
    <3>2. j \in DOMAIN strip /\ k \in DOMAIN strip /\ (j < k \/ k < j) BY <2>1
    <3> QED BY <1>3, <1>4, <3>1, <3>2
  <2>6. \A n \in s .. strip[i].no : \E j \in 1 .. i : f[j] = n
    <3> SUFFICES ASSUME NEW n \in s .. strip[i].no PROVE \E j \in 1 .. i : f[j] = n OBVIOUS
    <3>1. n \in s .. s + Len(strip) - 1 BY <1>1, <1>2, <1>3, <2>2
    <3>2. PICK j \in DOMAIN strip : strip[j].no = n BY <1>5, <3>1
    <3>3. j <= i BY <1>1, <1>2, <1>3, <1>4, <3>2
    <3>4. j \in 1 .. i BY <1>1, <3>2, <3>3
    <3> QED BY <3>2, <3>4
  <2>7. IsFiniteSet(1 .. i) /\ Cardinality(1 .. i) = i BY <1>1, FS_Interval
  <2>8. ExistsBijection(1 .. i, s .. strip[i].no)
    <3>0. DOMAIN f = 1 .. i OBVIOUS
    <3> HIDE DEF f
    <3>1. f \in Injection(1 .. i, s .. strip[i].no)
      BY <2>4, <2>5, <3>0 DEF Injection, IsInjective
    <3>2. f \in Surjection(1 .. i, s .. strip[i].no) BY <2>4, <2>6 DEF Surjection
    <3> QED BY <3>1, <3>2 DEF ExistsBijection, Bijection
  <2>9. Cardinality(s .. strip[i].no) = i BY <2>7, <2>8, FS_Bijection
  <2>10. Cardinality(s .. strip[i].no) = strip[i].no - s + 1 BY <1>2, <1>3, <2>2, FS_Interval
  <2> QED BY <1>2, <1>3, <2>1, <2>9, <2>10
<1>7. ASSUME NEW i \in DOMAIN strip PROVE [strip[i] EXCEPT !.no = s + i - 1] = strip[i]
  <2>1. PICK b \in Buttoned : b = strip[i] BY <1>1
  <2>2. b.no = s + i - 1 BY <1>6, <2>1
  <2>3. [b EXCEPT !.no = b.no] = b BY DEF Buttoned
  <2> QED BY <2>1, <2>2, <2>3
<1>8. Renumber(strip, s) = [i \in DOMAIN strip |-> strip[i]] BY <1>7 DEF Renumber
<1>9. strip = [i \in 1 .. Len(strip) |-> strip[i]] BY DEF Shown
<1>10. [i \in DOMAIN strip |-> strip[i]] = [i \in 1 .. Len(strip) |-> strip[i]] BY <1>1
<1> QED BY <1>8, <1>9, <1>10 DEF s

\* A call of the tool: its keys, once they are those it copies, are in their
\* order, and it starts where they do.
Layers == [at : {"idle", "ids", "source", "resolve", "each", "write", "over", "refused"},
           from : Handsets \cup {"nobody"}, keys : Seq(Buttoned), first : Nat, todo : Seq(Handsets),
           ids : SUBSET Handsets, was : Shown]
LayingOn == {"each", "write", "over"}
LayerFine(b) ==
  /\ b.at \in LayingOn \cup {"resolve"} /\ b.from # "nobody" => b.keys \in Shown /\ b.first = StartsAt(b.keys)
  /\ b.at = "write" => b.todo # <<>>

KeysTyped ==
  /\ phones \subseteq Handsets /\ layout \in [Handsets -> Shown]
  /\ laying \in [Layings -> Layers]
  /\ laid \in [Handsets -> Layings \cup {"nobody"}]
  /\ hands \in 0 .. MaxHands /\ stumbles \in 0 .. MaxStumbles

\* An extension somebody answers for has the keys of that call, numbered on from
\* one button.
Numbered(b, strip) == \E first \in Nat \ {0} : strip = Renumber(b.keys, first) /\ (b.from # "nobody" => first = b.first)
LaidFine(e) == laid[e] # "nobody" => laying[laid[e]].at \in LayingOn /\ Numbered(laying[laid[e]], layout[e])

KeysInv ==
  /\ KeysTyped
  /\ \A o \in Layings : LayerFine(laying[o])
  /\ \A e \in Handsets : LaidFine(e)

\* Nobody has keys from a call at the start.
LEMMA KeysStart == KeysInit => KeysInv
<1> SUFFICES ASSUME KeysInit PROVE KeysInv OBVIOUS
<1>1. <<>> \in Seq(Buttoned) /\ <<>> \in Seq(Handsets) /\ <<>> \in Shown
  BY EmptySeq DEF Shown, Parsed
<1>2. NotLaying \in Layers /\ LayerFine(NotLaying) BY <1>1 DEF NotLaying, Layers, LayerFine, LayingOn
<1>3. Layouts \subseteq Shown BY KeysAssumption DEF Shown
<1>4. KeysTyped
  <2>1. layout \in [Handsets -> Shown] BY <1>3 DEF KeysInit
  <2>2. laying \in [Layings -> Layers] BY <1>2 DEF KeysInit
  <2> QED BY <2>1, <2>2, KeysAssumption DEF KeysInit, KeysTyped
<1>5. \A o \in Layings : LayerFine(laying[o]) BY <1>2 DEF KeysInit
<1> QED BY <1>4, <1>5 DEF KeysInit, KeysInv, LaidFine

\* One call goes on, and what it laid it still answers for.
LEMMA LayerGoesOn ==
  ASSUME KeysInv, NEW o \in Layings, NEW c \in Layers, LayerFine(c),
         laying' = [laying EXCEPT ![o] = c],
         laying[o].at \in LayingOn => /\ c.at \in LayingOn /\ c.from = laying[o].from
                                      /\ c.keys = laying[o].keys /\ c.first = laying[o].first,
         phones' \subseteq Handsets, layout' = layout, laid' = laid,
         hands' \in 0 .. MaxHands, stumbles' \in 0 .. MaxStumbles
  PROVE  KeysInv'
<1>1. KeysTyped' BY DEF KeysInv, KeysTyped
<1>2. \A p \in Layings : laying'[p] = IF p = o THEN c ELSE laying[p] BY DEF KeysInv, KeysTyped
<1>3. ASSUME NEW p \in Layings PROVE LayerFine(laying[p])'
  <2>1. PICK b \in Layers : b = laying'[p] BY <1>2 DEF KeysInv, KeysTyped
  <2>2. LayerFine(b) BY <1>2, <2>1 DEF KeysInv
  <2> QED BY <2>1, <2>2 DEF LayerFine
<1>4. ASSUME NEW e \in Handsets PROVE LaidFine(e)'
  <2>1. SUFFICES ASSUME laid[e] # "nobody" PROVE laying'[laid[e]].at \in LayingOn /\ Numbered(laying[laid[e]], layout[e])'
    BY DEF LaidFine
  <2>2. laid[e] \in Layings BY <2>1 DEF KeysInv, KeysTyped
  <2>3. laying[laid[e]].at \in LayingOn /\ Numbered(laying[laid[e]], layout[e]) BY <2>1 DEF KeysInv, LaidFine
  <2>4. PICK first \in Nat \ {0} : layout[e] = Renumber(laying[laid[e]].keys, first)
                                     /\ (laying[laid[e]].from # "nobody" => first = laying[laid[e]].first)
    BY <2>3 DEF Numbered
  <2>5. /\ laying'[laid[e]].at \in LayingOn /\ laying'[laid[e]].from = laying[laid[e]].from
        /\ laying'[laid[e]].keys = laying[laid[e]].keys /\ laying'[laid[e]].first = laying[laid[e]].first
    BY <1>2, <2>2, <2>3
  <2> QED BY <2>4, <2>5 DEF Numbered
<1> QED BY <1>1, <1>3, <1>4 DEF KeysInv

\* A call only ever does the next thing of its own.
LEMMA LayReads ==
  ASSUME KeysInv, NEW o \in Layings, ReadIDs(o) \/ ReadSource(o) \/ ResolveKeys(o) \/ ReadTarget(o) \/ EndLay(o)
  PROVE  KeysInv'
<1>0. PICK b \in Layers : b = laying[o] BY DEF KeysInv, KeysTyped
<1>1. LayerFine(b) BY <1>0 DEF KeysInv
<1>2. /\ phones' \subseteq Handsets /\ layout' = layout /\ laid' = laid
      /\ hands' \in 0 .. MaxHands /\ stumbles' \in 0 .. MaxStumbles
  BY KeysAssumption DEF KeysInv, KeysTyped, ReadIDs, ReadSource, ResolveKeys, ReadTarget, EndLay, Stumble
<1>3. ASSUME NEW at \in {"refused", "each", "over"}, Becomes(o, at), b.at \notin LayingOn \/ at = "over",
             at = "each" => b.at = "resolve", at = "over" => b.at = "each"
      PROVE  KeysInv'
  <2>1. PICK c : c = [b EXCEPT !.at = at] OBVIOUS
  <2>2. /\ c \in Layers /\ c.at = at /\ c.from = b.from /\ c.keys = b.keys /\ c.first = b.first /\ c.todo = b.todo
    BY <2>1 DEF Layers
  <2>3. laying' = [laying EXCEPT ![o] = c] BY <1>0, <1>3, <2>1 DEF Becomes
  <2>4. LayerFine(c) BY <1>1, <1>3, <2>2 DEF LayerFine, LayingOn
  <2> QED BY <1>0, <1>2, <1>3, <2>2, <2>3, <2>4, LayerGoesOn DEF LayingOn
<1>4. ASSUME ReadIDs(o) PROVE KeysInv'
  <2>1. CASE Becomes(o, "refused") BY <1>0, <1>3, <1>4, <2>1 DEF ReadIDs, LayingOn
  <2>2. ASSUME laying' = [laying EXCEPT ![o] = [@ EXCEPT !.ids = phones,
                        !.at = IF laying[o].from = "nobody" THEN "resolve" ELSE "source"]]
        PROVE  KeysInv'
    <3>1. PICK c : c = [b EXCEPT !.ids = phones, !.at = IF b.from = "nobody" THEN "resolve" ELSE "source"] OBVIOUS
    <3>2. /\ c \in Layers /\ c.from = b.from /\ c.at = IF b.from = "nobody" THEN "resolve" ELSE "source"
      BY <3>1 DEF Layers, KeysInv, KeysTyped
    <3>3. laying' = [laying EXCEPT ![o] = c] BY <1>0, <2>2, <3>1
    <3>4. LayerFine(c) BY <3>2 DEF LayerFine, LayingOn
    <3> QED BY <1>0, <1>2, <1>4, <3>2, <3>3, <3>4, LayerGoesOn DEF LayingOn, ReadIDs
  <2> QED BY <1>4, <2>1, <2>2 DEF ReadIDs
<1>5. ASSUME ReadSource(o) PROVE KeysInv'
  <2>1. CASE Becomes(o, "refused") BY <1>0, <1>3, <1>5, <2>1 DEF ReadSource, LayingOn
  <2>2. ASSUME NEW e \in Handsets,
               laying' = [laying EXCEPT ![o] = [@ EXCEPT !.at = "resolve", !.keys = layout[e], !.first = StartsAt(layout[e])]]
        PROVE  KeysInv'
    <3>1. PICK c : c = [b EXCEPT !.at = "resolve", !.keys = layout[e], !.first = StartsAt(layout[e])] OBVIOUS
    <3>2. layout[e] \in Shown /\ layout[e] \in Seq(Buttoned) /\ StartsAt(layout[e]) \in Nat
      BY StartIsFirst DEF KeysInv, KeysTyped, Shown
    <3>3. c \in Layers /\ c.at = "resolve" /\ c.keys = layout[e] /\ c.first = StartsAt(layout[e])
      BY <3>1, <3>2 DEF Layers
    <3>4. laying' = [laying EXCEPT ![o] = c] BY <1>0, <2>2, <3>1
    <3>5. LayerFine(c) BY <3>2, <3>3 DEF LayerFine
    <3> QED BY <1>0, <1>2, <1>5, <3>3, <3>4, <3>5, LayerGoesOn DEF LayingOn, ReadSource
  <2>3. ASSUME laying[o].from \in laying[o].ids \cap phones PROVE laying[o].from \in Handsets
    BY <2>3 DEF KeysInv, KeysTyped
  <2> QED BY <1>5, <2>1, <2>2, <2>3 DEF ReadSource
<1>6. ASSUME ResolveKeys(o) PROVE KeysInv'
  BY <1>0, <1>3, <1>6 DEF ResolveKeys, LayingOn
<1>7. ASSUME ReadTarget(o) PROVE KeysInv'
  <2>0. b.at = "each" /\ b.todo # <<>> /\ Head(b.todo) \in Handsets /\ Tail(b.todo) \in Seq(Handsets)
    BY <1>0, <1>7, HeadTailProperties DEF ReadTarget, Layers
  <2>1. ASSUME laying' = [laying EXCEPT ![o] = [@ EXCEPT !.at = "write", !.was = layout[Head(b.todo)]]] PROVE KeysInv'
    <3>1. PICK c : c = [b EXCEPT !.at = "write", !.was = layout[Head(b.todo)]] OBVIOUS
    <3>2. layout[Head(b.todo)] \in Shown BY <2>0 DEF KeysInv, KeysTyped
    <3>3. /\ c \in Layers /\ c.at = "write" /\ c.from = b.from /\ c.keys = b.keys /\ c.first = b.first /\ c.todo = b.todo
      BY <3>1, <3>2 DEF Layers
    <3>4. laying' = [laying EXCEPT ![o] = c] BY <1>0, <2>1, <3>1
    <3>5. LayerFine(c) BY <1>1, <2>0, <3>3 DEF LayerFine, LayingOn
    <3> QED BY <1>0, <1>2, <3>3, <3>4, <3>5, LayerGoesOn DEF LayingOn
  <2>2. ASSUME Skip(o) PROVE KeysInv'
    <3>1. PICK c : c = [b EXCEPT !.todo = Tail(b.todo)] OBVIOUS
    <3>2. /\ c \in Layers /\ c.at = b.at /\ c.from = b.from /\ c.keys = b.keys /\ c.first = b.first
      BY <2>0, <3>1 DEF Layers
    <3>3. laying' = [laying EXCEPT ![o] = c] BY <1>0, <2>2, <3>1 DEF Skip
    <3>4. LayerFine(c) BY <1>1, <2>0, <3>2 DEF LayerFine, LayingOn
    <3> QED BY <1>0, <1>2, <2>0, <3>2, <3>3, <3>4, LayerGoesOn DEF LayingOn
  <2> QED BY <1>0, <1>7, <2>1, <2>2 DEF ReadTarget
<1>8. ASSUME EndLay(o) PROVE KeysInv'
  BY <1>0, <1>3, <1>8 DEF EndLay
<1> QED BY <1>4, <1>5, <1>6, <1>7, <1>8

\* A patch lays the keys of the call from one button, or leaves them.
LEMMA LayWrites ==
  ASSUME KeysInv, NEW o \in Layings, WriteKeys(o)
  PROVE  KeysInv'
<1>0. PICK b \in Layers : b = laying[o] BY DEF KeysInv, KeysTyped
<1>1. b.at = "write" /\ LayerFine(b) BY <1>0 DEF KeysInv, WriteKeys
<1>2. b.todo # <<>> /\ Head(b.todo) \in Handsets /\ Tail(b.todo) \in Seq(Handsets)
  BY <1>1, HeadTailProperties DEF LayerFine, Layers
<1>3. PICK e \in Handsets : e = Head(b.todo) BY <1>2
<1>4. PICK first : first = FirstButton(o) OBVIOUS
<1>5. first \in Nat \ {0} /\ (b.from # "nobody" => first = b.first)
  <2>1. b.was \in Shown /\ b.first \in Nat BY DEF Layers
  <2>2. StartsAt(b.was) \in Nat \ {0} BY <2>1, StartIsFirst
  <2>3. b.from # "nobody" => b.keys \in Shown /\ b.first = StartsAt(b.keys) BY <1>1 DEF LayerFine, LayingOn
  <2>4. b.from # "nobody" => b.first # 0 BY <2>3, StartIsFirst
  <2> QED BY <1>0, <1>4, <2>1, <2>2, <2>4 DEF FirstButton
<1>6. PICK strip : strip = Renumber(b.keys, first) OBVIOUS
<1>7. b.keys \in Seq(Buttoned) BY DEF Layers
<1>8. strip \in Shown BY <1>5, <1>6, <1>7, RenumberedKeys
<1>9. PICK new : new = [layout EXCEPT ![e] = strip] OBVIOUS
<1>10. \/ layout' = new /\ laid' = [laid EXCEPT ![e] = o]
       \/ layout' = layout /\ laid' = laid
       \/ layout' = new /\ laid' = [laid EXCEPT ![e] = "nobody"]
  BY <1>0, <1>3, <1>4, <1>6, <1>9 DEF WriteKeys
<1>11. PICK c : c = [b EXCEPT !.at = "each", !.todo = Tail(b.todo), !.was = <<>>] OBVIOUS
<1>12. <<>> \in Shown BY EmptySeq DEF Shown, Parsed
<1>13. c \in Layers /\ c.at = "each" /\ c.from = b.from /\ c.keys = b.keys /\ c.first = b.first
  BY <1>2, <1>11, <1>12 DEF Layers
<1>14. laying' = [laying EXCEPT ![o] = c]
  <2>1. laying' = [laying EXCEPT ![o] = [@ EXCEPT !.at = "each", !.todo = Tail(laying[o].todo), !.was = <<>>]]
    BY DEF WriteKeys
  <2> QED BY <1>0, <1>11, <2>1
<1>15. LayerFine(c) BY <1>1, <1>13 DEF LayerFine, LayingOn
<1>16. phones' = phones /\ hands' = hands /\ stumbles' \in 0 .. MaxStumbles
  BY KeysAssumption DEF KeysInv, KeysTyped, WriteKeys, Stumble
<1>17. \A p \in Layings : laying'[p] = IF p = o THEN c ELSE laying[p] BY <1>14 DEF KeysInv, KeysTyped
<1>18. KeysTyped'
  <2>1. layout' \in [Handsets -> Shown] BY <1>8, <1>9, <1>10 DEF KeysInv, KeysTyped
  <2>2. laid' \in [Handsets -> Layings \cup {"nobody"}] BY <1>10 DEF KeysInv, KeysTyped
  <2>3. laying' \in [Layings -> Layers] BY <1>13, <1>14 DEF KeysInv, KeysTyped
  <2> QED BY <1>16, <2>1, <2>2, <2>3 DEF KeysInv, KeysTyped
<1>19. ASSUME NEW p \in Layings PROVE LayerFine(laying[p])'
  <2>1. PICK d \in Layers : d = laying'[p] BY <1>13, <1>17 DEF KeysInv, KeysTyped
  <2>2. LayerFine(d) BY <1>15, <1>17, <2>1 DEF KeysInv
  <2> QED BY <2>1, <2>2 DEF LayerFine
<1>20. ASSUME NEW f \in Handsets PROVE LaidFine(f)'
  <2>0. SUFFICES ASSUME laid'[f] # "nobody"
                 PROVE  laying'[laid'[f]].at \in LayingOn /\ Numbered(laying[laid[f]], layout[f])'
    BY DEF LaidFine
  <2>1. CASE laid'[f] = laid[f] /\ layout'[f] = layout[f]
    <3>1. laid[f] \in Layings /\ laying[laid[f]].at \in LayingOn /\ Numbered(laying[laid[f]], layout[f])
      BY <2>0, <2>1 DEF KeysInv, KeysTyped, LaidFine
    <3>2. PICK n \in Nat \ {0} : layout[f] = Renumber(laying[laid[f]].keys, n)
                                   /\ (laying[laid[f]].from # "nobody" => n = laying[laid[f]].first)
      BY <3>1 DEF Numbered
    <3>3. /\ laying'[laid[f]].at \in LayingOn /\ laying'[laid[f]].from = laying[laid[f]].from
          /\ laying'[laid[f]].keys = laying[laid[f]].keys /\ laying'[laid[f]].first = laying[laid[f]].first
      BY <1>0, <1>13, <1>17, <3>1 DEF LayingOn
    <3> QED BY <2>1, <3>2, <3>3 DEF Numbered
  <2>2. CASE f = e /\ laid'[f] = o /\ layout'[f] = strip
    <3>1. laying'[o] = c BY <1>17
    <3> QED BY <1>5, <1>6, <1>13, <2>2, <3>1 DEF Numbered, LayingOn
  <2> QED BY <1>9, <1>10, <2>0, <2>1, <2>2 DEF KeysInv, KeysTyped
<1> QED BY <1>18, <1>19, <1>20 DEF KeysInv

\* A call begins; at the console keys are changed and extensions removed.
LEMMA LayBegins ==
  ASSUME KeysInv, NEW o \in Layings, NEW targets \in Seq(Handsets), NEW from \in Handsets \cup {"nobody"},
         NEW given \in Seq(Buttoned), Lay(o, targets, from, given)
  PROVE  KeysInv'
<1>0. PICK b \in Layers : b = laying[o] /\ b.at = "idle" BY DEF KeysInv, KeysTyped, Lay
<1>1. PICK c : c = [NotLaying EXCEPT !.at = "ids", !.from = from, !.keys = given, !.todo = targets] OBVIOUS
<1>2. <<>> \in Shown BY EmptySeq DEF Shown, Parsed
<1>3. c \in Layers /\ c.at = "ids" BY <1>1, <1>2 DEF Layers, NotLaying
<1>4. laying' = [laying EXCEPT ![o] = c] BY <1>1 DEF Lay
<1>5. LayerFine(c) BY <1>3 DEF LayerFine, LayingOn
<1>6. /\ phones' \subseteq Handsets /\ layout' = layout /\ laid' = laid
      /\ hands' \in 0 .. MaxHands /\ stumbles' \in 0 .. MaxStumbles
  BY DEF KeysInv, KeysTyped, Lay
<1> QED BY <1>0, <1>3, <1>4, <1>5, <1>6, LayerGoesOn DEF LayingOn

LEMMA HandsKeep ==
  ASSUME KeysInv, NEW e \in Handsets, RemoveHandset(e) \/ \E strip \in Layouts : SetByHand(e, strip)
  PROVE  KeysInv'
<1>1. Layouts \subseteq Shown BY KeysAssumption DEF Shown
<1>2. PICK strip \in Shown : layout' \in {layout, [layout EXCEPT ![e] = strip]}
  <2>1. layout[e] \in Shown BY DEF KeysInv, KeysTyped
  <2> QED BY <1>1, <2>1 DEF RemoveHandset, SetByHand
<1>3. /\ laid' = [laid EXCEPT ![e] = "nobody"] /\ laying' = laying /\ phones' \subseteq Handsets
      /\ hands' \in 0 .. MaxHands /\ stumbles' = stumbles
  BY KeysAssumption DEF KeysInv, KeysTyped, RemoveHandset, SetByHand
<1>4. KeysTyped' BY <1>2, <1>3 DEF KeysInv, KeysTyped
<1>5. \A o \in Layings : LayerFine(laying[o])' BY <1>3 DEF KeysInv, LayerFine
<1>6. ASSUME NEW f \in Handsets PROVE LaidFine(f)'
  <2>1. f = e => laid'[f] = "nobody" BY <1>3 DEF KeysInv, KeysTyped
  <2>2. f # e => laid'[f] = laid[f] /\ layout'[f] = layout[f] BY <1>2, <1>3 DEF KeysInv, KeysTyped
  <2> QED BY <1>3, <2>1, <2>2 DEF KeysInv, LaidFine, Numbered
<1> QED BY <1>4, <1>5, <1>6 DEF KeysInv

KeysSteps ==
  KeysNext \/ \E o \in Layings, targets \in Seq(Handsets), from \in Handsets \cup {"nobody"}, given \in Seq(Buttoned) :
                Lay(o, targets, from, given)

\* Every step keeps it.
LEMMA KeysStep == KeysInv /\ [KeysSteps]_keysVars => KeysInv'
<1> SUFFICES ASSUME KeysInv, [KeysSteps]_keysVars PROVE KeysInv' OBVIOUS
<1>1. CASE KeysSteps BY <1>1, LayReads, LayWrites, LayBegins, HandsKeep DEF KeysSteps, KeysNext, LayStep
<1>2. CASE UNCHANGED keysVars
  BY <1>2 DEF keysVars, KeysInv, KeysTyped, LayerFine, LaidFine, Numbered
<1> QED BY <1>1, <1>2

\* From it follows what setExtensionKeys promises.
LEMMA KeysHold == KeysInv => KeysAreKept
<1> SUFFICES ASSUME KeysInv PROVE KeysTypeOK /\ KeysArriveUndisturbed BY DEF KeysAreKept
<1>1. KeysTypeOK
  <2>1. \A e \in Handsets : ToSet(layout[e]) \subseteq Buttoned
    <3> SUFFICES ASSUME NEW e \in Handsets PROVE ToSet(layout[e]) \subseteq Buttoned OBVIOUS
    <3>1. layout[e] \in Seq(Buttoned) BY DEF KeysInv, KeysTyped, Shown
    <3> QED BY <3>1, ElementOfSeq, LenProperties DEF ToSet
  <2>2. ASSUME NEW o \in Layings
        PROVE  /\ laying[o].at \in {"idle", "ids", "source", "resolve", "each", "write", "over", "refused"}
               /\ laying[o].from \in Handsets \cup {"nobody"} /\ laying[o].ids \subseteq Handsets
               /\ ToSet(laying[o].todo) \subseteq Handsets /\ laying[o].first \in Nat
    <3>1. PICK b \in Layers : b = laying[o] BY DEF KeysInv, KeysTyped
    <3>2. b.todo \in Seq(Handsets) BY DEF Layers
    <3>3. ToSet(b.todo) \subseteq Handsets BY <3>2, ElementOfSeq, LenProperties DEF ToSet
    <3> QED BY <3>1, <3>3 DEF Layers
  <2> QED BY <2>1, <2>2 DEF KeysTypeOK, KeysInv, KeysTyped
<1>2. ASSUME NEW e \in Handsets, laid[e] # "nobody"
      PROVE  LET o == laying[laid[e]] IN
             /\ Carried(e) = [i \in DOMAIN o.keys |-> [o.keys[i] EXCEPT !.no = 0]]
             /\ Gapless(layout[e]) /\ (o.from # "nobody" => StartsAt(layout[e]) = StartsAt(o.keys))
             /\ (o.from # "nobody" /\ Gapless(o.keys)) => layout[e] = o.keys
  <2>1. laid[e] \in Layings /\ laying[laid[e]].at \in LayingOn /\ Numbered(laying[laid[e]], layout[e])
    BY <1>2 DEF KeysInv, KeysTyped, LaidFine
  <2>2. PICK o \in Layers : o = laying[laid[e]] BY <2>1 DEF KeysInv, KeysTyped
  <2>3. LayerFine(o) /\ o.at \in LayingOn BY <2>1, <2>2 DEF KeysInv
  <2>4. PICK first \in Nat \ {0} : layout[e] = Renumber(o.keys, first) /\ (o.from # "nobody" => first = o.first)
    BY <2>1, <2>2 DEF Numbered
  <2>5. PICK strip : strip = layout[e] OBVIOUS
  <2>6. o.keys \in Seq(Buttoned) BY DEF Layers
  <2>7. /\ Gapless(strip)
        /\ [i \in DOMAIN strip |-> [strip[i] EXCEPT !.no = 0]] = [i \in DOMAIN o.keys |-> [o.keys[i] EXCEPT !.no = 0]]
        /\ StartsAt(strip) = IF o.keys = <<>> THEN 1 ELSE first
    BY <2>4, <2>5, <2>6, RenumberedKeys
  <2>8. o.from # "nobody" => o.keys \in Shown /\ first = StartsAt(o.keys)
    BY <2>3, <2>4 DEF LayerFine
  <2>9. o.keys = <<>> => StartsAt(o.keys) = 1 BY DEF StartsAt
  <2>10. o.from # "nobody" /\ Gapless(o.keys) => strip = o.keys BY <2>4, <2>5, <2>8, GaplessIsItself
  <2>11. Carried(e) = [i \in DOMAIN o.keys |-> [o.keys[i] EXCEPT !.no = 0]] BY <2>5, <2>7 DEF Carried
  <2> QED BY <2>2, <2>5, <2>7, <2>8, <2>9, <2>10, <2>11
<1>3. KeysArriveUndisturbed BY <1>2 DEF KeysArriveUndisturbed
<1> QED BY <1>1, <1>3

\* Layouts arrive whole and in their order, in the place of those they were copied
\* from, for any extensions, layouts and calls (setExtensionKeys, Renumber).
THEOREM KeysKept == KeysSpec => []KeysAreKept
<1>1. KeysSpec => KeysInit /\ [][KeysSteps]_keysVars BY DEF KeysSpec, KeysSteps
<1> QED BY <1>1, KeysStart, KeysStep, KeysHold, PTL

-----------------------------------------------------------------------------
(***************************************************************************)
(* PhoneLine: where a call's requests go, with which token, and what is    *)
(* said of them.                                                           *)
(***************************************************************************)

AccessTokens == [system : Systems, until : Nat, sound : BOOLEAN]
Ringers == [kind : RingKinds \cup {"none"}, tenant : Tenants \cup {"none"},
            at : {"idle", "waiting", "dialling", "asking", "over"}, token : SUBSET AccessTokens, step : 0 .. 3,
            since : Nat, systems : SUBSET (Systems \cup {"none"}), early : {"none", "good", "out", "unsound"},
            read : SUBSET {"status", "licence", "trunks"}, healthy : BOOLEAN,
            told : {"nothing", "done", "refused", "failed"}]

LineTyped ==
  /\ address \in [Tenants -> Systems \cup {"none"}] /\ condition \in [Systems -> Conditions]
  /\ keptToken \in [Tenants -> SUBSET AccessTokens]
  /\ dialling \in Rings \cup {"nobody"}
  /\ ring \in [Rings -> Ringers] /\ landed \in [Rings -> Systems \cup {"none"}]
  /\ ticks \in 0 .. MaxTicks /\ moves \in 0 .. MaxMoves /\ silences \in 0 .. MaxSilences

\* A call that asks has asked within a tick of getting its token, which was then
\* still good for longer; past its first request it has the status.
WhileInHand(b) ==
  /\ b.since <= ticks /\ ticks <= b.since + 1 /\ b.step \in 1 .. 3
  /\ b.step = 1 => \A k \in b.token : b.since + Margin < k.until
  /\ b.step > 1 => "status" \in b.read

\* A phone system with nothing to say of it.
SoundCondition(c, read) ==
  /\ c.phones.all = 0 \/ (c.phones.up > 0 /\ 2 * c.phones.up >= c.phones.all)
  /\ c.trunks.up = c.trunks.all /\ c.sound
  /\ "licence" \in read => c.active /\ c.hours > 14 * 24

\* A call, and where its change took effect.
RingerFine(b, l) ==
  /\ b.at # "over" => b.told = "nothing" /\ b.healthy = FALSE /\ l = "none"
  /\ b.at \in {"waiting", "dialling", "asking"} => b.tenant \in Tenants
  /\ b.at \in {"waiting", "dialling"} => address[b.tenant] \in b.systems
  /\ b.at \in {"dialling", "asking"} => \E k \in AccessTokens : b.token = {k} /\ k.system \in b.systems
  /\ b.at = "asking" => WhileInHand(b)
  /\ b.early # "out"
  /\ l # "none" => l \in b.systems /\ b.told # "refused"
  /\ b.kind = "change" /\ b.told = "done" => l # "none"
  /\ b.at = "over" /\ b.healthy => \E k \in AccessTokens : b.token = {k} /\ SoundCondition(condition[k.system], b.read)

LineInv ==
  /\ LineTyped
  /\ \A t \in Tenants : \A k, l \in keptToken[t] : k = l
  /\ \A r \in Rings : RingerFine(ring[r], landed[r])

\* Nobody has called at the start.
LEMMA LineStart == PhoneLineInit => LineInv
<1> SUFFICES ASSUME PhoneLineInit PROVE LineInv OBVIOUS
<1>1. NotRinging \in Ringers BY DEF NotRinging, Ringers
<1>2. RingerFine(NotRinging, "none") BY DEF NotRinging, RingerFine
<1>3. \A r \in Rings : ring[r] = NotRinging /\ landed[r] = "none" BY DEF PhoneLineInit
<1>4. LineTyped BY <1>1, PhoneLineAssumption DEF PhoneLineInit, LineTyped
<1> QED BY <1>2, <1>3, <1>4 DEF LineInv, PhoneLineInit

\* One call goes on.
LEMMA RingerGoesOn ==
  ASSUME LineInv, NEW r \in Rings, NEW c \in Ringers, NEW l \in Systems \cup {"none"},
         ring' = [ring EXCEPT ![r] = c], landed' = [landed EXCEPT ![r] = l], RingerFine(c, l),
         UNCHANGED <<address, condition, ticks, moves>>,
         dialling' \in Rings \cup {"nobody"}, silences' \in 0 .. MaxSilences,
         keptToken' \in [Tenants -> SUBSET AccessTokens],
         \A t \in Tenants : \A j, k \in keptToken'[t] : j = k
  PROVE  LineInv'
<1>1. LineTyped' BY DEF LineInv, LineTyped
<1>2. \A p \in Rings : ring'[p] = (IF p = r THEN c ELSE ring[p]) /\ landed'[p] = (IF p = r THEN l ELSE landed[p])
  BY DEF LineInv, LineTyped
<1>3. ASSUME NEW p \in Rings PROVE RingerFine(ring[p], landed[p])'
  <2>1. PICK b \in Ringers : b = ring'[p] BY <1>2 DEF LineInv, LineTyped
  <2>2. PICK m : m = landed'[p] OBVIOUS
  <2>3. RingerFine(b, m) BY <1>2, <2>1, <2>2 DEF LineInv
  <2>4. RingerFine(b, m)' BY <2>3 DEF RingerFine, WhileInHand
  <2> QED BY <2>1, <2>2, <2>4 DEF RingerFine, WhileInHand
<1> QED BY <1>1, <1>3 DEF LineInv

\* A call has the one token it was given.
LEMMA TheToken ==
  ASSUME NEW r, NEW k, ring[r].token = {k}
  PROVE  Token(r) = k
BY DEF Token

\* A call begins, looks for a token and signs in.
LEMMA ConnectKeeps ==
  ASSUME LineInv, NEW r \in Rings, Connect(r) \/ SignIn(r) \/ \E kind \in RingKinds, t \in Tenants : Ring(r, kind, t)
  PROVE  LineInv'
<1>0. PICK b \in Ringers : b = ring[r] BY DEF LineInv, LineTyped
<1>1. RingerFine(b, landed[r]) BY <1>0 DEF LineInv
<1>2. /\ landed[r] \in Systems \cup {"none"} /\ landed' = [landed EXCEPT ![r] = landed[r]]
      /\ UNCHANGED <<address, condition, ticks, moves>>
      /\ dialling' \in Rings \cup {"nobody"} /\ silences' \in 0 .. MaxSilences
  <2>1. landed' = landed /\ UNCHANGED <<address, condition, ticks, moves>> BY DEF Connect, SignIn, Ring
  <2>2. landed \in [Rings -> Systems \cup {"none"}] BY DEF LineInv, LineTyped
  <2>3. dialling' \in {dialling, r, "nobody"} BY DEF Connect, SignIn, Ring
  <2>4. silences' = silences \/ (silences < MaxSilences /\ silences' = silences + 1)
    BY DEF Connect, SignIn, Ring, Silence
  <2>5. silences' \in 0 .. MaxSilences BY <2>4, PhoneLineAssumption DEF LineInv, LineTyped
  <2> QED BY <2>1, <2>2, <2>3, <2>5 DEF LineInv, LineTyped
<1>3. ticks \in Nat /\ TokenLife \in Nat /\ Margin \in Nat /\ TokenLife > Margin
  BY PhoneLineAssumption DEF LineInv, LineTyped
<1>7. \A k \in AccessTokens : {k} \in SUBSET AccessTokens /\ 1 \in 0 .. 3 OBVIOUS
<1>8. ASSUME NEW s \in Systems
      PROVE  TokenOf(s) \in AccessTokens /\ TokenOf(s).system = s /\ TokenOf(s).until = ticks + TokenLife
  <2>1. ticks + TokenLife \in Nat BY <1>3
  <2>2. PICK f : f = [system |-> s, until |-> ticks + TokenLife, sound |-> TRUE] OBVIOUS
  <2>3. f \in AccessTokens /\ f.system = s /\ f.until = ticks + TokenLife BY <2>1, <2>2 DEF AccessTokens
  <2> QED BY <2>2, <2>3 DEF TokenOf
<1>4. ASSUME NEW kind \in RingKinds, NEW t \in Tenants, Ring(r, kind, t) PROVE LineInv'
  <2>1. PICK c : c = [b EXCEPT !.kind = kind, !.tenant = t, !.at = "waiting", !.systems = {address[t]}] OBVIOUS
  <2>2. address[t] \in Systems \cup {"none"} BY DEF LineInv, LineTyped
  <2>3. /\ c \in Ringers /\ c.at = "waiting" /\ c.tenant = t /\ c.systems = {address[t]}
        /\ c.told = b.told /\ c.healthy = b.healthy /\ c.early = b.early /\ c.kind = kind
    BY <2>1, <2>2 DEF Ringers
  <2>4. b.at = "idle" /\ ring' = [ring EXCEPT ![r] = c] BY <1>0, <1>4, <2>1 DEF Ring
  <2>5. RingerFine(c, landed[r]) BY <1>1, <2>3, <2>4 DEF RingerFine
  <2>6. keptToken' \in [Tenants -> SUBSET AccessTokens] /\ \A u \in Tenants : \A j, k \in keptToken'[u] : j = k
    BY <1>4 DEF Ring, LineInv, LineTyped
  <2> QED BY <1>2, <2>3, <2>4, <2>5, <2>6, RingerGoesOn
<1>5. ASSUME Connect(r) PROVE LineInv'
  <2>0. PICK t \in Tenants : t = b.tenant BY <1>0, <1>1, <1>5 DEF Connect, RingerFine
  <2>1. b.at = "waiting" /\ b.told = "nothing" /\ b.healthy = FALSE /\ landed[r] = "none"
        /\ b.early # "out" /\ address[t] \in b.systems
    BY <1>0, <1>1, <1>5, <2>0 DEF Connect, RingerFine
  <2>2. /\ keptToken' \in [Tenants -> SUBSET AccessTokens] /\ \A u \in Tenants : \A j, k \in keptToken'[u] : j = k
    BY <1>5 DEF Connect, LineInv, LineTyped
  <2>3. ASSUME ring' = [ring EXCEPT ![r].at = "over", ![r].told = "refused"] PROVE LineInv'
    <3>1. PICK c : c = [b EXCEPT !.at = "over", !.told = "refused"] OBVIOUS
    <3>2. /\ c \in Ringers /\ c.at = "over" /\ c.told = "refused" /\ c.healthy = FALSE /\ c.early # "out"
      BY <2>1, <3>1 DEF Ringers
    <3>3. ring' = [ring EXCEPT ![r] = c] BY <1>0, <2>3, <3>1 DEF LineInv, LineTyped, Ringers
    <3>4. RingerFine(c, landed[r]) BY <2>1, <3>2 DEF RingerFine
    <3> QED BY <1>2, <2>2, <3>2, <3>3, <3>4, RingerGoesOn
  <2>4. ASSUME Reusable(t) # {},
               ring' = [ring EXCEPT ![r] = [@ EXCEPT !.at = "asking", !.token = Reusable(t), !.step = 1, !.since = ticks]]
        PROVE  LineInv'
    <3>1. PICK k \in AccessTokens : Reusable(t) = {k} /\ k.system = address[t] /\ ticks < k.until - Margin
      BY <2>4 DEF Reusable, LineInv, LineTyped
    <3>2. PICK c : c = [b EXCEPT !.at = "asking", !.token = {k}, !.step = 1, !.since = ticks] OBVIOUS
    <3>3. /\ c \in Ringers /\ c.at = "asking" /\ c.token = {k} /\ c.step = 1 /\ c.since = ticks /\ c.tenant = t
          /\ c.systems = b.systems /\ c.told = "nothing" /\ c.healthy = FALSE /\ c.early # "out"
      BY <1>3, <1>7, <2>0, <2>1, <3>2 DEF Ringers
    <3>4. ring' = [ring EXCEPT ![r] = c] BY <1>0, <2>4, <3>1, <3>2
    <3>5. k.until \in Nat BY DEF AccessTokens
    <3>6. WhileInHand(c) BY <1>3, <3>1, <3>3, <3>5 DEF WhileInHand
    <3>7. RingerFine(c, landed[r]) BY <2>1, <3>1, <3>3, <3>6 DEF RingerFine
    <3> QED BY <1>2, <2>2, <3>3, <3>4, <3>7, RingerGoesOn
  <2>5. ASSUME address[t] # "none",
               ring' = [ring EXCEPT ![r] = [@ EXCEPT !.at = "dialling", !.token = {TokenOf(address[t])}, !.since = ticks]]
        PROVE  LineInv'
    <3>1. PICK k \in AccessTokens : k = TokenOf(address[t]) /\ k.system = address[t]
      BY <1>8, <2>5 DEF LineInv, LineTyped
    <3>2. PICK c : c = [b EXCEPT !.at = "dialling", !.token = {k}, !.since = ticks] OBVIOUS
    <3>3. /\ c \in Ringers /\ c.at = "dialling" /\ c.token = {k} /\ c.tenant = t
          /\ c.systems = b.systems /\ c.told = "nothing" /\ c.healthy = FALSE /\ c.early # "out"
      BY <1>3, <2>0, <2>1, <3>2 DEF Ringers
    <3>4. ring' = [ring EXCEPT ![r] = c] BY <1>0, <2>5, <3>1, <3>2
    <3>5. RingerFine(c, landed[r]) BY <2>1, <3>1, <3>3 DEF RingerFine
    <3> QED BY <1>2, <2>2, <3>3, <3>4, <3>5, RingerGoesOn
  <2> QED BY <1>0, <1>5, <2>0, <2>3, <2>4, <2>5 DEF Connect
<1>6. ASSUME SignIn(r) PROVE LineInv'
  <2>0. PICK t \in Tenants : t = b.tenant BY <1>0, <1>1, <1>6 DEF SignIn, RingerFine
  <2>1. b.at = "dialling" /\ b.told = "nothing" /\ b.healthy = FALSE /\ landed[r] = "none" /\ b.early # "out"
    BY <1>0, <1>1, <1>6 DEF SignIn, RingerFine
  <2>2. PICK k \in AccessTokens : b.token = {k} /\ k.system \in b.systems BY <1>1, <2>1 DEF RingerFine
  <2>3. (CHOOSE j \in ring[r].token : TRUE).system = k.system BY <1>0, <2>2
  <2>4. k.system \in Systems BY DEF AccessTokens
  <2>5. PICK f \in AccessTokens : f = TokenOf(k.system) /\ f.system = k.system /\ f.until = ticks + TokenLife
    BY <1>8, <2>4
  <2>6. ASSUME keptToken' = [keptToken EXCEPT ![t] = {f}],
               ring' = [ring EXCEPT ![r] = [@ EXCEPT !.at = "asking", !.token = {f}, !.step = 1, !.since = ticks]]
        PROVE  LineInv'
    <3>1. PICK c : c = [b EXCEPT !.at = "asking", !.token = {f}, !.step = 1, !.since = ticks] OBVIOUS
    <3>2. /\ c \in Ringers /\ c.at = "asking" /\ c.token = {f} /\ c.step = 1 /\ c.since = ticks /\ c.tenant = t
          /\ c.systems = b.systems /\ c.told = "nothing" /\ c.healthy = FALSE /\ c.early # "out"
      BY <1>3, <1>7, <2>0, <2>1, <3>1 DEF Ringers
    <3>3. ring' = [ring EXCEPT ![r] = c] BY <1>0, <2>6, <3>1
    <3>4. WhileInHand(c) BY <1>3, <2>5, <3>2 DEF WhileInHand
    <3>5. RingerFine(c, landed[r]) BY <2>1, <2>2, <2>5, <3>2, <3>4 DEF RingerFine
    <3>6. keptToken' \in [Tenants -> SUBSET AccessTokens] /\ \A u \in Tenants : \A i, j \in keptToken'[u] : i = j
      BY <2>6 DEF LineInv, LineTyped
    <3> QED BY <1>2, <3>2, <3>3, <3>5, <3>6, RingerGoesOn
  <2>7. ASSUME keptToken' = keptToken, ring' = [ring EXCEPT ![r].at = "over", ![r].told = "failed"] PROVE LineInv'
    <3>1. PICK c : c = [b EXCEPT !.at = "over", !.told = "failed"] OBVIOUS
    <3>2. /\ c \in Ringers /\ c.at = "over" /\ c.told = "failed" /\ c.healthy = FALSE /\ c.early # "out"
      BY <2>1, <3>1 DEF Ringers
    <3>3. ring' = [ring EXCEPT ![r] = c] BY <1>0, <2>7, <3>1 DEF LineInv, LineTyped, Ringers
    <3>4. RingerFine(c, landed[r]) BY <2>1, <3>2 DEF RingerFine
    <3>5. keptToken' \in [Tenants -> SUBSET AccessTokens] /\ \A u \in Tenants : \A i, j \in keptToken'[u] : i = j
      BY <2>7 DEF LineInv, LineTyped
    <3> QED BY <1>2, <3>2, <3>3, <3>4, <3>5, RingerGoesOn
  <2> QED BY <1>0, <1>6, <2>0, <2>3, <2>5, <2>6, <2>7 DEF SignIn
<1> QED BY <1>4, <1>5, <1>6

\* How a first request went is how its token was: not too late.
LEMMA EarlyIsInTime ==
  ASSUME NEW b \in Ringers, NEW r \in Rings, b = ring[r], RingerFine(b, landed[r]), b.at = "asking", ticks \in Nat
  PROVE  Early(r) \in {"none", "good", "unsound"}
<1>1. PICK k \in AccessTokens : b.token = {k} BY DEF RingerFine
<1>2. Token(r) = k BY <1>1, TheToken
<1>3. k.until \in Nat /\ b.since \in Nat /\ b.step \in 0 .. 3 BY DEF AccessTokens, Ringers
<1>4. WhileInHand(b) /\ b.early # "out" BY DEF RingerFine
<1>5. b.step = 1 => InTime(r)
  BY <1>1, <1>2, <1>3, <1>4, PhoneLineAssumption DEF WhileInHand, InTime
<1>6. b.early \in {"none", "good", "unsound"} BY <1>4 DEF Ringers
<1>7. b.step = 1 \/ b.step > 1 BY <1>4 DEF WhileInHand
<1>8. CASE b.step > 1 BY <1>6, <1>8 DEF Early
<1>9. CASE b.step = 1 BY <1>5, <1>9 DEF Early
<1> QED BY <1>7, <1>8, <1>9

\* A call makes its request.
LEMMA RequestKeeps ==
  ASSUME LineInv, NEW r \in Rings, Change(r) \/ Fetch(r) \/ \E yes \in BOOLEAN : ReadPart(r, yes)
  PROVE  LineInv'
<1>0. PICK b \in Ringers : b = ring[r] BY DEF LineInv, LineTyped
<1>1. /\ b.at = "asking" /\ RingerFine(b, landed[r]) /\ ticks \in Nat
      /\ Change(r) => b.kind = "change"
      /\ Fetch(r) => b.kind = "capture"
      /\ (\E yes \in BOOLEAN : ReadPart(r, yes)) => b.kind = "status"
  <2>1. b.at = "asking" BY <1>0 DEF Change, Fetch, ReadPart
  <2>2. RingerFine(b, landed[r]) /\ ticks \in Nat BY <1>0 DEF LineInv, LineTyped
  <2>3. Change(r) => b.kind = "change" BY <1>0 DEF Change
  <2>4. Fetch(r) => b.kind = "capture" BY <1>0 DEF Fetch
  <2>5. (\E yes \in BOOLEAN : ReadPart(r, yes)) => b.kind = "status" BY <1>0 DEF ReadPart
  <2> QED BY <2>1, <2>2, <2>3, <2>4, <2>5
<1>2. PICK k \in AccessTokens : b.token = {k} /\ k.system \in b.systems /\ k.system \in Systems
  BY <1>1 DEF RingerFine, AccessTokens
<1>3. Token(r) = k BY <1>0, <1>2, TheToken
<1>4. PICK early \in {"none", "good", "unsound"} : early = Early(r) BY <1>0, <1>1, EarlyIsInTime
<1>5. /\ b.told = "nothing" /\ b.healthy = FALSE /\ landed[r] = "none" /\ b.early # "out" /\ b.tenant \in Tenants
      /\ WhileInHand(b)
  BY <1>1 DEF RingerFine
<1>6. /\ UNCHANGED <<address, condition, ticks, moves>> /\ dialling' = dialling /\ keptToken' = keptToken
  BY DEF Change, Fetch, ReadPart
<1>7. silences' \in 0 .. MaxSilences
  <2>1. silences' = silences \/ (silences < MaxSilences /\ silences' = silences + 1)
    BY DEF Change, Fetch, ReadPart, Silence
  <2> QED BY <2>1, PhoneLineAssumption DEF LineInv, LineTyped
<1>8. /\ dialling' \in Rings \cup {"nobody"} /\ keptToken' \in [Tenants -> SUBSET AccessTokens]
      /\ \A u \in Tenants : \A i, j \in keptToken'[u] : i = j
  BY <1>6 DEF LineInv, LineTyped
<1>9. landed \in [Rings -> Systems \cup {"none"}] BY DEF LineInv, LineTyped
<1>10. ASSUME NEW what \in {"done", "refused", "failed"}, NEW l \in Systems \cup {"none"}, Over(r, what),
              landed' = [landed EXCEPT ![r] = l],
              l # "none" => l = k.system /\ what # "refused",
              b.kind = "change" /\ what = "done" => l # "none"
       PROVE  LineInv'
  <2>1. PICK c : c = [b EXCEPT !.at = "over", !.told = what, !.early = early] OBVIOUS
  <2>2. /\ c \in Ringers /\ c.at = "over" /\ c.told = what /\ c.early = early /\ c.healthy = FALSE
        /\ c.systems = b.systems /\ c.kind = b.kind
    BY <1>5, <2>1 DEF Ringers
  <2>3. ring' = [ring EXCEPT ![r] = c] BY <1>0, <1>4, <1>10, <2>1 DEF Over
  <2>4. RingerFine(c, l) BY <1>2, <1>10, <2>2 DEF RingerFine
  <2> QED BY <1>6, <1>7, <1>8, <1>10, <2>2, <2>3, <2>4, RingerGoesOn
<1>11. ASSUME Change(r) PROVE LineInv'
  <2>1. k.system # "none" BY <1>2, PhoneLineAssumption
  <2>2. landed = [landed EXCEPT ![r] = "none"] BY <1>5, <1>9
  <2>3. \/ landed' = [landed EXCEPT ![r] = k.system] /\ Over(r, "done")
        \/ Over(r, "refused") /\ landed' = landed
        \/ Over(r, "failed") /\ landed' = landed
        \/ Over(r, "failed") /\ landed' = [landed EXCEPT ![r] = k.system]
    BY <1>3, <1>11 DEF Change
  <2> QED BY <1>2, <1>10, <2>1, <2>2, <2>3
<1>12. ASSUME Fetch(r) PROVE LineInv'
  <2>1. landed' = [landed EXCEPT ![r] = "none"] BY <1>5, <1>9, <1>12 DEF Fetch
  <2>2. Over(r, "done") \/ Over(r, "refused") \/ Over(r, "failed") BY <1>12 DEF Fetch
  <2> QED BY <1>1, <1>10, <1>12, <2>1, <2>2
<1>13. ASSUME NEW yes \in BOOLEAN, ReadPart(r, yes) PROVE LineInv'
  <2>1. landed' = [landed EXCEPT ![r] = "none"] BY <1>5, <1>9, <1>13 DEF ReadPart
  <2>2. b.kind = "status" BY <1>1, <1>13
  <2>3. PICK n \in 1 .. 3 : n = b.step BY <1>5 DEF WhileInHand
  <2>4. Parts[n] \in {"status", "licence", "trunks"} /\ Parts[1] = "status" BY <2>3 DEF Parts
  <2>5. PICK good \in BOOLEAN : good <=> (yes /\ Admitted(r)) OBVIOUS
  <2>6. PICK read \in SUBSET {"status", "licence", "trunks"} : read = IF good THEN b.read \cup {Parts[n]} ELSE b.read
    BY <2>4 DEF Ringers
  <2>7. \/ n = 1 /\ ~good /\ Over(r, "failed")
        \/ /\ n < 3 /\ (n = 1 => good)
           /\ ring' = [ring EXCEPT ![r] = [@ EXCEPT !.step = n + 1, !.read = read, !.since = ticks, !.early = early]]
        \/ /\ n = 3
           /\ ring' = [ring EXCEPT ![r] = [@ EXCEPT !.at = "over", !.told = "done", !.read = read,
                           !.healthy = Concerns(condition[Token(r).system], read) = {}]]
    BY <1>0, <1>4, <1>13, <2>3, <2>5, <2>6 DEF ReadPart
  <2>8. CASE Over(r, "failed") BY <1>10, <2>1, <2>8
  <2>9. ASSUME n < 3, n = 1 => good,
               ring' = [ring EXCEPT ![r] = [@ EXCEPT !.step = n + 1, !.read = read, !.since = ticks, !.early = early]]
        PROVE  LineInv'
    <3>1. PICK c : c = [b EXCEPT !.step = n + 1, !.read = read, !.since = ticks, !.early = early] OBVIOUS
    <3>2. n + 1 \in 0 .. 3 /\ n + 1 \in 1 .. 3 /\ n + 1 > 1 /\ n + 1 # 1 BY <2>3, <2>9
    <3>3. c \in Ringers BY <1>1, <3>1, <3>2 DEF Ringers
    <3>4. /\ c.at = "asking" /\ c.told = "nothing" /\ c.early = early /\ c.healthy = FALSE /\ c.tenant = b.tenant
          /\ c.systems = b.systems /\ c.kind = "status" /\ c.token = {k} /\ c.step = n + 1 /\ c.since = ticks /\ c.read = read
      BY <1>1, <1>2, <1>5, <2>2, <3>1 DEF Ringers
    <3>5. "status" \in read
      <4>1. n > 1 => "status" \in b.read BY <1>5, <2>3 DEF WhileInHand
      <4>2. n = 1 \/ n > 1 BY <2>3
      <4> QED BY <2>4, <2>6, <2>9, <4>1, <4>2
    <3>6. WhileInHand(c) BY <1>1, <3>2, <3>4, <3>5 DEF WhileInHand
    <3>7. ring' = [ring EXCEPT ![r] = c] BY <1>0, <2>9, <3>1
    <3>8. RingerFine(c, "none") BY <1>2, <1>5, <3>4, <3>6 DEF RingerFine
    <3> QED BY <1>6, <1>7, <1>8, <2>1, <3>3, <3>7, <3>8, RingerGoesOn
  <2>10. ASSUME n = 3,
                ring' = [ring EXCEPT ![r] = [@ EXCEPT !.at = "over", !.told = "done", !.read = read,
                           !.healthy = Concerns(condition[Token(r).system], read) = {}]]
         PROVE  LineInv'
    <3>1. PICK well \in BOOLEAN : well = (Concerns(condition[k.system], read) = {}) OBVIOUS
    <3>2. PICK c : c = [b EXCEPT !.at = "over", !.told = "done", !.read = read, !.healthy = well] OBVIOUS
    <3>3. c \in Ringers BY <3>2 DEF Ringers
    <3>4. /\ c.at = "over" /\ c.told = "done" /\ c.early # "out" /\ c.healthy = well
          /\ c.systems = b.systems /\ c.kind = "status" /\ c.token = {k} /\ c.read = read
      BY <1>2, <1>5, <2>2, <3>2 DEF Ringers
    <3>5. ring' = [ring EXCEPT ![r] = c] BY <1>0, <1>3, <2>10, <3>1, <3>2
    <3>6. "status" \in read BY <1>5, <2>3, <2>6, <2>10 DEF WhileInHand
    <3>7. well => SoundCondition(condition[k.system], read)
      <4> SUFFICES ASSUME well PROVE SoundCondition(condition[k.system], read) OBVIOUS
      <4>1. PICK d \in Conditions : d = condition[k.system] BY <1>2 DEF LineInv, LineTyped
      <4>2. d.hours \in Int /\ d.active \in BOOLEAN BY PhoneLineAssumption
      <4>3. Concerns(d, read) = {} BY <3>1, <4>1
      <4>4. /\ d.phones.all = 0 \/ (d.phones.up > 0 /\ 2 * d.phones.up >= d.phones.all)
            /\ d.trunks.up = d.trunks.all /\ d.sound
        <5>1. OfStatus(d) = {} BY <3>6, <4>3 DEF Concerns
        <5>2. /\ ~(d.phones.all > 0 /\ d.phones.up = 0) /\ ~(d.phones.up > 0 /\ d.phones.up * 2 < d.phones.all)
              /\ ~(d.trunks.up < d.trunks.all) /\ d.sound
          <6>1. \A w \in {"silent", "phones", "trunks", "system"} : w \notin OfStatus(d) BY <5>1
          <6> QED BY <6>1 DEF OfStatus
        <5>3. PICK p \in Nat, q \in Nat, t \in Nat, u \in Nat :
                p = d.phones.up /\ q = d.phones.all /\ t = d.trunks.up /\ u = d.trunks.all /\ p <= q /\ t <= u
          BY <4>1, PhoneLineAssumption
        <5> QED BY <5>2, <5>3
      <4>5. ASSUME "licence" \in read PROVE d.active /\ ~Lapses(d.hours) BY <4>2, <4>3, <4>5 DEF Concerns
      <4>6. ASSUME ~Lapses(d.hours) PROVE d.hours > 14 * 24
        <5>1. PICK h \in Int : h = d.hours BY <4>2
        <5>2. ~(Days(h) <= 14) BY <4>6, <5>1 DEF Lapses
        <5>3. CASE h < 0
          <6>1. -h \in Nat /\ (-h) \div 24 \in Nat BY <5>1, <5>3
          <6>2. Days(h) = -((-h) \div 24) BY <5>3 DEF Days
          <6> QED BY <5>2, <6>1, <6>2
        <5>4. CASE ~(h < 0)
          <6>1. Days(h) = h \div 24 BY <5>4 DEF Days
          <6>2. h \div 24 > 14 BY <5>1, <5>2, <5>4, <6>1
          <6> QED BY <5>1, <5>4, <6>2
        <5> QED BY <5>3, <5>4
      <4> QED BY <4>1, <4>4, <4>5, <4>6 DEF SoundCondition
    <3>8. RingerFine(c, "none") BY <3>4, <3>7 DEF RingerFine
    <3> QED BY <1>6, <1>7, <1>8, <2>1, <3>3, <3>5, <3>8, RingerGoesOn
  <2> QED BY <2>7, <2>8, <2>9, <2>10
<1> QED BY <1>11, <1>12, <1>13


\* A call that waits may be sent to whatever address is saved meanwhile.
LEMMA AddressKeeps ==
  ASSUME LineInv, NEW t \in Tenants, NEW s \in Systems \cup {"none"}, SaveAddress(t, s)
  PROVE  LineInv'
<1>1. /\ UNCHANGED <<condition, keptToken, dialling, landed, ticks, silences>>
      /\ address' = [address EXCEPT ![t] = s] /\ moves' \in 0 .. MaxMoves
  BY PhoneLineAssumption DEF SaveAddress, LineInv, LineTyped
<1>2. DOMAIN ring' = Rings
      /\ ring' = [p \in Rings |-> ring'[p]]
  BY DEF SaveAddress
<1>3. ASSUME NEW p \in Rings PROVE ring'[p] \in Ringers /\ RingerFine(ring[p], landed[p])'
  <2>1. PICK b \in Ringers : b = ring[p] BY DEF LineInv, LineTyped
  <2>2. RingerFine(b, landed[p]) BY <2>1 DEF LineInv
  <2>3. PICK l \in Systems \cup {"none"} : l = landed[p] BY DEF LineInv, LineTyped
  <2>4. CASE b.tenant = t /\ b.at \in {"waiting", "dialling"}
    <3>1. PICK c : c = [b EXCEPT !.systems = @ \cup {s}] OBVIOUS
    <3>2. ring'[p] = c BY <2>1, <2>4, <3>1 DEF SaveAddress
    <3>3. c \in Ringers BY <3>1 DEF Ringers
    <3>4. /\ c.at = b.at /\ c.told = b.told /\ c.healthy = b.healthy /\ c.tenant = b.tenant /\ c.token = b.token
          /\ c.systems = b.systems \cup {s} /\ c.early = b.early /\ c.kind = b.kind
      BY <3>1 DEF Ringers
    <3>5. address'[t] = s BY <1>1 DEF LineInv, LineTyped
    <3>6. RingerFine(c, l)'
      BY <1>1, <2>2, <2>3, <2>4, <3>4, <3>5 DEF RingerFine
    <3> QED BY <1>1, <2>3, <3>2, <3>3, <3>6 DEF RingerFine, WhileInHand
  <2>5. CASE ~(b.tenant = t /\ b.at \in {"waiting", "dialling"})
    <3>1. ring'[p] = b BY <2>1, <2>5 DEF SaveAddress
    <3>2. b.at \in {"waiting", "dialling"} => b.tenant \in Tenants /\ address'[b.tenant] = address[b.tenant]
      BY <1>1, <2>2, <2>5 DEF RingerFine, LineInv, LineTyped
    <3>3. RingerFine(b, l)' BY <1>1, <2>2, <2>3, <3>2 DEF RingerFine, WhileInHand
    <3> QED BY <1>1, <2>3, <3>1, <3>3 DEF RingerFine, WhileInHand
  <2> QED BY <2>4, <2>5
<1>4. LineTyped'
  <2>1. ring' \in [Rings -> Ringers] BY <1>2, <1>3
  <2> QED BY <1>1, <2>1 DEF LineInv, LineTyped
<1> QED BY <1>1, <1>3, <1>4 DEF LineInv

\* A phone system that restarts takes no token from anybody, it only knows none.
LEMMA UnsoundIsOne ==
  ASSUME NEW s \in Systems, NEW k \in AccessTokens
  PROVE  \E j \in AccessTokens : Unsound({k}, s) = {j} /\ j.system = k.system /\ j.until = k.until
<1>1. CASE k.system # s
  <2>1. Unsound({k}, s) = {k} BY <1>1 DEF Unsound
  <2> QED BY <2>1
<1>2. CASE k.system = s
  <2>1. PICK j : j = [k EXCEPT !.sound = FALSE] OBVIOUS
  <2>2. j \in AccessTokens /\ j.system = k.system /\ j.until = k.until BY <2>1 DEF AccessTokens
  <2>3. Unsound({k}, s) = {j} BY <1>2, <2>1 DEF Unsound
  <2> QED BY <2>2, <2>3
<1> QED BY <1>1, <1>2

LEMMA UnsoundKeeps ==
  ASSUME NEW s \in Systems, NEW ks \in SUBSET AccessTokens
  PROVE  /\ Unsound(ks, s) \in SUBSET AccessTokens
         /\ (\A i, j \in ks : i = j) => \A i, j \in Unsound(ks, s) : i = j
<1>1. \A k \in ks : [k EXCEPT !.sound = FALSE] \in AccessTokens
  <2> SUFFICES ASSUME NEW k \in AccessTokens PROVE [k EXCEPT !.sound = FALSE] \in AccessTokens OBVIOUS
  <2> QED BY DEF AccessTokens
<1> QED BY <1>1 DEF Unsound

LEMMA RestartSystemKeeps ==
  ASSUME LineInv, NEW s \in Systems, RestartSystem(s)
  PROVE  LineInv'
<1>1. /\ UNCHANGED <<address, condition, dialling, landed, ticks, silences>> /\ moves' \in 0 .. MaxMoves
      /\ keptToken' = [t \in Tenants |-> Unsound(keptToken[t], s)]
      /\ ring' = [r \in Rings |-> [ring[r] EXCEPT !.token = IF ring[r].at = "asking" THEN Unsound(@, s) ELSE @]]
  BY PhoneLineAssumption DEF RestartSystem, LineInv, LineTyped
<1>2. /\ keptToken' \in [Tenants -> SUBSET AccessTokens]
      /\ \A t \in Tenants : \A i, j \in keptToken'[t] : i = j
  <2>1. ASSUME NEW t \in Tenants
        PROVE  Unsound(keptToken[t], s) \in SUBSET AccessTokens /\ \A i, j \in Unsound(keptToken[t], s) : i = j
    <3>1. keptToken[t] \in SUBSET AccessTokens /\ \A i, j \in keptToken[t] : i = j BY DEF LineInv, LineTyped
    <3> QED BY <3>1, UnsoundKeeps
  <2> QED BY <1>1, <2>1
<1>3. ASSUME NEW p \in Rings PROVE ring'[p] \in Ringers /\ RingerFine(ring[p], landed[p])'
  <2>1. PICK b \in Ringers : b = ring[p] BY DEF LineInv, LineTyped
  <2>2. PICK l \in Systems \cup {"none"} : l = landed[p] BY DEF LineInv, LineTyped
  <2>3. RingerFine(b, l) BY <2>1, <2>2 DEF LineInv
  <2>4. CASE b.at = "asking"
    <3>1. PICK k \in AccessTokens : b.token = {k} /\ k.system \in b.systems BY <2>3, <2>4 DEF RingerFine
    <3>2. PICK j \in AccessTokens : Unsound({k}, s) = {j} /\ j.system = k.system /\ j.until = k.until BY UnsoundIsOne
    <3>3. PICK c : c = [b EXCEPT !.token = {j}] OBVIOUS
    <3>4. ring'[p] = c BY <1>1, <2>1, <2>4, <3>1, <3>2, <3>3
    <3>5. c \in Ringers BY <3>3 DEF Ringers
    <3>6. /\ c.at = b.at /\ c.told = b.told /\ c.healthy = b.healthy /\ c.tenant = b.tenant /\ c.token = {j}
          /\ c.systems = b.systems /\ c.early = b.early /\ c.kind = b.kind /\ c.since = b.since /\ c.step = b.step
          /\ c.read = b.read
      BY <3>3 DEF Ringers
    <3>7. WhileInHand(b) BY <2>3, <2>4 DEF RingerFine
    <3>8. WhileInHand(c)' BY <1>1, <3>1, <3>2, <3>6, <3>7 DEF WhileInHand
    <3>9. RingerFine(c, l)' BY <1>1, <2>3, <2>4, <3>1, <3>2, <3>6, <3>8 DEF RingerFine
    <3> QED BY <1>1, <2>2, <3>4, <3>5, <3>9 DEF RingerFine, WhileInHand
  <2>5. CASE b.at # "asking"
    <3>1. ring'[p] = b
      <4>1. ring'[p] = [b EXCEPT !.token = b.token] BY <1>1, <2>1, <2>5
      <4> QED BY <4>1 DEF Ringers
    <3>2. RingerFine(b, l)' BY <1>1, <2>3, <2>5 DEF RingerFine
    <3> QED BY <1>1, <2>2, <3>1, <3>2 DEF RingerFine, WhileInHand
  <2> QED BY <2>4, <2>5
<1>4. LineTyped'
  <2>1. ring' \in [Rings -> Ringers] BY <1>1, <1>3
  <2> QED BY <1>1, <1>2, <2>1 DEF LineInv, LineTyped
<1> QED BY <1>1, <1>2, <1>3, <1>4 DEF LineInv

\* Time passes, for nobody's request more than a tick.
LEMMA TickKeeps == ASSUME LineInv, Tick PROVE LineInv'
<1>1. /\ UNCHANGED <<address, condition, keptToken, dialling, ring, landed, moves, silences>>
      /\ ticks \in Nat /\ ticks' = ticks + 1 /\ ticks' \in 0 .. MaxTicks
  BY PhoneLineAssumption DEF Tick, LineInv, LineTyped
<1>2. LineTyped' BY <1>1 DEF LineInv, LineTyped
<1>3. ASSUME NEW p \in Rings PROVE RingerFine(ring[p], landed[p])'
  <2>1. PICK b \in Ringers : b = ring[p] BY DEF LineInv, LineTyped
  <2>2. PICK l \in Systems \cup {"none"} : l = landed[p] BY DEF LineInv, LineTyped
  <2>3. RingerFine(b, l) BY <2>1, <2>2 DEF LineInv
  <2>4. ASSUME b.at = "asking" PROVE WhileInHand(b)'
    <3>1. b.since \in Nat /\ WhileInHand(b) BY <2>3, <2>4 DEF RingerFine, Ringers
    <3>2. ticks - b.since < 1 BY <2>1, <2>4 DEF Tick
    <3>3. b.since <= ticks' /\ ticks' <= b.since + 1 BY <1>1, <3>1, <3>2 DEF WhileInHand
    <3> QED BY <3>1, <3>3 DEF WhileInHand
  <2>5. RingerFine(b, l)' BY <1>1, <2>3, <2>4 DEF RingerFine
  <2> QED BY <1>1, <2>1, <2>2, <2>5 DEF RingerFine, WhileInHand
<1> QED BY <1>1, <1>2, <1>3 DEF LineInv

\* Every step keeps it.
LEMMA LineStep == LineInv /\ [PhoneLineNext]_dialVars => LineInv'
<1> SUFFICES ASSUME LineInv, [PhoneLineNext]_dialVars PROVE LineInv' OBVIOUS
<1>1. CASE PhoneLineNext
  BY <1>1, ConnectKeeps, RequestKeeps, AddressKeeps, RestartSystemKeeps, TickKeeps DEF PhoneLineNext
<1>2. CASE UNCHANGED dialVars
  BY <1>2 DEF dialVars, LineInv, LineTyped, RingerFine, WhileInHand
<1> QED BY <1>1, <1>2

\* From it follows what is promised of a call.
LEMMA LineHolds == LineInv => LinesAreKept
<1> SUFFICES ASSUME LineInv PROVE LinesAreKept OBVIOUS
<1>1. ASSUME NEW r \in Rings
      PROVE  /\ ring[r] \in Ringers /\ RingerFine(ring[r], landed[r])
             /\ \A k : ring[r].token = {k} => Token(r) = k
  BY TheToken DEF LineInv, LineTyped
<1>2. PhoneLineTypeOK
  <2>1. ASSUME NEW t \in Tenants PROVE Cardinality(keptToken[t]) <= 1 /\ \A k \in keptToken[t] : k.system \in Systems
    <3>1. keptToken[t] \in SUBSET AccessTokens /\ \A i, j \in keptToken[t] : i = j BY DEF LineInv, LineTyped
    <3>2. Cardinality(keptToken[t]) <= 1
      <4>1. CASE keptToken[t] = {} BY <4>1, FS_EmptySet
      <4>2. ASSUME NEW k \in keptToken[t] PROVE Cardinality(keptToken[t]) <= 1
        <5>1. keptToken[t] = {k} BY <3>1
        <5>2. Cardinality({k}) = 1 BY FS_Singleton
        <5> QED BY <5>1, <5>2
      <4> QED BY <4>1, <4>2
    <3> QED BY <3>1, <3>2 DEF AccessTokens
  <2>2. ASSUME NEW r \in Rings
        PROVE  /\ ring[r].at \in {"idle", "waiting", "dialling", "asking", "over"} /\ ring[r].step \in 0 .. 3
               /\ ring[r].kind \in RingKinds \cup {"none"} /\ ring[r].told \in {"nothing", "done", "refused", "failed"}
               /\ ring[r].early \in {"none", "good", "out", "unsound"}
    <3>1. PICK b \in Ringers : b = ring[r] BY <1>1
    <3> QED BY <3>1 DEF Ringers
  <2> QED BY <2>1, <2>2 DEF PhoneLineTypeOK, LineInv, LineTyped
<1>3. CallsGoWhereSaved
  <2> SUFFICES ASSUME NEW r \in Rings
               PROVE  /\ ring[r].at = "asking" => Token(r).system \in ring[r].systems
                      /\ landed[r] # "none" => landed[r] \in ring[r].systems
    BY DEF CallsGoWhereSaved
  <2>1. ASSUME ring[r].at = "asking" PROVE Token(r).system \in ring[r].systems
    <3>1. PICK k \in AccessTokens : ring[r].token = {k} /\ k.system \in ring[r].systems BY <1>1, <2>1 DEF RingerFine
    <3> QED BY <1>1, <3>1
  <2> QED BY <1>1, <2>1 DEF RingerFine
<1>4. FirstRequestIsInTime BY <1>1 DEF FirstRequestIsInTime, RingerFine
<1>5. ChangesAreToldTrue BY <1>1 DEF ChangesAreToldTrue, RingerFine
<1>6. HealthyIsHealthy
  <2> SUFFICES ASSUME NEW r \in Rings, ring[r].at = "over", ring[r].healthy
               PROVE  LET c == condition[Token(r).system] IN
                      /\ c.phones.all = 0 \/ (c.phones.up > 0 /\ 2 * c.phones.up >= c.phones.all)
                      /\ c.trunks.up = c.trunks.all /\ c.sound
                      /\ "licence" \in ring[r].read => c.active /\ c.hours > 14 * 24
    BY DEF HealthyIsHealthy
  <2>1. PICK k \in AccessTokens : ring[r].token = {k} /\ SoundCondition(condition[k.system], ring[r].read)
    BY <1>1 DEF RingerFine
  <2>2. Token(r) = k BY <1>1, <2>1
  <2> QED BY <2>1, <2>2 DEF SoundCondition
<1> QED BY <1>2, <1>3, <1>4, <1>5, <1>6 DEF LinesAreKept

\* What connect and its requests promise, for any customers, phone systems, calls
\* and bounds: a call goes to an address that was saved for its customer since it
\* came in, with a token that does not run out under its first request; what is
\* said done was done, and a phone system said to be healthy can ring, has half its
\* phones or more, all its trunks and its licence.
THEOREM LinesKept == PhoneLineSpec => []LinesAreKept
BY LineStart, LineStep, LineHolds, PTL DEF PhoneLineSpec

=============================================================================
