------------------------------ MODULE Settings ------------------------------
(***************************************************************************)
(* One plugin's settings and secrets in one scope.  Core: the settings     *)
(* form, the write switch, the credential endpoints and key rotation       *)
(* (internal/api/settings.go, api.go) over internal/store/credentials.go,  *)
(* plugin_config.go and internal/vault.  Plugin: the two caches of the SDK *)
(* (pkg/plugin/vault.go, config.go) and the notice that empties them.      *)
(*                                                                         *)
(* Every stored value is the number of the save that stored it, and a data *)
(* key is named after the value it was made for.                           *)
(***************************************************************************)
EXTENDS Naturals, FiniteSets

CONSTANTS
  Changers,         \* requests of administrators, each made once
  Secrets,        \* secret fields of the plugin's schema
  Calls,          \* the plugin's reads of a setting or a secret, each made once
  MaxKeys,        \* bound: master keys ever issued
  MaxLapses     \* bound: statements that fail, announcements that are lost

ASSUME SettingsAssumption ==
  MaxKeys \in Nat \ {0} /\ MaxLapses \in Nat /\ "config" \notin Secrets

VARIABLES
  row,            \* credentials, by secret; NoRow: there is none
  config,         \* plugin_config
  keys, current,  \* vault.Vault: the master keys loaded, the one that seals
  saves,          \* values ever stored; it also numbers the rows
  changer,          \* where each request is and what it read
  kept,           \* the caches of Config and Vault: at most one value each
  call,           \* where each read of the plugin is
  notices,        \* announcements on their way to the plugin
  rotated,        \* a rotation onto the current key ended well
  mixed,          \* secrets whose value was replaced under a rotation
  crossed,        \* saves of the configuration overlapped
  asked,          \* what the last saves made of the configuration
  floor,          \* the oldest value the plugin may still use
  lapses

vaultVars == <<keys, current, rotated>>
pluginVars == <<kept, call, floor>>
historyVars == <<mixed, crossed, asked, floor>>
setVars == <<row, config, keys, current, saves, changer, kept, call, notices,
             rotated, mixed, crossed, asked, floor, lapses>>

Kinds == Secrets \cup {"config"}
NoRow == [id |-> 0, value |-> 0, dek |-> 0, under |-> 0, version |-> 0]
IsRow == [id : Nat, value : Nat, dek : Nat, under : Nat, version : Nat]
IsConfig == [rev : Nat, value : Nat, writes : BOOLEAN]
Idle == [op |-> "none", at |-> "idle", secrets |-> {}, to |-> FALSE,
         seen |-> config, ref |-> 0, todo |-> {}]

SettingsTypeOK ==
  /\ row \in [Secrets -> IsRow] /\ config \in IsConfig
  /\ keys \subseteq 1..MaxKeys /\ current \in keys
  /\ saves \in Nat /\ notices \in Nat /\ lapses \in 0..MaxLapses
  /\ \A a \in Changers :
       /\ changer[a].op \in {"none", "settings", "switch", "put", "clear", "delete", "rotate"}
       /\ changer[a].at \in {"idle", "entered", "loaded", "stored", "moving", "over"}
       /\ changer[a].secrets \subseteq Secrets /\ changer[a].to \in BOOLEAN
       /\ changer[a].seen \in IsConfig /\ changer[a].ref \in Nat
       /\ \A p \in changer[a].todo : p.of \in Secrets /\ p.was \in IsRow
  /\ \A k \in Kinds : kept[k] \subseteq Nat /\ Cardinality(kept[k]) <= 1
  /\ call \in [Calls -> [of : Kinds, at : {"idle", "asking", "holding", "over"}, got : Nat]]
  /\ rotated \in BOOLEAN /\ crossed \in BOOLEAN /\ mixed \subseteq Secrets
  /\ asked \in [value : Nat, writes : BOOLEAN] /\ floor \in [Kinds -> Nat]

SettingsInit ==
  /\ row = [s \in Secrets |-> NoRow]
  /\ config = [rev |-> 0, value |-> 0, writes |-> FALSE]
  /\ keys = {1} /\ current = 1
  /\ saves = 0 /\ notices = 0 /\ lapses = 0
  /\ changer = [a \in Changers |-> Idle]
  /\ kept = [k \in Kinds |-> {}]
  /\ call = [c \in Calls |-> [of |-> "config", at |-> "idle", got |-> 0]]
  /\ rotated = FALSE /\ mixed = {} /\ crossed = FALSE
  /\ asked = [value |-> 0, writes |-> FALSE]
  /\ floor = [k \in Kinds |-> 0]

-----------------------------------------------------------------------------
\* The vault.

\* Seal: a fresh data key for the n-th value, wrapped with the current key.
Seal(n) == [dek |-> n, under |-> current, version |-> current]

\* Open: the master key of that version unwraps the data key, which opens the
\* payload it was made for.
Opens(r) == r.version \in keys /\ r.under = r.version /\ r.dek = r.value

\* Rewrap moves the data key, and only that, onto the current master key.
Rewrap(r) == [r EXCEPT !.under = current, !.version = current]

\* Upsert: a row keeps its id when its value is replaced.
Upsert(s, n) ==
  LET sealed == Seal(n)
  IN  [id |-> IF row[s].id = 0 THEN n ELSE row[s].id, value |-> n,
       dek |-> sealed.dek, under |-> sealed.under, version |-> sealed.version]

\* Credentials.Put.
Put(s) ==
  /\ row' = [row EXCEPT ![s] = Upsert(s, saves + 1)]
  /\ saves' = saves + 1
  /\ mixed' = mixed \ {s}

-----------------------------------------------------------------------------
\* Requests of administrators.

Doing(a, op, at) == changer[a].op = op /\ changer[a].at = at
Moves(a, at) == changer' = [changer EXCEPT ![a].at = at]

Submit(a, op, secrets, to) ==
  /\ changer[a].at = "idle"
  /\ changer' = [changer EXCEPT ![a] =
       [Idle EXCEPT !.op = op, !.at = "entered", !.secrets = secrets, !.to = to]]
  /\ UNCHANGED <<row, config, vaultVars, saves, pluginVars, notices, mixed, crossed, asked, lapses>>

\* Any statement of a request can fail: it is answered with an error, and what
\* it did so far stands, unannounced.
Fail(a) ==
  /\ lapses < MaxLapses
  /\ changer[a].at \in {"entered", "loaded", "moving"}
  /\ lapses' = lapses + 1
  /\ Moves(a, "over")
  /\ UNCHANGED <<row, config, vaultVars, saves, pluginVars, notices, mixed, crossed, asked>>

\* putSettings and putWrites read the row they are about to replace.
Load(a) ==
  /\ changer[a].op \in {"settings", "switch"} /\ changer[a].at = "entered"
  /\ changer' = [changer EXCEPT ![a].at = "loaded", ![a].seen = config]
  /\ UNCHANGED <<row, config, vaultVars, saves, pluginVars, notices, mixed, crossed, asked, lapses>>

\* putSettings seals the secrets of the form one by one, in no set order.
PutOne(a, s) ==
  /\ Doing(a, "settings", "loaded") /\ s \in changer[a].secrets
  /\ Put(s)
  /\ changer' = [changer EXCEPT ![a].secrets = @ \ {s}]
  /\ UNCHANGED <<config, vaultVars, pluginVars, notices, crossed, asked, lapses>>

\* Mutant: the form's values alone are stored.
CoreOwnedNone(c) == FALSE
\* What putSettings takes over from the row it read (coreSettings).
CoreOwned(c) == c.writes

\* Requests that read the configuration and have not replaced it yet.
Replacing == {a \in Changers : changer[a].op \in {"settings", "switch"} /\ changer[a].at = "loaded"}

\* SetPluginConfig: the whole row is replaced.
Save(a) ==
  /\ a \in Replacing /\ changer[a].secrets = {}
  /\ saves' = saves + 1
  /\ IF changer[a].op = "settings"
     THEN /\ config' = [rev |-> saves + 1, value |-> saves + 1,
                        writes |-> CoreOwned(changer[a].seen)]
          /\ asked' = [asked EXCEPT !.value = saves + 1]
     ELSE /\ config' = [rev |-> saves + 1, value |-> changer[a].seen.value,
                        writes |-> changer[a].to]
          /\ asked' = [asked EXCEPT !.writes = changer[a].to]
  /\ crossed' = (crossed \/ Replacing # {a})
  /\ Moves(a, "stored")
  /\ UNCHANGED <<row, vaultVars, pluginVars, notices, mixed, lapses>>

\* putCredential.
PutCredential(a) ==
  /\ Doing(a, "put", "entered")
  /\ \E s \in changer[a].secrets : Put(s)
  /\ Moves(a, "stored")
  /\ UNCHANGED <<config, vaultVars, pluginVars, notices, crossed, asked, lapses>>

\* deleteSettingSecret looks the row up in the list; the console that calls
\* deleteCredential took the id from one.
FindRef(a, s) ==
  /\ changer[a].op \in {"clear", "delete"} /\ changer[a].at = "entered" /\ s \in changer[a].secrets
  /\ IF row[s].id = 0
     THEN Moves(a, "over")
     ELSE changer' = [changer EXCEPT ![a].at = "loaded", ![a].ref = row[s].id]
  /\ UNCHANGED <<row, config, vaultVars, saves, pluginVars, notices, mixed, crossed, asked, lapses>>

\* Credentials.Delete, by id.  A row that went meanwhile is an error only to
\* deleteCredential.
DeleteRef(a) ==
  /\ changer[a].op \in {"clear", "delete"} /\ changer[a].at = "loaded"
  /\ row' = [s \in Secrets |-> IF row[s].id = changer[a].ref THEN NoRow ELSE row[s]]
  /\ Moves(a, IF row' = row /\ changer[a].op = "delete" THEN "over" ELSE "stored")
  /\ UNCHANGED <<config, vaultVars, saves, pluginVars, notices, mixed, crossed, asked, lapses>>

\* announceConfigChange: published and flushed, or, with the bus away, lost.
AnnounceChange(a) ==
  /\ changer[a].at = "stored"
  /\ Moves(a, "over")
  /\ \/ notices' = notices + 1 /\ UNCHANGED lapses
     \/ lapses < MaxLapses /\ lapses' = lapses + 1 /\ UNCHANGED notices
  /\ UNCHANGED <<row, config, vaultVars, saves, pluginVars, mixed, crossed, asked>>

\* Rotate reads every row of another version, then moves them one by one.
Scan(a) ==
  /\ Doing(a, "rotate", "entered")
  /\ LET old == {s \in Secrets : row[s].id # 0 /\ row[s].version # current}
     IN  changer' = [changer EXCEPT ![a].at = "moving",
                                ![a].todo = {[of |-> s, was |-> row[s]] : s \in old}]
  /\ UNCHANGED <<row, config, vaultVars, saves, pluginVars, notices, mixed, crossed, asked, lapses>>

\* The wrapped key goes to the row of that id, whatever it holds by now.  A
\* data key that does not unwrap ends the rotation.
MoveOne(a, p) ==
  /\ Doing(a, "rotate", "moving") /\ p \in changer[a].todo
  /\ IF p.was.version \in keys /\ p.was.under = p.was.version
     THEN LET moved == Rewrap(p.was)
          IN  /\ row' = [row EXCEPT ![p.of] =
                   IF @.id = p.was.id
                   THEN [@ EXCEPT !.dek = moved.dek, !.under = moved.under, !.version = moved.version]
                   ELSE @]
              /\ mixed' = IF row[p.of].id = p.was.id /\ row[p.of].value # p.was.value
                          THEN mixed \cup {p.of} ELSE mixed
              /\ changer' = [changer EXCEPT ![a].todo = @ \ {p}]
     ELSE Moves(a, "over") /\ UNCHANGED <<row, mixed>>
  /\ UNCHANGED <<config, vaultVars, saves, pluginVars, notices, crossed, asked, lapses>>

\* rotateCredentials answers how many it moved, and announces nothing.
Rotated(a) ==
  /\ Doing(a, "rotate", "moving") /\ changer[a].todo = {}
  /\ Moves(a, "over")
  /\ rotated' = TRUE
  /\ UNCHANGED <<row, config, keys, current, saves, pluginVars, notices, mixed, crossed, asked, lapses>>

\* Core is started again with other keys in its environment: one more, which
\* seals from now on, or without the old ones once a rotation moved everything.
\* Requests under way are gone.
Restart ==
  /\ \/ current < MaxKeys /\ keys' = keys \cup {current + 1} /\ current' = current + 1
     \/ rotated /\ keys' = {current} /\ keys' # keys /\ UNCHANGED current
  /\ rotated' = FALSE
  /\ changer' = [a \in Changers |-> IF changer[a].at = "idle" THEN changer[a] ELSE [changer[a] EXCEPT !.at = "over", !.todo = {}]]
  /\ UNCHANGED <<row, config, saves, pluginVars, notices, mixed, crossed, asked, lapses>>

-----------------------------------------------------------------------------
\* The plugin.

\* What resolveCredential and resolveConfig hand out; {}: a refusal.
Stored(k) ==
  IF k = "config" THEN {config.rev}
  ELSE {n \in {row[k].value} : row[k].id # 0 /\ Opens(row[k])}

\* Vault.For, Config.All: what is kept, or else core is asked.
Use(c, k) ==
  /\ call[c].at = "idle"
  /\ call' = [call EXCEPT ![c] =
       IF kept[k] # {} THEN [of |-> k, at |-> "over", got |-> CHOOSE n \in kept[k] : TRUE]
       ELSE [of |-> k, at |-> "asking", got |-> 0]]
  /\ UNCHANGED <<row, config, vaultVars, saves, changer, kept, notices, mixed, crossed, asked, floor, lapses>>

\* Core answers, or refuses; the five seconds run out.
Resolve(c) ==
  /\ call[c].at = "asking"
  /\ \/ \E n \in Stored(call[c].of) : call' = [call EXCEPT ![c].at = "holding", ![c].got = n]
     \/ call' = [call EXCEPT ![c].at = "over"]
  /\ UNCHANGED <<row, config, vaultVars, saves, changer, kept, notices, mixed, crossed, asked, floor, lapses>>

\* The answer is put in the cache and used.
Keep(c) ==
  /\ call[c].at = "holding"
  /\ kept' = [kept EXCEPT ![call[c].of] = {call[c].got}]
  /\ call' = [call EXCEPT ![c].at = "over"]
  /\ UNCHANGED <<row, config, vaultVars, saves, changer, notices, mixed, crossed, asked, floor, lapses>>

\* The time to live is over.
Expire(k) ==
  /\ kept[k] # {}
  /\ kept' = [kept EXCEPT ![k] = {}]
  /\ UNCHANGED <<row, config, vaultVars, saves, changer, call, notices, mixed, crossed, asked, floor, lapses>>

\* Config.Invalidate and Vault.ForgetAll.
Dropped == [k \in Kinds |-> {}]

InHand(k) == \E c \in Calls : call[c].of = k /\ call[c].at = "holding"
\* The oldest value of k that core can still hand out.
Oldest(k) == IF k = "config" THEN config.rev
             ELSE IF row[k].id = 0 THEN saves + 1 ELSE row[k].value

\* The plugin hears that its settings changed.
Hear ==
  /\ notices > 0 /\ notices' = notices - 1
  /\ kept' = Dropped
  /\ floor' = [k \in Kinds |-> IF InHand(k) THEN floor[k] ELSE Oldest(k)]
  /\ UNCHANGED <<row, config, vaultVars, saves, changer, call, mixed, crossed, asked, lapses>>

-----------------------------------------------------------------------------

\* The secrets a request of each kind names; to is the switch's new position.
Ask(a) ==
  \/ \E S \in SUBSET Secrets : Submit(a, "settings", S, FALSE)
  \/ \E to \in BOOLEAN : Submit(a, "switch", {}, to)
  \/ \E s \in Secrets, op \in {"put", "clear", "delete"} : Submit(a, op, {s}, FALSE)
  \/ Submit(a, "rotate", {}, FALSE)

Request(a) ==
  \/ Fail(a) \/ Load(a) \/ Save(a) \/ PutCredential(a) \/ DeleteRef(a) \/ AnnounceChange(a)
  \/ Scan(a) \/ Rotated(a)
  \/ \E s \in Secrets : PutOne(a, s) \/ FindRef(a, s)
  \/ \E p \in changer[a].todo : MoveOne(a, p)

PluginStep ==
  \/ \E c \in Calls, k \in Kinds : Use(c, k)
  \/ \E c \in Calls : Resolve(c) \/ Keep(c)
  \/ \E k \in Kinds : Expire(k)
  \/ Hear

SettingsNext == (\E a \in Changers : Ask(a) \/ Request(a)) \/ Restart \/ PluginStep

SettingsSpec == SettingsInit /\ [][SettingsNext]_setVars

-----------------------------------------------------------------------------

\* A stored secret can be opened with the keys that are loaded, through any
\* rotation, failed rotation and retirement of old keys; except one that was
\* replaced between a rotation's scan and its update of the row.
CredentialsOpenUndisturbed ==
  \A s \in Secrets : row[s].id # 0 /\ s \notin mixed => Opens(row[s])

\* The same of every secret: "Rotation re-wraps data keys and never touches
\* ciphertext".
CredentialsOpen == \A s \in Secrets : row[s].id # 0 => Opens(row[s])

\* While saves do not overlap, the settings form keeps the write switch and
\* the write switch keeps the settings: what is stored is what was last asked.
SettingsKeptUndisturbed ==
  ~crossed => config.value = asked.value /\ config.writes = asked.writes

\* "Core-owned keys come from storage, never from the request, so this form
\* can neither clear the write switch nor set it."
SwitchIsKept == config.writes = asked.writes

\* Once the plugin heard of a change it never uses what the change replaced,
\* unless an answer was in its hand, not yet put in the cache, as it heard.
ChangesReachPlugins ==
  \A k \in Kinds : \A n \in kept[k] : n >= floor[k]

\* What was saved is there, can be opened, and reaches the plugins.
SettingsAreKept ==
  /\ SettingsTypeOK
  /\ CredentialsOpenUndisturbed
  /\ SettingsKeptUndisturbed
  /\ ChangesReachPlugins

=============================================================================
