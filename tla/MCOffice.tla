------------------------------ MODULE MCOffice ------------------------------
(***************************************************************************)
(* For TLC: keys, secrets and settings, the registry and its plugins, the  *)
(* assistant's conversations, and of telephones the lists of extensions,   *)
(* the keys, files of numbers and the way to a customer's phone system.    *)
(* Each behaviour exercises one part, chosen at the beginning.             *)
(***************************************************************************)
EXTENDS Settings, Registry, Conversation, Listings, Keys, NumberSheets, PhoneLine, TLC

VARIABLE part

mcVars == <<part, setVars, registryVars, chatVars, listVars, keysVars, fileVars, dialVars>>

\* Layouts: none; one with a gap; one from the second button; a kind not known.
Key0(no, kind, to) == [no |-> no, kind |-> kind, to |-> to]
Watched == CHOOSE e \in Handsets : TRUE
MCLayouts == {<<>>, <<Key0(1, "line", "nobody"), Key0(3, "watch", Watched)>>,
              <<Key0(2, "login", "nobody"), Key0(3, "watch", Watched)>>, <<Key0(1, "odd", "nobody")>>}

\* Files: names in either order, or none, or others; then up to two rows, with
\* numbers, blocks, what is neither, and nothing.
Word(w) == <<"word", w>>
Digit(width, value) == <<"number", width, value>>
NoNames == <<Word("other"), Word("other")>>
Heads == {<<Word("did"), Word("extension")>>, <<Word("extension"), Word("did")>>, <<Word("other"), Word("did")>>,
          NoNames, <<Digit(2, 4), Digit(1, 1)>>, <<Word("did"), Word("other")>>}
Firsts == {Digit(2, 4), Digit(2, 5), <<"block", 2, 3, 1, 2>>, <<"block", 2, 3, 2, 5>>, <<"block", 2, 1, 1, 0>>, Word("other"), Empty}
MCFiles == {<<h>> : h \in Heads}
           \cup {<<h, <<a, b>>>> : h \in Heads, a \in Firsts, b \in {Empty, Digit(1, 1), Word("other")}}
           \cup {<<h, <<a, b>>, <<c, d>>>> : h \in Heads, a \in Firsts, b \in {Empty, Digit(1, 1), Word("other")},
                                            c \in Firsts, d \in {Empty, Digit(1, 1)}}

\* A phone system with nothing wrong; one with one thing wrong, or nearly: one of
\* two phones, of three, none of one, none at all; a licence that lapses within a
\* fortnight, or did, hours or days ago.
Of(n, m) == [up |-> n, all |-> m]
Condition(handsets, trunks, well, hrs, on) == [phones |-> handsets, trunks |-> trunks, sound |-> well, hours |-> hrs, active |-> on]
Fine == Condition(Of(2, 2), Of(1, 1), TRUE, 400, TRUE)
MCConditions ==
  {[Fine EXCEPT !.phones = p] : p \in {Of(2, 2), Of(1, 2), Of(1, 3), Of(0, 1), Of(0, 0)}}
  \cup {Condition(Of(2, 2), Of(1, 2), TRUE, 340, TRUE), [Fine EXCEPT !.sound = FALSE], [Fine EXCEPT !.active = FALSE]}
  \cup {[Fine EXCEPT !.hours = h] : h \in {-10, -30}}

\* A part that is not looked at starts in one state.
FineLine == condition = [y \in Systems |-> Fine]
MCInit == /\ part \in {"vault", "form", "plugin", "registry", "chat", "lists", "keys", "files", "line"}
          /\ SettingsInit
          /\ part # "registry" => unguarded = {}
          /\ RegistryInit
          /\ ConversationInit
          /\ part # "chat" => chat.model = "default"
          /\ ListingsInit
          /\ part # "lists" => There = {} /\ approved
          /\ part # "keys" => layout = [e \in Handsets |-> <<>>]
          /\ KeysInit
          /\ part # "files" => sheet = <<NoNames>>
          /\ NumbersInit
          /\ part # "line" => FineLine
          /\ PhoneLineInit
          /\ LET one == CHOOSE y \in Systems : TRUE
             IN  /\ \A t \in Tenants : address[t] = one
                 /\ \A y \in Systems \ {one} : condition[y] = Fine

\* Keys and secrets, without the plugin.
VaultPart ==
  \/ Restart
  \/ \E a \in Changers : Request(a) \/ Submit(a, "rotate", {}, FALSE)
  \/ \E a \in Changers, s \in Secrets, op \in {"put", "clear", "delete"} : Submit(a, op, {s}, FALSE)

\* Settings and the write switch, saved beside each other.
FormPart ==
  \/ \E a \in Changers : Request(a)
  \/ \E a \in Changers, to \in BOOLEAN : Submit(a, "switch", {}, to) \/ Submit(a, "settings", {}, FALSE)

\* Two saves and the plugin that uses what they save, the settings and one secret.
Pair == CHOOSE two \in SUBSET Changers : Cardinality(two) = 2
Password == CHOOSE s \in Secrets : TRUE
PluginPart ==
  /\ \/ \E a \in Pair : Request(a)
     \/ \E a \in Pair, op \in {"settings", "clear"} : Submit(a, op, {Password}, FALSE)
     \/ PluginStep
  /\ \A c \in Calls : call'[c].of \in {"config", Password}

\* Of two plugins one is decided about.
Decided == CHOOSE p \in Plugins : TRUE
RegistryPart ==
  \/ SweepStep \/ ProcessStep \/ ForgetRetired
  \/ Month(Decided) \/ \E s \in {"pending", "approved", "rejected"} : Decide(Decided, s)

\* Of two questions in one chat at most one looks things up, and the settings
\* change while one is still to be asked.
ChatPart ==
  /\ ConversationNext
  /\ \A a \in Asks \ {CHOOSE q \in Asks : TRUE} : replies'[a] <= 1 /\ ask'[a].want = {}
  /\ settings' # settings => (\E a \in Asks : ask[a].at = "idle") /\ settings'.key

\* Numbers written down, backwards too; a ring group, with somebody who may not
\* be there; and a change to two extensions.
MCRequests == {<<"select", <<1, 2>>>>, <<"select", <<4, 2>>>>, <<"select", <<1, 4>>>>,
               <<"group", <<8, 1, 3>>>>, <<"ungroup", <<8>>>>, <<"bulk", <<1, 2>>>>, <<"bulk", <<3, 3, 1>>>>}

\* One call, and at most the removal of its ring group after it; the console
\* goes on meanwhile.
ListsPart ==
  /\ ListingsNext
  /\ Cardinality({r \in Readers : reading'[r].at \notin {"idle", "over"}}) <= 1
  /\ Cardinality({r \in Readers : reading'[r].kind \notin {"none", "ungroup"}}) <= 1
  /\ (\E r \in Readers : reading'[r].kind = "ungroup") => \E r \in Readers : reading'[r].kind = "group"

\* The keys of one extension or two.
KeysPart ==
  \/ KeysNext
  \/ \E o \in Layings, from \in Handsets \cup {"nobody"}, e \in Handsets, f \in Handsets, given \in Layouts :
       Lay(o, IF f = e THEN <<e>> ELSE <<e, f>>, from, given)

\* One asks for the status; where something is wrong, nobody else calls and
\* nothing else happens.
LinePart ==
  /\ PhoneLineNext
  /\ Cardinality({r \in Rings : ring'[r].kind = "status"}) <= 1
  /\ (\E r \in Rings : ring'[r].at # "idle") => ring'[CHOOSE r \in Rings : TRUE].at # "idle"
  /\ (\E y \in Systems : condition[y] # Fine) => moves' = 0 /\ Cardinality({r \in Rings : ring'[r].at # "idle"}) <= 1

MCNext ==
  /\ UNCHANGED part
  /\ \/ part = "vault" /\ VaultPart /\ UNCHANGED <<registryVars, chatVars, listVars, keysVars, fileVars, dialVars>>
     \/ part = "form" /\ FormPart /\ UNCHANGED <<registryVars, chatVars, listVars, keysVars, fileVars, dialVars>>
     \/ part = "plugin" /\ PluginPart /\ UNCHANGED <<registryVars, chatVars, listVars, keysVars, fileVars, dialVars>>
     \/ part = "registry" /\ RegistryPart /\ UNCHANGED <<setVars, chatVars, listVars, keysVars, fileVars, dialVars>>
     \/ part = "chat" /\ ChatPart /\ UNCHANGED <<setVars, registryVars, listVars, keysVars, fileVars, dialVars>>
     \/ part = "lists" /\ ListsPart /\ UNCHANGED <<setVars, registryVars, chatVars, keysVars, fileVars, dialVars>>
     \/ part = "keys" /\ KeysPart /\ UNCHANGED <<setVars, registryVars, chatVars, listVars, fileVars, dialVars>>
     \/ part = "files" /\ NumbersNext /\ UNCHANGED <<setVars, registryVars, chatVars, listVars, keysVars, dialVars>>
     \/ part = "line" /\ LinePart /\ UNCHANGED <<setVars, registryVars, chatVars, listVars, keysVars, fileVars>>

MCSpec == MCInit /\ [][MCNext]_mcVars

ListsSpec ==
  /\ MCInit /\ part = "lists" /\ [][MCNext]_mcVars
  /\ \A r \in Readers : WF_mcVars(part = "lists" /\ ReadStep(r) /\ UNCHANGED <<part, setVars, registryVars, chatVars, keysVars, fileVars, dialVars>>)

=============================================================================
