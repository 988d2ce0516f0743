-------------------------------- MODULE Keys --------------------------------
(***************************************************************************)
(* The keys of phones: setExtensionKeys and keysOf of                      *)
(* cmd/plugin-3cx/extensions.go over internal/blf.  A layout is kept whole *)
(* and written whole; a key left at its default is not in it, so its       *)
(* numbers can have gaps.  One action per request to the phone system.     *)
(***************************************************************************)
EXTENDS Naturals, Sequences, FiniteSets, SequencesExt

CONSTANTS
  Handsets,      \* extensions
  Layings,       \* calls of the tool, each made once
  Layouts,       \* the layouts extensions have, and are given
  MaxHands,      \* bound: what is done at the phone system's own console
  MaxStumbles    \* bound: requests refused, or answered too late

\* The kinds that matter apart: one that points at an extension, the login of a
\* queue, one that carries nothing, and one internal/blf has never heard of.
Buttoned == [no : Nat, kind : {"watch", "login", "line", "odd"}, to : Handsets \cup {"nobody"}]

\* Parse reads keys in the order of their buttons.  The phone system numbers those
\* from one, and a button is one key.
Parsed(keys) ==
  \A i \in DOMAIN keys : keys[i].no >= 1 /\ \A j \in DOMAIN keys : i < j => keys[i].no < keys[j].no

ASSUME KeysAssumption ==
  /\ "nobody" \notin Handsets /\ {MaxHands, MaxStumbles} \subseteq Nat
  /\ Layouts \subseteq Seq(Buttoned) /\ \A keys \in Layouts : Parsed(keys)

VARIABLES
  phones,        \* extensions there are
  layout,        \* the keys of each, by number
  laying,        \* the calls
  laid,          \* which call last changed each extension's keys, as answered
  hands, stumbles

keysVars == <<phones, layout, laying, laid, hands, stumbles>>

NotLaying == [at |-> "idle", from |-> "nobody", keys |-> <<>>, first |-> 0, todo |-> <<>>, ids |-> {}, was |-> <<>>]

KeysTypeOK ==
  /\ phones \subseteq Handsets
  /\ \A e \in Handsets : ToSet(layout[e]) \subseteq Buttoned
  /\ \A o \in Layings :
       /\ laying[o].at \in {"idle", "ids", "source", "resolve", "each", "write", "over", "refused"}
       /\ laying[o].from \in Handsets \cup {"nobody"} /\ laying[o].ids \subseteq Handsets
       /\ ToSet(laying[o].todo) \subseteq Handsets /\ laying[o].first \in Nat
  /\ laid \in [Handsets -> Layings \cup {"nobody"}]
  /\ hands \in 0 .. MaxHands /\ stumbles \in 0 .. MaxStumbles

KeysInit ==
  /\ phones = Handsets /\ layout \in [Handsets -> Layouts]
  /\ laying = [o \in Layings |-> NotLaying] /\ laid = [e \in Handsets |-> "nobody"]
  /\ hands = 0 /\ stumbles = 0

Stumble == stumbles < MaxStumbles /\ stumbles' = stumbles + 1
Becomes(o, at) == laying' = [laying EXCEPT ![o].at = at]

-----------------------------------------------------------------------------
\* internal/blf.

NumbersOf(keys) == {keys[i].no : i \in DOMAIN keys}
\* StartsAt: the lowest number, one where there are no keys.
StartsAt(keys) == IF keys = <<>> THEN 1 ELSE CHOOSE n \in NumbersOf(keys) : \A m \in NumbersOf(keys) : n <= m

\* Mutant: a layout is numbered from the first button, whoever had that.
RenumberFromOne(keys, first) == [i \in DOMAIN keys |-> [keys[i] EXCEPT !.no = i]]
\* Renumber: one after the other.
Renumber(keys, first) == [i \in DOMAIN keys |-> [keys[i] EXCEPT !.no = first + i - 1]]

-----------------------------------------------------------------------------
\* The tool.

\* Arguments: extensions, and the keys or an extension to copy them from.
Lay(o, targets, from, keys) ==
  /\ laying[o].at = "idle" /\ (from = "nobody" <=> keys # <<>>)
  /\ laying' = [laying EXCEPT ![o] = [NotLaying EXCEPT !.at = "ids", !.from = from, !.keys = keys, !.todo = targets]]
  /\ UNCHANGED <<phones, layout, laid, hands, stumbles>>

\* extensionIDs.
ReadIDs(o) ==
  /\ laying[o].at = "ids"
  /\ \/ /\ laying' = [laying EXCEPT ![o] = [@ EXCEPT !.ids = phones,
                        !.at = IF laying[o].from = "nobody" THEN "resolve" ELSE "source"]]
        /\ UNCHANGED stumbles
     \/ Stumble /\ Becomes(o, "refused")
  /\ UNCHANGED <<phones, layout, laid, hands>>

\* A copy keeps the source's first button.
ReadSource(o) ==
  /\ laying[o].at = "source"
  /\ LET e == laying[o].from IN
     \/ /\ e \in laying[o].ids \cap phones
        /\ laying' = [laying EXCEPT ![o] = [@ EXCEPT !.at = "resolve", !.keys = layout[e], !.first = StartsAt(layout[e])]]
        /\ UNCHANGED stumbles
     \/ e \notin laying[o].ids \cap phones /\ Becomes(o, "refused") /\ UNCHANGED stumbles
     \/ Stumble /\ Becomes(o, "refused")
  /\ UNCHANGED <<phones, layout, laid, hands>>

\* What a key watches is found by its number; of a kind not known nothing is
\* written.
Resolvable(o) ==
  \A i \in DOMAIN laying[o].keys :
    LET key == laying[o].keys[i] IN key.kind # "odd" /\ (key.kind = "watch" => key.to \in laying[o].ids)
ResolveKeys(o) ==
  /\ laying[o].at = "resolve" /\ Becomes(o, IF Resolvable(o) THEN "each" ELSE "refused")
  /\ UNCHANGED <<phones, layout, laid, hands, stumbles>>

Skip(o) == laying' = [laying EXCEPT ![o].todo = Tail(@)]
\* One extension's turn: what is there says which buttons, unless copied.
ReadTarget(o) ==
  /\ laying[o].at = "each" /\ laying[o].todo # <<>>
  /\ LET e == Head(laying[o].todo) IN
     \/ /\ e \in laying[o].ids \cap phones
        /\ laying' = [laying EXCEPT ![o] = [@ EXCEPT !.at = "write", !.was = layout[e]]]
        /\ UNCHANGED stumbles
     \/ e \notin laying[o].ids \cap phones /\ Skip(o) /\ UNCHANGED stumbles
     \/ Stumble /\ Skip(o)
  /\ UNCHANGED <<phones, layout, laid, hands>>

FirstButton(o) == IF laying[o].first = 0 THEN StartsAt(laying[o].was) ELSE laying[o].first

\* The patch: done; or refused, or not answered and done all the same.
WriteKeys(o) ==
  /\ laying[o].at = "write"
  /\ LET e == Head(laying[o].todo)
         new == [layout EXCEPT ![e] = Renumber(laying[o].keys, FirstButton(o))]
     IN  \/ e \in phones /\ layout' = new /\ laid' = [laid EXCEPT ![e] = o] /\ UNCHANGED stumbles
         \/ e \notin phones /\ UNCHANGED <<layout, laid, stumbles>>
         \/ /\ Stumble /\ layout' \in {layout, new}
            /\ laid' = IF layout' = layout THEN laid ELSE [laid EXCEPT ![e] = "nobody"]
  /\ laying' = [laying EXCEPT ![o] = [@ EXCEPT !.at = "each", !.todo = Tail(laying[o].todo), !.was = <<>>]]
  /\ UNCHANGED <<phones, hands>>

EndLay(o) ==
  /\ laying[o].at = "each" /\ laying[o].todo = <<>> /\ Becomes(o, "over")
  /\ UNCHANGED <<phones, layout, laid, hands, stumbles>>

\* At the console keys are changed, and extensions removed.
SetByHand(e, keys) ==
  /\ hands < MaxHands /\ e \in phones /\ keys # layout[e]
  /\ hands' = hands + 1 /\ layout' = [layout EXCEPT ![e] = keys] /\ laid' = [laid EXCEPT ![e] = "nobody"]
  /\ UNCHANGED <<phones, laying, stumbles>>

RemoveHandset(e) ==
  /\ hands < MaxHands /\ e \in phones
  /\ hands' = hands + 1 /\ phones' = phones \ {e} /\ laid' = [laid EXCEPT ![e] = "nobody"]
  /\ UNCHANGED <<layout, laying, stumbles>>

LayStep(o) == ReadIDs(o) \/ ReadSource(o) \/ ResolveKeys(o) \/ ReadTarget(o) \/ WriteKeys(o) \/ EndLay(o)

KeysNext ==
  \/ \E o \in Layings : LayStep(o)
  \/ \E e \in Handsets : RemoveHandset(e) \/ \E keys \in Layouts : SetByHand(e, keys)

KeysSpec ==
  KeysInit /\ [][KeysNext \/ \E o \in Layings, targets \in Seq(Handsets), from \in Handsets \cup {"nobody"},
                               given \in Seq(Buttoned) : Lay(o, targets, from, given)]_keysVars

-----------------------------------------------------------------------------

Carried(e) == [i \in DOMAIN layout[e] |-> [layout[e][i] EXCEPT !.no = 0]]
Gapless(keys) == NumbersOf(keys) = StartsAt(keys) .. StartsAt(keys) + Len(keys) - 1

\* "Two phones that were copied should have the same buttons in the same places,
\* which is the entire point."
CopiesKeepTheirPlaces ==
  \A e \in Handsets : laid[e] # "nobody" /\ laying[laid[e]].from # "nobody" => layout[e] = laying[laid[e]].keys

\* They have, where the layout copied has no gap; and any layout arrives whole
\* and in its order, on an extension that is answered for, whatever else is
\* written meanwhile.
KeysArriveUndisturbed ==
  \A e \in Handsets : laid[e] # "nobody" =>
    LET o == laying[laid[e]] IN
    /\ Carried(e) = [i \in DOMAIN o.keys |-> [o.keys[i] EXCEPT !.no = 0]]
    /\ Gapless(layout[e]) /\ (o.from # "nobody" => StartsAt(layout[e]) = StartsAt(o.keys))
    /\ (o.from # "nobody" /\ Gapless(o.keys)) => layout[e] = o.keys

KeysAreKept == KeysTypeOK /\ KeysArriveUndisturbed

=============================================================================
