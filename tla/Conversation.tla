---------------------------- MODULE Conversation ----------------------------
(***************************************************************************)
(* One conversation with the assistant: sendMessage and its streaming twin *)
(* (internal/api/chat.go), the loop that lets a model look things up       *)
(* (assistant.Engine.Answer) and the providers it speaks to (openai.go,    *)
(* anthropic.go), over the tables conversations and messages               *)
(* (internal/store/assistant.go), while the assistant's settings change.   *)
(*                                                                         *)
(* A lookup is a capability with its arguments; what it finds and what the *)
(* model makes of it are left open.  One reply asks for a lookup once.     *)
(***************************************************************************)
EXTENDS Naturals, FiniteSets, Sequences

CONSTANTS
  Asks,           \* questions, each sent once
  Lookups,        \* what the model may ask for
  Proposing,      \* the lookups among them that stage a change
  RunawayCap,     \* runawayCap
  RepeatLimit,    \* repeatLimit
  MaxTurns,       \* AssistantConfig.MaxTurns
  MaxSwitches     \* bound: changes of the settings

ASSUME ConversationAssumption ==
  /\ Proposing \subseteq Lookups
  /\ {RunawayCap, RepeatLimit, MaxTurns} \subseteq Nat \ {0} /\ MaxSwitches \in Nat

VARIABLES
  chat,           \* conversations and messages: whether it exists, what was said
  settings,       \* assistant_config and the provider's key
  ask,            \* where each question is
  reached,        \* how often each question's lookups were answered by a plugin
  replies,        \* how often each question asked the model
  proposals,      \* what was staged, by question
  switches

chatVars == <<chat, settings, ask, reached, replies, proposals, switches>>

Said == [role : {"user", "assistant"}, of : Asks]
Quiet == [at |-> "idle", turns |-> <<>>, model |-> "default", want |-> {},
          fresh |-> FALSE, seen |-> {}, steps |-> 0, repeats |-> 0]

ConversationTypeOK ==
  /\ chat \in [is : BOOLEAN, model : {"default", "chosen"}, said : Seq(Said)]
  /\ settings \in [enabled : BOOLEAN, key : BOOLEAN, free : BOOLEAN]
  /\ \A a \in Asks :
       /\ ask[a].at \in {"idle", "entered", "asked", "thinking", "looking", "answered",
                         "failed", "replied"}
       /\ ask[a].turns \in Seq(Said) /\ ask[a].model \in {"default", "chosen"}
       /\ ask[a].want \subseteq Lookups /\ ask[a].fresh \in BOOLEAN
       /\ ask[a].seen \subseteq Lookups /\ ask[a].steps \in Nat
       /\ ask[a].repeats \in 0 .. RepeatLimit
  /\ reached \in [Asks -> [Lookups -> Nat]] /\ replies \in [Asks -> Nat]
  /\ proposals \subseteq Asks \X Proposing /\ switches \in 0 .. MaxSwitches

ConversationInit ==
  /\ chat \in [is : {TRUE}, model : {"default", "chosen"}, said : {<<>>}]
  /\ settings = [enabled |-> TRUE, key |-> TRUE, free |-> TRUE]
  /\ ask = [a \in Asks |-> Quiet]
  /\ reached = [a \in Asks |-> [l \in Lookups |-> 0]]
  /\ replies = [a \in Asks |-> 0]
  /\ proposals = {} /\ switches = 0

Turns(a, at) == ask' = [ask EXCEPT ![a].at = at]

-----------------------------------------------------------------------------
\* A question comes in.

\* MayUse: the default always, another while the policy lets people choose.
MayUse(model) == model = "default" \/ settings.free

\* ownedConversation, onBehalfOf and engine: the chat must be there, the
\* assistant switched on and its key readable.  modelFor asks the policy anew.
AskQuestion(a) ==
  /\ ask[a].at = "idle"
  /\ IF chat.is /\ settings.enabled /\ settings.key
     THEN ask' = [ask EXCEPT ![a].at = "entered",
                             ![a].model = IF MayUse(chat.model) THEN chat.model ELSE "default"]
     ELSE Turns(a, "failed")
  /\ UNCHANGED <<chat, settings, reached, replies, proposals, switches>>

\* The history, cut to its last turns.
LastTurns(s) == IF Len(s) > MaxTurns THEN SubSeq(s, Len(s) - MaxTurns + 1, Len(s)) ELSE s

\* Messages is read before the question is stored.
ReadHistory(a) ==
  /\ ask[a].at = "entered"
  /\ ask' = [ask EXCEPT ![a].at = "asked",
                        ![a].turns = LastTurns(Append(chat.said, [role |-> "user", of |-> a]))]
  /\ UNCHANGED <<chat, settings, reached, replies, proposals, switches>>

\* AddMessage: a chat that was deleted takes no message.
Says(role, a) == [chat EXCEPT !.said = Append(@, [role |-> role, of |-> a])]

\* The question is stored before the model is asked.
StoreQuestion(a) ==
  /\ ask[a].at = "asked"
  /\ IF chat.is THEN chat' = Says("user", a) /\ Turns(a, "thinking")
                ELSE Turns(a, "failed") /\ UNCHANGED chat
  /\ UNCHANGED <<settings, reached, replies, proposals, switches>>

-----------------------------------------------------------------------------
\* Engine.Answer.

\* The tools come away once the model has stopped making progress.
LastCall(a) == ask[a].repeats >= RepeatLimit \/ ask[a].steps >= RunawayCap

\* Provider.Complete fails: out of reach, refused, cut short, or the person
\* closed the panel.
ProviderFails(a) ==
  /\ ask[a].at = "thinking"
  /\ replies' = [replies EXCEPT ![a] = @ + 1]
  /\ Turns(a, "failed")
  /\ UNCHANGED <<chat, settings, reached, proposals, switches>>

\* It asks for nothing, or may not any more: its text is the answer, and no
\* text is a failure (ErrNoAnswer).
Answers(a) ==
  /\ ask[a].at = "thinking"
  /\ replies' = [replies EXCEPT ![a] = @ + 1]
  /\ \E at \in {"answered", "failed"} : Turns(a, at)
  /\ UNCHANGED <<chat, settings, reached, proposals, switches>>

AsksFor(a, W) ==
  /\ ask[a].at = "thinking" /\ ~LastCall(a) /\ W # {}
  /\ replies' = [replies EXCEPT ![a] = @ + 1]
  /\ ask' = [ask EXCEPT ![a].at = "looking", ![a].want = W, ![a].fresh = FALSE]
  /\ UNCHANGED <<chat, settings, reached, proposals, switches>>

\* Mutant: what the last reply was told, nothing before.
KnownNone(a) == {}
\* What this answer was already told.
Known(a) == ask[a].seen

\* A lookup made before is answered from what was found then.
LookAgain(a, l) ==
  /\ ask[a].at = "looking" /\ l \in ask[a].want /\ l \in Known(a)
  /\ ask' = [ask EXCEPT ![a].want = @ \ {l}]
  /\ UNCHANGED <<chat, settings, reached, replies, proposals, switches>>

\* resolveCapability finds a tool that is approved and works by now, or none.
Resolves == BOOLEAN
\* A write is staged, never made, and only inside a conversation.
Stages(l) == l \in Proposing /\ chat.is

\* Runner: a read is asked of the plugin, a write is staged.  Without a tool or
\* an answer the model is told so, and may ask again.
Look(a, l) ==
  /\ ask[a].at = "looking" /\ l \in ask[a].want /\ l \notin Known(a)
  /\ \E found \in Resolves :
       /\ found /\ l \in Proposing => Stages(l)
       /\ ask' = [ask EXCEPT ![a].want = @ \ {l}, ![a].fresh = TRUE, ![a].steps = @ + 1,
                             ![a].seen = IF found THEN @ \cup {l} ELSE @]
       /\ reached' = IF found /\ l \notin Proposing THEN [reached EXCEPT ![a][l] = @ + 1] ELSE reached
       /\ proposals' = IF found /\ l \in Proposing THEN proposals \cup {<<a, l>>} ELSE proposals
  /\ UNCHANGED <<chat, settings, replies, switches>>

\* A reply that asked for nothing new counts against the model.
Repeats(a) == IF ask[a].fresh THEN 0 ELSE ask[a].repeats + 1

NextReply(a) ==
  /\ ask[a].at = "looking" /\ ask[a].want = {}
  /\ ask' = [ask EXCEPT ![a].at = "thinking", ![a].repeats = Repeats(a)]
  /\ UNCHANGED <<chat, settings, reached, replies, proposals, switches>>

\* The reply is stored; a chat deleted meanwhile loses it.
StoreReply(a) ==
  /\ ask[a].at = "answered"
  /\ IF chat.is THEN chat' = Says("assistant", a) /\ Turns(a, "replied")
                ELSE Turns(a, "failed") /\ UNCHANGED chat
  /\ UNCHANGED <<settings, reached, replies, proposals, switches>>

-----------------------------------------------------------------------------
\* Meanwhile.

\* deleteConversation takes the messages along.
DeleteChat ==
  /\ chat.is
  /\ chat' = [chat EXCEPT !.is = FALSE, !.said = <<>>]
  /\ UNCHANGED <<settings, ask, reached, replies, proposals, switches>>

\* putAssistantSettings switches on only with a key; credentials go their own way.
Configure(c) ==
  /\ switches < MaxSwitches /\ switches' = switches + 1
  /\ c.enabled /\ ~settings.enabled => c.key
  /\ settings' = c
  /\ UNCHANGED <<chat, ask, reached, replies, proposals>>

-----------------------------------------------------------------------------

AskStep(a) ==
  \/ AskQuestion(a) \/ ReadHistory(a) \/ StoreQuestion(a)
  \/ ProviderFails(a) \/ Answers(a) \/ NextReply(a) \/ StoreReply(a)
  \/ \E W \in SUBSET Lookups : AsksFor(a, W)
  \/ \E l \in Lookups : LookAgain(a, l) \/ Look(a, l)

ConversationNext ==
  \/ \E a \in Asks : AskStep(a)
  \/ DeleteChat
  \/ \E c \in [enabled : BOOLEAN, key : BOOLEAN, free : BOOLEAN] : Configure(c)

ConversationSpec == ConversationInit /\ [][ConversationNext]_chatVars

-----------------------------------------------------------------------------

\* "Two things keep a stuck model from costing the connected system an
\* unbounded number of requests": what a plugin answered once it is not asked
\* again for the same question, and a question asks the model a bounded number
\* of times, whatever the model keeps asking for.
StuckModelIsStopped ==
  \A a \in Asks :
    /\ \A l \in Lookups : reached[a][l] <= 1
    /\ replies[a] <= (RunawayCap + 1) * RepeatLimit + 1

\* What somebody typed is kept from before the model is asked: whatever becomes
\* of the answer, the question is in the chat and its reply only after it.
QuestionsAreKept ==
  \A a \in Asks : chat.is /\ ask[a].at \in {"thinking", "looking", "answered", "replied"} =>
    \E i \in 1 .. Len(chat.said) :
      /\ chat.said[i] = [role |-> "user", of |-> a]
      /\ \A j \in 1 .. i : chat.said[j] # [role |-> "assistant", of |-> a]

\* A conversation comes to an end and keeps what was asked in it.
ChatIsKept == ConversationTypeOK /\ StuckModelIsStopped /\ QuestionsAreKept

=============================================================================
