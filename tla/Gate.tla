-------------------------------- MODULE Gate --------------------------------
(***************************************************************************)
(* Layer 2 (crates/neko-gate/src/actor.rs, heuristic.rs): a loop that      *)
(* remembers the affective states sensory tells it and spawns a task per   *)
(* message, and the tasks: each classifies its message, by rules or with   *)
(* a model, tells the router its decision and, unless it drops it, hands   *)
(* the message to the council.                                             *)
(*                                                                         *)
(* A message is classified by its shape (the features the rules look at).  *)
(* Of an affective state only its version is kept: the number of times     *)
(* sensory changed it.  A message's model call bears the message's id.     *)
(***************************************************************************)
EXTENDS ModelClient, Sequences, FiniteSets

CONSTANTS
  Users, Groups,
  SenderOf, GroupOf,   \* who sent a message, and where
  Shapes,              \* the shapes a message may have
  Classifiers,         \* the names gate.classifier may have
  MaxMessageLength,    \* max_message_length
  MaxAmbientWords,     \* max_ambient_words
  ContextMessages,     \* context_messages
  InboxCapacity, RouterCapacity,   \* the channels' capacities
  MaxVersion           \* bound on the changes of a state

Messages == Calls

ShapeType == [prefix : {"none", "slash", "bang"}, link : BOOLEAN, chars : Nat, words : Nat,
              replies : BOOLEAN, mentions : BOOLEAN, names : BOOLEAN]

ASSUME MessageAssumption == SenderOf \in [Messages -> Users] /\ GroupOf \in [Messages -> Groups]

ASSUME ShapeAssumption == Shapes \subseteq ShapeType

ASSUME GateSizeAssumption ==
  /\ MaxMessageLength \in Nat /\ MaxAmbientWords \in Nat /\ ContextMessages \in Nat
  /\ InboxCapacity \in Nat \ {0} /\ RouterCapacity \in Nat \ {0} /\ MaxVersion \in Nat

VARIABLES
  classifier,   \* the strategy built from the configuration's name
  inbox,        \* channel sensory -> gate
  owed,         \* the AffectiveUpdated sensory sends next, after a message
  version,      \* the version of each user's state, in sensory
  known,        \* states: the versions the gate was told
  recent,       \* recent_context: the actor's window of each group
  task,         \* the task of each message
  sent,         \* what the tasks sent to the router, in order
  taken,        \* how many of them the router has taken
  routerOpen,   \* the router still takes events
  \* history: nothing in the code reads these
  arrived,      \* the messages sensory forwarded, in order
  stamp         \* the version of its sender's state with which each came

sensoryVars == <<owed, version, arrived, stamp>>
routerVars  == <<taken, routerOpen>>
gateVars    == <<classifier, inbox, known, recent, task, sent>>
gateAll     == <<gateVars, sensoryVars, routerVars, call>>

Strategies == {"rules", "model", "all"}
Verdicts   == {"personal_reply", "ambient_join", "drop"}

MessageEvent(m, s) == [kind |-> "message", about |-> m, shape |-> s]
StateEvent(u, v)   == [kind |-> "state", about |-> u, version |-> v]
Decision(m)        == [kind |-> "decision", msg |-> m, verdict |-> task[m].verdict]
Escalation(m)      == [kind |-> "escalation", msg |-> m, verdict |-> task[m].verdict,
                       version |-> task[m].version, shape |-> task[m].shape]

InboxEvents ==
  [kind : {"message"}, about : Messages, shape : Shapes]
  \cup [kind : {"state"}, about : Users, version : Nat]
RouterEvents ==
  [kind : {"decision"}, msg : Messages, verdict : Verdicts]
  \cup [kind : {"escalation"}, msg : Messages, verdict : Verdicts, version : Nat, shape : Shapes]
Running ==
  [st : {"spawned", "asking", "decided", "escalating"}, version : Nat, context : Seq(Messages),
   shape : Shapes, verdict : Verdicts]

InRouter == Len(sent) - taken
Room     == InRouter < RouterCapacity

-----------------------------------------------------------------------------
(* The rules.                                                              *)

(* classifier_from_name() and main.rs: the model only under its own name,  *)
(* the rules for a name nobody knows.                                      *)
StrategyOf(name) ==
  CASE name = "llm"          -> "model"
    [] name = "escalate_all" -> "all"
    [] OTHER                 -> "rules"

(* The filter both classifiers begin with. *)
Obvious(s) ==
  \/ s.prefix \in {"slash", "bang"}
  \/ s.link
  \/ s.chars > MaxMessageLength

(* is_addressed_to_me(). *)
Addressed(s) == s.replies \/ s.mentions \/ s.names

(* DefaultHeuristic::classify(). *)
ByRules(s) ==
  CASE Obvious(s)                         -> "drop"
    [] Addressed(s)                       -> "personal_reply"
    [] s.words <= MaxAmbientWords * 3     -> "ambient_join"
    [] OTHER                              -> "personal_reply"

(* LlmGateClassifier::classify(): the model sees what the filter leaves. *)
Asked(m) == classifier = "model" /\ ~Obvious(task[m].shape)

Local(m) == IF classifier = "all" THEN "personal_reply" ELSE ByRules(task[m].shape)

(* handle_message(): the window with a message pushed, and trimmed once. *)
Window(context, m) ==
  LET c == Append(context, m) IN IF Len(c) > ContextMessages THEN Tail(c) ELSE c

(* What a task holds while it runs; nothing is left of it when it ends. *)
Held(m) == task[m].st \notin {"none", "done", "failed"}
NoTask  == [st |-> "none"]
Ended   == [st |-> "done"]
Failed  == [st |-> "failed"]

GateInit ==
  /\ classifier \in {StrategyOf(n) : n \in Classifiers}
  /\ inbox = <<>> /\ sent = <<>>
  /\ known = [u \in Users |-> 0]
  /\ recent = [g \in Groups |-> <<>>]
  /\ task = [m \in Messages |-> NoTask]
  /\ owed = <<>>
  /\ version = [u \in Users |-> 0]
  /\ arrived = <<>>
  /\ stamp = [m \in Messages |-> 0]
  /\ taken = 0 /\ routerOpen = TRUE
  /\ ClientInit

-----------------------------------------------------------------------------
(* Sensory, as the gate sees it: a state is touched, then the message is   *)
(* sent, then the new state.  A reply changes a state and sends nothing.   *)

(* Mutant: the state is sent before its message. *)
SensoryForwardsStateFirst(m) ==
  LET u == SenderOf[m] IN
  /\ owed = <<>> /\ version[u] < MaxVersion
  /\ \A i \in DOMAIN arrived : arrived[i] # m
  /\ Len(inbox) < InboxCapacity
  /\ version' = [version EXCEPT ![u] = @ + 1]
  /\ inbox' = Append(inbox, StateEvent(u, version[u] + 1))
  /\ \E s \in Shapes : owed' = <<MessageEvent(m, s)>>
  /\ arrived' = Append(arrived, m)
  /\ stamp' = [stamp EXCEPT ![m] = version[u] + 1]
  /\ UNCHANGED <<classifier, known, recent, task, sent, routerVars, call>>

SensoryForwards(m) ==
  LET u == SenderOf[m] IN
  /\ owed = <<>> /\ version[u] < MaxVersion
  /\ \A i \in DOMAIN arrived : arrived[i] # m
  /\ Len(inbox) < InboxCapacity
  /\ version' = [version EXCEPT ![u] = @ + 1]
  /\ \E s \in Shapes : inbox' = Append(inbox, MessageEvent(m, s))
  /\ owed' = <<StateEvent(u, version[u] + 1)>>
  /\ arrived' = Append(arrived, m)
  /\ stamp' = [stamp EXCEPT ![m] = version[u] + 1]
  /\ UNCHANGED <<classifier, known, recent, task, sent, routerVars, call>>

SensorySendsState ==
  /\ owed # <<>> /\ Len(inbox) < InboxCapacity
  /\ inbox' = Append(inbox, Head(owed))
  /\ owed' = <<>>
  /\ UNCHANGED <<classifier, version, arrived, stamp, known, recent, task, sent,
                 routerVars, call>>

SensoryCredits(u) ==
  /\ version[u] < MaxVersion
  /\ version' = [version EXCEPT ![u] = @ + 1]
  /\ UNCHANGED <<owed, arrived, stamp, gateVars, routerVars, call>>

-----------------------------------------------------------------------------
(* run(): the loop never waits for a task.                                 *)

(* Every task gets a copy of the actor, and with it of the maps: the       *)
(* window it adds its message to is its own.                               *)
TakeMessage ==
  LET m == Head(inbox).about IN
  /\ inbox # <<>> /\ Head(inbox).kind = "message"
  /\ inbox' = Tail(inbox)
  /\ task' = [task EXCEPT ![m] = [st |-> "spawned", version |-> known[SenderOf[m]],
                                  context |-> Window(recent[GroupOf[m]], m),
                                  shape |-> Head(inbox).shape, verdict |-> "drop"]]
  /\ UNCHANGED <<classifier, known, recent, sent, sensoryVars, routerVars, call>>

TakeState ==
  /\ inbox # <<>> /\ Head(inbox).kind = "state"
  /\ inbox' = Tail(inbox)
  /\ known' = [known EXCEPT ![Head(inbox).about] = Head(inbox).version]
  /\ UNCHANGED <<classifier, recent, task, sent, sensoryVars, routerVars, call>>

-----------------------------------------------------------------------------
(* handle_message().                                                       *)

others == <<classifier, inbox, known, recent, sensoryVars, routerVars>>

Decides(m, verdict) == task' = [task EXCEPT ![m].st = "decided", ![m].verdict = verdict]

(* The rules decide at once. *)
ClassifyLocally(m) ==
  /\ task[m].st = "spawned" /\ ~Asked(m)
  /\ Decides(m, Local(m))
  /\ UNCHANGED <<others, sent, call>>

AskModel(m) ==
  /\ task[m].st = "spawned" /\ Asked(m)
  /\ Request(m)
  /\ task' = [task EXCEPT ![m].st = "asking"]
  /\ UNCHANGED <<others, sent>>

(* The answer parses: "drop", "ambient_join", or anything else, which is a *)
(* personal reply.                                                         *)
ModelClassifies(m) ==
  /\ task[m].st = "asking" /\ call[m].st = "answered"
  /\ \E verdict \in Verdicts : Decides(m, verdict)
  /\ UNCHANGED <<others, sent, call>>

(* Mutant: only a failure of the transport ends the task. *)
ClassificationFailsOnTransport(m) ==
  /\ task[m].st = "asking" /\ call[m].st = "transport"
  /\ task' = [task EXCEPT ![m] = Failed]
  /\ UNCHANGED <<others, sent, call>>

(* The call failed or its answer does not parse: the task ends and nobody  *)
(* is told.                                                                *)
ClassificationFails(m) ==
  /\ task[m].st = "asking" /\ call[m].st \in {"answered", "transport", "rejected"}
  /\ task' = [task EXCEPT ![m] = Failed]
  /\ UNCHANGED <<others, sent, call>>

AfterDecision(m) == IF task[m].verdict = "drop" THEN Ended ELSE [task[m] EXCEPT !.st = "escalating"]

(* Mutant: the decision is not reported. *)
DecisionNotSent(m) ==
  /\ task[m].st = "decided" /\ (Room \/ ~routerOpen)
  /\ task' = [task EXCEPT ![m] = AfterDecision(m)]
  /\ UNCHANGED <<others, sent, call>>

(* Mutant: the channel to the router has no bound. *)
DecisionSentUnbounded(m) ==
  /\ task[m].st = "decided"
  /\ sent' = IF routerOpen THEN Append(sent, Decision(m)) ELSE sent
  /\ task' = [task EXCEPT ![m] = AfterDecision(m)]
  /\ UNCHANGED <<others, call>>

(* The decision; a closed channel is ignored.  A drop ends the task. *)
DecisionSent(m) ==
  /\ task[m].st = "decided" /\ (Room \/ ~routerOpen)
  /\ sent' = IF routerOpen THEN Append(sent, Decision(m)) ELSE sent
  /\ task' = [task EXCEPT ![m] = AfterDecision(m)]
  /\ UNCHANGED <<others, call>>

(* The escalation; a closed channel is the task's error. *)
EscalationSent(m) ==
  /\ task[m].st = "escalating" /\ (Room \/ ~routerOpen)
  /\ sent' = IF routerOpen THEN Append(sent, Escalation(m)) ELSE sent
  /\ task' = [task EXCEPT ![m] = IF routerOpen THEN Ended ELSE Failed]
  /\ UNCHANGED <<others, call>>

TaskStep(m) ==
  \/ ClassifyLocally(m) \/ AskModel(m) \/ ModelClassifies(m) \/ ClassificationFails(m)
  \/ DecisionSent(m) \/ EscalationSent(m)

CallStep(m) == ClientStep(m) /\ UNCHANGED <<gateVars, sensoryVars, routerVars>>

-----------------------------------------------------------------------------
(* The router, as the gate sees it: it takes events until it stops.        *)

RouterTakes ==
  /\ routerOpen /\ InRouter > 0
  /\ taken' = taken + 1
  /\ UNCHANGED <<gateVars, sensoryVars, routerOpen, call>>

(* The dispatcher ends; what is in its channel is gone. *)
RouterStops ==
  /\ routerOpen
  /\ routerOpen' = FALSE /\ taken' = Len(sent)
  /\ UNCHANGED <<gateVars, sensoryVars, call>>

Loop == TakeMessage \/ TakeState

GateNext ==
  \/ \E m \in Messages : SensoryForwards(m) \/ TaskStep(m) \/ CallStep(m)
  \/ SensorySendsState \/ \E u \in Users : SensoryCredits(u)
  \/ Loop \/ RouterTakes \/ RouterStops

GateSpec == GateInit /\ [][GateNext]_gateAll

(* The runtime runs the loop, every task and the dispatcher; a request is  *)
(* answered or times out (60 s).  Nothing makes a message arrive.          *)
GateFairness ==
  /\ WF_gateAll(Loop) /\ WF_gateAll(RouterTakes)
  /\ \A m \in Messages : WF_gateAll(TaskStep(m)) /\ WF_gateAll(CallStep(m))

GateFairSpec == GateSpec /\ GateFairness

-----------------------------------------------------------------------------
(* The types. *)
TypeOK ==
  /\ ClientTypeOK
  /\ classifier \in Strategies
  /\ inbox \in Seq(InboxEvents)
  /\ Len(inbox) <= InboxCapacity
  /\ Len(owed) <= 1
  /\ version \in [Users -> 0 .. MaxVersion] /\ known \in [Users -> Nat]
  /\ recent \in [Groups -> Seq(Messages)]
  /\ task \in [Messages -> {NoTask, Ended, Failed} \cup Running]
  /\ sent \in Seq(RouterEvents)
  /\ taken \in 0 .. Len(sent) /\ InRouter <= RouterCapacity
  /\ routerOpen \in BOOLEAN
  /\ arrived \in Seq(Messages) /\ stamp \in [Messages -> Nat]

(* However the tasks interleave, the router hears of a message at most one *)
(* decision and one escalation, the decision first and of the same         *)
(* verdict (handle_message, actor.rs).                                     *)
DecisionPrecedesEscalation ==
  \A i, j \in DOMAIN sent :
    /\ sent[i].msg = sent[j].msg /\ sent[i].kind = sent[j].kind => i = j
    /\ sent[j].kind = "escalation" =>
         \E k \in 1 .. j : /\ sent[k].kind = "decision" /\ sent[k].msg = sent[j].msg
                           /\ sent[k].verdict = sent[j].verdict /\ sent[k].verdict # "drop"

(* The version with which the sender's message before m came; 0 if none. *)
StampBefore(m) ==
  LET at == CHOOSE i \in DOMAIN arrived : arrived[i] = m
      earlier == {i \in 1 .. at - 1 : SenderOf[arrived[i]] = SenderOf[m]}
  IN  IF earlier = {} THEN 0
      ELSE stamp[arrived[CHOOSE i \in earlier : \A j \in earlier : j <= i]]

(* A message is judged with the state its sender had at the message        *)
(* before: sensory sends a message ahead of the state it touched, and the  *)
(* gate remembers the last one (run, actor.rs; handle_message in           *)
(* neko-sensory).  It is stale by one message, never by more, never ahead. *)
StateOneMessageOld ==
  \A i \in DOMAIN sent : sent[i].kind = "escalation" =>
    sent[i].version = StampBefore(sent[i].msg)

(* Every message the gate takes is decided or its classification fails,    *)
(* with the provider failing as often as it likes (handle_message).        *)
EventuallyClassified ==
  \A m \in Messages : task[m].st # "none" ~> task[m].st \in {"done", "failed"}

(* "Recent messages per group, used as LLM context" (actor.rs): what is    *)
(* classified comes with the messages of its group that were taken before. *)
ContextHoldsEarlierMessages ==
  \A m, n \in Messages :
    /\ Held(m) /\ Held(n) /\ GroupOf[m] = GroupOf[n] /\ m # n
    /\ ContextMessages >= Cardinality(Messages)
    => \/ \E i \in DOMAIN task[m].context : task[m].context[i] = n
       \/ \E i \in DOMAIN task[n].context : task[n].context[i] = m
=============================================================================
