----------------------------- MODULE GateProofs -----------------------------
(* Theorems of the gate, and of the client its model calls go through, and *)
(* their proofs.                                                           *)
EXTENDS Gate, SequenceTheorems, TLAPS

-----------------------------------------------------------------------------
(* The client.                                                             *)

(* A first request keeps the type of the calls. *)
LEMMA RequestTyped ==
  ASSUME ClientTypeOK, NEW c \in Calls, Request(c)
  PROVE  ClientTypeOK'
  BY RetryAssumption DEF ClientTypeOK, Request, CallStates

(* So does a step of a call. *)
LEMMA ClientTyped ==
  ASSUME ClientTypeOK, NEW c \in Calls, ClientStep(c)
  PROVE  ClientTypeOK'
<1>0. /\ call[c].st \in CallStates /\ call[c].attempt \in 0 .. MaxRetries
      /\ call[c] \in [st : CallStates, attempt : 0 .. MaxRetries]
  BY DEF ClientTypeOK
<1>1. CASE ProviderAnswers(c) \/ ProviderRejects(c) \/ BackoffOver(c)
  BY <1>1 DEF ClientTypeOK, ProviderAnswers, ProviderRejects, BackoffOver, CallStates
<1>2. CASE TransientFailure(c) /\ RetriesOver(c)
  BY <1>2 DEF ClientTypeOK, TransientFailure, CallStates
<1>3. CASE TransientFailure(c) /\ ~RetriesOver(c)
  <2>1. [st |-> "backoff", attempt |-> call[c].attempt + 1] \in [st : CallStates, attempt : 0 .. MaxRetries]
    BY <1>0, <1>3, RetryAssumption DEF RetriesOver, CallStates
  <2>2. call' = [call EXCEPT ![c] = [st |-> "backoff", attempt |-> call[c].attempt + 1]]
    BY <1>3 DEF TransientFailure
  <2>3. QED BY <2>1, <2>2 DEF ClientTypeOK
<1>4. QED BY <1>1, <1>2, <1>3 DEF ClientStep, TransientFailure

(* What a call is to its caller, when only one call takes a step. *)
LEMMA OneCallMoves ==
  ASSUME ClientTypeOK, NEW c \in Calls, NEW r, call' = [call EXCEPT ![c] = r],
         r \in [st : CallStates, attempt : 0 .. MaxRetries]
  PROVE  /\ call'[c] = r
         /\ \A d \in Calls \ {c} : Result(d)' = Result(d) /\ Requests(d)' = Requests(d)
<1>1. call'[c] = r /\ \A d \in Calls \ {c} : call'[d] = call[d]
  BY DEF ClientTypeOK
<1>2. QED BY <1>1 DEF Result, Requests, InFlight

(* A call that has not begun has made no retry. *)
UnbegunInv == \A c \in Calls : call[c].st = "none" => call[c].attempt = 0

(* A first request begins the abstract call. *)
LEMMA RequestBegins ==
  ASSUME ClientTypeOK, UnbegunInv, NEW c \in Calls, Request(c)
  PROVE  Promise!Begin(c) /\ UnbegunInv'
<1> DEFINE r == [call[c] EXCEPT !.st = "request"]
<1>1. /\ call[c] \in [st : CallStates, attempt : 0 .. MaxRetries]
      /\ call[c].st = "none" /\ call[c].attempt = 0
      /\ call' = [call EXCEPT ![c] = r]
  BY DEF ClientTypeOK, Request, UnbegunInv
<1>2. /\ r \in [st : CallStates, attempt : 0 .. MaxRetries]
      /\ r.st = "request" /\ r.attempt = 0
  BY <1>1 DEF CallStates
<1> HIDE DEF r
<1>3. /\ call'[c] = r
      /\ \A d \in Calls \ {c} : Result(d)' = Result(d) /\ Requests(d)' = Requests(d)
  BY <1>1, <1>2, OneCallMoves
<1>4. Result(c) = "none" /\ Requests(c) = 0
  BY <1>1 DEF Result, Requests, InFlight
<1>5. Result(c)' = "pending" /\ Requests(c)' = 1
  BY <1>2, <1>3 DEF Result, Requests, InFlight
<1>6. Promise!Begin(c)
  BY <1>3, <1>4, <1>5 DEF Promise!Begin
<1>7. UnbegunInv'
  BY <1>1, <1>2, <1>3 DEF UnbegunInv, ClientTypeOK
<1>8. QED BY <1>6, <1>7

(* A step of a call: it ends, its wait is over and it asks again, or, when *)
(* a transient failure makes it wait, nothing its caller could see.        *)
LEMMA ClientStepRefines ==
  ASSUME ClientTypeOK, UnbegunInv, NEW c \in Calls, ClientStep(c)
  PROVE  /\ [Promise!Next]_<<[d \in Calls |-> Result(d)], [d \in Calls |-> Requests(d)]>>
         /\ UnbegunInv'
<1>0. /\ call[c] \in [st : CallStates, attempt : 0 .. MaxRetries]
      /\ call[c].st \in CallStates /\ call[c].attempt \in 0 .. MaxRetries
      /\ call[c].st # "none"
  BY DEF ClientTypeOK, ClientStep, ProviderAnswers, ProviderRejects, TransientFailure, BackoffOver
<1>1. UnbegunInv'
  <2>1. \A d \in Calls \ {c} : call'[d] = call[d]
    BY DEF ClientTypeOK, ClientStep, ProviderAnswers, ProviderRejects, TransientFailure, BackoffOver
  <2>2. call'[c].st # "none"
    BY <1>0 DEF ClientTypeOK, ClientStep, ProviderAnswers, ProviderRejects, TransientFailure, BackoffOver
  <2>3. QED BY <2>1, <2>2 DEF UnbegunInv
<1>2. SUFFICES [Promise!Next]_<<[d \in Calls |-> Result(d)], [d \in Calls |-> Requests(d)]>>
  BY <1>1
<1>3. ASSUME NEW how \in Promise!Ends, call[c].st = "request",
             how = "transport" => RetriesOver(c), call' = [call EXCEPT ![c].st = how]
      PROVE  Promise!End(c, how)
  <2> DEFINE r == [call[c] EXCEPT !.st = how]
  <2>1. call' = [call EXCEPT ![c] = r]
    BY <1>3
  <2>2. /\ r \in [st : CallStates, attempt : 0 .. MaxRetries]
        /\ r.st = how /\ r.attempt = call[c].attempt
    BY <1>0, <1>3 DEF CallStates, Promise!Ends
  <2> HIDE DEF r
  <2>3. /\ call'[c] = r
        /\ \A d \in Calls \ {c} : Result(d)' = Result(d) /\ Requests(d)' = Requests(d)
    BY <2>1, <2>2, OneCallMoves
  <2>4. Result(c) = "pending" /\ Requests(c) = call[c].attempt + 1
    BY <1>3 DEF Result, Requests, InFlight
  <2>5. Result(c)' = how /\ Requests(c)' = call[c].attempt + 1
    BY <2>2, <2>3 DEF Promise!Ends, Result, Requests, InFlight
  <2>6. how = "transport" => Requests(c) = MaxRetries + 1
    BY <1>0, <1>3, <2>4, RetryAssumption DEF RetriesOver
  <2>7. QED BY <2>3, <2>4, <2>5, <2>6 DEF Promise!End
<1>4. CASE ProviderAnswers(c)
  <2>1. Promise!End(c, "answered")
    BY <1>3, <1>4 DEF ProviderAnswers, Promise!Ends
  <2>2. QED BY <2>1 DEF Promise!Next, Promise!End, Promise!Ends
<1>5. CASE ProviderRejects(c)
  <2>1. Promise!End(c, "rejected")
    BY <1>3, <1>5 DEF ProviderRejects, Promise!Ends
  <2>2. QED BY <2>1 DEF Promise!Next, Promise!End, Promise!Ends
<1>6. CASE TransientFailure(c) /\ RetriesOver(c)
  <2>1. Promise!End(c, "transport")
    BY <1>3, <1>6 DEF TransientFailure, Promise!Ends
  <2>2. QED BY <2>1 DEF Promise!Next, Promise!End, Promise!Ends
<1>7. CASE TransientFailure(c) /\ ~RetriesOver(c)
  <2> DEFINE r == [st |-> "backoff", attempt |-> call[c].attempt + 1]
  <2>1. call' = [call EXCEPT ![c] = r] /\ call[c].st = "request"
    BY <1>7 DEF TransientFailure
  <2>2. /\ r \in [st : CallStates, attempt : 0 .. MaxRetries]
        /\ r.st = "backoff" /\ r.attempt = call[c].attempt + 1
    BY <1>0, <1>7, RetryAssumption DEF CallStates, RetriesOver
  <2> HIDE DEF r
  <2>3. /\ call'[c] = r
        /\ \A d \in Calls \ {c} : Result(d)' = Result(d) /\ Requests(d)' = Requests(d)
    BY <2>1, <2>2, OneCallMoves
  <2>4. Result(c)' = Result(c) /\ Requests(c)' = Requests(c)
    BY <2>1, <2>2, <2>3 DEF Result, Requests, InFlight
  <2>5. QED BY <2>3, <2>4
<1>8. CASE BackoffOver(c)
  <2> DEFINE r == [call[c] EXCEPT !.st = "request"]
  <2>1. call' = [call EXCEPT ![c] = r] /\ call[c].st = "backoff"
    BY <1>8 DEF BackoffOver
  <2>2. /\ r \in [st : CallStates, attempt : 0 .. MaxRetries]
        /\ r.st = "request" /\ r.attempt = call[c].attempt
    BY <1>0 DEF CallStates
  <2> HIDE DEF r
  <2>3. /\ call'[c] = r
        /\ \A d \in Calls \ {c} : Result(d)' = Result(d) /\ Requests(d)' = Requests(d)
    BY <2>1, <2>2, OneCallMoves
  <2>4. Result(c) = "pending" /\ Result(c)' = "pending"
    BY <2>1, <2>2, <2>3 DEF Result, Requests, InFlight
  <2>5. Requests(c) = call[c].attempt /\ Requests(c)' = call[c].attempt + 1
    BY <2>1, <2>2, <2>3 DEF Result, Requests, InFlight
  <2>6. Requests(c)' = Requests(c) + 1 /\ Requests(c) < MaxRetries + 1
    BY <1>0, <2>5, RetryAssumption
  <2>7. Promise!Again(c)
    BY <2>3, <2>4, <2>6 DEF Promise!Again
  <2>8. QED BY <2>7 DEF Promise!Next, Promise!Again
<1>9. QED
  BY <1>4, <1>5, <1>6, <1>7, <1>8 DEF ClientStep, TransientFailure

-----------------------------------------------------------------------------
(* The types of the gate.                                                  *)

(* What sensory owes the gate is the state it touched. *)
OwedInv ==
  \/ owed = <<>>
  \/ \E u \in Users, v \in Nat : owed = <<StateEvent(u, v)>>

TaskRecords == {NoTask, Ended, Failed} \cup Running

(* Only a task that runs has a context, a verdict and a version. *)
LEMMA RunningTask ==
  ASSUME TypeOK, NEW m \in Messages, task[m].st \in {"spawned", "asking", "decided", "escalating"}
  PROVE  task[m] \in Running
<1>1. task[m] \in {NoTask, Ended, Failed} \cup Running
  BY DEF TypeOK
<1>2. NoTask.st = "none" /\ Ended.st = "done" /\ Failed.st = "failed"
  BY DEF NoTask, Ended, Failed
<1>3. QED BY <1>1, <1>2

(* The rules, and the escalation of everything, answer with a verdict. *)
LEMMA LocalVerdict ==
  ASSUME NEW m
  PROVE  Local(m) \in Verdicts
  BY DEF Local, ByRules, Verdicts

(* A window is a sequence of messages. *)
LEMMA WindowTyped ==
  ASSUME NEW s \in Seq(Messages), NEW m \in Messages
  PROVE  Window(s, m) \in Seq(Messages)
<1> DEFINE c == Append(s, m)
<1>1. c \in Seq(Messages) /\ c # <<>>
  BY AppendProperties
<1>2. Tail(c) \in Seq(Messages)
  BY <1>1, HeadTailProperties
<1>3. QED BY <1>1, <1>2 DEF Window

(* What a step of a task makes of it is typed. *)
LEMMA TaskChange ==
  ASSUME TypeOK, NEW m \in Messages, NEW r \in TaskRecords, task' = [task EXCEPT ![m] = r]
  PROVE  /\ task' \in [Messages -> TaskRecords]
         /\ task'[m] = r
         /\ \A n \in Messages \ {m} : task'[n] = task[n]
  BY DEF TypeOK, TaskRecords

(* A decision and what follows it, of a task that is running. *)
LEMMA TaskUpdates ==
  ASSUME TypeOK, NEW m \in Messages, task[m] \in Running
  PROVE  /\ \A v \in Verdicts : [task[m] EXCEPT !.st = "decided", !.verdict = v] \in Running
         /\ \A st \in {"asking", "escalating"} : [task[m] EXCEPT !.st = st] \in Running
         /\ AfterDecision(m) \in TaskRecords
         /\ task[m].verdict \in Verdicts /\ task[m].version \in Nat /\ task[m].shape \in Shapes
  BY DEF Running, AfterDecision, TaskRecords

(* What a task sends to the router is typed. *)
LEMMA SentTyped ==
  ASSUME TypeOK, NEW m \in Messages, task[m] \in Running
  PROVE  /\ Decision(m) \in RouterEvents
         /\ Escalation(m) \in RouterEvents
  BY TaskUpdates DEF RouterEvents, Decision, Escalation

(* The initial state is typed. *)
LEMMA TypeInit ==
  ASSUME GateInit
  PROVE  TypeOK /\ OwedInv /\ UnbegunInv
<1>1. classifier \in Strategies
  BY DEF GateInit, StrategyOf, Strategies
<1>2. ClientTypeOK /\ UnbegunInv
  BY RetryAssumption DEF GateInit, ClientInit, ClientTypeOK, CallStates, UnbegunInv
<1>3. inbox = <<>> /\ sent = <<>> /\ owed = <<>> /\ arrived = <<>> /\ taken = 0
  BY DEF GateInit
<1>4. /\ inbox \in Seq(InboxEvents) /\ sent \in Seq(RouterEvents) /\ arrived \in Seq(Messages)
      /\ Len(inbox) <= InboxCapacity /\ Len(owed) <= 1 /\ taken \in 0 .. Len(sent)
      /\ InRouter <= RouterCapacity
  BY <1>3, GateSizeAssumption DEF InRouter
<1>5. recent \in [Groups -> Seq(Messages)]
  BY DEF GateInit
<1>6. /\ version \in [Users -> 0 .. MaxVersion] /\ known \in [Users -> Nat]
      /\ stamp \in [Messages -> Nat] /\ routerOpen \in BOOLEAN
      /\ task \in [Messages -> {NoTask, Ended, Failed} \cup Running]
  BY GateSizeAssumption DEF GateInit
<1>7. QED BY <1>1, <1>2, <1>3, <1>4, <1>5, <1>6 DEF TypeOK, OwedInv

(* Sensory's steps keep the types. *)
LEMMA SensoryTyped ==
  ASSUME TypeOK, OwedInv,
         \/ \E m \in Messages : SensoryForwards(m)
         \/ SensorySendsState
         \/ \E u \in Users : SensoryCredits(u)
  PROVE  TypeOK' /\ OwedInv'
<1>0. /\ inbox \in Seq(InboxEvents) /\ arrived \in Seq(Messages) /\ stamp \in [Messages -> Nat]
      /\ version \in [Users -> 0 .. MaxVersion] /\ Len(inbox) \in Nat
  BY DEF TypeOK
<1>1. ASSUME NEW m \in Messages, SensoryForwards(m)
      PROVE  TypeOK' /\ OwedInv'
  <2> DEFINE u == SenderOf[m]
  <2>1. u \in Users
    BY MessageAssumption
  <2>2. version[u] + 1 \in 0 .. MaxVersion /\ version[u] + 1 \in Nat
    BY <1>0, <1>1, <2>1, GateSizeAssumption DEF SensoryForwards
  <2>3. PICK s \in Shapes : inbox' = Append(inbox, MessageEvent(m, s))
    BY <1>1 DEF SensoryForwards
  <2>4. MessageEvent(m, s) \in InboxEvents
    BY DEF MessageEvent, InboxEvents
  <2>5. inbox' \in Seq(InboxEvents) /\ Len(inbox') = Len(inbox) + 1
    BY <1>0, <2>3, <2>4, AppendProperties
  <2>6. Len(inbox') <= InboxCapacity
    BY <1>0, <1>1, <2>5, GateSizeAssumption DEF SensoryForwards
  <2>7. arrived' \in Seq(Messages)
    BY <1>0, <1>1, AppendProperties DEF SensoryForwards
  <2>8. /\ version' \in [Users -> 0 .. MaxVersion] /\ stamp' \in [Messages -> Nat]
        /\ owed' = <<StateEvent(u, version[u] + 1)>>
    BY <1>0, <1>1, <2>1, <2>2 DEF SensoryForwards
  <2>9. Len(owed') <= 1 /\ OwedInv'
    BY <2>1, <2>2, <2>8 DEF OwedInv, StateEvent
  <2>10. QED
    BY <1>1, <2>5, <2>6, <2>7, <2>8, <2>9
    DEF TypeOK, SensoryForwards, routerVars, ClientTypeOK, InRouter
<1>2. CASE SensorySendsState
  <2>1. PICK u \in Users, v \in Nat : owed = <<StateEvent(u, v)>>
    BY <1>2 DEF SensorySendsState, OwedInv
  <2>2. Head(owed) = StateEvent(u, v) /\ StateEvent(u, v) \in InboxEvents
    BY <2>1 DEF StateEvent, InboxEvents
  <2>3. inbox' \in Seq(InboxEvents) /\ Len(inbox') = Len(inbox) + 1
    BY <1>0, <1>2, <2>2, AppendProperties DEF SensorySendsState
  <2>4. Len(inbox') <= InboxCapacity
    BY <1>0, <1>2, <2>3, GateSizeAssumption DEF SensorySendsState
  <2>5. QED
    BY <1>2, <2>3, <2>4 DEF TypeOK, OwedInv, SensorySendsState, routerVars, ClientTypeOK, InRouter
<1>3. ASSUME NEW u \in Users, SensoryCredits(u)
      PROVE  TypeOK' /\ OwedInv'
  <2>1. version' \in [Users -> 0 .. MaxVersion]
    BY <1>0, <1>3, GateSizeAssumption DEF SensoryCredits
  <2>2. QED
    BY <1>3, <2>1 DEF TypeOK, OwedInv, SensoryCredits, routerVars, gateVars, ClientTypeOK, InRouter
<1>4. QED BY <1>1, <1>2, <1>3

(* So do the loop's. *)
LEMMA LoopTyped ==
  ASSUME TypeOK, OwedInv, Loop
  PROVE  TypeOK' /\ OwedInv'
<1>0. inbox # <<>>
  BY DEF Loop, TakeMessage, TakeState
<1>1. /\ Head(inbox) \in InboxEvents /\ Tail(inbox) \in Seq(InboxEvents)
      /\ Len(Tail(inbox)) = Len(inbox) - 1 /\ Len(inbox) \in Nat
  BY <1>0, HeadTailProperties DEF TypeOK
<1>2. inbox' \in Seq(InboxEvents) /\ Len(inbox') <= InboxCapacity
  <2>1. inbox' = Tail(inbox)
    BY DEF Loop, TakeMessage, TakeState
  <2>2. Len(inbox) <= InboxCapacity
    BY DEF TypeOK
  <2>3. QED BY <1>1, <2>1, <2>2, GateSizeAssumption
<1>3. CASE TakeMessage
  <2> DEFINE m == Head(inbox).about
             r == [st |-> "spawned", version |-> known[SenderOf[m]],
                   context |-> Window(recent[GroupOf[m]], m),
                   shape |-> Head(inbox).shape, verdict |-> "drop"]
  <2>1. m \in Messages /\ Head(inbox).shape \in Shapes
    BY <1>1, <1>3 DEF InboxEvents, TakeMessage
  <2>2. SenderOf[m] \in Users /\ GroupOf[m] \in Groups
    BY <2>1, MessageAssumption
  <2>3. known[SenderOf[m]] \in Nat /\ recent[GroupOf[m]] \in Seq(Messages)
    BY <2>2 DEF TypeOK
  <2>4. Window(recent[GroupOf[m]], m) \in Seq(Messages)
    BY <2>1, <2>3, WindowTyped
  <2>5. r \in Running
    BY <2>1, <2>3, <2>4 DEF Running, Verdicts
  <2>6. task' = [task EXCEPT ![m] = r]
    BY <1>3 DEF TakeMessage
  <2> HIDE DEF r, m
  <2>7. task' \in [Messages -> TaskRecords]
    BY <2>1, <2>5, <2>6, TaskChange DEF TaskRecords
  <2>8. QED
    BY <1>2, <1>3, <2>7
    DEF TypeOK, OwedInv, TakeMessage, TaskRecords, sensoryVars, routerVars, ClientTypeOK, InRouter
<1>4. CASE TakeState
  <2>1. known' \in [Users -> Nat]
    BY <1>1, <1>4 DEF InboxEvents, TakeState, TypeOK
  <2>2. QED
    BY <1>2, <1>4, <2>1
    DEF TypeOK, OwedInv, TakeState, sensoryVars, routerVars, ClientTypeOK, InRouter
<1>5. QED BY <1>3, <1>4 DEF Loop

(* So do the tasks'. *)
LEMMA TaskTyped ==
  ASSUME TypeOK, OwedInv, NEW m \in Messages, TaskStep(m)
  PROVE  TypeOK' /\ OwedInv'
<1>0. /\ task[m].st \in {"spawned", "asking", "decided", "escalating"}
      /\ UNCHANGED others
  BY DEF TaskStep, ClassifyLocally, AskModel, ModelClassifies, ClassificationFails,
         DecisionSent, EscalationSent
<1>1. task[m] \in Running
  BY <1>0, RunningTask
<1>2. ASSUME NEW r \in TaskRecords, task' = [task EXCEPT ![m] = r], UNCHANGED <<sent, call>>
      PROVE  TypeOK' /\ OwedInv'
  <2>1. task' \in [Messages -> TaskRecords]
    BY <1>2, TaskChange
  <2>2. QED
    BY <1>0, <1>2, <2>1
    DEF TypeOK, OwedInv, others, TaskRecords, sensoryVars, routerVars, ClientTypeOK, InRouter
<1>3. CASE ClassifyLocally(m)
  <2>1. [task[m] EXCEPT !.st = "decided", !.verdict = Local(m)] \in TaskRecords
    BY <1>1, TaskUpdates, LocalVerdict DEF TaskRecords
  <2>2. QED BY <1>2, <1>3, <2>1 DEF ClassifyLocally, Decides
<1>4. CASE AskModel(m)
  <2>1. [task[m] EXCEPT !.st = "asking"] \in TaskRecords
    BY <1>1, TaskUpdates DEF TaskRecords
  <2>2. task' \in [Messages -> TaskRecords]
    BY <1>4, <2>1, TaskChange DEF AskModel
  <2>3. ClientTypeOK'
    BY <1>4, RequestTyped DEF AskModel, Messages, TypeOK
  <2>4. QED
    BY <1>0, <1>4, <2>2, <2>3
    DEF TypeOK, OwedInv, AskModel, others, TaskRecords, sensoryVars, routerVars, InRouter
<1>5. CASE ModelClassifies(m)
  <2>1. PICK v \in Verdicts : Decides(m, v)
    BY <1>5 DEF ModelClassifies
  <2>2. [task[m] EXCEPT !.st = "decided", !.verdict = v] \in TaskRecords
    BY <1>1, TaskUpdates DEF TaskRecords
  <2>3. QED BY <1>2, <1>5, <2>1, <2>2 DEF ModelClassifies, Decides
<1>6. CASE ClassificationFails(m)
  BY <1>2, <1>6 DEF ClassificationFails, TaskRecords
<1>7. ASSUME NEW e \in RouterEvents, NEW r \in TaskRecords, Room \/ ~routerOpen,
             sent' = IF routerOpen THEN Append(sent, e) ELSE sent,
             task' = [task EXCEPT ![m] = r], UNCHANGED call
      PROVE  TypeOK' /\ OwedInv'
  <2>1. task' \in [Messages -> TaskRecords]
    BY <1>7, TaskChange
  <2>2. /\ sent \in Seq(RouterEvents) /\ Len(sent) \in Nat
        /\ taken \in 0 .. Len(sent) /\ InRouter <= RouterCapacity
    BY DEF TypeOK
  <2>3. /\ sent' \in Seq(RouterEvents) /\ taken' \in 0 .. Len(sent') /\ InRouter' <= RouterCapacity
    <3>1. taken' = taken
      BY <1>0 DEF others, routerVars
    <3>2. CASE routerOpen
      <4>1. sent' \in Seq(RouterEvents) /\ Len(sent') = Len(sent) + 1
        BY <1>7, <2>2, <3>2, AppendProperties
      <4>2. QED BY <1>7, <2>2, <3>1, <3>2, <4>1, GateSizeAssumption DEF Room, InRouter
    <3>3. CASE ~routerOpen
      BY <1>7, <2>2, <3>1, <3>3 DEF InRouter
    <3>4. QED BY <3>2, <3>3
  <2>4. QED
    BY <1>0, <1>7, <2>1, <2>3
    DEF TypeOK, OwedInv, others, TaskRecords, sensoryVars, routerVars, ClientTypeOK
<1>8. CASE DecisionSent(m)
  <2>1. Decision(m) \in RouterEvents /\ AfterDecision(m) \in TaskRecords
    BY <1>1, SentTyped, TaskUpdates
  <2>2. QED BY <1>0, <1>7, <1>8, <2>1 DEF DecisionSent
<1>9. CASE EscalationSent(m)
  <2>1. /\ Escalation(m) \in RouterEvents
        /\ (IF routerOpen THEN Ended ELSE Failed) \in TaskRecords
    BY <1>1, SentTyped DEF TaskRecords
  <2>2. QED BY <1>7, <1>9, <2>1 DEF EscalationSent
<1>10. QED BY <1>3, <1>4, <1>5, <1>6, <1>8, <1>9 DEF TaskStep

(* Every step keeps the types. *)
LEMMA TypeStep ==
  ASSUME TypeOK, OwedInv, [GateNext]_gateAll
  PROVE  TypeOK' /\ OwedInv'
<1>1. CASE UNCHANGED gateAll
  BY <1>1 DEF gateAll, gateVars, sensoryVars, routerVars, TypeOK, OwedInv, ClientTypeOK, InRouter
<1>2. ASSUME NEW m \in Messages, CallStep(m)
      PROVE  TypeOK' /\ OwedInv'
  <2>1. ClientTypeOK'
    BY <1>2, ClientTyped DEF CallStep, Messages, TypeOK
  <2>2. QED
    BY <1>2, <2>1 DEF CallStep, gateVars, sensoryVars, routerVars, TypeOK, OwedInv, InRouter
<1>3. CASE RouterTakes \/ RouterStops
  <2>1. /\ sent' = sent /\ Len(sent) \in Nat /\ taken \in 0 .. Len(sent)
        /\ InRouter <= RouterCapacity
    BY <1>3 DEF RouterTakes, RouterStops, gateVars, TypeOK
  <2>2. taken' \in 0 .. Len(sent') /\ InRouter' <= RouterCapacity /\ routerOpen' \in BOOLEAN
    <3>1. CASE RouterTakes
      BY <2>1, <3>1, GateSizeAssumption DEF RouterTakes, InRouter, TypeOK
    <3>2. CASE RouterStops
      <4>1. taken' = Len(sent) /\ routerOpen' = FALSE
        BY <3>2 DEF RouterStops
      <4>2. InRouter' = 0
        BY <2>1, <4>1 DEF InRouter
      <4>3. taken' \in 0 .. Len(sent') /\ InRouter' <= RouterCapacity
        BY <2>1, <4>1, <4>2, GateSizeAssumption
      <4>4. QED BY <4>1, <4>3
    <3>3. QED BY <1>3, <3>1, <3>2
  <2>3. QED
    BY <1>3, <2>2
    DEF RouterTakes, RouterStops, gateVars, sensoryVars, TypeOK, OwedInv, ClientTypeOK
<1>4. QED
  BY <1>1, <1>2, <1>3, SensoryTyped, LoopTyped, TaskTyped DEF GateNext

(* Every channel, task and call of the gate stays what it is, and neither  *)
(* channel holds more than its capacity (run and handle_message, actor.rs).*)
THEOREM TypeCorrect == GateSpec => []TypeOK
<1>1. GateInit => TypeOK /\ OwedInv
  BY TypeInit
<1>2. TypeOK /\ OwedInv /\ [GateNext]_gateAll => TypeOK' /\ OwedInv'
  BY TypeStep
<1>3. QED BY <1>1, <1>2, PTL DEF GateSpec

-----------------------------------------------------------------------------
(* The calls of the gate's tasks, as ModelCall sees them.                  *)

callView == <<[c \in Calls |-> Result(c)], [c \in Calls |-> Requests(c)]>>

(* At first no call has begun. *)
LEMMA CallInit ==
  ASSUME GateInit
  PROVE  Promise!Init
  BY DEF GateInit, ClientInit, Promise!Init, Result, Requests, InFlight

(* A task's request begins its call, a step of its call is one of          *)
(* ModelCall or a wait nobody sees, and nothing else touches a call.       *)
LEMMA CallStepRefines ==
  ASSUME TypeOK, UnbegunInv, [GateNext]_gateAll
  PROVE  [Promise!Next]_callView /\ UnbegunInv'
<1>0. ClientTypeOK
  BY DEF TypeOK
<1>1. CASE UNCHANGED call
  <2>1. UnbegunInv'
    BY <1>1 DEF UnbegunInv
  <2>2. \A c \in Calls : Result(c)' = Result(c) /\ Requests(c)' = Requests(c)
    BY <1>1 DEF Result, Requests, InFlight
  <2>3. QED BY <2>1, <2>2 DEF callView
<1>2. ASSUME NEW m \in Messages, Request(m)
      PROVE  [Promise!Next]_callView /\ UnbegunInv'
  <2>1. m \in Calls
    BY DEF Messages
  <2>2. Promise!Begin(m) /\ UnbegunInv'
    BY <1>0, <1>2, <2>1, RequestBegins
  <2>3. Promise!Next
    BY <2>1, <2>2 DEF Promise!Next, Promise!Begin
  <2>4. QED BY <2>2, <2>3
<1>3. ASSUME NEW m \in Messages, ClientStep(m)
      PROVE  [Promise!Next]_callView /\ UnbegunInv'
  BY <1>0, <1>3, ClientStepRefines DEF callView, Messages
<1>4. UNCHANGED call \/ \E m \in Messages : Request(m) \/ ClientStep(m)
  <2>1. CASE UNCHANGED gateAll
    BY <2>1 DEF gateAll
  <2>2. ASSUME NEW m \in Messages, SensoryForwards(m) \/ TaskStep(m) \/ CallStep(m)
        PROVE  UNCHANGED call \/ Request(m) \/ ClientStep(m)
    BY <2>2 DEF SensoryForwards, TaskStep, CallStep, ClassifyLocally, AskModel, ModelClassifies,
                ClassificationFails, DecisionSent, EscalationSent
  <2>3. CASE \/ SensorySendsState \/ \E u \in Users : SensoryCredits(u)
             \/ Loop \/ RouterTakes \/ RouterStops
    BY <2>3 DEF SensorySendsState, SensoryCredits, Loop, TakeMessage, TakeState, RouterTakes,
                RouterStops
  <2>4. QED BY <2>1, <2>2, <2>3 DEF GateNext
<1>5. QED BY <1>1, <1>2, <1>3, <1>4

(* Whatever the provider does, a call of the gate sends at most            *)
(* max_retries + 1 requests and blames the transport only after all of     *)
(* them: the initial states and the steps of the client are those of       *)
(* ModelCall (complete and try_complete_once, openai.rs).  That a call     *)
(* ends, the other half of ImplementsModelCall, needs fairness.            *)
THEOREM CallsKeepTheirBudget == GateSpec => Promise!Init /\ [][Promise!Next]_callView
<1>1. GateInit => Promise!Init /\ TypeOK /\ OwedInv /\ UnbegunInv
  BY CallInit, TypeInit
<1>2. TypeOK /\ OwedInv /\ UnbegunInv /\ [GateNext]_gateAll
        => /\ [Promise!Next]_callView
           /\ TypeOK' /\ OwedInv' /\ UnbegunInv'
  BY CallStepRefines, TypeStep
<1>3. QED BY <1>1, <1>2, PTL DEF GateSpec

-----------------------------------------------------------------------------
(* What comes to the gate: of every message sensory forwarded, in order,   *)
(* the message and then the state it touched.                              *)

(* The events on their way to the gate. *)
Waiting == Len(inbox) + Len(owed)

(* Where the k-th arrival's state is in the inbox; its message is one      *)
(* place ahead.  Not positive when the gate has taken it.                  *)
Place(k) == Waiting - 2 * (Len(arrived) - k)

StateOf(k) == StateEvent(SenderOf[arrived[k]], stamp[arrived[k]])

ArrivedOnce == \A i, j \in DOMAIN arrived : arrived[i] = arrived[j] => i = j

StreamInv ==
  /\ Waiting <= 2 * Len(arrived)
  /\ \A k \in DOMAIN arrived :
       /\ Place(k) \in DOMAIN inbox => inbox[Place(k)] = StateOf(k)
       /\ Place(k) - 1 \in DOMAIN inbox =>
            inbox[Place(k) - 1].kind = "message" /\ inbox[Place(k) - 1].about = arrived[k]
  /\ owed # <<>> => owed[1] = StateOf(Len(arrived))

(* Only a message that arrived has a task, and only when the gate took it. *)
UntakenInv ==
  /\ \A m \in Messages : task[m].st # "none" => \E k \in DOMAIN arrived : arrived[k] = m
  /\ \A k \in DOMAIN arrived : Place(k) >= 2 => task[arrived[k]].st = "none"

(* Lengths, and what is owed. *)
LEMMA Lengths ==
  ASSUME TypeOK, OwedInv
  PROVE  /\ Len(inbox) \in Nat /\ DOMAIN inbox = 1 .. Len(inbox)
         /\ Len(arrived) \in Nat /\ DOMAIN arrived = 1 .. Len(arrived)
         /\ \A k \in DOMAIN arrived : arrived[k] \in Messages
         /\ Len(owed) \in {0, 1} /\ (owed = <<>> <=> Len(owed) = 0)
         /\ Waiting \in Nat
         /\ \A k \in DOMAIN arrived : Place(k) \in Int
<1>1. /\ Len(inbox) \in Nat /\ DOMAIN inbox = 1 .. Len(inbox)
      /\ Len(arrived) \in Nat /\ DOMAIN arrived = 1 .. Len(arrived)
      /\ \A k \in DOMAIN arrived : arrived[k] \in Messages
  BY DEF TypeOK
<1>2. Len(owed) \in {0, 1} /\ (owed = <<>> <=> Len(owed) = 0)
  BY DEF OwedInv
<1>3. QED BY <1>1, <1>2 DEF Waiting, Place

(* Odd or even. *)
LEMMA Halves ==
  ASSUME NEW w \in Nat, w >= 1
  PROVE  \E q \in Nat : w = 2 * q + 1 \/ w = 2 * q + 2
<1> DEFINE q == (w - 1) \div 2
<1>1. q \in Nat /\ (w = 2 * q + 1 \/ w = 2 * q + 2)
  OBVIOUS
<1>2. QED BY <1>1

(* The head of the inbox is the message or the state of an arrival. *)
LEMMA HeadOfStream ==
  ASSUME TypeOK, OwedInv, StreamInv, inbox # <<>>
  PROVE  /\ Head(inbox).kind = "message" => \E k \in DOMAIN arrived :
              Place(k) = 2 /\ Head(inbox).about = arrived[k]
         /\ Head(inbox).kind = "state" => \E k \in DOMAIN arrived :
              Place(k) = 1 /\ Head(inbox) = StateOf(k)
<1> USE Lengths
<1>1. Head(inbox) = inbox[1] /\ 1 \in DOMAIN inbox /\ Waiting >= 1
  BY DEF Waiting, TypeOK
<1>2. PICK q \in Nat : Waiting = 2 * q + 1 \/ Waiting = 2 * q + 2
  BY <1>1, Halves
<1> DEFINE k == Len(arrived) - q
<1>3. k \in DOMAIN arrived
  BY <1>2 DEF StreamInv
<1>4. Place(k) = Waiting - 2 * q
  BY <1>2, <1>3 DEF Place
<1>5. Place(k) = 1 \/ Place(k) = 2
  BY <1>2, <1>4
<1> HIDE DEF k
<1>6. CASE Place(k) = 1
  <2>1. inbox[1] = StateOf(k)
    BY <1>1, <1>3, <1>6 DEF StreamInv
  <2>2. Head(inbox).kind = "state"
    BY <1>1, <2>1 DEF StateOf, StateEvent
  <2>3. QED BY <1>1, <1>3, <1>6, <2>1, <2>2
<1>7. CASE Place(k) = 2
  <2>1. inbox[1].kind = "message" /\ inbox[1].about = arrived[k]
    BY <1>1, <1>3, <1>7 DEF StreamInv
  <2>2. QED BY <1>1, <1>3, <1>7, <2>1
<1>8. QED BY <1>5, <1>6, <1>7

(* What taking its head leaves in the inbox. *)
LEMMA HeadTaken ==
  ASSUME TypeOK, inbox # <<>>, inbox' = Tail(inbox)
  PROVE  /\ Len(inbox') = Len(inbox) - 1
         /\ \A i \in DOMAIN inbox' : i + 1 \in DOMAIN inbox /\ inbox'[i] = inbox[i + 1]
<1>1. inbox \in Seq(InboxEvents)
  BY DEF TypeOK
<1>2. Len(Tail(inbox)) = Len(inbox) - 1 /\ Tail(inbox) \in Seq(InboxEvents)
  BY <1>1, HeadTailProperties
<1>3. \A i \in 1 .. Len(Tail(inbox)) : Tail(inbox)[i] = inbox[i + 1]
  BY <1>1, HeadTailProperties
<1>4. QED BY <1>1, <1>2, <1>3

(* Sensory's steps keep the stream. *)
LEMMA ForwardKeepsStream ==
  ASSUME TypeOK, OwedInv, TypeOK', OwedInv', ArrivedOnce, StreamInv, UntakenInv,
         NEW m \in Messages, SensoryForwards(m)
  PROVE  /\ ArrivedOnce' /\ StreamInv' /\ UntakenInv'
         /\ Waiting' = Waiting + 2 /\ Len(arrived') = Len(arrived) + 1
         /\ \A k \in DOMAIN arrived : arrived'[k] = arrived[k] /\ stamp'[arrived[k]] = stamp[arrived[k]]
         /\ arrived'[Len(arrived) + 1] = m
<1> USE Lengths
<1>0. PICK n \in Nat : n = Len(arrived)
  OBVIOUS
<1>1. PICK s \in Shapes : inbox' = Append(inbox, MessageEvent(m, s))
  BY DEF SensoryForwards
<1>2. /\ owed = <<>> /\ owed' = <<StateEvent(SenderOf[m], version[SenderOf[m]] + 1)>>
      /\ arrived' = Append(arrived, m) /\ \A i \in DOMAIN arrived : arrived[i] # m
      /\ stamp' = [stamp EXCEPT ![m] = version[SenderOf[m]] + 1]
      /\ task' = task
  BY DEF SensoryForwards
<1>3. /\ Len(inbox') = Len(inbox) + 1 /\ DOMAIN inbox' = 1 .. Len(inbox) + 1
      /\ \A i \in DOMAIN inbox : inbox'[i] = inbox[i]
      /\ inbox'[Len(inbox) + 1] = MessageEvent(m, s)
  <2>1. inbox \in Seq(InboxEvents) /\ MessageEvent(m, s) \in InboxEvents
    BY DEF TypeOK, MessageEvent, InboxEvents
  <2>2. QED BY <1>1, <2>1, AppendProperties
<1>4. /\ Len(arrived') = n + 1 /\ DOMAIN arrived' = 1 .. n + 1
      /\ \A k \in DOMAIN arrived : arrived'[k] = arrived[k]
      /\ arrived'[n + 1] = m
  <2>1. arrived \in Seq(Messages)
    BY DEF TypeOK
  <2>2. QED BY <1>0, <1>2, <2>1, AppendProperties
<1>5. Waiting' = Waiting + 2 /\ Waiting = Len(inbox)
  BY <1>2, <1>3 DEF Waiting
<1>6. /\ \A k \in DOMAIN arrived : Place(k)' = Place(k)
      /\ Place(n + 1)' = Len(inbox) + 2
  <2>1. ASSUME NEW k \in 1 .. n + 1
        PROVE  Place(k)' = Len(inbox) + 2 - 2 * (n + 1 - k)
    BY <1>4, <1>5 DEF Place
  <2>2. ASSUME NEW k \in 1 .. n
        PROVE  Place(k) = Len(inbox) - 2 * (n - k)
    BY <1>0, <1>5 DEF Place
  <2>3. \A k \in 1 .. n : Len(inbox) + 2 - 2 * (n + 1 - k) = Len(inbox) - 2 * (n - k)
    OBVIOUS
  <2>4. Len(inbox) + 2 - 2 * (n + 1 - (n + 1)) = Len(inbox) + 2 /\ n + 1 \in 1 .. n + 1
    OBVIOUS
  <2>5. QED BY <1>0, <2>1, <2>2, <2>3, <2>4
<1>7. /\ stamp'[m] = version[SenderOf[m]] + 1
      /\ \A k \in DOMAIN arrived : stamp'[arrived[k]] = stamp[arrived[k]]
  <2>1. stamp \in [Messages -> Nat]
    BY DEF TypeOK
  <2>2. QED BY <1>2, <2>1
<1>8. ArrivedOnce'
  BY <1>0, <1>2, <1>4 DEF ArrivedOnce
<1>9. StreamInv'
  <2>1. Waiting' <= 2 * Len(arrived')
    BY <1>0, <1>4, <1>5 DEF StreamInv
  <2>2. ASSUME NEW k \in DOMAIN arrived
        PROVE  /\ Place(k)' \in DOMAIN inbox' => inbox'[Place(k)'] = StateOf(k)'
               /\ Place(k)' - 1 \in DOMAIN inbox' =>
                    inbox'[Place(k)' - 1].kind = "message" /\ inbox'[Place(k)' - 1].about = arrived'[k]
    <3>1. Place(k) <= Len(inbox)
      BY <1>0, <1>5 DEF Place
    <3>2. StateOf(k)' = StateOf(k) /\ arrived'[k] = arrived[k]
      BY <1>4, <1>7 DEF StateOf
    <3>3. \A p \in {Place(k), Place(k) - 1} :
            p \in DOMAIN inbox' => p \in DOMAIN inbox /\ inbox'[p] = inbox[p]
      BY <1>3, <3>1
    <3>4. QED BY <1>6, <3>2, <3>3 DEF StreamInv
  <2>3. /\ Place(n + 1)' \notin DOMAIN inbox'
        /\ inbox'[Place(n + 1)' - 1] = MessageEvent(m, s) /\ arrived'[n + 1] = m
    <3>1. Place(n + 1)' - 1 = Len(inbox) + 1
      BY <1>6
    <3>2. QED BY <1>3, <1>4, <1>6, <3>1
  <2>4. owed'[1] = StateOf(n + 1)'
    BY <1>2, <1>4, <1>7 DEF StateOf
  <2>5. QED
    BY <1>0, <1>4, <2>1, <2>2, <2>3, <2>4 DEF StreamInv, MessageEvent
<1>10. UntakenInv'
  <2>1. task[m].st = "none"
    BY <1>2 DEF UntakenInv
  <2>2. QED BY <1>0, <1>2, <1>4, <1>6, <2>1 DEF UntakenInv
<1>11. QED BY <1>0, <1>4, <1>5, <1>7, <1>8, <1>9, <1>10

LEMMA StateKeepsStream ==
  ASSUME TypeOK, OwedInv, TypeOK', OwedInv', StreamInv, UntakenInv, SensorySendsState
  PROVE  StreamInv' /\ UntakenInv' /\ Waiting' = Waiting
<1> USE Lengths
<1>1. /\ owed # <<>> /\ owed' = <<>> /\ inbox' = Append(inbox, Head(owed))
      /\ UNCHANGED <<arrived, stamp, task>>
  BY DEF SensorySendsState
<1>2. Len(owed) = 1 /\ Len(owed') = 0 /\ Head(owed) = owed[1] /\ Head(owed) \in InboxEvents
  BY <1>1 DEF OwedInv, StateEvent, InboxEvents
<1>3. /\ Len(inbox') = Len(inbox) + 1 /\ DOMAIN inbox' = 1 .. Len(inbox) + 1
      /\ \A i \in DOMAIN inbox : inbox'[i] = inbox[i]
      /\ inbox'[Len(inbox) + 1] = owed[1]
  <2>1. inbox \in Seq(InboxEvents)
    BY DEF TypeOK
  <2>2. QED BY <1>1, <1>2, <2>1, AppendProperties
<1>4. Waiting' = Waiting /\ Waiting = Len(inbox) + 1
  BY <1>2, <1>3 DEF Waiting
<1>5. \A k \in DOMAIN arrived : Place(k)' = Place(k) /\ StateOf(k)' = StateOf(k)
  BY <1>1, <1>4 DEF Place, StateOf
<1>6. UntakenInv'
  BY <1>1, <1>5 DEF UntakenInv
<1>7. ASSUME NEW k \in DOMAIN arrived
      PROVE  /\ Place(k)' \in DOMAIN inbox' => inbox'[Place(k)'] = StateOf(k)'
             /\ Place(k)' - 1 \in DOMAIN inbox' =>
                  inbox'[Place(k)' - 1].kind = "message" /\ inbox'[Place(k)' - 1].about = arrived'[k]
  <2>1. Place(k) <= Len(inbox) + 1 /\ (Place(k) = Len(inbox) + 1 => k = Len(arrived))
    BY <1>4 DEF Place
  <2>2. CASE Place(k) = Len(inbox) + 1
    <3>1. inbox'[Place(k)] = StateOf(k)
      BY <1>1, <1>3, <2>1, <2>2 DEF StreamInv
    <3>2. Place(k) - 1 \in DOMAIN inbox' => Place(k) - 1 \in DOMAIN inbox /\ inbox'[Place(k) - 1] = inbox[Place(k) - 1]
      BY <1>3, <2>2
    <3>3. QED BY <1>1, <1>5, <3>1, <3>2 DEF StreamInv
  <2>3. CASE Place(k) # Len(inbox) + 1
    <3>1. \A p \in {Place(k), Place(k) - 1} :
            p \in DOMAIN inbox' => p \in DOMAIN inbox /\ inbox'[p] = inbox[p]
      BY <1>3, <2>1, <2>3
    <3>2. QED BY <1>1, <1>5, <3>1 DEF StreamInv
  <2>4. QED BY <2>2, <2>3
<1>8. QED BY <1>1, <1>4, <1>6, <1>7 DEF StreamInv

(* So does taking an event. *)
LEMMA TakingKeepsStream ==
  ASSUME TypeOK, OwedInv, TypeOK', OwedInv', StreamInv, inbox # <<>>, inbox' = Tail(inbox),
         UNCHANGED <<owed, arrived, stamp>>
  PROVE  /\ StreamInv' /\ Waiting' = Waiting - 1
         /\ \A k \in DOMAIN arrived : Place(k)' = Place(k) - 1
<1> USE Lengths
<1>1. /\ Len(inbox') = Len(inbox) - 1
      /\ \A i \in DOMAIN inbox' : i + 1 \in DOMAIN inbox /\ inbox'[i] = inbox[i + 1]
  BY HeadTaken
<1>2. Waiting' = Waiting - 1
  BY <1>1 DEF Waiting
<1>3. \A k \in DOMAIN arrived : Place(k)' = Place(k) - 1 /\ StateOf(k)' = StateOf(k)
  BY <1>2 DEF Place, StateOf
<1>4. ASSUME NEW k \in DOMAIN arrived
      PROVE  /\ Place(k)' \in DOMAIN inbox' => inbox'[Place(k)'] = StateOf(k)'
             /\ Place(k)' - 1 \in DOMAIN inbox' =>
                  inbox'[Place(k)' - 1].kind = "message" /\ inbox'[Place(k)' - 1].about = arrived'[k]
  <2>1. Place(k) \in Int
    OBVIOUS
  <2>2. \A p \in Int : p - 1 + 1 = p /\ p - 2 + 1 = p - 1 /\ p - 1 - 1 = p - 2
    OBVIOUS
  <2>3. /\ Place(k)' = Place(k) - 1 /\ StateOf(k)' = StateOf(k)
        /\ Place(k) - 1 + 1 = Place(k) /\ Place(k) - 2 + 1 = Place(k) - 1
        /\ Place(k) - 1 - 1 = Place(k) - 2
    BY <1>3, <2>1, <2>2
  <2>4. Place(k) - 1 \in DOMAIN inbox' => inbox'[Place(k) - 1] = StateOf(k)
    BY <1>1, <2>3 DEF StreamInv
  <2>5. Place(k) - 2 \in DOMAIN inbox' =>
          inbox'[Place(k) - 2].kind = "message" /\ inbox'[Place(k) - 2].about = arrived[k]
    BY <1>1, <2>3 DEF StreamInv
  <2>6. QED BY <2>3, <2>4, <2>5
<1>5. owed' # <<>> => owed'[1] = StateOf(Len(arrived))'
  BY DEF StreamInv, StateOf
<1>6. Waiting' <= 2 * Len(arrived')
  BY <1>2 DEF StreamInv
<1>7. QED BY <1>2, <1>3, <1>4, <1>5, <1>6 DEF StreamInv

(* The message the loop takes is one that has no task yet. *)
LEMMA TakenMessage ==
  ASSUME TypeOK, OwedInv, TypeOK', OwedInv', ArrivedOnce, StreamInv, UntakenInv, TakeMessage
  PROVE  /\ ArrivedOnce' /\ StreamInv' /\ UntakenInv' /\ Waiting' = Waiting - 1
         /\ \E k \in DOMAIN arrived :
              /\ Place(k) = 2 /\ Head(inbox).about = arrived[k] /\ task[arrived[k]].st = "none"
<1> USE Lengths
<1>1. /\ inbox # <<>> /\ inbox' = Tail(inbox) /\ UNCHANGED <<owed, arrived, stamp>>
      /\ Head(inbox).kind = "message"
  BY DEF TakeMessage, sensoryVars
<1>2. PICK k \in DOMAIN arrived : Place(k) = 2 /\ Head(inbox).about = arrived[k]
  BY <1>1, HeadOfStream
<1>3. /\ StreamInv' /\ Waiting' = Waiting - 1
      /\ \A j \in DOMAIN arrived : Place(j)' = Place(j) - 1
  BY <1>1, TakingKeepsStream
<1>4. task[arrived[k]].st = "none"
  BY <1>2 DEF UntakenInv
<1>5. \A m \in Messages : m # arrived[k] => task'[m] = task[m]
  BY <1>2 DEF TakeMessage, TypeOK
<1>6. UntakenInv'
  <2>1. ASSUME NEW j \in DOMAIN arrived, Place(j) - 1 >= 2
        PROVE  task'[arrived[j]].st = "none"
    <3>1. arrived[j] # arrived[k] /\ Place(j) >= 2
      BY <1>2, <2>1 DEF ArrivedOnce
    <3>2. QED BY <1>5, <3>1 DEF UntakenInv
  <2>2. QED BY <1>1, <1>3, <1>5, <2>1 DEF UntakenInv
<1>7. QED BY <1>1, <1>2, <1>3, <1>4, <1>6 DEF ArrivedOnce

LEMMA TakenState ==
  ASSUME TypeOK, OwedInv, TypeOK', OwedInv', ArrivedOnce, StreamInv, UntakenInv, TakeState
  PROVE  /\ ArrivedOnce' /\ StreamInv' /\ UntakenInv' /\ Waiting' = Waiting - 1
         /\ \E k \in DOMAIN arrived : Place(k) = 1 /\ Head(inbox) = StateOf(k)
<1> USE Lengths
<1>1. /\ inbox # <<>> /\ inbox' = Tail(inbox) /\ UNCHANGED <<owed, arrived, stamp, task>>
      /\ Head(inbox).kind = "state"
  BY DEF TakeState, sensoryVars
<1>2. /\ StreamInv' /\ Waiting' = Waiting - 1
      /\ \A j \in DOMAIN arrived : Place(j)' = Place(j) - 1
  BY <1>1, TakingKeepsStream
<1>3. UntakenInv'
  BY <1>1, <1>2 DEF UntakenInv
<1>4. QED BY <1>1, <1>2, <1>3, HeadOfStream DEF ArrivedOnce

(* What leaves the channel to the gate alone keeps the stream, and a task  *)
(* that has not begun.                                                     *)
LEMMA StreamLeftAlone ==
  ASSUME TypeOK, OwedInv, ArrivedOnce, StreamInv, UntakenInv,
         UNCHANGED <<inbox, owed, arrived, stamp>>,
         \A m \in Messages : task[m].st = "none" <=> task'[m].st = "none"
  PROVE  ArrivedOnce' /\ StreamInv' /\ UntakenInv' /\ Waiting' = Waiting
<1> USE Lengths
<1>1. Waiting' = Waiting /\ ArrivedOnce'
  BY DEF Waiting, ArrivedOnce
<1>2. \A k \in DOMAIN arrived : Place(k)' = Place(k)
  BY <1>1 DEF Place
<1>3. StreamInv'
  BY DEF StreamInv, Waiting, Place, StateOf
<1>4. UntakenInv'
  BY <1>2 DEF UntakenInv
<1>5. QED BY <1>1, <1>3, <1>4

-----------------------------------------------------------------------------
(* What the router hears.                                                  *)

(* An event the tasks sent leaves its task at a stage behind it; a task    *)
(* that is about to escalate has told its decision, if the router still    *)
(* listened, and it is no drop.                                            *)
SentInv ==
  /\ \A i \in DOMAIN sent :
       /\ sent[i].kind = "decision" => task[sent[i].msg].st \in {"escalating", "done", "failed"}
       /\ sent[i].kind = "escalation" => task[sent[i].msg].st = "done"
  /\ \A m \in Messages : task[m].st = "escalating" =>
       /\ task[m].verdict # "drop"
       /\ routerOpen => \E k \in DOMAIN sent :
            sent[k].kind = "decision" /\ sent[k].msg = m /\ sent[k].verdict = task[m].verdict

(* Everything that is sent is a decision or an escalation of a message. *)
LEMMA SentEvents ==
  ASSUME TypeOK
  PROVE  /\ Len(sent) \in Nat /\ DOMAIN sent = 1 .. Len(sent)
         /\ \A i \in DOMAIN sent : sent[i].msg \in Messages /\ sent[i].kind \in {"decision", "escalation"}
<1>1. sent \in Seq(RouterEvents)
  BY DEF TypeOK
<1>2. \A e \in RouterEvents : e.msg \in Messages /\ e.kind \in {"decision", "escalation"}
  BY DEF RouterEvents
<1>3. QED BY <1>1, <1>2

(* What follows a task's last event. *)
LEMMA NothingSentYet ==
  ASSUME TypeOK, SentInv, NEW m \in Messages, task[m].st \in {"none", "spawned", "asking", "decided"}
  PROVE  \A i \in DOMAIN sent : sent[i].msg # m
  BY SentEvents DEF SentInv

(* A task that does not send and does not become one that is about to      *)
(* escalate keeps both; so does everything that leaves the tasks alone.    *)
LEMMA QuietTask ==
  ASSUME TypeOK, SentInv, DecisionPrecedesEscalation, UNCHANGED sent, routerOpen' => routerOpen,
         \A m \in Messages :
           \/ task'[m] = task[m]
           \/ /\ task[m].st \in {"none", "spawned", "asking", "decided"}
              /\ task'[m].st # "escalating"
  PROVE  SentInv' /\ DecisionPrecedesEscalation'
<1>1. \A i \in DOMAIN sent : task'[sent[i].msg] = task[sent[i].msg]
  BY SentEvents, NothingSentYet
<1>2. \A m \in Messages : task'[m].st = "escalating" => task'[m] = task[m]
  OBVIOUS
<1>3. SentInv'
  BY <1>1, <1>2 DEF SentInv
<1>4. DecisionPrecedesEscalation'
  BY DEF DecisionPrecedesEscalation
<1>5. QED BY <1>3, <1>4

(* What Append makes of what was sent. *)
LEMMA SentMore ==
  ASSUME TypeOK, NEW e \in RouterEvents, sent' = Append(sent, e)
  PROVE  /\ Len(sent') = Len(sent) + 1 /\ DOMAIN sent' = 1 .. Len(sent) + 1
         /\ \A i \in DOMAIN sent : sent'[i] = sent[i]
         /\ sent'[Len(sent) + 1] = e
<1>1. sent \in Seq(RouterEvents)
  BY DEF TypeOK
<1>2. QED BY <1>1, AppendProperties

(* The decision: of the message nothing was sent yet. *)
LEMMA DecisionKeepsOrder ==
  ASSUME TypeOK, SentInv, DecisionPrecedesEscalation, NEW m \in Messages, DecisionSent(m)
  PROVE  SentInv' /\ DecisionPrecedesEscalation'
<1>0. task[m].st = "decided" /\ task[m] \in Running /\ UNCHANGED routerOpen
  BY RunningTask DEF DecisionSent, others, routerVars
<1>1. \A i \in DOMAIN sent : sent[i].msg # m
  BY <1>0, NothingSentYet
<1>2. /\ task'[m] = AfterDecision(m)
      /\ \A n \in Messages \ {m} : task'[n] = task[n]
  BY <1>0, TaskUpdates, TaskChange DEF DecisionSent
<1>3. /\ task'[m].st \in {"done", "escalating"}
      /\ task'[m].st = "escalating" => task[m].verdict # "drop" /\ task'[m].verdict = task[m].verdict
  BY <1>0, <1>2 DEF AfterDecision, Ended, Running
<1>4. CASE ~routerOpen
  <2>1. sent' = sent
    BY <1>4 DEF DecisionSent
  <2>2. DecisionPrecedesEscalation'
    BY <2>1 DEF DecisionPrecedesEscalation
  <2>3. SentInv'
    BY <1>0, <1>1, <1>2, <1>3, <1>4, <2>1, SentEvents DEF SentInv
  <2>4. QED BY <2>2, <2>3
<1>5. CASE routerOpen
  <2>0. PICK n \in Nat : n = Len(sent)
    BY SentEvents
  <2>1. /\ DOMAIN sent = 1 .. n /\ DOMAIN sent' = 1 .. n + 1
        /\ \A i \in 1 .. n : sent'[i] = sent[i]
        /\ sent'[n + 1].kind = "decision" /\ sent'[n + 1].msg = m
        /\ sent'[n + 1].verdict = task[m].verdict
    <3>1. sent' = Append(sent, Decision(m)) /\ Decision(m) \in RouterEvents
      BY <1>0, <1>5, SentTyped DEF DecisionSent
    <3>2. QED BY <2>0, <3>1, SentMore, SentEvents DEF Decision
  <2>2. SentInv'
    <3>1. ASSUME NEW i \in DOMAIN sent'
          PROVE  /\ sent'[i].kind = "decision" => task'[sent'[i].msg].st \in {"escalating", "done", "failed"}
                 /\ sent'[i].kind = "escalation" => task'[sent'[i].msg].st = "done"
      <4>1. CASE i \in 1 .. n
        <5>1. sent'[i] = sent[i] /\ sent[i].msg \in Messages \ {m}
          BY <1>1, <2>1, <4>1, SentEvents
        <5>2. QED BY <1>2, <2>1, <4>1, <5>1 DEF SentInv
      <4>2. CASE i = n + 1
        BY <1>3, <2>1, <4>2
      <4>3. QED BY <2>1, <4>1, <4>2
    <3>2. ASSUME NEW k \in Messages, task'[k].st = "escalating"
          PROVE  /\ task'[k].verdict # "drop"
                 /\ \E j \in DOMAIN sent' :
                      sent'[j].kind = "decision" /\ sent'[j].msg = k /\ sent'[j].verdict = task'[k].verdict
      <4>1. CASE k = m
        <5>1. n + 1 \in DOMAIN sent'
          BY <2>1
        <5>2. QED BY <1>3, <2>1, <3>2, <4>1, <5>1
      <4>2. CASE k # m
        <5>1. task'[k] = task[k] /\ task[k].st = "escalating"
          BY <1>2, <3>2, <4>2
        <5>2. /\ task[k].verdict # "drop"
              /\ \E j \in DOMAIN sent :
                   sent[j].kind = "decision" /\ sent[j].msg = k /\ sent[j].verdict = task[k].verdict
          BY <1>5, <5>1 DEF SentInv
        <5>3. QED BY <2>1, <5>1, <5>2
      <4>3. QED BY <4>1, <4>2
    <3>3. QED BY <3>1, <3>2 DEF SentInv
  <2>3. DecisionPrecedesEscalation'
    <3>1. ASSUME NEW i \in DOMAIN sent', NEW j \in DOMAIN sent',
                 sent'[i].msg = sent'[j].msg, sent'[i].kind = sent'[j].kind
          PROVE  i = j
      BY <1>1, <2>1, <3>1 DEF DecisionPrecedesEscalation
    <3>2. ASSUME NEW j \in DOMAIN sent', sent'[j].kind = "escalation"
          PROVE  \E k \in 1 .. j : /\ sent'[k].kind = "decision" /\ sent'[k].msg = sent'[j].msg
                                   /\ sent'[k].verdict = sent'[j].verdict /\ sent'[k].verdict # "drop"
      <4>1. j \in 1 .. n /\ sent'[j] = sent[j]
        BY <2>1, <3>2
      <4>2. PICK k \in 1 .. j : /\ sent[k].kind = "decision" /\ sent[k].msg = sent[j].msg
                                /\ sent[k].verdict = sent[j].verdict /\ sent[k].verdict # "drop"
        BY <2>1, <3>2, <4>1 DEF DecisionPrecedesEscalation
      <4>3. sent'[k] = sent[k]
        BY <2>1, <4>1
      <4>4. QED BY <4>1, <4>2, <4>3
    <3>3. QED BY <3>1, <3>2 DEF DecisionPrecedesEscalation
  <2>4. QED BY <2>2, <2>3
<1>6. QED BY <1>4, <1>5

(* The escalation: of the message only its decision was sent.  A closed    *)
(* router hears nothing, and the task has failed.                          *)
LEMMA EscalationKeepsOrder ==
  ASSUME TypeOK, SentInv, DecisionPrecedesEscalation, NEW m \in Messages, EscalationSent(m)
  PROVE  SentInv' /\ DecisionPrecedesEscalation'
<1>0. task[m].st = "escalating" /\ task[m] \in Running /\ UNCHANGED routerOpen
  BY RunningTask DEF EscalationSent, others, routerVars
<1>1. \A i \in DOMAIN sent : sent[i].msg = m => sent[i].kind = "decision"
  BY <1>0, SentEvents DEF SentInv
<1>2. /\ task'[m] = IF routerOpen THEN Ended ELSE Failed
      /\ \A n \in Messages \ {m} : task'[n] = task[n]
  BY TaskChange DEF EscalationSent, TaskRecords
<1>3. task'[m].st \in {"done", "failed"} /\ (routerOpen => task'[m].st = "done")
  BY <1>2 DEF Ended, Failed
<1>4. CASE ~routerOpen
  <2>1. sent' = sent
    BY <1>4 DEF EscalationSent
  <2>2. DecisionPrecedesEscalation'
    BY <2>1 DEF DecisionPrecedesEscalation
  <2>3. SentInv'
    BY <1>0, <1>1, <1>2, <1>3, <1>4, <2>1, SentEvents DEF SentInv
  <2>4. QED BY <2>2, <2>3
<1>5. CASE routerOpen
  <2>0. PICK n \in Nat : n = Len(sent)
    BY SentEvents
  <2>1. /\ DOMAIN sent = 1 .. n /\ DOMAIN sent' = 1 .. n + 1
        /\ \A i \in 1 .. n : sent'[i] = sent[i]
        /\ sent'[n + 1].kind = "escalation" /\ sent'[n + 1].msg = m
        /\ sent'[n + 1].verdict = task[m].verdict
    <3>1. sent' = Append(sent, Escalation(m)) /\ Escalation(m) \in RouterEvents
      BY <1>0, <1>5, SentTyped DEF EscalationSent
    <3>2. QED BY <2>0, <3>1, SentMore, SentEvents DEF Escalation
  <2>2. /\ task[m].verdict # "drop"
        /\ \E k \in DOMAIN sent :
             sent[k].kind = "decision" /\ sent[k].msg = m /\ sent[k].verdict = task[m].verdict
    BY <1>0, <1>5 DEF SentInv
  <2>3. SentInv'
    <3>1. ASSUME NEW i \in DOMAIN sent'
          PROVE  /\ sent'[i].kind = "decision" => task'[sent'[i].msg].st \in {"escalating", "done", "failed"}
                 /\ sent'[i].kind = "escalation" => task'[sent'[i].msg].st = "done"
      <4>1. CASE i \in 1 .. n
        <5>1. sent'[i] = sent[i] /\ sent[i].msg \in Messages
          BY <2>1, <4>1, SentEvents
        <5>2. CASE sent[i].msg = m
          BY <1>1, <1>3, <1>5, <2>1, <4>1, <5>1, <5>2
        <5>3. CASE sent[i].msg # m
          BY <1>2, <2>1, <4>1, <5>1, <5>3 DEF SentInv
        <5>4. QED BY <5>2, <5>3
      <4>2. CASE i = n + 1
        BY <1>3, <1>5, <2>1, <4>2
      <4>3. QED BY <2>1, <4>1, <4>2
    <3>2. ASSUME NEW k \in Messages, task'[k].st = "escalating"
          PROVE  /\ task'[k].verdict # "drop"
                 /\ \E j \in DOMAIN sent' :
                      sent'[j].kind = "decision" /\ sent'[j].msg = k /\ sent'[j].verdict = task'[k].verdict
      <4>1. task'[k] = task[k] /\ task[k].st = "escalating"
        BY <1>2, <1>3, <3>2
      <4>2. /\ task[k].verdict # "drop"
            /\ \E j \in DOMAIN sent :
                 sent[j].kind = "decision" /\ sent[j].msg = k /\ sent[j].verdict = task[k].verdict
        BY <1>5, <4>1 DEF SentInv
      <4>3. QED BY <2>1, <4>1, <4>2
    <3>3. QED BY <3>1, <3>2 DEF SentInv
  <2>4. DecisionPrecedesEscalation'
    <3>1. ASSUME NEW i \in DOMAIN sent', NEW j \in DOMAIN sent',
                 sent'[i].msg = sent'[j].msg, sent'[i].kind = sent'[j].kind
          PROVE  i = j
      BY <1>1, <2>1, <3>1 DEF DecisionPrecedesEscalation
    <3>2. ASSUME NEW j \in DOMAIN sent', sent'[j].kind = "escalation"
          PROVE  \E k \in 1 .. j : /\ sent'[k].kind = "decision" /\ sent'[k].msg = sent'[j].msg
                                   /\ sent'[k].verdict = sent'[j].verdict /\ sent'[k].verdict # "drop"
      <4>1. CASE j \in 1 .. n
        <5>1. sent'[j] = sent[j]
          BY <2>1, <4>1
        <5>2. PICK k \in 1 .. j : /\ sent[k].kind = "decision" /\ sent[k].msg = sent[j].msg
                                  /\ sent[k].verdict = sent[j].verdict /\ sent[k].verdict # "drop"
          BY <2>1, <3>2, <4>1, <5>1 DEF DecisionPrecedesEscalation
        <5>3. sent'[k] = sent[k]
          BY <2>1, <4>1
        <5>4. QED BY <5>1, <5>2, <5>3
      <4>2. CASE j = n + 1
        <5>1. PICK k \in 1 .. n :
                sent[k].kind = "decision" /\ sent[k].msg = m /\ sent[k].verdict = task[m].verdict
          BY <2>1, <2>2
        <5>2. sent'[k] = sent[k] /\ k \in 1 .. j
          BY <2>1, <4>2
        <5>3. QED BY <2>1, <2>2, <4>2, <5>1, <5>2
      <4>3. QED BY <2>1, <4>1, <4>2
    <3>3. QED BY <3>1, <3>2 DEF DecisionPrecedesEscalation
  <2>5. QED BY <2>3, <2>4
<1>6. QED BY <1>4, <1>5

-----------------------------------------------------------------------------
(* What the gate knows of a user when it takes a message.                  *)

(* v is the version with which the last of the first c arrivals of u came, *)
(* or 0 when u sent none of them.                                          *)
LastStamp(came, stamps, u, v, c) ==
  \/ v = 0 /\ \A i \in 1 .. c : SenderOf[came[i]] # u
  \/ \E i \in 1 .. c : /\ SenderOf[came[i]] = u /\ v = stamps[came[i]]
                       /\ \A j \in i + 1 .. c : SenderOf[came[j]] # u

(* The gate knows the states of the arrivals it was told all of. *)
KnownInv ==
  \A u \in Users, c \in 0 .. Len(arrived) :
    2 * (Len(arrived) - c) \in {Waiting, Waiting + 1} => LastStamp(arrived, stamp, u, known[u], c)

(* A task, and then its escalation, has the version of the arrivals before *)
(* its message.                                                            *)
VersionInv ==
  \A k \in DOMAIN arrived :
    /\ Held(arrived[k]) =>
         LastStamp(arrived, stamp, SenderOf[arrived[k]], task[arrived[k]].version, k - 1)
    /\ \A i \in DOMAIN sent : sent[i].kind = "escalation" /\ sent[i].msg = arrived[k] =>
         LastStamp(arrived, stamp, SenderOf[arrived[k]], sent[i].version, k - 1)

(* Another arrival changes nothing about those before it. *)
LEMMA LastStampKept ==
  ASSUME NEW came, NEW stamps, NEW came2, NEW stamps2, NEW n \in Nat, NEW c \in 0 .. n,
         \A k \in 1 .. n : came2[k] = came[k] /\ stamps2[came[k]] = stamps[came[k]],
         NEW u, NEW v, LastStamp(came, stamps, u, v, c)
  PROVE  LastStamp(came2, stamps2, u, v, c)
  BY DEF LastStamp

(* The state of one more arrival. *)
LEMMA LastStampNext ==
  ASSUME NEW came, NEW stamps, NEW c \in Nat, NEW u, NEW v
  PROVE  /\ SenderOf[came[c + 1]] = u => LastStamp(came, stamps, u, stamps[came[c + 1]], c + 1)
         /\ SenderOf[came[c + 1]] # u /\ LastStamp(came, stamps, u, v, c)
              => LastStamp(came, stamps, u, v, c + 1)
<1>1. ASSUME SenderOf[came[c + 1]] = u
      PROVE  LastStamp(came, stamps, u, stamps[came[c + 1]], c + 1)
  BY <1>1 DEF LastStamp
<1>2. ASSUME SenderOf[came[c + 1]] # u, LastStamp(came, stamps, u, v, c)
      PROVE  LastStamp(came, stamps, u, v, c + 1)
  BY <1>2 DEF LastStamp
<1>3. QED BY <1>1, <1>2

(* A message arrives. *)
LEMMA ForwardKeepsVersions ==
  ASSUME TypeOK, OwedInv, TypeOK', OwedInv', ArrivedOnce, StreamInv, UntakenInv, SentInv,
         KnownInv, VersionInv, NEW m \in Messages, SensoryForwards(m)
  PROVE  KnownInv' /\ VersionInv'
<1> USE Lengths
<1>0. PICK n \in Nat : n = Len(arrived)
  OBVIOUS
<1>1. /\ Waiting' = Waiting + 2 /\ Len(arrived') = n + 1 /\ DOMAIN arrived' = 1 .. n + 1
      /\ \A k \in 1 .. n : arrived'[k] = arrived[k] /\ stamp'[arrived[k]] = stamp[arrived[k]]
      /\ arrived'[n + 1] = m
  BY <1>0, ForwardKeepsStream
<1>2. UNCHANGED <<known, task, sent>> /\ \A k \in DOMAIN arrived : arrived[k] # m
  BY DEF SensoryForwards
<1>3. ASSUME NEW c \in 0 .. n, NEW u, NEW v, LastStamp(arrived, stamp, u, v, c)
      PROVE  LastStamp(arrived', stamp', u, v, c)
  BY <1>1, <1>3, LastStampKept
<1>4. KnownInv'
  <2>1. ASSUME NEW u \in Users, NEW c \in 0 .. n + 1,
               2 * (n + 1 - c) \in {Waiting + 2, Waiting + 3}
        PROVE  LastStamp(arrived', stamp', u, known[u], c)
    <3>1. c \in 0 .. n /\ 2 * (n - c) \in {Waiting, Waiting + 1}
      BY <2>1
    <3>2. LastStamp(arrived, stamp, u, known[u], c)
      BY <1>0, <3>1 DEF KnownInv
    <3>3. QED BY <1>3, <3>1, <3>2
  <2>2. Waiting' + 1 = Waiting + 3
    BY <1>1
  <2>3. QED BY <1>1, <1>2, <2>1, <2>2 DEF KnownInv
<1>5. ASSUME NEW k \in DOMAIN arrived'
      PROVE  /\ Held(arrived[k])' =>
                  LastStamp(arrived', stamp', SenderOf[arrived'[k]], task[arrived'[k]].version, k - 1)
             /\ \A i \in DOMAIN sent : sent[i].kind = "escalation" /\ sent[i].msg = arrived'[k] =>
                  LastStamp(arrived', stamp', SenderOf[arrived'[k]], sent[i].version, k - 1)
  <2>1. CASE k = n + 1
    <3>1. task[m].st = "none"
      BY <1>2 DEF UntakenInv
    <3>2. \A i \in DOMAIN sent : sent[i].msg # m
      BY <3>1, NothingSentYet
    <3>3. QED BY <1>1, <1>2, <2>1, <3>1, <3>2 DEF Held
  <2>2. CASE k \in 1 .. n
    <3>1. k - 1 \in 0 .. n /\ k \in DOMAIN arrived /\ arrived'[k] = arrived[k]
      BY <1>0, <1>1, <2>2
    <3>2. Held(arrived[k])' => Held(arrived[k])
      BY <1>2, <3>1 DEF Held
    <3>3. QED BY <1>3, <3>1, <3>2 DEF VersionInv
  <2>3. QED BY <1>1, <2>1, <2>2
<1>6. VersionInv'
  BY <1>2, <1>5 DEF VersionInv
<1>7. QED BY <1>4, <1>6

(* The loop takes a message: every state that came before it was taken. *)
LEMMA MessageKeepsVersions ==
  ASSUME TypeOK, OwedInv, TypeOK', OwedInv', ArrivedOnce, StreamInv, UntakenInv,
         KnownInv, VersionInv, TakeMessage
  PROVE  KnownInv' /\ VersionInv'
<1> USE Lengths
<1>0. PICK n \in Nat : n = Len(arrived)
  OBVIOUS
<1>1. PICK k \in DOMAIN arrived : Place(k) = 2 /\ Head(inbox).about = arrived[k] /\ Waiting' = Waiting - 1
  BY TakenMessage
<1>2. UNCHANGED <<arrived, stamp, known, sent>>
  BY DEF TakeMessage, sensoryVars
<1>3. Waiting = 2 * (n - k) + 2
  BY <1>0, <1>1 DEF Place
<1>4. KnownInv'
  <2>1. ASSUME NEW u \in Users, NEW c \in 0 .. n, 2 * (n - c) \in {Waiting - 1, Waiting}
        PROVE  LastStamp(arrived, stamp, u, known[u], c)
    <3>1. 2 * (n - c) = Waiting
      BY <1>0, <1>3, <2>1
    <3>2. QED BY <1>0, <3>1 DEF KnownInv
  <2>2. Waiting' + 1 = Waiting
    BY <1>1
  <2>3. QED BY <1>0, <1>1, <1>2, <2>1, <2>2 DEF KnownInv
<1>5. LastStamp(arrived, stamp, SenderOf[arrived[k]], known[SenderOf[arrived[k]]], k - 1)
  <2>1. SenderOf[arrived[k]] \in Users /\ k - 1 \in 0 .. n /\ 2 * (n - (k - 1)) = Waiting
    BY <1>0, <1>3, MessageAssumption
  <2>2. QED BY <1>0, <2>1 DEF KnownInv
<1>6. /\ task'[arrived[k]].version = known[SenderOf[arrived[k]]]
      /\ \A m \in Messages : m # arrived[k] => task'[m] = task[m]
  <2>1. task \in [Messages -> {NoTask, Ended, Failed} \cup Running] /\ arrived[k] \in Messages
    BY DEF TypeOK
  <2>2. QED BY <1>1, <2>1 DEF TakeMessage
<1>7. ASSUME NEW j \in DOMAIN arrived, Held(arrived[j])'
      PROVE  LastStamp(arrived, stamp, SenderOf[arrived[j]], task'[arrived[j]].version, j - 1)
  <2>1. CASE j = k
    BY <1>5, <1>6, <2>1
  <2>2. CASE j # k
    <3>1. task'[arrived[j]] = task[arrived[j]]
      BY <1>6, <2>2 DEF ArrivedOnce
    <3>2. Held(arrived[j])
      BY <1>2, <1>7, <3>1 DEF Held
    <3>3. QED BY <3>1, <3>2 DEF VersionInv
  <2>3. QED BY <2>1, <2>2
<1>8. VersionInv'
  BY <1>2, <1>7 DEF VersionInv
<1>9. QED BY <1>4, <1>8

(* The loop is told a state: of one more arrival it knows all. *)
LEMMA StateKeepsVersions ==
  ASSUME TypeOK, OwedInv, TypeOK', OwedInv', ArrivedOnce, StreamInv, UntakenInv,
         KnownInv, VersionInv, TakeState
  PROVE  KnownInv' /\ VersionInv'
<1> USE Lengths
<1>0. PICK n \in Nat : n = Len(arrived)
  OBVIOUS
<1>1. PICK k \in DOMAIN arrived : Place(k) = 1 /\ Head(inbox) = StateOf(k) /\ Waiting' = Waiting - 1
  BY TakenState
<1>2. UNCHANGED <<arrived, stamp, task, sent>>
  BY DEF TakeState, sensoryVars
<1>3. Waiting = 2 * (n - k) + 1
  BY <1>0, <1>1 DEF Place
<1>4. /\ SenderOf[arrived[k]] \in Users
      /\ known'[SenderOf[arrived[k]]] = stamp[arrived[k]]
      /\ \A u \in Users : u # SenderOf[arrived[k]] => known'[u] = known[u]
  <2>1. SenderOf[arrived[k]] \in Users /\ known \in [Users -> Nat]
    BY MessageAssumption DEF TypeOK
  <2>2. QED BY <1>1, <2>1 DEF TakeState, StateOf, StateEvent
<1>5. ASSUME NEW u \in Users
      PROVE  LastStamp(arrived, stamp, u, known'[u], k)
  <2>1. k - 1 \in Nat /\ k - 1 \in 0 .. n /\ (k - 1) + 1 = k /\ 2 * (n - (k - 1)) = Waiting + 1
    <3>1. k \in 1 .. n
      BY <1>0
    <3>2. \A j \in 1 .. n : /\ j - 1 \in Nat /\ j - 1 \in 0 .. n /\ (j - 1) + 1 = j
                            /\ 2 * (n - (j - 1)) = 2 * (n - j) + 1 + 1
      OBVIOUS
    <3>3. QED BY <1>3, <3>1, <3>2
  <2>2. CASE SenderOf[arrived[k]] = u
    <3>1. LastStamp(arrived, stamp, u, stamp[arrived[k]], k)
      BY <2>1, <2>2, LastStampNext
    <3>2. QED BY <1>4, <2>2, <3>1
  <2>3. CASE SenderOf[arrived[k]] # u
    <3>1. LastStamp(arrived, stamp, u, known[u], k - 1)
      BY <1>0, <2>1 DEF KnownInv
    <3>2. LastStamp(arrived, stamp, u, known[u], k)
      BY <2>1, <2>3, <3>1, LastStampNext
    <3>3. QED BY <1>4, <2>3, <3>2
  <2>4. QED BY <2>2, <2>3
<1>6. KnownInv'
  <2>1. ASSUME NEW u \in Users, NEW c \in 0 .. n, 2 * (n - c) \in {Waiting - 1, Waiting}
        PROVE  LastStamp(arrived, stamp, u, known'[u], c)
    <3>1. c = k
      BY <1>0, <1>3, <2>1
    <3>2. QED BY <1>5, <3>1
  <2>2. Waiting' + 1 = Waiting
    BY <1>1
  <2>3. QED BY <1>0, <1>1, <1>2, <2>1, <2>2 DEF KnownInv
<1>7. VersionInv'
  BY <1>2 DEF VersionInv, Held
<1>8. QED BY <1>6, <1>7

(* A step that leaves the stream alone and sends no escalation, and in     *)
(* which a task keeps its version for as long as it is held.               *)
LEMMA VersionsLeftAlone ==
  ASSUME TypeOK, OwedInv, KnownInv, VersionInv,
         UNCHANGED <<arrived, stamp, known>>, Waiting' = Waiting,
         \A m \in Messages : Held(m)' => Held(m) /\ task'[m].version = task[m].version,
         \A i \in DOMAIN sent' : sent'[i].kind = "escalation" =>
           i \in DOMAIN sent /\ sent'[i] = sent[i]
  PROVE  KnownInv' /\ VersionInv'
<1> USE Lengths
<1>1. KnownInv'
  BY DEF KnownInv
<1>2. VersionInv'
  BY DEF VersionInv
<1>3. QED BY <1>1, <1>2

(* The tasks keep what was said of the versions: an escalation carries     *)
(* that of its task.                                                       *)
LEMMA TaskKeepsVersions ==
  ASSUME TypeOK, OwedInv, KnownInv, VersionInv, Waiting' = Waiting, NEW m \in Messages, TaskStep(m)
  PROVE  KnownInv' /\ VersionInv'
<1> USE Lengths
<1>0. /\ task[m].st \in {"spawned", "asking", "decided", "escalating"}
      /\ UNCHANGED <<arrived, stamp, known>>
  BY DEF TaskStep, ClassifyLocally, AskModel, ModelClassifies, ClassificationFails,
         DecisionSent, EscalationSent, others, sensoryVars
<1>1. task[m] \in Running /\ Held(m) /\ Failed.st = "failed" /\ Ended.st = "done"
  BY <1>0, RunningTask DEF Held, Failed, Ended
<1>2. /\ \A n \in Messages \ {m} : task'[n] = task[n]
      /\ task'[m].version = task[m].version \/ task'[m].st \in {"done", "failed"}
  <2>1. task \in [Messages -> {NoTask, Ended, Failed} \cup Running]
    BY DEF TypeOK
  <2>2. CASE ClassifyLocally(m) \/ ModelClassifies(m)
    BY <1>1, <2>1, <2>2 DEF ClassifyLocally, ModelClassifies, Decides, Running
  <2>3. CASE AskModel(m)
    BY <1>1, <2>1, <2>3 DEF AskModel, Running
  <2>4. CASE ClassificationFails(m)
    BY <1>1, <2>1, <2>4 DEF ClassificationFails
  <2>5. CASE DecisionSent(m)
    BY <1>1, <2>1, <2>5 DEF DecisionSent, AfterDecision, Running
  <2>6. CASE EscalationSent(m)
    BY <1>1, <2>1, <2>6 DEF EscalationSent
  <2>7. QED BY <2>2, <2>3, <2>4, <2>5, <2>6 DEF TaskStep
<1>3. \A n \in Messages : Held(n)' => Held(n) /\ task'[n].version = task[n].version
  BY <1>1, <1>2 DEF Held
<1>4. CASE ClassifyLocally(m) \/ AskModel(m) \/ ModelClassifies(m) \/ ClassificationFails(m)
  <2>1. sent' = sent
    BY <1>4 DEF ClassifyLocally, AskModel, ModelClassifies, ClassificationFails
  <2>2. QED BY <1>0, <1>3, <2>1, VersionsLeftAlone
<1>5. CASE DecisionSent(m)
  <2>1. \A i \in DOMAIN sent' : sent'[i].kind = "escalation" =>
          i \in DOMAIN sent /\ sent'[i] = sent[i]
    <3>1. CASE routerOpen
      <4>1. sent' = Append(sent, Decision(m)) /\ Decision(m) \in RouterEvents
        BY <1>1, <1>5, <3>1, SentTyped DEF DecisionSent
      <4>2. Decision(m).kind = "decision"
        BY DEF Decision
      <4>3. QED BY <4>1, <4>2, SentMore, SentEvents
    <3>2. CASE ~routerOpen
      BY <1>5, <3>2 DEF DecisionSent
    <3>3. QED BY <3>1, <3>2
  <2>2. QED BY <1>0, <1>3, <2>1, VersionsLeftAlone
<1>6. CASE EscalationSent(m)
  <2>1. KnownInv'
    BY <1>0 DEF KnownInv
  <2>2. ASSUME NEW i \in DOMAIN sent', sent'[i].kind = "escalation", NEW k \in DOMAIN arrived,
               sent'[i].msg = arrived[k]
        PROVE  LastStamp(arrived, stamp, SenderOf[arrived[k]], sent'[i].version, k - 1)
    <3>1. CASE i \in DOMAIN sent /\ sent'[i] = sent[i]
      BY <2>2, <3>1 DEF VersionInv
    <3>2. CASE sent'[i] = Escalation(m)
      <4>1. sent'[i].msg = m /\ sent'[i].version = task[m].version
        BY <3>2 DEF Escalation
      <4>2. QED BY <1>1, <2>2, <4>1 DEF VersionInv
    <3>3. CASE routerOpen
      <4>1. sent' = Append(sent, Escalation(m)) /\ Escalation(m) \in RouterEvents
        BY <1>1, <1>6, <3>3, SentTyped DEF EscalationSent
      <4>2. QED BY <3>1, <3>2, <4>1, SentMore, SentEvents
    <3>4. CASE ~routerOpen
      <4>1. sent' = sent
        BY <1>6, <3>4 DEF EscalationSent
      <4>2. QED BY <3>1, <4>1
    <3>5. QED BY <3>3, <3>4
  <2>3. VersionInv'
    BY <1>0, <1>3, <2>2 DEF VersionInv
  <2>4. QED BY <2>1, <2>3
<1>7. QED BY <1>4, <1>5, <1>6 DEF TaskStep

-----------------------------------------------------------------------------
(* The inductive invariant.                                                *)

StreamParts == ArrivedOnce /\ StreamInv /\ UntakenInv
SentParts   == SentInv /\ DecisionPrecedesEscalation
StampParts  == KnownInv /\ VersionInv

GateInv == TypeOK /\ OwedInv /\ StreamParts /\ SentParts /\ StampParts

LEMMA GateInvInit ==
  ASSUME GateInit
  PROVE  GateInv
<1>1. TypeOK /\ OwedInv
  BY TypeInit
<1>2. /\ inbox = <<>> /\ owed = <<>> /\ arrived = <<>> /\ sent = <<>>
      /\ known = [u \in Users |-> 0] /\ \A m \in Messages : task[m].st = "none"
  BY DEF GateInit, NoTask
<1>3. Len(inbox) = 0 /\ Len(owed) = 0 /\ Len(arrived) = 0 /\ Waiting = 0
  BY <1>2 DEF Waiting
<1>4. StreamParts
  BY <1>2, <1>3 DEF StreamParts, ArrivedOnce, StreamInv, UntakenInv
<1>5. SentParts
  BY <1>2 DEF SentParts, SentInv, DecisionPrecedesEscalation
<1>6. VersionInv
  BY <1>2 DEF VersionInv
<1>7. KnownInv
  <2>1. ASSUME NEW u \in Users, NEW c \in 0 .. Len(arrived)
        PROVE  LastStamp(arrived, stamp, u, known[u], c)
    <3>1. known[u] = 0 /\ 1 .. c = {}
      BY <1>2, <1>3
    <3>2. QED BY <3>1 DEF LastStamp
  <2>2. QED BY <2>1 DEF KnownInv
<1>8. QED BY <1>1, <1>4, <1>5, <1>6, <1>7 DEF GateInv, StampParts

(* A step that touches neither the channel to the gate nor what it knows,  *)
(* nor a task, nor what was sent.                                          *)
LEMMA NothingHappens ==
  ASSUME GateInv, TypeOK' /\ OwedInv', routerOpen' => routerOpen,
         UNCHANGED <<inbox, owed, arrived, stamp, known, task, sent>>
  PROVE  GateInv'
<1> USE DEF GateInv, StreamParts, SentParts, StampParts
<1>1. StreamParts' /\ Waiting' = Waiting
  BY StreamLeftAlone
<1>2. SentParts'
  BY QuietTask
<1>3. StampParts'
  BY <1>1, VersionsLeftAlone DEF Held
<1>4. QED BY <1>1, <1>2, <1>3

(* Every step keeps it. *)
LEMMA GateInvStep ==
  ASSUME GateInv, [GateNext]_gateAll
  PROVE  GateInv'
<1> USE DEF GateInv, StreamParts, SentParts, StampParts
<1>0. TypeOK' /\ OwedInv'
  BY TypeStep
<1>1. ASSUME NEW m \in Messages, SensoryForwards(m)
      PROVE  GateInv'
  <2>1. UNCHANGED <<task, sent, routerOpen>>
    BY <1>1 DEF SensoryForwards, routerVars
  <2>2. SentParts'
    BY <2>1, QuietTask
  <2>3. StreamParts'
    BY <1>0, <1>1, ForwardKeepsStream
  <2>4. StampParts'
    BY <1>0, <1>1, ForwardKeepsVersions
  <2>5. QED BY <1>0, <2>2, <2>3, <2>4
<1>2. ASSUME NEW m \in Messages, TaskStep(m)
      PROVE  GateInv'
  <2>1. /\ UNCHANGED <<inbox, owed, arrived, stamp, routerOpen>>
        /\ task[m].st \in {"spawned", "asking", "decided", "escalating"}
    BY <1>2 DEF TaskStep, ClassifyLocally, AskModel, ModelClassifies, ClassificationFails,
                DecisionSent, EscalationSent, others, sensoryVars, routerVars
  <2>2. /\ \A n \in Messages \ {m} : task'[n] = task[n]
        /\ task'[m].st # "none"
        /\ ~DecisionSent(m) /\ ~EscalationSent(m) => task'[m].st # "escalating"
    <3>1. task \in [Messages -> {NoTask, Ended, Failed} \cup Running] /\ task[m] \in Running
      BY <2>1, RunningTask DEF TypeOK
    <3>2. Ended.st = "done" /\ Failed.st = "failed"
      BY DEF Ended, Failed
    <3>3. CASE ClassifyLocally(m) \/ ModelClassifies(m)
      BY <3>1, <3>3 DEF ClassifyLocally, ModelClassifies, Decides, Running
    <3>4. CASE AskModel(m)
      BY <3>1, <3>4 DEF AskModel, Running
    <3>5. CASE ClassificationFails(m)
      BY <3>1, <3>2, <3>5 DEF ClassificationFails
    <3>6. CASE DecisionSent(m)
      BY <3>1, <3>2, <3>6 DEF DecisionSent, AfterDecision, Running
    <3>7. CASE EscalationSent(m)
      BY <3>1, <3>2, <3>7 DEF EscalationSent
    <3>8. QED BY <1>2, <3>3, <3>4, <3>5, <3>6, <3>7 DEF TaskStep
  <2>3. StreamParts' /\ Waiting' = Waiting
    BY <2>1, <2>2, StreamLeftAlone
  <2>4. StampParts'
    BY <1>2, <2>3, TaskKeepsVersions
  <2>5. SentParts'
    <3>1. CASE DecisionSent(m)
      BY <3>1, DecisionKeepsOrder
    <3>2. CASE EscalationSent(m)
      BY <3>2, EscalationKeepsOrder
    <3>3. CASE ClassifyLocally(m) \/ AskModel(m) \/ ModelClassifies(m) \/ ClassificationFails(m)
      <4>1. /\ sent' = sent /\ task[m].st \in {"spawned", "asking"}
            /\ ~DecisionSent(m) /\ ~EscalationSent(m)
        BY <3>3 DEF ClassifyLocally, AskModel, ModelClassifies, ClassificationFails,
                    DecisionSent, EscalationSent
      <4>2. QED BY <2>1, <2>2, <4>1, QuietTask
    <3>4. QED BY <1>2, <3>1, <3>2, <3>3 DEF TaskStep
  <2>6. QED BY <1>0, <2>3, <2>4, <2>5
<1>3. CASE SensorySendsState
  <2>1. UNCHANGED <<arrived, stamp, known, task, sent, routerOpen>>
    BY <1>3 DEF SensorySendsState, routerVars
  <2>2. StreamInv' /\ UntakenInv' /\ Waiting' = Waiting
    BY <1>0, <1>3, StateKeepsStream
  <2>3. ArrivedOnce'
    BY <2>1 DEF ArrivedOnce
  <2>4. SentParts'
    BY <2>1, QuietTask
  <2>5. StampParts'
    BY <2>1, <2>2, VersionsLeftAlone DEF Held
  <2>6. QED BY <1>0, <2>2, <2>3, <2>4, <2>5
<1>4. CASE TakeMessage
  <2>1. UNCHANGED <<sent, routerOpen>>
    BY <1>4 DEF TakeMessage, routerVars
  <2>2. PICK k \in DOMAIN arrived : Head(inbox).about = arrived[k] /\ task[arrived[k]].st = "none"
    BY <1>0, <1>4, TakenMessage
  <2>3. \A m \in Messages : \/ task'[m] = task[m]
                            \/ task[m].st = "none" /\ task'[m].st = "spawned"
    <3>1. task \in [Messages -> {NoTask, Ended, Failed} \cup Running]
      BY DEF TypeOK
    <3>2. QED BY <1>4, <2>2, <3>1 DEF TakeMessage
  <2>4. SentParts'
    BY <2>1, <2>3, QuietTask
  <2>5. StreamParts'
    BY <1>0, <1>4, TakenMessage
  <2>6. StampParts'
    BY <1>0, <1>4, MessageKeepsVersions
  <2>7. QED BY <1>0, <2>4, <2>5, <2>6
<1>5. CASE TakeState
  <2>1. UNCHANGED <<task, sent, routerOpen>>
    BY <1>5 DEF TakeState, routerVars
  <2>2. SentParts'
    BY <2>1, QuietTask
  <2>3. QED BY <1>0, <1>5, <2>2, TakenState, StateKeepsVersions
<1>6. CASE \/ UNCHANGED gateAll
           \/ \E m \in Messages : CallStep(m)
           \/ \E u \in Users : SensoryCredits(u)
           \/ RouterTakes \/ RouterStops
  <2>1. /\ UNCHANGED <<inbox, owed, arrived, stamp, known, task, sent>>
        /\ routerOpen' => routerOpen
    BY <1>6 DEF gateAll, CallStep, SensoryCredits, RouterTakes, RouterStops, gateVars,
                sensoryVars, routerVars
  <2>2. QED BY <1>0, <2>1, NothingHappens
<1>7. QED BY <1>1, <1>2, <1>3, <1>4, <1>5, <1>6 DEF GateNext, Loop

(* However the tasks interleave, and whenever the router stops, it hears   *)
(* of a message at most one decision and one escalation, the decision      *)
(* first and of the same verdict (handle_message, actor.rs).               *)
THEOREM DecisionFirst == GateSpec => []DecisionPrecedesEscalation
<1>1. GateInv => DecisionPrecedesEscalation
  BY DEF GateInv, SentParts
<1>2. QED BY <1>1, GateInvInit, GateInvStep, PTL DEF GateSpec

(* The arrivals before the at-th that m's sender sent, and the version of  *)
(* the last of them.                                                       *)
Earlier(m, at) == {i \in 1 .. at - 1 : SenderOf[arrived[i]] = SenderOf[m]}

LEMMA StampBeforeAt ==
  ASSUME NEW m, NEW at \in Nat, at \in DOMAIN arrived, arrived[at] = m,
         \A k \in DOMAIN arrived : arrived[k] = m => k = at
  PROVE  /\ Earlier(m, at) = {} => StampBefore(m) = 0
         /\ \A k \in Earlier(m, at) :
              (\A j \in Earlier(m, at) : j <= k) => StampBefore(m) = stamp[arrived[k]]
<1> DEFINE c == CHOOSE i \in DOMAIN arrived : arrived[i] = m
           E == {i \in 1 .. c - 1 : SenderOf[arrived[i]] = SenderOf[m]}
<1>1. c = at
  OBVIOUS
<1>2. StampBefore(m) = IF E = {} THEN 0 ELSE stamp[arrived[CHOOSE i \in E : \A j \in E : j <= i]]
  BY Zenon DEF StampBefore
<1> HIDE DEF c
<1>3. E = Earlier(m, at)
  BY <1>1 DEF Earlier
<1> HIDE DEF E
<1>4. Earlier(m, at) = {} => StampBefore(m) = 0
  BY <1>2, <1>3
<1>5. ASSUME NEW k \in Earlier(m, at), \A j \in Earlier(m, at) : j <= k
      PROVE  StampBefore(m) = stamp[arrived[k]]
  <2>1. \A l \in E : (\A j \in E : j <= l) => l = k
    <3>1. ASSUME NEW l \in E, \A j \in E : j <= l
          PROVE  l = k
      <4>1. l \in Nat /\ k \in Nat
        BY <1>3 DEF Earlier
      <4>2. l <= k /\ k <= l
        BY <1>3, <1>5, <3>1
      <4>3. QED BY <4>1, <4>2
    <3>2. QED BY <3>1
  <2>2. k \in E /\ \A j \in E : j <= k
    BY <1>3, <1>5
  <2>3. (CHOOSE i \in E : \A j \in E : j <= i) = k
    BY <2>1, <2>2
  <2>4. QED BY <1>2, <2>2, <2>3
<1>6. QED BY <1>4, <1>5

(* With two events of sensory's per message, in the order it sends them,   *)
(* the version a task has is the one with which its sender's message       *)
(* before came.                                                            *)
LEMMA StampOfTheMessageBefore ==
  ASSUME GateInv
  PROVE  StateOneMessageOld
<1> USE Lengths DEF GateInv, StreamParts, SentParts, StampParts
<1> SUFFICES ASSUME NEW i \in DOMAIN sent, sent[i].kind = "escalation"
             PROVE  sent[i].version = StampBefore(sent[i].msg)
  BY DEF StateOneMessageOld
<1> DEFINE m  == sent[i].msg
<1>1. m \in Messages /\ task[m].st # "none"
  BY SentEvents DEF SentInv
<1>2. PICK at \in DOMAIN arrived : arrived[at] = m
  BY <1>1 DEF UntakenInv
<1>3. LastStamp(arrived, stamp, SenderOf[m], sent[i].version, at - 1)
  BY <1>2 DEF VersionInv
<1>4. /\ Earlier(m, at) = {} => StampBefore(m) = 0
      /\ \A k \in Earlier(m, at) :
           (\A j \in Earlier(m, at) : j <= k) => StampBefore(m) = stamp[arrived[k]]
  <2>1. at \in Nat /\ \A k \in DOMAIN arrived : arrived[k] = m => k = at
    BY <1>2 DEF ArrivedOnce
  <2>2. QED BY <1>2, <2>1, StampBeforeAt
<1> HIDE DEF m
<1>5. CASE sent[i].version = 0 /\ \A k \in 1 .. at - 1 : SenderOf[arrived[k]] # SenderOf[m]
  <2>1. Earlier(m, at) = {}
    BY <1>5 DEF Earlier
  <2>2. QED BY <1>4, <1>5, <2>1 DEF m
<1>6. ASSUME NEW k \in 1 .. at - 1, SenderOf[arrived[k]] = SenderOf[m],
             sent[i].version = stamp[arrived[k]],
             \A j \in k + 1 .. at - 1 : SenderOf[arrived[j]] # SenderOf[m]
      PROVE  sent[i].version = StampBefore(m)
  <2>1. k \in Earlier(m, at) /\ \A j \in Earlier(m, at) : j <= k
    BY <1>2, <1>6 DEF Earlier
  <2>2. QED BY <1>4, <1>6, <2>1
<1>7. QED BY <1>3, <1>5, <1>6 DEF LastStamp, m

(* The state a message is judged with is its sender's at the message       *)
(* before, whatever the capacities and however many users write: stale by  *)
(* one message, never by more, never ahead (run, actor.rs; handle_message  *)
(* in neko-sensory).                                                       *)
THEOREM JudgedOneMessageOld == GateSpec => []StateOneMessageOld
<1>1. GateInv => StateOneMessageOld
  BY StampOfTheMessageBefore
<1>2. QED BY <1>1, GateInvInit, GateInvStep, PTL DEF GateSpec
=============================================================================
