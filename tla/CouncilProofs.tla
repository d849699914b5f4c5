--------------------------- MODULE CouncilProofs ---------------------------
(* Theorems about Council.tla for every number of escalations and messages,*)
(* every timeout, sweeping period and channel capacity.                    *)
EXTENDS Council, SequenceTheorems, TLAPS

(* The sweeper's period is a positive number of time units. *)
LEMMA SweepEveryType == SweepEvery \in Nat \ {0}
  BY TimeoutAssumption DEF SweepEvery

(* Deciding names a task state for each action the model can decide on. *)
LEMMA DecidingType == \A a \in Actions : Deciding(a) \in TaskStates
  BY DEF Actions, Deciding, TaskStates

(* Taking the head of a channel leaves a channel within its capacity. *)
LEMMA Dequeued ==
  ASSUME NEW S, NEW q \in Seq(S), q # <<>>, NEW c \in Nat, Len(q) <= c
  PROVE  /\ Head(q) \in S
         /\ Tail(q) \in Seq(S)
         /\ Len(Tail(q)) = Len(q) - 1
         /\ Len(Tail(q)) <= c
         /\ \A i \in 1 .. Len(Tail(q)) : Tail(q)[i] = q[i + 1]
         /\ Head(q) = q[1]
  BY HeadTailProperties

-----------------------------------------------------------------------------
(* Every reachable state is well typed; in particular the channels respect *)
(* their capacities and every removal has a recorded reason.               *)
THEOREM TypeCorrect == Spec => []TypeOK
<1>. USE MsgOfAssumption, CapacityAssumption, SweepEveryType
     DEF Entries, EscalationEvents, ReportEvents, RouterEvents,
         EscalationEvent, ReportEvent, RouterEvent, CanSend, CanForward
<1>1. Init => TypeOK
  BY DEF Init, TypeOK, TaskStates
<1>2. TypeOK /\ [Next]_vars => TypeOK'
  <2> SUFFICES ASSUME TypeOK, [Next]_vars
               PROVE  TypeOK'
    OBVIOUS
  <2>. USE DEF TypeOK, envVars, history
  <2>1. CASE ReceiveEscalation
    BY <2>1 DEF ReceiveEscalation, TaskStates
  <2>2. CASE ReceiveReport
    BY <2>2 DEF ReceiveReport
  <2>3. CASE SweepExpired
    BY <2>3 DEF SweepExpired, Expired
  <2>4. ASSUME NEW e \in Escalations, QueryReturns(e) PROVE TypeOK'
    BY <2>4 DEF QueryReturns, TaskStates
  <2>5. ASSUME NEW e \in Escalations, NEW a \in Actions, ModelDecides(e, a) PROVE TypeOK'
    BY <2>5, DecidingType DEF ModelDecides
  <2>6. ASSUME NEW e \in Escalations, ModelFails(e) PROVE TypeOK'
    BY <2>6 DEF ModelFails, TaskStates
  <2>7. ASSUME NEW e \in Escalations, DecisionSent(e) PROVE TypeOK'
    <3>1. out' \in Seq(RouterEvents) /\ Len(out') <= OutCapacity
      <4>1. CASE routerUp
        <5>1. Len(out) < OutCapacity /\ out' = Append(out, RouterEvent("decision", e))
          BY <2>7, <4>1 DEF DecisionSent
        <5>2. RouterEvent("decision", e) \in RouterEvents
          OBVIOUS
        <5>3. QED
          BY <5>1, <5>2
      <4>2. CASE ~routerUp
        BY <2>7, <4>2 DEF DecisionSent
      <4>3. QED
        BY <4>1, <4>2
    <3>2. task' \in [Escalations -> TaskStates]
      BY <2>7 DEF DecisionSent, TaskStates
    <3>3. pending' \in [Messages -> Entries \cup {NoEntry}]
      <4>1. [by |-> e, age |-> 0] \in Entries
        OBVIOUS
      <4>2. pending' = pending \/ pending' = [pending EXCEPT ![MsgOf[e]] = [by |-> e, age |-> 0]]
        BY <2>7 DEF DecisionSent
      <4>3. QED
        BY <4>1, <4>2
    <3>4. removal' \in [Escalations -> {"none", "swept", "replaced", "taken"}]
      BY <2>7 DEF DecisionSent
    <3>5. QED
      BY <2>7, <3>1, <3>2, <3>3, <3>4 DEF DecisionSent
  <2>8. ASSUME NEW e \in Escalations, ReplySent(e) PROVE TypeOK'
    BY <2>8 DEF ReplySent, TaskStates
  <2>9. ASSUME NEW e \in Escalations, RequestSent(e) PROVE TypeOK'
    BY <2>9 DEF RequestSent, TaskStates
  <2>10. ASSUME NEW e \in Escalations, SendFails(e) PROVE TypeOK'
    BY <2>10 DEF SendFails, TaskStates
  <2>11. ASSUME NEW r \in reviews, ReviewReport(r) PROVE TypeOK'
    <3>1. MsgOf[r.launch] \in Messages /\ reviews' \subseteq reviews
      BY <2>11 DEF ReviewReport
    <3>2. CASE pending[MsgOf[r.launch]] = NoEntry
      BY <2>11, <3>1, <3>2 DEF ReviewReport
    <3>3. CASE pending[MsgOf[r.launch]] # NoEntry
      <4>1. pending[MsgOf[r.launch]].by \in Escalations
        BY <3>1, <3>3
      <4>2. pending' \in [Messages -> Entries \cup {NoEntry}]
        BY <2>11, <3>1, <3>3 DEF ReviewReport
      <4>3. removal' \in [Escalations -> {"none", "swept", "replaced", "taken"}]
        BY <2>11, <3>3, <4>1 DEF ReviewReport
      <4>4. composed' \subseteq Escalations
        BY <2>11, <3>3, <4>1 DEF ReviewReport
      <4>5. QED
        BY <2>11, <3>1, <3>3, <4>2, <4>3, <4>4 DEF ReviewReport
    <3>4. QED
      BY <3>2, <3>3
  <2>12. ASSUME NEW e \in Escalations, ReportReplySent(e) PROVE TypeOK'
    BY <2>12 DEF ReportReplySent
  <2>13. ASSUME NEW e \in Escalations, ReportReplyFails(e) PROVE TypeOK'
    BY <2>13 DEF ReportReplyFails
  <2>14. ASSUME NEW e \in Escalations, RouterEscalates(e) PROVE TypeOK'
    BY <2>14 DEF RouterEscalates, TaskStates
  <2>15. CASE RouterTakes
    <3>1. out # <<>> /\ out' = Tail(out)
      BY <2>15 DEF RouterTakes
    <3>2. Head(out) \in RouterEvents /\ out' \in Seq(RouterEvents) /\ Len(out') <= OutCapacity
      <4>. HIDE DEF RouterEvents
      <4>1. out \in Seq(RouterEvents) /\ Len(out) <= OutCapacity /\ OutCapacity \in Nat
        OBVIOUS
      <4>2. QED
        BY <3>1, <4>1, Dequeued
    <3>3. asked' \subseteq Escalations
      BY <2>15, <3>2 DEF RouterTakes
    <3>4. QED
      BY <2>15, <3>2, <3>3 DEF RouterTakes
  <2>16. ASSUME NEW e \in Escalations, NEW u \in BOOLEAN, DetectiveReports(e, u) PROVE TypeOK'
    BY <2>16 DEF DetectiveReports
  <2>17. ASSUME NEW e \in Escalations, DetectiveFails(e) PROVE TypeOK'
    BY <2>17 DEF DetectiveFails, councilVars
  <2>18. CASE RouterStops
    BY <2>18 DEF RouterStops, councilVars
  <2>19. CASE Tick
    BY <2>19 DEF Tick
  <2>20. CASE UNCHANGED vars
    BY <2>20 DEF vars, councilVars
  <2>21. QED
    BY <2>1, <2>2, <2>3, <2>4, <2>5, <2>6, <2>7, <2>8, <2>9, <2>10, <2>11, <2>12, <2>13,
       <2>14, <2>15, <2>16, <2>17, <2>18, <2>19, <2>20
    DEF Next, Loop, EscalationTask, ReportTask, Environment
<1>3. QED
  BY <1>1, <1>2, PTL DEF Spec

-----------------------------------------------------------------------------
(* AgeInv holds in every reachable state.                                  *)
LEMMA AgeInvariant == Spec => []AgeInv
<1>. USE SweepEveryType, TimeoutAssumption, NoEntryAssumption DEF Entries
<1>1. Init => AgeInv
  BY DEF Init, AgeInv
<1>2. TypeOK /\ AgeInv /\ [Next]_vars => AgeInv'
  <2> SUFFICES ASSUME TypeOK, AgeInv, [Next]_vars
               PROVE  AgeInv'
    OBVIOUS
  <2>. USE DEF AgeInv
  <2>1. CASE SweepExpired
    <3>1. phase = 0 /\ phase' = 0 /\ sweepDue' = FALSE
      BY <2>1 DEF SweepExpired
    <3>2. ASSUME NEW m \in Messages, pending'[m] # NoEntry
          PROVE  pending'[m].age <= DetectiveTimeout - 1
      BY <2>1, <3>2 DEF SweepExpired, Expired, TypeOK
    <3>3. QED
      BY <3>1, <3>2
  <2>2. CASE Tick
    <3>1. ASSUME NEW m \in Messages, pending'[m] # NoEntry
          PROVE  /\ pending[m] # NoEntry
                 /\ pending[m] \in Entries
                 /\ pending'[m].age = pending[m].age + 1
      BY <2>2, <3>1 DEF Tick, TypeOK
    <3>2. ~sweepDue /\ phase \in 0 .. SweepEvery - 1
      BY <2>2 DEF Tick, TypeOK
    <3>3. CASE phase + 1 = SweepEvery
      <4>1. phase' = 0 /\ sweepDue' = TRUE
        BY <2>2, <3>3 DEF Tick
      <4>2. QED
        BY <3>1, <3>2, <3>3, <4>1
    <3>4. CASE phase + 1 # SweepEvery
      <4>1. phase' = phase + 1 /\ sweepDue' = FALSE
        BY <2>2, <3>4 DEF Tick
      <4>2. QED
        BY <3>1, <3>2, <3>4, <4>1
    <3>5. QED
      BY <3>3, <3>4
  <2>3. ASSUME NEW e \in Escalations, DecisionSent(e) PROVE AgeInv'
    <3>1. phase' = phase /\ sweepDue' = sweepDue
      BY <2>3 DEF DecisionSent
    <3>2. ASSUME NEW m \in Messages, pending'[m] # NoEntry
          PROVE  \/ pending'[m] = pending[m]
                 \/ pending'[m] = [by |-> e, age |-> 0]
      BY <2>3, <3>2 DEF DecisionSent, TypeOK
    <3>3. phase \in 0 .. SweepEvery - 1
      BY DEF TypeOK
    <3>4. QED
      BY <3>1, <3>2, <3>3
  <2>4. ASSUME NEW r \in reviews, ReviewReport(r) PROVE AgeInv'
    <3>1. phase' = phase /\ sweepDue' = sweepDue
      BY <2>4 DEF ReviewReport
    <3>2. ASSUME NEW m \in Messages, pending'[m] # NoEntry
          PROVE  pending'[m] = pending[m]
      BY <2>4, <3>2 DEF ReviewReport, TypeOK
    <3>3. QED
      BY <3>1, <3>2
  <2>5. CASE UNCHANGED <<pending, phase, sweepDue>>
    BY <2>5
  <2>6. QED
    BY <2>1, <2>2, <2>3, <2>4, <2>5
    DEF Next, Loop, EscalationTask, ReportTask, Environment, vars, councilVars,
        ReceiveEscalation, ReceiveReport, QueryReturns, ModelDecides, ModelFails,
        ReplySent, RequestSent, SendFails, ReportReplySent, ReportReplyFails,
        RouterEscalates, RouterTakes, DetectiveReports, DetectiveFails, RouterStops
<1>3. QED
  BY <1>1, <1>2, TypeCorrect, PTL DEF Spec

(* No entry outlives detective_timeout by a whole sweeping period,         *)
(* whatever the two durations are (run, sweep_expired).                    *)
THEOREM AgeBounded == Spec => []PendingAgeBounded
<1>1. TypeOK /\ AgeInv => PendingAgeBounded
  <2> SUFFICES ASSUME TypeOK, AgeInv, NEW m \in Messages, pending[m] # NoEntry
               PROVE  pending[m].age < DetectiveTimeout + SweepEvery
    BY DEF PendingAgeBounded
  <2>1. pending[m].age \in Nat /\ phase \in 0 .. SweepEvery - 1
    BY NoEntryAssumption DEF TypeOK, Entries
  <2>2. pending[m].age <= DetectiveTimeout - 1 + (IF sweepDue THEN SweepEvery ELSE phase)
    BY DEF AgeInv
  <2>3. QED
    BY <2>1, <2>2, SweepEveryType, TimeoutAssumption
<1>2. QED
  BY <1>1, TypeCorrect, AgeInvariant, PTL

-----------------------------------------------------------------------------
(* An escalation's task is spawned once: QueueInv holds in every reachable *)
(* state.                                                                  *)
LEMMA QueueInvariant == Spec => []QueueInv
<1>1. Init => QueueInv
  BY DEF Init, QueueInv
<1>2. TypeOK /\ QueueInv /\ [Next]_vars => QueueInv'
  <2> SUFFICES ASSUME TypeOK, QueueInv, [Next]_vars
               PROVE  QueueInv'
    OBVIOUS
  <2>. DEFINE S == EscalationEvents \cup ReportEvents
  <2>0. /\ inbound \in Seq(S)
        /\ task \in [Escalations -> TaskStates]
        /\ \A i \in 1 .. Len(inbound) : inbound[i] \in S
    BY DEF TypeOK
  <2>00. \A x \in S : x.esc \in Escalations
    BY DEF EscalationEvents, ReportEvents
  <2>1. ASSUME inbound # <<>>, inbound' = Tail(inbound),
               \A e \in Escalations : task'[e] = task[e] \/ e = Head(inbound).esc,
               Head(inbound).kind # "escalation" => task' = task
        PROVE  QueueInv'
    <3>. HIDE DEF S
    <3>1. /\ Len(inbound') = Len(inbound) - 1
          /\ Len(inbound) \in Nat
          /\ \A i \in 1 .. Len(inbound') : inbound'[i] = inbound[i + 1]
          /\ Head(inbound) = inbound[1]
      BY <2>0, <2>1, HeadTailProperties, LenProperties
    <3>2. QED
      BY <2>0, <2>00, <2>1, <3>1 DEF QueueInv
  <2>2. ASSUME NEW x \in S, inbound' = Append(inbound, x),
               x.kind = "escalation" => task[x.esc] = "unsent" /\ task'[x.esc] = "inbound",
               \A e \in Escalations : task'[e] = task[e] \/ task[e] = "unsent"
        PROVE  QueueInv'
    <3>. HIDE DEF S
    <3>1. /\ Len(inbound') = Len(inbound) + 1
          /\ Len(inbound) \in Nat
          /\ \A i \in 1 .. Len(inbound) : inbound'[i] = inbound[i]
          /\ inbound'[Len(inbound) + 1] = x
      BY <2>0, <2>2, AppendProperties, LenProperties
    <3>2. \A i \in 1 .. Len(inbound') : i \in 1 .. Len(inbound) \/ i = Len(inbound) + 1
      BY <3>1
    <3>3. QED
      BY <2>0, <2>00, <2>2, <3>1, <3>2 DEF QueueInv
  <2>3. ASSUME inbound' = inbound,
               \A e \in Escalations : task[e] = "inbound" => task'[e] = "inbound"
        PROVE  QueueInv'
    BY <2>0, <2>00, <2>3 DEF QueueInv
  <2>4. CASE ReceiveEscalation
    BY <2>0, <2>1, <2>4 DEF ReceiveEscalation
  <2>5. CASE ReceiveReport
    BY <2>0, <2>1, <2>5 DEF ReceiveReport
  <2>6. ASSUME NEW e \in Escalations, RouterEscalates(e) PROVE QueueInv'
    <3>1. EscalationEvent(e) \in S
      BY DEF EscalationEvents, EscalationEvent
    <3>2. /\ task[e] = "unsent"
          /\ inbound' = Append(inbound, EscalationEvent(e))
          /\ task' = [task EXCEPT ![e] = "inbound"]
      BY <2>6 DEF RouterEscalates
    <3>3. EscalationEvent(e).esc = e
      BY DEF EscalationEvent
    <3>. HIDE DEF S
    <3>4. QED
      BY <2>0, <2>2, <3>1, <3>2, <3>3
  <2>7. ASSUME NEW e \in Escalations, NEW u \in BOOLEAN, DetectiveReports(e, u) PROVE QueueInv'
    <3>1. ReportEvent(e, u) \in S
      BY DEF ReportEvents, ReportEvent
    <3>2. inbound' = Append(inbound, ReportEvent(e, u)) /\ task' = task
      BY <2>7 DEF DetectiveReports
    <3>3. ReportEvent(e, u).kind # "escalation"
      BY DEF ReportEvent
    <3>. HIDE DEF S
    <3>4. QED
      BY <2>2, <3>1, <3>2, <3>3
  <2>8. ASSUME NEW e \in Escalations, EscalationTask(e) PROVE QueueInv'
    <3>1. inbound' = inbound
      BY <2>8 DEF EscalationTask, QueryReturns, ModelDecides, ModelFails, DecisionSent,
                  ReplySent, RequestSent, SendFails
    <3>2. \A f \in Escalations : task[f] = "inbound" => task'[f] = "inbound"
      BY <2>0, <2>8
      DEF EscalationTask, QueryReturns, ModelDecides, ModelFails, DecisionSent,
          ReplySent, RequestSent, SendFails
    <3>3. QED
      BY <2>3, <3>1, <3>2
  <2>9. CASE UNCHANGED <<inbound, task>>
    BY <2>3, <2>9
  <2>10. QED
    BY <2>4, <2>5, <2>6, <2>7, <2>8, <2>9
    DEF Next, Loop, ReportTask, Environment, vars, councilVars, SweepExpired,
        ReviewReport, ReportReplySent, ReportReplyFails, RouterTakes,
        DetectiveFails, RouterStops, Tick
<1>3. QED
  BY <1>1, <1>2, TypeCorrect, PTL DEF Spec

-----------------------------------------------------------------------------
(* Whatever a step does to the tasks, an escalation that left the council's*)
(* hands for good stays launched.                                          *)
LEMMA LaunchedForGood ==
  ASSUME TypeOK, QueueInv, [Next]_vars, NEW e \in Escalations, Launched(e)
  PROVE  Launched(e)'
<1>1. ASSUME inbound # <<>>, Head(inbound).kind = "escalation"
      PROVE  task[Head(inbound).esc] = "inbound" /\ Head(inbound).esc \in Escalations
  <2>. DEFINE S == EscalationEvents \cup ReportEvents
  <2>1. inbound \in Seq(S)
    BY DEF TypeOK
  <2>2. 1 \in 1 .. Len(inbound) /\ Head(inbound) = inbound[1] /\ Head(inbound) \in S
    BY <1>1, <2>1, HeadTailProperties, LenProperties
  <2>3. QED
    BY <1>1, <2>2 DEF QueueInv, EscalationEvents, ReportEvents
<1>2. CASE ReceiveEscalation
  BY <1>1, <1>2 DEF ReceiveEscalation, Launched, TypeOK
<1>3. ASSUME NEW f \in Escalations, EscalationTask(f) \/ RouterEscalates(f)
      PROVE  Launched(e)'
  BY <1>3 DEF EscalationTask, QueryReturns, ModelDecides, ModelFails, DecisionSent,
              ReplySent, RequestSent, SendFails, RouterEscalates, Launched, TypeOK
<1>4. CASE UNCHANGED task
  BY <1>4 DEF Launched
<1>5. QED
  BY <1>2, <1>3, <1>4
  DEF Next, Loop, ReportTask, Environment, vars, councilVars, ReceiveReport, SweepExpired,
      ReviewReport, ReportReplySent, ReportReplyFails, RouterTakes, DetectiveReports,
      DetectiveFails, RouterStops, Tick

(* ClaimInv holds in every reachable state. *)
LEMMA ClaimInvariant == Spec => []ClaimInv
<1>. USE NoEntryAssumption, MsgOfAssumption DEF Entries
<1>1. Init => ClaimInv
  BY DEF Init, ClaimInv
<1>2. TypeOK /\ QueueInv /\ ClaimInv /\ [Next]_vars => ClaimInv'
  <2> SUFFICES ASSUME TypeOK, QueueInv, ClaimInv, [Next]_vars
               PROVE  ClaimInv'
    OBVIOUS
  <2>0. \A e \in Escalations : Launched(e) => Launched(e)'
    BY LaunchedForGood
  <2>00. \A m \in Messages : pending[m] # NoEntry => pending[m] \in Entries
    BY DEF TypeOK
  <2>1. CASE UNCHANGED <<pending, composed, replied>>
    BY <2>0, <2>00, <2>1 DEF ClaimInv, TypeOK
  <2>2. CASE SweepExpired
    <3>1. composed' = composed /\ replied' = replied
      BY <2>2 DEF SweepExpired
    <3>2. \A m \in Messages : pending'[m] # NoEntry => pending'[m] = pending[m]
      BY <2>2 DEF SweepExpired
    <3>3. QED
      BY <2>0, <2>00, <3>1, <3>2 DEF ClaimInv, TypeOK
  <2>3. CASE Tick
    <3>1. composed' = composed /\ replied' = replied
      BY <2>3 DEF Tick, history
    <3>2. ASSUME NEW m \in Messages, pending'[m] # NoEntry
          PROVE  pending[m] # NoEntry /\ pending'[m].by = pending[m].by
      BY <2>00, <2>3, <3>2 DEF Tick
    <3>3. QED
      BY <2>0, <2>00, <3>1, <3>2 DEF ClaimInv, TypeOK
  <2>4. ASSUME NEW e \in Escalations, DecisionSent(e) PROVE ClaimInv'
    <3>1. composed' = composed /\ replied' = replied
      BY <2>4 DEF DecisionSent
    <3>2. ~Launched(e)
      BY <2>4 DEF DecisionSent, Launched
    <3>3. ASSUME NEW m \in Messages, pending'[m] # NoEntry
          PROVE  \/ pending'[m] = pending[m]
                 \/ /\ m = MsgOf[e]
                    /\ pending'[m] = [by |-> e, age |-> 0]
                    /\ Launched(e)'
      BY <2>4, <3>3 DEF DecisionSent, Launched, TypeOK
    <3>4. replied[e] = 0 /\ e \notin composed
      BY <3>2 DEF ClaimInv
    <3>5. ASSUME NEW m \in Messages, pending'[m] # NoEntry
          PROVE  \E b \in Escalations : /\ pending'[m].by = b
                                        /\ MsgOf[b] = m
                                        /\ Launched(b)'
                                        /\ b \notin composed
                                        /\ replied[b] = 0
      <4>1. CASE pending'[m] = pending[m]
        BY <2>0, <2>00, <3>5, <4>1 DEF ClaimInv
      <4>2. CASE m = MsgOf[e] /\ pending'[m] = [by |-> e, age |-> 0] /\ Launched(e)'
        BY <3>4, <4>2
      <4>3. QED
        BY <3>3, <3>5, <4>1, <4>2
    <3>6. QED
      BY <2>0, <3>1, <3>5 DEF ClaimInv, TypeOK
  <2>5. ASSUME NEW e \in Escalations, ReplySent(e) PROVE ClaimInv'
    <3>1. /\ pending' = pending
          /\ composed' = composed
          /\ replied' = [replied EXCEPT ![e] = replied[e] + 1]
          /\ ~Launched(e)
          /\ Launched(e)'
      BY <2>5 DEF ReplySent, Launched, TypeOK
    <3>2. replied[e] = 0 /\ e \notin composed
      BY <3>1 DEF ClaimInv
    <3>3. \A m \in Messages : pending[m] # NoEntry => pending[m].by # e
      BY <3>1 DEF ClaimInv
    <3>4. QED
      BY <2>0, <2>00, <3>1, <3>2, <3>3 DEF ClaimInv, TypeOK
  <2>6. ASSUME NEW r \in reviews, ReviewReport(r) PROVE ClaimInv'
    <3>. DEFINE m0 == MsgOf[r.launch]
                entry == pending[m0]
    <3>1. m0 \in Messages /\ replied' = replied
      BY <2>6 DEF ReviewReport, TypeOK
    <3>2. CASE entry = NoEntry
      BY <2>0, <2>00, <2>6, <3>1, <3>2 DEF ReviewReport, ClaimInv, TypeOK
    <3>3. CASE entry # NoEntry
      <4>1. /\ pending' = [pending EXCEPT ![m0] = NoEntry]
            /\ composed' \in {composed, composed \cup {entry.by}}
        BY <2>6, <3>3 DEF ReviewReport
      <4>2. /\ entry.by \in Escalations
            /\ Launched(entry.by)
            /\ replied[entry.by] = 0
            /\ MsgOf[entry.by] = m0
        BY <2>00, <3>1, <3>3 DEF ClaimInv
      <4>3. \A m \in Messages : pending'[m] # NoEntry => m # m0 /\ pending'[m] = pending[m]
        BY <4>1 DEF TypeOK
      <4>4. \A m \in Messages : pending'[m] # NoEntry => pending'[m].by \notin composed'
        BY <4>1, <4>2, <4>3 DEF ClaimInv
      <4>5. QED
        BY <2>0, <2>00, <3>1, <4>1, <4>2, <4>3, <4>4 DEF ClaimInv, TypeOK
    <3>4. QED
      BY <3>2, <3>3
  <2>7. ASSUME NEW e \in Escalations, ReportReplySent(e) PROVE ClaimInv'
    <3>1. /\ e \in composed
          /\ pending' = pending
          /\ composed' = composed \ {e}
          /\ replied' = [replied EXCEPT ![e] = replied[e] + 1]
      BY <2>7 DEF ReportReplySent
    <3>2. Launched(e) /\ replied[e] = 0
      BY <3>1 DEF ClaimInv
    <3>3. \A m \in Messages : pending[m] # NoEntry => pending[m].by # e
      BY <3>1 DEF ClaimInv
    <3>4. QED
      BY <2>0, <2>00, <3>1, <3>2, <3>3 DEF ClaimInv, TypeOK
  <2>8. ASSUME NEW e \in Escalations, ReportReplyFails(e) PROVE ClaimInv'
    <3>1. pending' = pending /\ composed' = composed \ {e} /\ replied' = replied
      BY <2>8 DEF ReportReplyFails, history
    <3>2. QED
      BY <2>0, <2>00, <3>1 DEF ClaimInv, TypeOK
  <2>9. QED
    BY <2>1, <2>2, <2>3, <2>4, <2>5, <2>6, <2>7, <2>8
    DEF Next, Loop, EscalationTask, ReportTask, Environment, vars, councilVars, history,
        ReceiveEscalation, ReceiveReport, QueryReturns, ModelDecides, ModelFails,
        RequestSent, SendFails, RouterEscalates, RouterTakes, DetectiveReports,
        DetectiveFails, RouterStops
<1>3. QED
  BY <1>1, <1>2, TypeCorrect, QueueInvariant, PTL DEF Spec

(* The council sends at most one reply for an escalation, for any number of*)
(* escalations of any messages, whatever the model, the detective, the     *)
(* sweeper and the scheduler do (handle_escalation, handle_report).        *)
THEOREM AnsweredAtMostOnce == Spec => []OneReplyPerEscalation
<1>1. ClaimInv => OneReplyPerEscalation
  BY DEF ClaimInv, OneReplyPerEscalation
<1>2. QED
  BY <1>1, ClaimInvariant, PTL

-----------------------------------------------------------------------------
(* A launch is registered while its entry is in the map; what took the     *)
(* entry out of it is on record.                                           *)
Registered(e) ==
  \/ pending[MsgOf[e]] # NoEntry /\ pending[MsgOf[e]].by = e
  \/ removal[e] # "none"

(* The escalations that a channel carries in events of kind k. *)
Carried(q, k) == {q[i].esc : i \in {j \in 1 .. Len(q) : q[j].kind = k}}

LEMMA CarriedAfterSend ==
  ASSUME NEW S, NEW q \in Seq(S), NEW x \in S, NEW k
  PROVE  /\ Carried(Append(q, x), k) \subseteq Carried(q, k) \cup {x.esc}
         /\ x.kind # k => Carried(Append(q, x), k) \subseteq Carried(q, k)
<1>1. /\ Len(Append(q, x)) = Len(q) + 1 /\ Len(q) \in Nat
      /\ \A i \in 1 .. Len(q) : Append(q, x)[i] = q[i]
      /\ Append(q, x)[Len(q) + 1] = x
  BY AppendProperties, LenProperties
<1>2. \A i \in 1 .. Len(Append(q, x)) : i \in 1 .. Len(q) \/ i = Len(q) + 1
  BY <1>1
<1>3. QED
  BY <1>1, <1>2 DEF Carried

LEMMA CarriedAfterReceive ==
  ASSUME NEW S, NEW q \in Seq(S), q # <<>>, NEW k
  PROVE  /\ Carried(Tail(q), k) \subseteq Carried(q, k)
         /\ Head(q).kind = k => Head(q).esc \in Carried(q, k)
<1>1. /\ Len(Tail(q)) = Len(q) - 1 /\ Len(q) \in Nat \ {0}
      /\ \A i \in 1 .. Len(Tail(q)) : Tail(q)[i] = q[i + 1]
      /\ Head(q) = q[1]
  BY HeadTailProperties, LenProperties, EmptySeq
<1>2. 1 \in 1 .. Len(q) /\ \A i \in 1 .. Len(Tail(q)) : i + 1 \in 1 .. Len(q)
  BY <1>1
<1>3. QED
  BY <1>1, <1>2 DEF Carried

(* The launches whose report may still come to handle_report: their        *)
(* request is about to be sent, under way or being answered, or the report *)
(* is queued or has a task.                                                *)
Reporting ==
  {e \in Escalations : task[e] = "requesting"}
    \cup Carried(out, "request")
    \cup asked
    \cup Carried(inbound, "report")
    \cup {r.launch : r \in reviews}

ReportInv ==
  /\ \A e \in Reporting : Registered(e)
  /\ \A e \in ignored : removal[e] # "none"

LEMMA RegisteredStays ==
  ASSUME TypeOK, [Next]_vars, NEW e \in Escalations
  PROVE  /\ Registered(e) => Registered(e)'
         /\ removal[e] # "none" => removal'[e] # "none"
<1>. USE MsgOfAssumption, NoEntryAssumption DEF Registered, Entries
<1>0. /\ \A m \in Messages : pending[m] # NoEntry => pending[m] \in Entries
      /\ MsgOf[e] \in Messages
      /\ removal \in [Escalations -> {"none", "swept", "replaced", "taken"}]
      /\ pending \in [Messages -> Entries \cup {NoEntry}]
  BY DEF TypeOK
<1>1. CASE SweepExpired
  BY <1>0, <1>1 DEF SweepExpired, Expired
<1>2. CASE Tick
  BY <1>0, <1>2 DEF Tick, history
<1>3. ASSUME NEW f \in Escalations, DecisionSent(f)
      PROVE  /\ Registered(e) => Registered(e)'
             /\ removal[e] # "none" => removal'[e] # "none"
  <2>1. CASE UNCHANGED <<pending, removal>>
    BY <2>1
  <2>2. CASE /\ pending' = [pending EXCEPT ![MsgOf[f]] = [by |-> f, age |-> 0]]
             /\ removal' = IF pending[MsgOf[f]] = NoEntry THEN removal
                           ELSE [removal EXCEPT ![pending[MsgOf[f]].by] = "replaced"]
    <3>1. MsgOf[f] \in Messages
      OBVIOUS
    <3>2. removal[e] # "none" => removal'[e] # "none"
      BY <1>0, <2>2
    <3>3. CASE pending[MsgOf[e]] # NoEntry /\ pending[MsgOf[e]].by = e /\ MsgOf[e] = MsgOf[f]
      BY <1>0, <2>2, <3>3
    <3>4. CASE MsgOf[e] # MsgOf[f]
      BY <1>0, <2>2, <3>2, <3>4
    <3>5. QED
      BY <3>2, <3>3, <3>4
  <2>3. QED
    BY <1>3, <2>1, <2>2 DEF DecisionSent
<1>4. ASSUME NEW r \in reviews, ReviewReport(r)
      PROVE  /\ Registered(e) => Registered(e)'
             /\ removal[e] # "none" => removal'[e] # "none"
  <2>1. MsgOf[r.launch] \in Messages
    BY DEF TypeOK
  <2>2. CASE UNCHANGED <<pending, removal>>
    BY <2>2
  <2>3. CASE /\ pending[MsgOf[r.launch]] # NoEntry
             /\ pending' = [pending EXCEPT ![MsgOf[r.launch]] = NoEntry]
             /\ removal' = [removal EXCEPT ![pending[MsgOf[r.launch]].by] = "taken"]
    BY <1>0, <2>1, <2>3
  <2>4. QED
    BY <1>4, <2>2, <2>3 DEF ReviewReport
<1>5. CASE UNCHANGED <<pending, removal>>
  BY <1>5
<1>6. QED
  BY <1>1, <1>2, <1>3, <1>4, <1>5
  DEF Next, Loop, EscalationTask, ReportTask, Environment, vars, councilVars, history,
      ReceiveEscalation, ReceiveReport, QueryReturns, ModelDecides, ModelFails,
      ReplySent, RequestSent, SendFails, ReportReplySent, ReportReplyFails,
      RouterEscalates, RouterTakes, DetectiveReports, DetectiveFails, RouterStops

(* No step adds to these launches, except the one that registers it. *)
LEMMA ReportingGrows ==
  ASSUME TypeOK, [Next]_vars, NEW e \in Escalations, e \in Reporting'
  PROVE  \/ e \in Reporting
         \/ pending'[MsgOf[e]] # NoEntry /\ pending'[MsgOf[e]].by = e
<1>. DEFINE Goal == \/ e \in Reporting
                    \/ pending'[MsgOf[e]] # NoEntry /\ pending'[MsgOf[e]].by = e
<1>. SUFFICES Goal
  OBVIOUS
<1>. USE DEF Reporting
<1>0. /\ inbound \in Seq(EscalationEvents \cup ReportEvents)
      /\ out \in Seq(RouterEvents)
      /\ task \in [Escalations -> TaskStates]
      /\ pending \in [Messages -> Entries \cup {NoEntry}]
  BY DEF TypeOK
<1>1. CASE ReceiveEscalation \/ ReceiveReport
  <2>0. inbound # <<>> /\ inbound' = Tail(inbound) /\ UNCHANGED <<out, asked>>
    BY <1>1 DEF ReceiveEscalation, ReceiveReport, envVars
  <2>1. /\ Carried(inbound', "report") \subseteq Carried(inbound, "report")
        /\ Head(inbound).kind = "report" => Head(inbound).esc \in Carried(inbound, "report")
    BY <1>0, <2>0, CarriedAfterReceive
  <2>2. Carried(out', "request") = Carried(out, "request")
    BY <2>0
  <2>3. CASE ReceiveEscalation
    <3>1. task'[e] \in {task[e], "history"} /\ reviews' = reviews
      BY <1>0, <2>3 DEF ReceiveEscalation
    <3>2. QED
      BY <2>0, <2>1, <2>2, <3>1
  <2>4. CASE ReceiveReport
    <3>1. /\ task' = task
          /\ Head(inbound).kind = "report"
          /\ {r.launch : r \in reviews'} \subseteq
               {r.launch : r \in reviews} \cup {Head(inbound).esc}
      BY <2>4 DEF ReceiveReport
    <3>2. QED
      BY <2>0, <2>1, <2>2, <3>1
  <2>5. QED
    BY <1>1, <2>3, <2>4
<1>2. ASSUME NEW f \in Escalations, NEW x \in RouterEvents, out' = Append(out, x),
             x.kind # "request", inbound' = inbound, asked' = asked,
             reviews' \subseteq reviews,
             task'[e] # "requesting" \/ task'[e] = task[e]
      PROVE  Goal
  <2>1. Carried(out', "request") \subseteq Carried(out, "request")
    BY <1>0, <1>2, CarriedAfterSend
  <2>2. QED
    BY <1>2, <2>1
<1>3. ASSUME NEW f \in Escalations, DecisionSent(f) PROVE Goal
  <2>1. /\ inbound' = inbound /\ asked' = asked /\ reviews' = reviews
        /\ out' = out \/ out' = Append(out, RouterEvent("decision", f))
    BY <1>3 DEF DecisionSent, envVars
  <2>2. RouterEvent("decision", f) \in RouterEvents /\ RouterEvent("decision", f).kind # "request"
    BY DEF RouterEvent, RouterEvents
  <2>3. Carried(out', "request") \subseteq Carried(out, "request")
    BY <1>0, <2>1, <2>2, CarriedAfterSend
  <2>4. CASE task[f] = "deciding_detective"
    <3>1. /\ pending' = [pending EXCEPT ![MsgOf[f]] = [by |-> f, age |-> 0]]
          /\ task' = [task EXCEPT ![f] = "requesting"]
      BY <1>3, <2>4 DEF DecisionSent
    <3>2. CASE e = f
      <4>1. pending'[MsgOf[e]] = [by |-> e, age |-> 0]
        BY <1>0, <3>1, <3>2, MsgOfAssumption
      <4>2. QED
        BY <4>1, NoEntryAssumption
    <3>3. CASE e # f
      BY <1>0, <2>1, <2>3, <3>1, <3>3
    <3>4. QED
      BY <3>2, <3>3
  <2>5. CASE task[f] # "deciding_detective"
    <3>1. task'[e] = task[e] \/ task'[e] # "requesting"
      BY <1>0, <1>3, <2>5 DEF DecisionSent
    <3>2. QED
      BY <2>1, <2>3, <3>1
  <2>6. QED
    BY <2>4, <2>5
<1>4. ASSUME NEW f \in Escalations, ReplySent(f) \/ ReportReplySent(f) PROVE Goal
  <2>1. RouterEvent("reply", f) \in RouterEvents /\ RouterEvent("reply", f).kind # "request"
    BY DEF RouterEvent, RouterEvents
  <2>2. /\ out' = Append(out, RouterEvent("reply", f)) /\ inbound' = inbound /\ asked' = asked
        /\ reviews' = reviews
        /\ task'[e] # "requesting" \/ task'[e] = task[e]
    BY <1>0, <1>4 DEF ReplySent, ReportReplySent, envVars
  <2>3. QED
    BY <1>2, <2>1, <2>2
<1>5. ASSUME NEW f \in Escalations, RequestSent(f) PROVE Goal
  <2>1. /\ task[f] = "requesting" /\ task' = [task EXCEPT ![f] = "done"]
        /\ out' = Append(out, RouterEvent("request", f))
        /\ inbound' = inbound /\ asked' = asked /\ reviews' = reviews
    BY <1>5 DEF RequestSent, envVars
  <2>2. RouterEvent("request", f) \in RouterEvents /\ RouterEvent("request", f).esc = f
    BY DEF RouterEvent, RouterEvents
  <2>3. Carried(out', "request") \subseteq Carried(out, "request") \cup {f}
    BY <1>0, <2>1, <2>2, CarriedAfterSend
  <2>4. task'[e] = task[e] \/ task'[e] = "done"
    BY <1>0, <2>1
  <2>5. QED
    BY <2>1, <2>3, <2>4
<1>6. CASE RouterTakes
  <2>1. /\ out # <<>> /\ out' = Tail(out)
        /\ asked' = IF Head(out).kind = "request" THEN asked \cup {Head(out).esc} ELSE asked
        /\ inbound' = inbound /\ task' = task /\ reviews' = reviews
    BY <1>6 DEF RouterTakes
  <2>2. /\ Carried(out', "request") \subseteq Carried(out, "request")
        /\ Head(out).kind = "request" => Head(out).esc \in Carried(out, "request")
    BY <1>0, <2>1, CarriedAfterReceive
  <2>3. QED
    BY <2>1, <2>2
<1>7. ASSUME NEW f \in Escalations, NEW u \in BOOLEAN, DetectiveReports(f, u) PROVE Goal
  <2>1. /\ f \in asked /\ asked' = asked \ {f} /\ inbound' = Append(inbound, ReportEvent(f, u))
        /\ out' = out /\ task' = task /\ reviews' = reviews
    BY <1>7 DEF DetectiveReports
  <2>2. ReportEvent(f, u) \in EscalationEvents \cup ReportEvents /\ ReportEvent(f, u).esc = f
    BY DEF ReportEvent, ReportEvents
  <2>3. Carried(inbound', "report") \subseteq Carried(inbound, "report") \cup {f}
    BY <1>0, <2>1, <2>2, CarriedAfterSend
  <2>4. QED
    BY <2>1, <2>3
<1>8. ASSUME NEW f \in Escalations, RouterEscalates(f) PROVE Goal
  <2>1. /\ task' = [task EXCEPT ![f] = "inbound"] /\ inbound' = Append(inbound, EscalationEvent(f))
        /\ out' = out /\ asked' = asked /\ reviews' = reviews
    BY <1>8 DEF RouterEscalates, envVars
  <2>2. /\ EscalationEvent(f) \in EscalationEvents \cup ReportEvents
        /\ EscalationEvent(f).kind # "report"
    BY DEF EscalationEvent, EscalationEvents
  <2>3. Carried(inbound', "report") \subseteq Carried(inbound, "report")
    BY <1>0, <2>1, <2>2, CarriedAfterSend
  <2>4. task'[e] = task[e] \/ task'[e] = "inbound"
    BY <1>0, <2>1
  <2>5. QED
    BY <2>1, <2>3, <2>4
<1>9. CASE /\ UNCHANGED <<inbound, out>> /\ asked' \subseteq asked /\ reviews' \subseteq reviews
           /\ task'[e] # "requesting" \/ task'[e] = task[e]
  <2>1. Carried(inbound', "report") = Carried(inbound, "report")
          /\ Carried(out', "request") = Carried(out, "request")
    BY <1>9
  <2>2. QED
    BY <1>9, <2>1
<1>10. ASSUME NEW f \in Escalations,
              QueryReturns(f) \/ ModelFails(f) \/ SendFails(f)
                \/ (\E a \in Actions : ModelDecides(f, a))
       PROVE  Goal
  <2>1. UNCHANGED <<inbound, out, asked, reviews>>
    BY <1>10 DEF QueryReturns, ModelFails, SendFails, ModelDecides, envVars
  <2>2. task'[e] = task[e] \/ task'[e] # "requesting"
    BY <1>0, <1>10 DEF QueryReturns, ModelFails, SendFails, ModelDecides, Deciding, Actions
  <2>3. QED
    BY <1>9, <2>1, <2>2
<1>11. CASE \/ SweepExpired \/ RouterStops \/ Tick \/ UNCHANGED vars
            \/ \E r \in reviews : ReviewReport(r)
            \/ \E f \in Escalations : ReportReplyFails(f) \/ DetectiveFails(f)
  BY <1>9, <1>11 DEF SweepExpired, RouterStops, Tick, ReviewReport, ReportReplyFails,
     DetectiveFails, vars, councilVars, envVars
<1>12. CASE Loop
  BY <1>1, <1>11, <1>12 DEF Loop
<1>13. QED
  BY <1>3, <1>4, <1>5, <1>6, <1>7, <1>8, <1>10, <1>11, <1>12
  DEF Next, EscalationTask, ReportTask, Environment

LEMMA ReportInvariant == Spec => []ReportInv
<1>1. Init => ReportInv
  <2> SUFFICES ASSUME Init PROVE ReportInv
    OBVIOUS
  <2>1. Carried(out, "request") = {} /\ Carried(inbound, "report") = {}
    BY DEF Init, Carried
  <2>2. Reporting = {}
    BY <2>1 DEF Init, Reporting
  <2>3. QED
    BY <2>2 DEF Init, ReportInv
<1>2. TypeOK /\ TypeOK' /\ ReportInv /\ [Next]_vars => ReportInv'
  <2> SUFFICES ASSUME TypeOK, TypeOK', ReportInv, [Next]_vars PROVE ReportInv'
    OBVIOUS
  <2>1. ASSUME NEW e \in Reporting' PROVE Registered(e)'
    <3>1. e \in Escalations
      <4>1. /\ inbound' \in Seq(EscalationEvents \cup ReportEvents)
            /\ out' \in Seq(RouterEvents)
            /\ asked' \subseteq Escalations
            /\ reviews' \subseteq [launch : Escalations, usable : BOOLEAN]
        BY DEF TypeOK
      <4>2. \A x \in EscalationEvents \cup ReportEvents \cup RouterEvents : x.esc \in Escalations
        BY DEF EscalationEvents, ReportEvents, RouterEvents
      <4>3. Carried(inbound', "report") \subseteq Escalations
        BY <4>1, <4>2, ElementOfSeq DEF Carried
      <4>4. Carried(out', "request") \subseteq Escalations
        BY <4>1, <4>2, ElementOfSeq DEF Carried
      <4>5. QED
        BY <2>1, <4>1, <4>3, <4>4 DEF Reporting
    <3>2. \/ e \in Reporting
          \/ pending'[MsgOf[e]] # NoEntry /\ pending'[MsgOf[e]].by = e
      BY <2>1, <3>1, ReportingGrows
    <3>3. e \in Reporting => Registered(e)'
      BY <3>1, RegisteredStays DEF ReportInv
    <3>4. QED
      BY <3>2, <3>3 DEF Registered
  <2>2. ASSUME NEW e \in ignored' PROVE removal'[e] # "none"
    <3>1. e \in Escalations
      BY <2>2 DEF TypeOK
    <3>2. CASE e \in ignored
      BY <3>1, <3>2, RegisteredStays DEF ReportInv
    <3>3. CASE e \notin ignored
      <4>1. PICK r \in reviews : ReviewReport(r)
        BY <2>2, <3>3
        DEF Next, Loop, EscalationTask, ReportTask, Environment, vars, councilVars, history,
            ReceiveEscalation, ReceiveReport, SweepExpired, QueryReturns, ModelDecides,
            ModelFails, DecisionSent, ReplySent, RequestSent, SendFails, ReportReplySent,
            ReportReplyFails, RouterEscalates, RouterTakes, DetectiveReports, DetectiveFails,
            RouterStops, Tick
      <4>2. e = r.launch /\ pending[MsgOf[e]] = NoEntry
        BY <2>2, <3>3, <4>1 DEF ReviewReport
      <4>3. e \in Reporting
        BY <4>1, <4>2 DEF Reporting
      <4>4. removal[e] # "none"
        BY <4>2, <4>3 DEF ReportInv, Registered
      <4>5. QED
        BY <3>1, <4>4, RegisteredStays
    <3>4. QED
      BY <3>2, <3>3
  <2>3. QED
    BY <2>1, <2>2 DEF ReportInv
<1>3. QED
  BY <1>1, <1>2, TypeCorrect, PTL DEF Spec

(* handle_escalation registers the launch before it asks the detective, so *)
(* handle_report ignores a report only when the entry of its launch was    *)
(* swept, taken or replaced: never because the detective was too fast,     *)
(* with any capacities of the channels between them.                       *)
THEOREM ReportNeverTooEarly == Spec => []ReportFindsItsEntry
<1>1. ReportInv => ReportFindsItsEntry
  BY DEF ReportInv, ReportFindsItsEntry
<1>2. QED
  BY <1>1, ReportInvariant, PTL

-----------------------------------------------------------------------------
(* The council implements ReplyAuthority. *)

StageFcn == [e \in Escalations |-> StageOf(e)]

(* A step that only lets go of escalations drops them, or changes nothing. *)
LEMMA LettingGo ==
  ASSUME \A e \in Escalations : task'[e] = "unsent" <=> task[e] = "unsent",
         \A e \in Escalations : replied'[e] = replied[e],
         \A e \in Escalations : routerUp' /\ IsOpen(e)' => routerUp /\ IsOpen(e)
  PROVE  Authority!Next \/ UNCHANGED StageFcn
<1>. DEFINE E == {e \in Escalations : StageOf(e) = "open" /\ StageOf(e)' = "dropped"}
<1>1. \A e \in Escalations : StageOf(e)' = StageOf(e) \/ e \in E
  BY DEF StageOf
<1>2. \A e \in Escalations : e \in E => StageOf(e) = "open" /\ StageOf(e)' = "dropped"
  OBVIOUS
<1>. HIDE DEF E
<1>3. CASE E = {}
  BY <1>1, <1>3 DEF StageFcn
<1>4. CASE E # {}
  <2>1. E \in SUBSET Authority!Open
    BY <1>2 DEF Authority!Open, E
  <2>2. StageFcn' = [e \in Escalations |-> IF e \in E THEN "dropped" ELSE StageFcn[e]]
    BY <1>1, <1>2 DEF StageFcn
  <2>3. Authority!Drop
    BY <1>4, <2>1, <2>2 DEF Authority!Drop, StageFcn
  <2>4. QED
    BY <2>3 DEF Authority!Next
<1>5. QED
  BY <1>3, <1>4

(* A step that settles one escalation with a reply answers it. *)
LEMMA Answering ==
  ASSUME NEW e \in Escalations,
         StageOf(e) = "open", StageOf(e)' = "answered",
         \A f \in Escalations : f # e => StageOf(f)' = StageOf(f)
  PROVE  Authority!Next
<1>1. StageFcn' = [StageFcn EXCEPT ![e] = "answered"]
  BY DEF StageFcn
<1>2. Authority!Answer(e)
  BY <1>1 DEF Authority!Answer, StageFcn
<1>3. QED
  BY <1>2 DEF Authority!Next

LEMMA Escalating ==
  ASSUME NEW e \in Escalations,
         StageOf(e) = "absent", StageOf(e)' = "open",
         \A f \in Escalations : f # e => StageOf(f)' = StageOf(f)
  PROVE  Authority!Next
<1>1. StageFcn' = [StageFcn EXCEPT ![e] = "open"]
  BY DEF StageFcn
<1>2. Authority!Escalate(e)
  BY <1>1 DEF Authority!Escalate, StageFcn
<1>3. QED
  BY <1>2 DEF Authority!Next

LEMMA AuthorityStep ==
  ASSUME TypeOK, QueueInv, ClaimInv, [Next]_vars
  PROVE  Authority!Next \/ UNCHANGED StageFcn
<1>. DEFINE Goal == Authority!Next \/ UNCHANGED StageFcn
<1>. SUFFICES Goal
  OBVIOUS
<1>. USE MsgOfAssumption, NoEntryAssumption DEF Entries
<1>0. /\ task \in [Escalations -> TaskStates]
      /\ replied \in [Escalations -> Nat]
      /\ pending \in [Messages -> Entries \cup {NoEntry}]
      /\ \A m \in Messages : pending[m] # NoEntry => pending[m] \in Entries
      /\ \A e \in Escalations : MsgOf[e] \in Messages
  BY DEF TypeOK
<1>. HIDE DEF Goal
<1>1. ASSUME UNCHANGED replied,
             \A e \in Escalations : task'[e] = "unsent" <=> task[e] = "unsent",
             \A e \in Escalations : routerUp' /\ IsOpen(e)' => routerUp /\ IsOpen(e)
      PROVE  Goal
  BY <1>1, LettingGo DEF Goal
<1>2. CASE ReceiveEscalation
  <2>1. Head(inbound).esc \in Escalations /\ task[Head(inbound).esc] = "inbound"
    <3>. DEFINE S == EscalationEvents \cup ReportEvents
    <3>1. inbound \in Seq(S) /\ inbound # <<>> /\ Head(inbound).kind = "escalation"
      BY <1>2 DEF TypeOK, ReceiveEscalation
    <3>2. 1 \in 1 .. Len(inbound) /\ Head(inbound) = inbound[1] /\ Head(inbound) \in S
      BY <3>1, HeadTailProperties, LenProperties
    <3>3. QED
      BY <3>1, <3>2 DEF QueueInv, EscalationEvents, ReportEvents
  <2>2. /\ task' = [task EXCEPT ![Head(inbound).esc] = "history"]
        /\ UNCHANGED <<replied, routerUp, pending, composed>>
    BY <1>2 DEF ReceiveEscalation, envVars, history
  <2>3. \A e \in Escalations : IsOpen(e)' => IsOpen(e)
    BY <1>0, <2>1, <2>2 DEF IsOpen, TaskStates
  <2>4. QED
    BY <1>0, <1>1, <2>1, <2>2, <2>3
<1>3. ASSUME NEW e \in Escalations, EscalationTask(e), ~ReplySent(e), ~DecisionSent(e) PROVE Goal
  <2>1. /\ task[e] \in {"history", "thinking", "replying", "requesting"}
        /\ task' = [task EXCEPT ![e] = task'[e]]
        /\ task'[e] # "unsent"
        /\ task[e] = "requesting" => task'[e] = "done"
        /\ UNCHANGED <<replied, routerUp, pending, composed>>
    BY <1>0, <1>3 DEF EscalationTask, QueryReturns, ModelDecides, ModelFails, RequestSent,
       SendFails, Deciding, Actions, envVars, history
  <2>2. \A f \in Escalations : IsOpen(f)' => IsOpen(f)
    BY <1>0, <2>1 DEF IsOpen, TaskStates
  <2>3. QED
    BY <1>0, <1>1, <2>1, <2>2
<1>4. ASSUME NEW e \in Escalations, DecisionSent(e) PROVE Goal
  <2>1. /\ task[e] \in {"deciding_reply", "deciding_detective", "deciding_ignore"}
        /\ task' = [task EXCEPT ![e] = task'[e]]
        /\ task'[e] # "unsent"
        /\ UNCHANGED <<replied, routerUp, composed>>
        /\ pending' \in {pending, [pending EXCEPT ![MsgOf[e]] = [by |-> e, age |-> 0]]}
    BY <1>0, <1>4 DEF DecisionSent, envVars
  <2>2. IsOpen(e)
    BY <2>1 DEF IsOpen, TaskStates
  <2>3. \A f \in Escalations : f # e /\ IsOpen(f)' => IsOpen(f)
    BY <1>0, <2>1 DEF IsOpen
  <2>4. QED
    BY <1>0, <1>1, <2>1, <2>2, <2>3
<1>5. ASSUME NEW e \in Escalations, ReplySent(e) PROVE Goal
  <2>1. /\ task[e] = "replying" /\ task' = [task EXCEPT ![e] = "done"]
        /\ replied' = [replied EXCEPT ![e] = @ + 1]
        /\ UNCHANGED <<routerUp, pending, composed>>
        /\ routerUp
    BY <1>5 DEF ReplySent, CanSend, envVars
  <2>2. replied[e] = 0
    BY <2>1 DEF ClaimInv, Launched
  <2>3. StageOf(e) = "open"
    BY <2>1, <2>2 DEF StageOf, IsOpen, TaskStates
  <2>4. StageOf(e)' = "answered"
    BY <1>0, <2>1, <2>2 DEF StageOf
  <2>5. \A f \in Escalations : f # e => StageOf(f)' = StageOf(f)
    BY <1>0, <2>1 DEF StageOf, IsOpen
  <2>6. QED
    BY <2>3, <2>4, <2>5, Answering DEF Goal
<1>6. ASSUME NEW e \in Escalations, ReportReplySent(e) PROVE Goal
  <2>1. /\ e \in composed /\ composed' = composed \ {e}
        /\ replied' = [replied EXCEPT ![e] = @ + 1]
        /\ UNCHANGED <<routerUp, pending, task>>
        /\ routerUp
    BY <1>6 DEF ReportReplySent, CanSend, envVars
  <2>2. replied[e] = 0 /\ task[e] # "unsent"
    BY <2>1 DEF ClaimInv, Launched
  <2>3. StageOf(e) = "open"
    BY <2>1, <2>2 DEF StageOf, IsOpen
  <2>4. StageOf(e)' = "answered"
    BY <1>0, <2>1, <2>2 DEF StageOf
  <2>5. \A f \in Escalations : f # e => StageOf(f)' = StageOf(f)
    BY <1>0, <2>1 DEF StageOf, IsOpen
  <2>6. QED
    BY <2>3, <2>4, <2>5, Answering DEF Goal
<1>7. ASSUME NEW e \in Escalations, RouterEscalates(e) PROVE Goal
  <2>1. /\ task[e] = "unsent" /\ task' = [task EXCEPT ![e] = "inbound"]
        /\ UNCHANGED <<replied, routerUp, pending, composed>>
        /\ routerUp
    BY <1>7 DEF RouterEscalates, CanForward, envVars, history
  <2>2. replied[e] = 0
    BY <2>1 DEF ClaimInv, Launched
  <2>3. StageOf(e) = "absent"
    BY <2>1 DEF StageOf
  <2>4. StageOf(e)' = "open"
    BY <1>0, <2>1, <2>2 DEF StageOf, IsOpen, TaskStates
  <2>5. \A f \in Escalations : f # e => StageOf(f)' = StageOf(f)
    BY <1>0, <2>1 DEF StageOf, IsOpen
  <2>6. QED
    BY <2>3, <2>4, <2>5, Escalating DEF Goal
<1>8. ASSUME NEW r \in reviews, ReviewReport(r) PROVE Goal
  <2>. DEFINE m == MsgOf[r.launch]
  <2>1. m \in Messages /\ UNCHANGED <<task, replied, routerUp>>
    BY <1>8 DEF TypeOK, ReviewReport, envVars
  <2>2. CASE UNCHANGED <<pending, composed>>
    BY <1>1, <2>1, <2>2 DEF IsOpen
  <2>3. CASE /\ pending[m] # NoEntry
             /\ pending' = [pending EXCEPT ![m] = NoEntry]
             /\ composed' \in {composed, composed \cup {pending[m].by}}
    <3>1. MsgOf[pending[m].by] = m
      BY <2>1, <2>3 DEF ClaimInv
    <3>2. IsOpen(pending[m].by)
      BY <2>3, <3>1 DEF IsOpen
    <3>3. \A e \in Escalations : e # pending[m].by /\ IsOpen(e)' => IsOpen(e)
      BY <1>0, <2>1, <2>3 DEF IsOpen
    <3>4. QED
      BY <1>1, <2>1, <3>2, <3>3
  <2>4. QED
    BY <1>8, <2>2, <2>3 DEF ReviewReport
<1>9. CASE SweepExpired
  <2>1. /\ UNCHANGED <<task, replied, routerUp, composed>>
        /\ \A m \in Messages : pending'[m] \in {NoEntry, pending[m]}
    BY <1>9 DEF SweepExpired, envVars
  <2>2. \A e \in Escalations : IsOpen(e)' => IsOpen(e)
    BY <1>0, <2>1 DEF IsOpen
  <2>3. QED
    BY <1>1, <2>1, <2>2
<1>10. CASE Tick
  <2>1. /\ UNCHANGED <<task, replied, routerUp, composed>>
        /\ \A m \in Messages :
             pending'[m] # NoEntry => pending[m] # NoEntry /\ pending'[m].by = pending[m].by
    BY <1>0, <1>10 DEF Tick, envVars, history
  <2>2. \A e \in Escalations : IsOpen(e)' => IsOpen(e)
    BY <1>0, <2>1 DEF IsOpen
  <2>3. QED
    BY <1>1, <2>1, <2>2
<1>11. CASE /\ UNCHANGED <<task, replied, pending>>
            /\ composed' \subseteq composed
            /\ routerUp' => routerUp
  BY <1>1, <1>11 DEF IsOpen
<1>12. ASSUME NEW e \in Escalations, ReportReplyFails(e) \/ DetectiveFails(e) PROVE Goal
  BY <1>11, <1>12 DEF ReportReplyFails, DetectiveFails, envVars, councilVars, history
<1>13. CASE \/ ReceiveReport \/ RouterTakes \/ RouterStops \/ UNCHANGED vars
            \/ \E e \in Escalations, u \in BOOLEAN : DetectiveReports(e, u)
  BY <1>11, <1>13 DEF ReceiveReport, RouterTakes, RouterStops, DetectiveReports, vars,
     councilVars, envVars, history
<1>14. QED
  BY <1>2, <1>3, <1>4, <1>5, <1>6, <1>7, <1>8, <1>9, <1>10, <1>12, <1>13
  DEF Next, Loop, ReportTask, Environment

(* The council keeps what ReplyAuthority promises about an escalation: once*)
(* answered or dropped it stays so, whatever the model, the detective, the *)
(* sweeper, the channels and the shutdown do (handle_escalation,           *)
(* handle_report, sweep_expired).                                          *)
THEOREM CouncilImplementsAuthority == Spec => ImplementsAuthority
<1>1. Init => Authority!Init
  BY DEF Init, Authority!Init, StageOf
<1>2. TypeOK /\ QueueInv /\ ClaimInv /\ [Next]_vars
        => [Authority!Next]_[e \in Escalations |-> StageOf(e)]
  BY AuthorityStep DEF StageFcn
<1>3. QED
  BY <1>1, <1>2, TypeCorrect, QueueInvariant, ClaimInvariant, PTL
  DEF Spec, ImplementsAuthority, Authority!Spec

=============================================================================
