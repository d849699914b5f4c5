------------------------------ MODULE Council ------------------------------
(***************************************************************************)
(* The mind council, layer 3 of the router                                 *)
(* (crates/neko-council/src/actor.rs).  One loop receives events and sweeps*)
(* expired entries; every escalation and every detective report is handled *)
(* by a task of its own, and all the tasks share the map of escalations    *)
(* that wait for the detective.  The router and the detective are modelled *)
(* as far as the council sees them: they hand over escalations and reports *)
(* and take what the council sends.                                        *)
(*                                                                         *)
(* A step of a task runs from one await to the next, so what the code does *)
(* between two awaits is one action here.                                  *)
(***************************************************************************)
EXTENDS Integers, Sequences, FiniteSets

CONSTANTS
  Escalations,       \* Event::Escalation values; two may carry the same message
  Messages,          \* message ids, the keys of the pending map
  MsgOf,             \* the message an escalation carries
  NoEntry,           \* the map has no entry for a message
  DetectiveTimeout,  \* config.detective_timeout, in time units
  SweepCap,          \* the 30 s the sweeping period is capped at, in time units
  InCapacity,        \* capacity of the channel into the council
  OutCapacity        \* capacity of the channel to the router

ASSUME MsgOfAssumption == MsgOf \in [Escalations -> Messages]

ASSUME TimeoutAssumption ==
  DetectiveTimeout \in Nat \ {0} /\ SweepCap \in Nat \ {0}

ASSUME CapacityAssumption ==
  InCapacity \in Nat \ {0} /\ OutCapacity \in Nat \ {0}

ASSUME NoEntryAssumption ==
  NoEntry \notin [by : Escalations, age : Nat]

(* run(): the sweeper fires every detective_timeout, or every 30 s if that *)
(* is sooner.                                                              *)
SweepEvery == IF DetectiveTimeout < SweepCap THEN DetectiveTimeout ELSE SweepCap

VARIABLES
  inbound,      \* channel router -> council
  out,          \* channel council -> router
  task,         \* where the handle_escalation task of an escalation stands
  pending,      \* pending_detective: the entry of each message, if any
  phase,        \* time since the sweeper last fired, modulo its period
  sweepDue,     \* the sweeper's tick is ready and not yet served
  reviews,      \* handle_report tasks that were spawned and have not run
  composed,     \* handle_report tasks that wait to send their reply
  asked,        \* requests the detective is working on
  routerUp,     \* the router holds its ends of both channels
  \* history: nothing in the code reads these
  replied,      \* number of replies sent for an escalation
  removal,      \* why the entry of an escalation left the map
  ignored       \* reports that found no entry

councilVars == <<inbound, out, task, pending, phase, sweepDue, reviews, composed>>
envVars     == <<asked, routerUp>>
history     == <<replied, removal, ignored>>
vars        == <<councilVars, envVars, history>>

Actions == {"reply", "detective", "ignore"}     \* CouncilAction

(* The awaits of handle_escalation: the history query, the model call, and *)
(* the sends of the decision and of the reply or the request.              *)
TaskStates ==
  {"unsent", "inbound", "history", "thinking", "replying", "requesting", "done"}
    \cup {"deciding_reply", "deciding_detective", "deciding_ignore"}

Deciding(a) ==
  CASE a = "reply"     -> "deciding_reply"
    [] a = "detective" -> "deciding_detective"
    [] a = "ignore"    -> "deciding_ignore"

EscalationEvent(e) == [kind |-> "escalation", esc |-> e]
ReportEvent(e, u)  == [kind |-> "report", esc |-> e, usable |-> u]
RouterEvent(k, e)  == [kind |-> k, esc |-> e]

EscalationEvents == [kind : {"escalation"}, esc : Escalations]
ReportEvents     == [kind : {"report"}, esc : Escalations, usable : BOOLEAN]
RouterEvents     == [kind : {"decision", "reply", "request"}, esc : Escalations]

(* A PendingDetective.  age is the time since inserted_at; by names the    *)
(* launch, which the code does not record.                                 *)
Entries == [by : Escalations, age : Nat]

Init ==
  /\ inbound = <<>>
  /\ out = <<>>
  /\ task = [e \in Escalations |-> "unsent"]
  /\ pending = [m \in Messages |-> NoEntry]
  /\ phase = 0
  /\ sweepDue = TRUE          \* the first tick of an interval is immediate
  /\ reviews = {}
  /\ composed = {}
  /\ asked = {}
  /\ routerUp = TRUE
  /\ replied = [e \in Escalations |-> 0]
  /\ removal = [e \in Escalations |-> "none"]
  /\ ignored = {}

-----------------------------------------------------------------------------
(* The council's loop. *)

(* recv() of an escalation: the loop spawns its task, which runs up to its *)
(* first await, the history query.                                         *)
ReceiveEscalation ==
  /\ inbound # <<>>
  /\ Head(inbound).kind = "escalation"
  /\ inbound' = Tail(inbound)
  /\ task' = [task EXCEPT ![Head(inbound).esc] = "history"]
  /\ UNCHANGED <<out, pending, phase, sweepDue, reviews, composed, envVars, history>>

(* recv() of a report: the loop spawns the task that will review it. *)
ReceiveReport ==
  /\ inbound # <<>>
  /\ Head(inbound).kind = "report"
  /\ inbound' = Tail(inbound)
  /\ reviews' = reviews \cup {[launch |-> Head(inbound).esc, usable |-> Head(inbound).usable]}
  /\ UNCHANGED <<out, task, pending, phase, sweepDue, composed, envVars, history>>

(* Mutant: the sweep compares with > instead of >=. *)
ExpiredStrictly(m) == pending[m] # NoEntry /\ pending[m].age > DetectiveTimeout

Expired(m) == pending[m] # NoEntry /\ pending[m].age >= DetectiveTimeout

(* Mutant: the sweep restarts the clock of an expired entry and keeps it. *)
SweepRenews ==
  /\ sweepDue
  /\ routerUp \/ inbound # <<>>
  /\ sweepDue' = FALSE
  /\ pending' = [m \in Messages |->
                   IF Expired(m) THEN [pending[m] EXCEPT !.age = 0] ELSE pending[m]]
  /\ UNCHANGED <<inbound, out, task, phase, reviews, composed, envVars, history>>

(* sweep_expired(): drop every entry that has waited detective_timeout. *)
SweepExpired ==
  /\ sweepDue
  /\ routerUp \/ inbound # <<>>
  /\ sweepDue' = FALSE
  /\ pending' = [m \in Messages |-> IF Expired(m) THEN NoEntry ELSE pending[m]]
  /\ removal' = [e \in Escalations |->
                   IF Expired(MsgOf[e]) /\ pending[MsgOf[e]].by = e
                   THEN "swept" ELSE removal[e]]
  /\ UNCHANGED <<inbound, out, task, phase, reviews, composed, envVars, replied, ignored>>

-----------------------------------------------------------------------------
(* handle_escalation *)

(* The history query returns; a failure counts as an empty history.  The   *)
(* prompt is built and the model is called.                                *)
QueryReturns(e) ==
  /\ task[e] = "history"
  /\ task' = [task EXCEPT ![e] = "thinking"]
  /\ UNCHANGED <<inbound, out, pending, phase, sweepDue, reviews, composed, envVars, history>>

(* The model answers with a decision that parses. *)
ModelDecides(e, a) ==
  /\ task[e] = "thinking"
  /\ task' = [task EXCEPT ![e] = Deciding(a)]
  /\ UNCHANGED <<inbound, out, pending, phase, sweepDue, reviews, composed, envVars, history>>

(* The model fails, or its answer does not parse: the task ends. *)
ModelFails(e) ==
  /\ task[e] = "thinking"
  /\ task' = [task EXCEPT ![e] = "done"]
  /\ UNCHANGED <<inbound, out, pending, phase, sweepDue, reviews, composed, envVars, history>>

(* Mutant: the channel to the router has no bound. *)
CanSendUnbounded == routerUp

(* out.send(): waits for room while the router listens. *)
CanSend == routerUp /\ Len(out) < OutCapacity

(* Mutant: a launch keeps an older entry of its message (or_insert). *)
DecisionSentKeepsEntry(e) ==
  /\ IF routerUp
     THEN CanSend /\ out' = Append(out, RouterEvent("decision", e))
     ELSE UNCHANGED out
  /\ \/ /\ task[e] \in {"deciding_reply", "deciding_ignore"}
        /\ task' = [task EXCEPT ![e] = IF @ = "deciding_reply" THEN "replying" ELSE "done"]
        /\ UNCHANGED pending
     \/ /\ task[e] = "deciding_detective"
        /\ task' = [task EXCEPT ![e] = "requesting"]
        /\ pending' = [pending EXCEPT ![MsgOf[e]] =
                         IF @ = NoEntry THEN [by |-> e, age |-> 0] ELSE @]
  /\ UNCHANGED <<inbound, phase, sweepDue, reviews, composed, envVars, history>>

(* The decision is sent, or dropped when the router is gone (.ok()).  A    *)
(* launch registers its entry before it asks the detective, replacing an   *)
(* older entry of the same message.                                        *)
DecisionSent(e) ==
  /\ IF routerUp
     THEN CanSend /\ out' = Append(out, RouterEvent("decision", e))
     ELSE UNCHANGED out
  /\ \/ /\ task[e] = "deciding_reply"
        /\ task' = [task EXCEPT ![e] = "replying"]
        /\ UNCHANGED <<pending, removal>>
     \/ /\ task[e] = "deciding_detective"
        /\ task' = [task EXCEPT ![e] = "requesting"]
        /\ pending' = [pending EXCEPT ![MsgOf[e]] = [by |-> e, age |-> 0]]
        /\ removal' = IF pending[MsgOf[e]] = NoEntry THEN removal
                      ELSE [removal EXCEPT ![pending[MsgOf[e]].by] = "replaced"]
     \/ /\ task[e] = "deciding_ignore"
        /\ task' = [task EXCEPT ![e] = "done"]
        /\ UNCHANGED <<pending, removal>>
  /\ UNCHANGED <<inbound, phase, sweepDue, reviews, composed, envVars, replied, ignored>>

(* The direct reply is sent. *)
ReplySent(e) ==
  /\ task[e] = "replying"
  /\ CanSend
  /\ out' = Append(out, RouterEvent("reply", e))
  /\ task' = [task EXCEPT ![e] = "done"]
  /\ replied' = [replied EXCEPT ![e] = @ + 1]
  /\ UNCHANGED <<inbound, pending, phase, sweepDue, reviews, composed, envVars, removal, ignored>>

(* The request to the detective is sent. *)
RequestSent(e) ==
  /\ task[e] = "requesting"
  /\ CanSend
  /\ out' = Append(out, RouterEvent("request", e))
  /\ task' = [task EXCEPT ![e] = "done"]
  /\ UNCHANGED <<inbound, pending, phase, sweepDue, reviews, composed, envVars, history>>

(* The router is gone: the send fails and the task ends with an error.  An *)
(* entry it registered stays.                                              *)
SendFails(e) ==
  /\ task[e] \in {"replying", "requesting"}
  /\ ~routerUp
  /\ task' = [task EXCEPT ![e] = "done"]
  /\ UNCHANGED <<inbound, out, pending, phase, sweepDue, reviews, composed, envVars, history>>

-----------------------------------------------------------------------------
(* handle_report *)

(* Mutant: the review reads the entry and leaves it in the map. *)
ReviewReportKeepsEntry(r) ==
  LET entry == pending[MsgOf[r.launch]]
  IN /\ r \in reviews
     /\ reviews' = reviews \ {r}
     /\ composed' = IF entry # NoEntry /\ r.usable THEN composed \cup {entry.by} ELSE composed
     /\ UNCHANGED <<inbound, out, task, pending, phase, sweepDue, envVars, history>>

(* Mutant: a report whose entry is gone is answered all the same. *)
ReviewReportWithoutEntry(r) ==
  LET m  == MsgOf[r.launch]
      by == IF pending[m] = NoEntry THEN r.launch ELSE pending[m].by
  IN /\ r \in reviews
     /\ reviews' = reviews \ {r}
     /\ pending' = [pending EXCEPT ![m] = NoEntry]
     /\ composed' = IF r.usable THEN composed \cup {by} ELSE composed
     /\ UNCHANGED <<inbound, out, task, phase, sweepDue, envVars, history>>

(* The task takes the entry of the report's message out of the map.  No    *)
(* entry: the report is ignored.  A report that is not confident enough or *)
(* has no summary ends the escalation without a reply                      *)
(* (compose_detective_reply).                                              *)
ReviewReport(r) ==
  LET m     == MsgOf[r.launch]
      entry == pending[m]
  IN /\ r \in reviews
     /\ reviews' = reviews \ {r}
     /\ IF entry = NoEntry
        THEN /\ ignored' = ignored \cup {r.launch}
             /\ UNCHANGED <<pending, removal, composed>>
        ELSE /\ pending' = [pending EXCEPT ![m] = NoEntry]
             /\ removal' = [removal EXCEPT ![entry.by] = "taken"]
             /\ composed' = IF r.usable THEN composed \cup {entry.by} ELSE composed
             /\ UNCHANGED ignored
     /\ UNCHANGED <<inbound, out, task, phase, sweepDue, envVars, replied>>

(* The reply composed from a report is sent, or fails with the router gone. *)
ReportReplySent(e) ==
  /\ e \in composed
  /\ CanSend
  /\ out' = Append(out, RouterEvent("reply", e))
  /\ composed' = composed \ {e}
  /\ replied' = [replied EXCEPT ![e] = @ + 1]
  /\ UNCHANGED <<inbound, task, pending, phase, sweepDue, reviews, envVars, removal, ignored>>

ReportReplyFails(e) ==
  /\ e \in composed
  /\ ~routerUp
  /\ composed' = composed \ {e}
  /\ UNCHANGED <<inbound, out, task, pending, phase, sweepDue, reviews, envVars, history>>

-----------------------------------------------------------------------------
(* The router and the detective, and time. *)

CanForward == routerUp /\ Len(inbound) < InCapacity

(* dispatch: Event::Escalation goes on to the council. *)
RouterEscalates(e) ==
  /\ task[e] = "unsent"
  /\ CanForward
  /\ inbound' = Append(inbound, EscalationEvent(e))
  /\ task' = [task EXCEPT ![e] = "inbound"]
  /\ UNCHANGED <<out, pending, phase, sweepDue, reviews, composed, envVars, history>>

(* dispatch takes the council's next event: a decision is recorded, a      *)
(* reply goes to the egress, a request to the detective.                   *)
RouterTakes ==
  /\ routerUp
  /\ out # <<>>
  /\ out' = Tail(out)
  /\ asked' = IF Head(out).kind = "request" THEN asked \cup {Head(out).esc} ELSE asked
  /\ UNCHANGED <<inbound, task, pending, phase, sweepDue, reviews, composed, routerUp, history>>

(* The detective reports, an empty report included, and dispatch forwards  *)
(* the report to the council.                                              *)
DetectiveReports(e, u) ==
  /\ e \in asked
  /\ CanForward
  /\ asked' = asked \ {e}
  /\ inbound' = Append(inbound, ReportEvent(e, u))
  /\ UNCHANGED <<out, task, pending, phase, sweepDue, reviews, composed, routerUp, history>>

(* The model's answer to the detective does not parse: no report follows. *)
DetectiveFails(e) ==
  /\ e \in asked
  /\ asked' = asked \ {e}
  /\ UNCHANGED <<councilVars, routerUp, history>>

(* Shutdown: the dispatcher stops, both channels lose their router end.    *)
(* The council drains what is queued and then stops (see SweepExpired).    *)
RouterStops ==
  /\ routerUp
  /\ routerUp' = FALSE
  /\ UNCHANGED <<councilVars, asked, history>>

(* One time unit passes.  The loop awaits nothing but its select, so a     *)
(* sweep that is due is served before the next unit ends; once the loop    *)
(* has stopped, time that passes changes nothing more.                     *)
Tick ==
  /\ ~sweepDue
  /\ phase' = IF phase + 1 = SweepEvery THEN 0 ELSE phase + 1
  /\ sweepDue' = (phase + 1 = SweepEvery)
  /\ pending' = [m \in Messages |->
                   IF pending[m] = NoEntry THEN NoEntry
                   ELSE [pending[m] EXCEPT !.age = @ + 1]]
  /\ UNCHANGED <<inbound, out, task, reviews, composed, envVars, history>>

-----------------------------------------------------------------------------
Loop == ReceiveEscalation \/ ReceiveReport \/ SweepExpired

EscalationTask(e) ==
  \/ QueryReturns(e)
  \/ \E a \in Actions : ModelDecides(e, a)
  \/ ModelFails(e)
  \/ DecisionSent(e)
  \/ ReplySent(e)
  \/ RequestSent(e)
  \/ SendFails(e)

ReportTask ==
  \/ \E r \in reviews : ReviewReport(r)
  \/ \E e \in Escalations : ReportReplySent(e) \/ ReportReplyFails(e)

Environment ==
  \/ \E e \in Escalations : RouterEscalates(e)
  \/ RouterTakes
  \/ \E e \in Escalations, u \in BOOLEAN : DetectiveReports(e, u)
  \/ \E e \in Escalations : DetectiveFails(e)
  \/ RouterStops

Next ==
  \/ Loop
  \/ \E e \in Escalations : EscalationTask(e)
  \/ ReportTask
  \/ Environment
  \/ Tick

Spec == Init /\ [][Next]_vars

(* What the runtime and the services guarantee: the loop's select serves a *)
(* ready channel and a ready tick, a spawned task runs when what it awaits *)
(* is ready, calls to the database and the model return (with an error,    *)
(* perhaps), the router keeps taking events while it runs, time passes.    *)
(* Nothing is assumed of the detective, of new escalations or of shutdown, *)
(* and no fairness between the tasks: finitely many escalations cannot     *)
(* keep the others waiting for ever.                                       *)
Work ==
  \/ ReceiveEscalation \/ ReceiveReport \/ ReportTask \/ RouterTakes
  \/ \E e \in Escalations : EscalationTask(e)

Fairness == WF_vars(Work) /\ WF_vars(SweepExpired \/ Tick)

FairSpec == Spec /\ Fairness

-----------------------------------------------------------------------------
(* Properties *)

(* The type invariant: every variable holds what the code's type allows,   *)
(* and the channels never hold more than their capacity.                   *)
TypeOK ==
  /\ inbound \in Seq(EscalationEvents \cup ReportEvents)
  /\ Len(inbound) <= InCapacity
  /\ out \in Seq(RouterEvents)
  /\ Len(out) <= OutCapacity
  /\ task \in [Escalations -> TaskStates]
  /\ pending \in [Messages -> Entries \cup {NoEntry}]
  /\ phase \in 0 .. SweepEvery - 1
  /\ sweepDue \in BOOLEAN
  /\ reviews \subseteq [launch : Escalations, usable : BOOLEAN]
  /\ composed \subseteq Escalations
  /\ asked \subseteq Escalations
  /\ routerUp \in BOOLEAN
  /\ replied \in [Escalations -> Nat]
  /\ removal \in [Escalations -> {"none", "swept", "replaced", "taken"}]
  /\ ignored \subseteq Escalations

(* The council answers an escalation at most once, whether it replies      *)
(* directly or from a report, and however escalations of the same message, *)
(* their reports and the sweeper interleave: handle_report replies only    *)
(* after it has taken the entry out of the shared map.                     *)
OneReplyPerEscalation == \A e \in Escalations : replied[e] <= 1

(* No entry outlives detective_timeout by a sweeping period: the map       *)
(* cannot grow with reports that never come, and a late report is answered *)
(* at most that much later (run, sweep_expired).                           *)
PendingAgeBounded ==
  \A m \in Messages :
    pending[m] # NoEntry => pending[m].age < DetectiveTimeout + SweepEvery

(* A report is ignored only when the entry of its launch had left the map: *)
(* swept, taken by another report, or replaced by a newer launch for the   *)
(* message.  The entry is registered before the request is sent, so the    *)
(* detective cannot be faster than the bookkeeping (handle_escalation).    *)
ReportFindsItsEntry ==
  \A e \in ignored : removal[e] # "none"

(* An escalation is open while the router runs and its task, its entry or  *)
(* its composed reply can still produce an answer.                         *)
IsOpen(e) ==
  \/ task[e] \in TaskStates \ {"unsent", "requesting", "done"}
  \/ pending[MsgOf[e]] # NoEntry /\ pending[MsgOf[e]].by = e
  \/ e \in composed

StageOf(e) ==
  IF task[e] = "unsent" THEN "absent"
  ELSE IF replied[e] > 0 THEN "answered"
  ELSE IF routerUp /\ IsOpen(e) THEN "open" ELSE "dropped"

Authority == INSTANCE ReplyAuthority WITH
               stage <- [e \in Escalations |-> StageOf(e)]

(* The council implements ReplyAuthority: an escalation is settled for     *)
(* good, and no event that comes later (a report after the sweep, a second *)
(* report, a newer escalation of the message) answers one that was dropped.*)
ImplementsAuthority == Authority!Spec

(* Every escalation the council accepted is answered or dropped in the     *)
(* end, even when the detective never reports: the sweeper sees to it.     *)
EventuallySettled == Authority!EventuallySettled

-----------------------------------------------------------------------------
(* The inductive invariants behind the properties (see CouncilProofs.tla). *)

(* Since the last sweep an entry has aged by at most the time since then,  *)
(* and the sweep left only entries younger than the timeout.               *)
AgeInv ==
  /\ sweepDue => phase = 0
  /\ \A m \in Messages :
       pending[m] # NoEntry =>
         pending[m].age <= DetectiveTimeout - 1 + (IF sweepDue THEN SweepEvery ELSE phase)

Launched(e) == task[e] \in {"requesting", "done"}

(* An escalation's event is queued at most once, while its task has yet to *)
(* be spawned.                                                             *)
QueueInv ==
  /\ \A i \in 1 .. Len(inbound) :
       inbound[i].kind = "escalation" => task[inbound[i].esc] = "inbound"
  /\ \A i, j \in 1 .. Len(inbound) :
       /\ inbound[i].kind = "escalation"
       /\ inbound[j].kind = "escalation"
       /\ inbound[i].esc = inbound[j].esc
       => i = j

(* An escalation is in at most one place from which a reply can come: its  *)
(* task before the verdict, its entry in the map, or the reply composed    *)
(* from a report; and in none once it was answered.                        *)
ClaimInv ==
  /\ \A m \in Messages :
       pending[m] # NoEntry =>
         /\ MsgOf[pending[m].by] = m
         /\ Launched(pending[m].by)
         /\ pending[m].by \notin composed
         /\ replied[pending[m].by] = 0
  /\ \A e \in composed : Launched(e) /\ replied[e] = 0
  /\ \A e \in Escalations :
       /\ replied[e] \in {0, 1}
       /\ replied[e] = 1 => Launched(e)
=============================================================================
