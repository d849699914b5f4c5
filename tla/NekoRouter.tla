----------------------------- MODULE NekoRouter -----------------------------
(***************************************************************************)
(* The whole router: the loops that run() (crates/neko-router/src/main.rs) *)
(* spawns, the bounded channels between them, the dispatcher's arms        *)
(* (router.rs), the ingress connection (neko-sensory/src/ingress.rs), the  *)
(* cron job and the shutdown.                                              *)
(*                                                                         *)
(*   ingress -> raw -> sensory -> gate -> tasks -> router -> dispatcher    *)
(*   dispatcher -> routed -> sensory                                       *)
(*   dispatcher -> council, detective, solidify -> tasks -> router         *)
(*                                                                         *)
(* A layer appears as what it sends for what it receives; Sensory, Gate,   *)
(* Council, Detective and Solidify have the insides.  A handler that sends *)
(* waits for room; a receiver that ends closes its channel.  A start that  *)
(* fails takes down what is already running.                               *)
(***************************************************************************)
EXTENDS Integers, Sequences, FiniteSets

CONSTANTS
  Messages,     \* what arrives at the ingress
  NoMessage,    \* an event about no message
  Capacity,     \* of each channel
  MaxTicks      \* how often the cron job fires

Channels == {"raw", "gate", "router", "routed", "council", "detective", "solidify"}
Layers   == {"gate", "council", "detective", "solidify"}
Loops    == Layers \cup {"ingress", "sensory", "dispatcher"}

ASSUME CapacityAssumption == Capacity \in [Channels -> Nat \ {0}] /\ MaxTicks \in Nat

(* The loop that receives from a channel. *)
Receiver(c) == CASE c \in {"raw", "routed"} -> "sensory"
                 [] c = "router"            -> "dispatcher"
                 [] OTHER                   -> c

(* The loops that hold a sender of a layer's channel. *)
Holders(c) == IF c = "gate" THEN {"sensory"} ELSE {"dispatcher"}

Kinds == {"message", "affective", "burst", "gate_decision", "escalation", "council_decision",
          "request", "report", "reply", "memory", "tick", "context"}

Event(k, m) == [kind |-> k, about |-> m]
Events == [kind : Kinds, about : Messages \cup {NoMessage}]

VARIABLES
  phase,      \* how far run() has come: building, loading, running, exited
  chan,       \* what is queued in each channel
  up,         \* which loops run
  sends,      \* what a handler still has to send, and where to
  tasks,      \* what each spawned task still has to send to the dispatcher
  link,       \* the connection of the ingress: down, up, or up with nobody listening
  shutdown,   \* the shutdown signal was given
  cron,       \* the scheduler's job still holds its sender for solidify
  ticks,      \* how often it fired
  \* history: nothing in the code reads these
  arrived,    \* messages that reached the ingress
  gotReport   \* who was sent the report on a message

sysVars == <<phase, chan, up, sends, tasks, link, shutdown, cron, ticks,
             arrived, gotReport>>
seen    == <<arrived, gotReport>>
outside == <<phase, link, shutdown, cron, ticks>>

Handlers == {"sensory", "dispatcher"}

(* main() has the configuration, the history store and the signal handler. *)
SysInit ==
  /\ phase = "building"
  /\ chan = [c \in Channels |-> <<>>] /\ up = [l \in Loops |-> FALSE]
  /\ sends = [h \in Handlers |-> <<>>] /\ tasks = {}
  /\ link = "down" /\ shutdown = FALSE /\ cron = FALSE /\ ticks = 0
  /\ arrived = {} /\ gotReport = [m \in Messages |-> {}]

(* A loop holds its ends of channels; run() has the dispatcher's until it  *)
(* can be spawned.                                                         *)
Alive(l) == up[l] \/ (l = "dispatcher" /\ phase = "loading")

(* Mutant: the channels have no bound. *)
UnboundedRoom(c) == Alive(Receiver(c))

Room(c) == Alive(Receiver(c)) /\ Len(chan[c]) < Capacity[c]

Drained(q, cs) == [c \in Channels |-> IF c \in cs THEN <<>> ELSE q[c]]

-----------------------------------------------------------------------------
(* run() starts: stores, clients, the layers' actors and the scheduler are *)
(* built, all the loops but the dispatcher spawned, the reply cooldowns    *)
(* loaded, and the dispatcher spawned.                                     *)

(* Every step of the building can fail, and with it the start. *)
BuildFails ==
  /\ phase = "building" /\ phase' = "exited"
  /\ UNCHANGED <<chan, up, sends, tasks, link, shutdown, cron, ticks, seen>>

(* The scheduler has been started; the loops begin. *)
Spawns ==
  /\ phase = "building" /\ phase' = "loading"
  /\ up' = [l \in Loops |-> l # "dispatcher"]
  /\ cron' = TRUE
  /\ UNCHANGED <<chan, sends, tasks, link, shutdown, ticks, seen>>

CooldownsLoaded ==
  /\ phase = "loading" /\ phase' = "running"
  /\ up' = [up EXCEPT !["dispatcher"] = TRUE]
  /\ UNCHANGED <<chan, sends, tasks, link, shutdown, cron, ticks, seen>>

(* run() ends with the error while the other loops run: the runtime cuts   *)
(* them off wherever they are.                                             *)
LoadFails ==
  /\ phase = "loading" /\ phase' = "exited"
  /\ up' = [l \in Loops |-> FALSE] /\ chan' = [c \in Channels |-> <<>>]
  /\ sends' = [h \in Handlers |-> <<>>] /\ tasks' = {}
  /\ link' = "down" /\ cron' = FALSE
  /\ UNCHANGED <<shutdown, ticks, seen>>

-----------------------------------------------------------------------------
(* The ingress. *)

(* run(): a failed connect is tried again, after a sleep. *)
Connects ==
  /\ up["ingress"] /\ link = "down" /\ link' = "up"
  /\ UNCHANGED <<phase, chan, up, sends, tasks, shutdown, cron, ticks, seen>>

(* The signal is looked at before each attempt, and waited for once        *)
(* connected.                                                              *)
IngressStops ==
  /\ up["ingress"] /\ shutdown
  /\ up' = [up EXCEPT !["ingress"] = FALSE]
  /\ UNCHANGED <<chan, sends, tasks, outside, seen>>

(* push_or_drop(): a message that finds the channel full is dropped, one   *)
(* that finds it closed ends the listener.                                 *)
Arrives(m) ==
  /\ up["ingress"] /\ link = "up" /\ m \notin arrived
  /\ arrived' = arrived \cup {m}
  /\ chan' = IF Room("raw") THEN [chan EXCEPT !["raw"] = Append(@, Event("message", m))] ELSE chan
  /\ link' = IF up["sensory"] THEN link ELSE "deaf"
  /\ UNCHANGED <<phase, up, sends, tasks, shutdown, cron, ticks, gotReport>>

-----------------------------------------------------------------------------
(* A handler's sends, in order: each waits for room; a closed channel ends *)
(* the handler with an error.                                              *)

To(c, e) == [to |-> c, event |-> e]

HandlerSends(h) ==
  LET s == Head(sends[h]) IN
  /\ up[h] /\ sends[h] # <<>> /\ Room(s.to)
  /\ chan' = [chan EXCEPT ![s.to] = Append(@, s.event)]
  /\ sends' = [sends EXCEPT ![h] = Tail(@)]
  /\ gotReport' = IF s.event.kind = "report"
                  THEN [gotReport EXCEPT ![s.event.about] = @ \cup {s.to}] ELSE gotReport
  /\ UNCHANGED <<up, tasks, outside, arrived>>

HandlerFails(h) ==
  /\ up[h] /\ sends[h] # <<>> /\ ~Alive(Receiver(Head(sends[h]).to))
  /\ sends' = [sends EXCEPT ![h] = <<>>]
  /\ UNCHANGED <<chan, up, tasks, outside, seen>>

-----------------------------------------------------------------------------
(* Sensory: the signal first, then messages, then replies. *)

Between(h) == up[h] /\ sends[h] = <<>>

SensoryTakesMessage ==
  LET m == Head(chan["raw"]).about IN
  /\ Between("sensory") /\ ~shutdown /\ chan["raw"] # <<>>
  /\ chan' = [chan EXCEPT !["raw"] = Tail(@)]
  /\ \E burst \in {<<>>, <<To("gate", Event("burst", m))>>} :
       sends' = [sends EXCEPT !["sensory"] =
         <<To("gate", Event("message", m)), To("gate", Event("affective", m))>> \o burst]
  /\ UNCHANGED <<up, tasks, outside, seen>>

SensoryTakesReply ==
  /\ Between("sensory") /\ ~shutdown /\ chan["raw"] = <<>> /\ chan["routed"] # <<>>
  /\ chan' = [chan EXCEPT !["routed"] = Tail(@)]
  /\ UNCHANGED <<up, sends, tasks, outside, seen>>

SensoryEnds ==
  /\ up' = [up EXCEPT !["sensory"] = FALSE]
  /\ sends' = [sends EXCEPT !["sensory"] = <<>>]
  /\ chan' = Drained(chan, {"raw", "routed"})
  /\ UNCHANGED <<tasks, outside, seen>>

SensoryStops == Between("sensory") /\ shutdown /\ SensoryEnds

(* The history store fails in a flush, on a tick or once the message has   *)
(* been passed on: the loop ends with the error.                           *)
SensoryFails == up["sensory"] /\ Len(sends["sensory"]) <= 1 /\ SensoryEnds

-----------------------------------------------------------------------------
(* The layers: a loop takes an event and spawns a task for it, so it never *)
(* waits for room itself.                                                  *)

(* What the task of an event may send, in order. *)
Answers(l, e) ==
  LET E(k) == Event(k, e.about) IN
  CASE l = "gate" /\ e.kind = "message" ->
         {<<>>, <<E("gate_decision")>>, <<E("gate_decision"), E("escalation")>>}
    [] l = "council" /\ e.kind = "escalation" ->
         {<<>>, <<E("council_decision")>>, <<E("council_decision"), E("reply")>>,
          <<E("council_decision"), E("request")>>}
    [] l = "council" /\ e.kind = "report"   -> {<<>>, <<E("reply")>>}
    [] l = "detective" /\ e.kind = "request" -> {<<>>, <<E("report")>>}
    [] l = "detective" /\ e.kind = "burst"   -> {<<>>, <<E("memory")>>}
    [] l = "solidify" /\ e.kind = "tick"     -> {<<>>, <<E("context")>>}
    [] OTHER -> {<<>>}

(* What a loop handles; the rest falls through its match. *)
Handled(l) ==
  CASE l = "gate"      -> {"message", "affective"}
    [] l = "council"   -> {"escalation", "report", "context"}
    [] l = "detective" -> {"request", "burst"}
    [] l = "solidify"  -> {"report", "tick"}

(* Mutant: a loop handles its events itself, one after the other. *)
LayerTakesInline(l) ==
  LET e == Head(chan[l]) IN
  /\ up[l] /\ chan[l] # <<>>
  /\ l = "council" => \A t \in tasks : Head(t).kind \notin {"council_decision", "reply", "request"}
  /\ chan' = [chan EXCEPT ![l] = Tail(@)]
  /\ \E a \in Answers(l, e) : tasks' = IF a = <<>> THEN tasks ELSE tasks \cup {a}
  /\ UNCHANGED <<up, sends, outside, seen>>

LayerTakes(l) ==
  LET e == Head(chan[l]) IN
  /\ up[l] /\ chan[l] # <<>>
  /\ chan' = [chan EXCEPT ![l] = Tail(@)]
  /\ \E a \in Answers(l, e) : tasks' = IF a = <<>> THEN tasks ELSE tasks \cup {a}
  /\ UNCHANGED <<up, sends, outside, seen>>

(* A task sends to the dispatcher; it ends when the dispatcher is gone. *)
TaskSends(t) ==
  /\ t \in tasks /\ Room("router")
  /\ chan' = [chan EXCEPT !["router"] = Append(@, Head(t))]
  /\ tasks' = (tasks \ {t}) \cup (IF Len(t) = 1 THEN {} ELSE {Tail(t)})
  /\ UNCHANGED <<up, sends, outside, seen>>

TaskFails(t) ==
  /\ t \in tasks /\ ~Alive("dispatcher")
  /\ tasks' = tasks \ {t}
  /\ UNCHANGED <<chan, up, sends, outside, seen>>

(* Mutant: run() keeps a sender of the council's channel. *)
AbandonedButKept(c) ==
  c # "council" /\ (\A h \in Holders(c) : ~Alive(h)) /\ (c = "solidify" => ~cron)

(* Every sender of the channel is dropped. *)
Abandoned(c) == (\A h \in Holders(c) : ~Alive(h)) /\ (c = "solidify" => ~cron)

(* recv() of a layer returns None: the channel is empty and abandoned. *)
LayerEnds(l) ==
  /\ up[l] /\ chan[l] = <<>> /\ Abandoned(l)
  /\ up' = [up EXCEPT ![l] = FALSE]
  /\ UNCHANGED <<chan, sends, tasks, outside, seen>>

-----------------------------------------------------------------------------
(* The dispatcher. *)

(* dispatch_event_full(): where each event goes.  An arm that calls a      *)
(* store or the egress before it sends may end there.                      *)
Forwards(e) ==
  CASE e.kind = "reply"      -> {<<>>, <<To("routed", e)>>}
    [] e.kind = "escalation" -> {<<To("council", e)>>}
    [] e.kind \in {"request", "burst"} -> {<<To("detective", e)>>}
    [] e.kind = "report"     -> {<<To("council", e), To("solidify", e)>>}
    [] e.kind = "tick"       -> {<<To("solidify", e)>>}
    [] e.kind = "context"    -> {<<>>, <<To("council", e)>>}
    [] OTHER                 -> {<<>>}

DispatcherTakes ==
  LET e == Head(chan["router"]) IN
  /\ Between("dispatcher") /\ ~shutdown /\ chan["router"] # <<>>
  /\ chan' = [chan EXCEPT !["router"] = Tail(@)]
  /\ \E f \in Forwards(e) : sends' = [sends EXCEPT !["dispatcher"] = f]
  /\ UNCHANGED <<up, tasks, outside, seen>>

(* Mutant: the signal cancels the handler that is running. *)
DispatcherStopsAtOnce ==
  /\ up["dispatcher"] /\ shutdown
  /\ up' = [up EXCEPT !["dispatcher"] = FALSE]
  /\ sends' = [sends EXCEPT !["dispatcher"] = <<>>]
  /\ chan' = Drained(chan, {"router"})
  /\ UNCHANGED <<tasks, outside, seen>>

(* The signal is looked at between two events; what is queued is lost. *)
DispatcherStops ==
  /\ Between("dispatcher") /\ shutdown
  /\ up' = [up EXCEPT !["dispatcher"] = FALSE]
  /\ chan' = Drained(chan, {"router"})
  /\ UNCHANGED <<sends, tasks, outside, seen>>

-----------------------------------------------------------------------------
(* The signal and the cron job. *)

SignalArrives ==
  /\ phase # "exited"
  /\ ~shutdown /\ shutdown' = TRUE
  /\ UNCHANGED <<phase, chan, up, sends, tasks, link, cron, ticks, seen>>

(* The job sends a tick straight to solidify, after the signal too: the    *)
(* scheduler is shut down when run() sees it, and may keep the job.        *)
CronTicks ==
  /\ cron /\ ticks < MaxTicks /\ Room("solidify")
  /\ ticks' = ticks + 1
  /\ chan' = [chan EXCEPT !["solidify"] = Append(@, Event("tick", NoMessage))]
  /\ UNCHANGED <<phase, up, sends, tasks, link, shutdown, cron, seen>>

(* sched.shutdown(): a library's, which may or may not drop the job. *)
SchedulerReleases ==
  /\ phase = "running" /\ shutdown /\ cron /\ cron' = FALSE
  /\ UNCHANGED <<phase, chan, up, sends, tasks, link, shutdown, ticks, seen>>

-----------------------------------------------------------------------------
HandlerStep(h) == HandlerSends(h) \/ HandlerFails(h)
IngressStep    == Connects \/ IngressStops
SensoryStep    == SensoryTakesMessage \/ SensoryTakesReply \/ SensoryStops \/ HandlerStep("sensory")
DispatcherStep == DispatcherTakes \/ DispatcherStops \/ HandlerStep("dispatcher")
LayerStep(l)   == LayerTakes(l) \/ LayerEnds(l)
TaskStep       == \E t \in tasks : TaskSends(t) \/ TaskFails(t)

StartStep      == BuildFails \/ Spawns \/ CooldownsLoaded \/ LoadFails

LoopStep ==
  \/ StartStep
  \/ IngressStep \/ SensoryStep \/ DispatcherStep \/ TaskStep
  \/ \E l \in Layers : LayerStep(l)

SysNext ==
  \/ LoopStep \/ SensoryFails
  \/ \E m \in Messages : Arrives(m)
  \/ SignalArrives \/ CronTicks \/ SchedulerReleases

SysSpec == SysInit /\ [][SysNext]_sysVars

(* The runtime does not idle while a loop or a task can run, and stores,   *)
(* the egress and connect() return.  Nothing makes messages, the signal or *)
(* the scheduler's release come.  Fairness to each loop is not needed:     *)
(* finitely many messages keep no loop busy for ever.                      *)
SysFairness == WF_sysVars(LoopStep)

SysFairSpec == SysSpec /\ SysFairness

-----------------------------------------------------------------------------
(* The types. *)
TypeOK ==
  /\ phase \in {"building", "loading", "running", "exited"}
  /\ \A c \in Channels : chan[c] \in Seq(Events) /\ Len(chan[c]) <= Capacity[c]
  /\ up \in [Loops -> BOOLEAN]
  /\ \A h \in Handlers : sends[h] \in Seq([to : Channels, event : Events])
  /\ tasks \subseteq Seq(Events)
  /\ link \in {"down", "up", "deaf"}
  /\ shutdown \in BOOLEAN /\ cron \in BOOLEAN /\ ticks \in 0..MaxTicks
  /\ arrived \subseteq Messages /\ gotReport \in [Messages -> SUBSET {"council", "solidify"}]

(* A report reaches both the council, which answers with it, and solidify, *)
(* which remembers it, or neither: no layer that ends early and no signal  *)
(* comes between the dispatcher's two sends (router.rs).                   *)
ReportReachesBoth ==
  \A m \in Messages : gotReport[m] # {} =>
    \/ gotReport[m] = {"council", "solidify"}
    \/ up["dispatcher"] /\ sends["dispatcher"] = <<To("solidify", Event("report", m))>>

(* Something is on its way: queued, being sent, or a task's. *)
InMotion ==
  \/ \E c \in Channels : chan[c] # <<>>
  \/ \E h \in Handlers : sends[h] # <<>>
  \/ tasks # {}

(* Whatever the messages set in motion comes to rest, with every channel   *)
(* as small as can be, before and after the signal: the channels form      *)
(* cycles through the dispatcher, and no cycle of them fills up (the       *)
(* layers' loops spawn, and never wait for the dispatcher themselves).     *)
ComesToRest == InMotion ~> ~InMotion

(* After the signal every loop run() waits for ends, also when the signal  *)
(* comes before they run; solidify, once the scheduler has dropped the     *)
(* cron job, which holds a sender (main.rs).                               *)
EventuallyStopped ==
  shutdown ~>
    /\ phase \in {"running", "exited"}
    /\ \A l \in Loops : ~up[l] \/ (l = "solidify" /\ cron)

(* "TopicBurst | forwarded to the detective" (docs/adaptive-presence-and-  *)
(* memory-architecture.md): no burst waits at a layer that ignores it.     *)
NoBurstDiscarded ==
  \A l \in Layers : \A i \in DOMAIN chan[l] :
    chan[l][i].kind = "burst" => "burst" \in Handled(l)
=============================================================================
