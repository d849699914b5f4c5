------------------------- MODULE NekoRouterProofs -------------------------
(***************************************************************************)
(* What holds of the wiring for any messages, channel capacities and       *)
(* number of ticks: every channel stays within its capacity, a report that *)
(* the dispatcher has begun to pass on reaches both of its readers, and no *)
(* cycle of loops waiting for room at each other closes.                   *)
(***************************************************************************)
EXTENDS NekoRouter, SequenceTheorems, TLAPS

Sends == [to : Channels, event : Events]

ReportEvents == {Event("report", m) : m \in Messages \cup {NoMessage}}

(* The types, with what the proofs need beyond TypeOK: functions with the  *)
(* domains of Init, and no task that has nothing to send.                  *)
ChannelsTyped(q) ==
  /\ q \in [Channels -> Seq(Events)]
  /\ \A c \in Channels : Len(q[c]) <= Capacity[c]

SendsTyped == sends \in [Handlers -> Seq(Sends)]
TasksTyped == tasks \subseteq Seq(Events) \ {<<>>}

FlagsTyped ==
  /\ phase \in {"building", "loading", "running", "exited"}
  /\ up \in [Loops -> BOOLEAN]
  /\ link \in {"down", "up", "deaf"}
  /\ shutdown \in BOOLEAN /\ cron \in BOOLEAN /\ ticks \in 0..MaxTicks
  /\ arrived \subseteq Messages

ReportsTyped == gotReport \in [Messages -> SUBSET {"council", "solidify"}]

TypeInv == ChannelsTyped(chan) /\ SendsTyped /\ TasksTyped /\ FlagsTyped /\ ReportsTyped

(* The dispatcher sends nothing before it runs and leaves nothing behind.  *)
StartInv ==
  /\ phase = "building" => \A l \in Loops : ~up[l]
  /\ phase = "loading" => ~up["dispatcher"]
  /\ ~up["dispatcher"] => sends["dispatcher"] = <<>>

(* The layers the dispatcher sends to end after it.                        *)
LayersOutlive == Alive("dispatcher") => \A l \in Layers \ {"gate"} : up[l]

(* Sensory sends to the gate, and no reports.                              *)
SensorySends ==
  \A i \in 1..Len(sends["sensory"]) :
    sends["sensory"][i].to = "gate" /\ sends["sensory"][i].event.kind # "report"

(* What the dispatcher still has to send, never to itself: nothing, one    *)
(* event that is no report, a report twice, or a report once when the      *)
(* council has got it.                                                     *)
DispatcherSends ==
  LET d == sends["dispatcher"] IN
  \/ d = <<>>
  \/ \E s \in Sends : s.to # "router" /\ s.event.kind # "report" /\ d = <<s>>
  \/ \E r \in ReportEvents : d = <<To("council", r), To("solidify", r)>>
  \/ \E r \in ReportEvents :
       /\ d = <<To("solidify", r)>>
       /\ r.about \in Messages => "council" \in gotReport[r.about]

WiringInv ==
  TypeInv /\ StartInv /\ LayersOutlive /\ SensorySends /\ DispatcherSends /\ ReportReachesBoth

-----------------------------------------------------------------------------
(* Channels, events and what is made of them *)

LEMMA EventTyped ==
  ASSUME NEW k \in Kinds, NEW m \in Messages \cup {NoMessage}
  PROVE  Event(k, m) \in Events /\ Event(k, m).kind = k /\ Event(k, m).about = m
  BY DEF Event, Events

LEMMA ToTyped ==
  ASSUME NEW c \in Channels, NEW e \in Events
  PROVE  To(c, e) \in Sends /\ To(c, e).to = c /\ To(c, e).event = e
  BY DEF To, Sends

LEMMA ReportTyped ==
  ASSUME NEW r \in ReportEvents
  PROVE  r \in Events /\ r.kind = "report" /\ r.about \in Messages \cup {NoMessage}
  BY EventTyped DEF ReportEvents, Kinds

LEMMA EventIsReport ==
  ASSUME NEW e \in Events, e.kind = "report" PROVE e \in ReportEvents
<1>1. e = [kind |-> "report", about |-> e.about] /\ e.about \in Messages \cup {NoMessage}
  BY DEF Events
<1> QED
  BY <1>1 DEF ReportEvents, Event

LEMMA TwoOrThree ==
  ASSUME NEW S, NEW a \in S, NEW b \in S, NEW c \in S
  PROVE  /\ <<a, b>> \o <<>> = <<a, b>>
         /\ <<a, b>> \o <<c>> = <<a, b, c>>
<1>1. <<a, b>> \in Seq(S)
  OBVIOUS
<1>2. <<a, b>> \o <<>> = <<a, b>>
  BY <1>1, ConcatEmptySeq
<1>3. <<a, b>> \o <<c>> = Append(<<a, b>>, c)
  BY <1>1, AppendIsConcat
<1>4. Append(<<a, b>>, c) = <<a, b, c>>
  <2>1. Append(<<a, b>>, c) \in Seq(S) /\ <<a, b, c>> \in Seq(S)
    BY <1>1
  <2>2. Len(Append(<<a, b>>, c)) = 3 /\ Len(<<a, b, c>>) = 3
    BY <1>1
  <2>3. \A i \in 1..3 : Append(<<a, b>>, c)[i] = <<a, b, c>>[i]
    BY <1>1
  <2> QED
    BY <2>1, <2>2, <2>3, SeqEqual
<1> QED
  BY <1>2, <1>3, <1>4

LEMMA RestNotEmpty ==
  ASSUME NEW S, NEW t \in Seq(S), t # <<>>, Len(t) # 1
  PROVE  Tail(t) \in Seq(S) /\ Tail(t) # <<>>
<1>1. Tail(t) \in Seq(S) /\ Len(Tail(t)) = Len(t) - 1
  BY HeadTailProperties
<1>2. Len(t) \in Nat /\ Len(t) # 0
  BY EmptySeq
<1>3. Len(Tail(t)) # 0
  BY <1>1, <1>2
<1>4. Len(<<>>) = 0
  OBVIOUS
<1> QED
  BY <1>1, <1>3, <1>4

LEMMA AppendKeeps ==
  ASSUME NEW q, ChannelsTyped(q), NEW c \in Channels, NEW e \in Events, Len(q[c]) < Capacity[c]
  PROVE  ChannelsTyped([q EXCEPT ![c] = Append(@, e)])
<1>1. q[c] \in Seq(Events) /\ Capacity[c] \in Nat
  BY CapacityAssumption DEF ChannelsTyped
<1>2. Append(q[c], e) \in Seq(Events) /\ Len(Append(q[c], e)) = Len(q[c]) + 1
  BY <1>1
<1>3. Len(Append(q[c], e)) <= Capacity[c]
  BY <1>1, <1>2
<1> QED
  BY <1>2, <1>3 DEF ChannelsTyped

LEMMA TailKeeps ==
  ASSUME NEW q, ChannelsTyped(q), NEW c \in Channels, q[c] # <<>>
  PROVE  /\ Head(q[c]) \in Events
         /\ ChannelsTyped([q EXCEPT ![c] = Tail(@)])
<1>1. q[c] \in Seq(Events) /\ Len(q[c]) <= Capacity[c] /\ Capacity[c] \in Nat
  BY CapacityAssumption DEF ChannelsTyped
<1>2. /\ Head(q[c]) \in Events /\ Tail(q[c]) \in Seq(Events)
      /\ Len(Tail(q[c])) = Len(q[c]) - 1 /\ Len(q[c]) \in Nat
  BY <1>1
<1>3. Len(Tail(q[c])) <= Capacity[c]
  BY <1>1, <1>2
<1> QED
  BY <1>2, <1>3 DEF ChannelsTyped

LEMMA EmptyTyped == \A c \in Channels : <<>> \in Seq(Events) /\ Len(<<>>) <= Capacity[c]
  BY CapacityAssumption

LEMMA DrainKeeps ==
  ASSUME NEW q, ChannelsTyped(q), NEW cs PROVE ChannelsTyped(Drained(q, cs))
  BY EmptyTyped DEF ChannelsTyped, Drained

LEMMA AllEmptyTyped == ChannelsTyped([c \in Channels |-> <<>>])
  BY EmptyTyped DEF ChannelsTyped

LEMMA ReceiverOfLayers ==
  \A c \in {"council", "detective", "solidify", "gate"} : Receiver(c) = c
  BY DEF Receiver

(* The answers of a layer's task are events about what it was asked.       *)
LEMMA AnswersTyped ==
  ASSUME NEW l \in Layers, NEW e \in Events, NEW a \in Answers(l, e)
  PROVE  a \in Seq(Events)
<1> DEFINE E(k) == Event(k, e.about)
<1>1. \A k \in Kinds : E(k) \in Events
  BY EventTyped DEF Events
<1>2. /\ <<>> \in Seq(Events)
      /\ \A k \in Kinds : <<E(k)>> \in Seq(Events)
      /\ \A k, j \in Kinds : <<E(k), E(j)>> \in Seq(Events)
  BY <1>1
<1> HIDE DEF E
<1>3. \/ a = <<>>
      \/ \E k \in Kinds : a = <<E(k)>>
      \/ \E k, j \in Kinds : a = <<E(k), E(j)>>
  BY DEF Answers, Layers, Kinds, E
<1> QED
  BY <1>2, <1>3

(* An event is passed on as it is, a report alone to two layers.           *)
LEMMA ForwardsShape ==
  ASSUME NEW e \in Events, NEW f \in Forwards(e)
  PROVE  \/ f = <<>>
         \/ \E s \in Sends : s.to # "router" /\ s.event.kind # "report" /\ f = <<s>>
         \/ e \in ReportEvents /\ f = <<To("council", e), To("solidify", e)>>
<1>1. e.kind = "report" => e \in ReportEvents
  BY EventIsReport
<1>2. \/ f = <<>>
      \/ e.kind # "report" /\ \E c \in {"routed", "council", "detective", "solidify"} : f = <<To(c, e)>>
      \/ e.kind = "report" /\ f = <<To("council", e), To("solidify", e)>>
  BY DEF Forwards
<1> QED
  BY <1>1, <1>2, ToTyped DEF Channels

-----------------------------------------------------------------------------
(* The steps *)

LEMMA StepCases ==
  [SysNext]_sysVars =>
    \/ BuildFails \/ Spawns \/ CooldownsLoaded \/ LoadFails
    \/ Connects \/ IngressStops \/ (\E m \in Messages : Arrives(m))
    \/ HandlerSends("sensory") \/ HandlerSends("dispatcher")
    \/ HandlerFails("sensory") \/ HandlerFails("dispatcher")
    \/ SensoryTakesMessage \/ SensoryTakesReply \/ SensoryStops \/ SensoryFails
    \/ (\E l \in Layers : LayerTakes(l)) \/ (\E l \in Layers : LayerEnds(l))
    \/ (\E t \in tasks : TaskSends(t)) \/ (\E t \in tasks : TaskFails(t))
    \/ DispatcherTakes \/ DispatcherStops
    \/ SignalArrives \/ CronTicks \/ SchedulerReleases
    \/ UNCHANGED sysVars
  BY DEF SysNext, LoopStep, StartStep, IngressStep, SensoryStep, DispatcherStep, TaskStep, LayerStep,
         HandlerStep

(* Of the steps, few touch what handlers send, and two what they sent.     *)
LEMMA SendsFrame ==
  ASSUME [SysNext]_sysVars
  PROVE  \/ UNCHANGED sends
         \/ LoadFails \/ HandlerSends("sensory") \/ HandlerSends("dispatcher")
         \/ HandlerFails("sensory") \/ HandlerFails("dispatcher")
         \/ SensoryTakesMessage \/ SensoryStops \/ SensoryFails \/ DispatcherTakes
  BY StepCases DEF BuildFails, Spawns, CooldownsLoaded, Connects, IngressStops, Arrives,
     SensoryTakesReply, LayerTakes, LayerEnds, TaskSends, TaskFails, DispatcherStops,
     SignalArrives, CronTicks, SchedulerReleases, sysVars

LEMMA ReportsFrame ==
  ASSUME [SysNext]_sysVars
  PROVE  UNCHANGED gotReport \/ HandlerSends("sensory") \/ HandlerSends("dispatcher")
  BY StepCases DEF BuildFails, Spawns, CooldownsLoaded, LoadFails, Connects, IngressStops, Arrives,
     HandlerFails, SensoryTakesMessage, SensoryTakesReply, SensoryStops, SensoryFails, SensoryEnds,
     LayerTakes, LayerEnds, TaskSends, TaskFails, DispatcherTakes, DispatcherStops,
     SignalArrives, CronTicks, SchedulerReleases, sysVars, seen

(* The head of what a handler still has to send, and the rest.             *)
LEMMA HeadOfSends ==
  ASSUME SendsTyped, NEW h \in Handlers, sends[h] # <<>>
  PROVE  /\ Head(sends[h]) \in Sends /\ Tail(sends[h]) \in Seq(Sends)
         /\ Head(sends[h]).to \in Channels /\ Head(sends[h]).event \in Events
         /\ Head(sends[h]) = sends[h][1] /\ Len(sends[h]) >= 1
<1>1. sends[h] \in Seq(Sends)
  BY DEF SendsTyped
<1>2. Head(sends[h]) \in Sends /\ Tail(sends[h]) \in Seq(Sends)
  BY <1>1
<1>3. Head(sends[h]).to \in Channels /\ Head(sends[h]).event \in Events
  BY <1>2 DEF Sends
<1>4. Head(sends[h]) = sends[h][1] /\ Len(sends[h]) >= 1
  BY <1>1
<1> QED
  BY <1>2, <1>3, <1>4

-----------------------------------------------------------------------------
(* Types *)

LEMMA ChannelsStep == TypeInv /\ [SysNext]_sysVars => ChannelsTyped(chan')
<1> SUFFICES ASSUME TypeInv, [SysNext]_sysVars PROVE ChannelsTyped(chan')
  OBVIOUS
<1>0. ChannelsTyped(chan)
  BY DEF TypeInv
<1>1. CASE UNCHANGED chan
  BY <1>0, <1>1
<1>2. CASE LoadFails
  BY <1>2, AllEmptyTyped DEF LoadFails
<1>3. ASSUME NEW m \in Messages, Arrives(m) PROVE ChannelsTyped(chan')
  <2>1. Event("message", m) \in Events
    BY EventTyped DEF Kinds
  <2>2. Room("raw") => Len(chan["raw"]) < Capacity["raw"]
    BY DEF Room
  <2>3. \/ Room("raw") /\ chan' = [chan EXCEPT !["raw"] = Append(@, Event("message", m))]
        \/ chan' = chan
    BY <1>3 DEF Arrives
  <2> QED
    BY <1>0, <2>1, <2>2, <2>3, AppendKeeps DEF Channels
<1>4. ASSUME NEW h \in Handlers, HandlerSends(h) PROVE ChannelsTyped(chan')
  <2> DEFINE s == Head(sends[h])
  <2>1. s.to \in Channels /\ s.event \in Events
    BY <1>4, HeadOfSends DEF HandlerSends, TypeInv
  <2>2. Len(chan[s.to]) < Capacity[s.to] /\ chan' = [chan EXCEPT ![s.to] = Append(@, s.event)]
    BY <1>4 DEF HandlerSends, Room
  <2> HIDE DEF s
  <2> QED
    BY <1>0, <2>1, <2>2, AppendKeeps
<1>5. ASSUME NEW c \in Channels, chan[c] # <<>>, chan' = [chan EXCEPT ![c] = Tail(@)]
      PROVE  ChannelsTyped(chan')
  BY <1>0, <1>5, TailKeeps
<1>6. CASE SensoryTakesMessage
  BY <1>5, <1>6 DEF SensoryTakesMessage, Channels
<1>7. CASE SensoryTakesReply
  BY <1>5, <1>7 DEF SensoryTakesReply, Channels
<1>8. CASE SensoryStops \/ SensoryFails
  BY <1>0, <1>8, DrainKeeps DEF SensoryStops, SensoryFails, SensoryEnds
<1>9. ASSUME NEW l \in Layers, LayerTakes(l) PROVE ChannelsTyped(chan')
  BY <1>5, <1>9 DEF LayerTakes, Layers, Channels
<1>10. ASSUME NEW t \in tasks, TaskSends(t) PROVE ChannelsTyped(chan')
  <2>1. Head(t) \in Events
    BY DEF TypeInv, TasksTyped
  <2>2. Len(chan["router"]) < Capacity["router"] /\ chan' = [chan EXCEPT !["router"] = Append(@, Head(t))]
    BY <1>10 DEF TaskSends, Room
  <2> QED
    BY <1>0, <2>1, <2>2, AppendKeeps DEF Channels
<1>11. CASE DispatcherTakes
  BY <1>5, <1>11 DEF DispatcherTakes, Channels
<1>12. CASE DispatcherStops
  BY <1>0, <1>12, DrainKeeps DEF DispatcherStops
<1>13. CASE CronTicks
  <2>1. Event("tick", NoMessage) \in Events
    BY EventTyped DEF Kinds
  <2>2. /\ Len(chan["solidify"]) < Capacity["solidify"]
        /\ chan' = [chan EXCEPT !["solidify"] = Append(@, Event("tick", NoMessage))]
    BY <1>13 DEF CronTicks, Room
  <2> QED
    BY <1>0, <2>1, <2>2, AppendKeeps DEF Channels
<1>14. \/ UNCHANGED chan
       \/ LoadFails \/ (\E m \in Messages : Arrives(m))
       \/ (\E h \in Handlers : HandlerSends(h))
       \/ SensoryTakesMessage \/ SensoryTakesReply \/ SensoryStops \/ SensoryFails
       \/ (\E l \in Layers : LayerTakes(l)) \/ (\E t \in tasks : TaskSends(t))
       \/ DispatcherTakes \/ DispatcherStops \/ CronTicks
  BY StepCases DEF Handlers, BuildFails, Spawns, CooldownsLoaded, Connects, IngressStops, HandlerFails,
     LayerEnds, TaskFails, SignalArrives, SchedulerReleases, sysVars
<1> QED
  BY <1>1, <1>2, <1>3, <1>4, <1>6, <1>7, <1>8, <1>9, <1>10, <1>11, <1>12, <1>13, <1>14

LEMMA SensoryBegins ==
  ASSUME TypeInv, SensoryTakesMessage
  PROVE  /\ sends' = [sends EXCEPT !["sensory"] = sends'["sensory"]]
         /\ sends'["sensory"] \in Seq(Sends)
         /\ \A i \in 1..Len(sends'["sensory"]) :
              sends'["sensory"][i].to = "gate" /\ sends'["sensory"][i].event.kind # "report"
<1> DEFINE m == Head(chan["raw"]).about
           s(k) == To("gate", Event(k, m))
<1>1. m \in Messages \cup {NoMessage}
  <2>1. Head(chan["raw"]) \in Events
    BY TailKeeps DEF TypeInv, SensoryTakesMessage, Channels
  <2> QED
    BY <2>1 DEF Events
<1>2. \A k \in {"message", "affective", "burst"} : s(k) \in Sends /\ s(k).to = "gate" /\ s(k).event.kind = k
  BY <1>1, EventTyped, ToTyped DEF Kinds, Channels
<1>3. \E burst \in {<<>>, <<s("burst")>>} :
        sends' = [sends EXCEPT !["sensory"] = <<s("message"), s("affective")>> \o burst]
  BY DEF SensoryTakesMessage
<1>4. sends \in [Handlers -> Seq(Sends)] /\ "sensory" \in Handlers
  BY DEF TypeInv, SendsTyped, Handlers
<1> HIDE DEF s
<1>5. \/ /\ sends' = [sends EXCEPT !["sensory"] = sends'["sensory"]]
         /\ sends'["sensory"] = <<s("message"), s("affective")>>
      \/ /\ sends' = [sends EXCEPT !["sensory"] = sends'["sensory"]]
         /\ sends'["sensory"] = <<s("message"), s("affective"), s("burst")>>
  <2>1. /\ <<s("message"), s("affective")>> \o <<>> = <<s("message"), s("affective")>>
        /\ <<s("message"), s("affective")>> \o <<s("burst")>>
             = <<s("message"), s("affective"), s("burst")>>
    BY <1>2, TwoOrThree
  <2> QED
    BY <1>3, <1>4, <2>1
<1>6. ASSUME sends'["sensory"] = <<s("message"), s("affective")>>
      PROVE  /\ sends'["sensory"] \in Seq(Sends)
             /\ \A i \in 1..Len(sends'["sensory"]) :
                  sends'["sensory"][i].to = "gate" /\ sends'["sensory"][i].event.kind # "report"
  BY <1>2, <1>6
<1>7. ASSUME sends'["sensory"] = <<s("message"), s("affective"), s("burst")>>
      PROVE  /\ sends'["sensory"] \in Seq(Sends)
             /\ \A i \in 1..Len(sends'["sensory"]) :
                  sends'["sensory"][i].to = "gate" /\ sends'["sensory"][i].event.kind # "report"
  BY <1>2, <1>7
<1> QED
  BY <1>5, <1>6, <1>7

LEMMA SendsStep == TypeInv /\ [SysNext]_sysVars => SendsTyped'
<1> SUFFICES ASSUME TypeInv, [SysNext]_sysVars PROVE SendsTyped'
  OBVIOUS
<1>0. sends \in [Handlers -> Seq(Sends)] /\ SendsTyped
  BY DEF TypeInv, SendsTyped
<1>1. CASE UNCHANGED sends
  BY <1>0, <1>1 DEF SendsTyped
<1>2. <<>> \in Seq(Sends)
  OBVIOUS
<1>3. CASE LoadFails
  BY <1>2, <1>3 DEF LoadFails, SendsTyped
<1>4. ASSUME NEW h \in Handlers, HandlerSends(h) PROVE SendsTyped'
  <2>1. Tail(sends[h]) \in Seq(Sends)
    BY <1>0, <1>4, HeadOfSends DEF HandlerSends
  <2> QED
    BY <1>0, <1>4, <2>1 DEF HandlerSends, SendsTyped
<1>5. ASSUME NEW h \in Handlers, HandlerFails(h) PROVE SendsTyped'
  BY <1>0, <1>2, <1>5 DEF HandlerFails, SendsTyped
<1>6. CASE SensoryTakesMessage
  BY <1>0, <1>6, SensoryBegins DEF SendsTyped, Handlers
<1>7. CASE SensoryStops \/ SensoryFails
  BY <1>0, <1>2, <1>7 DEF SensoryStops, SensoryFails, SensoryEnds, SendsTyped
<1>8. CASE DispatcherTakes
  <2>1. Head(chan["router"]) \in Events
    BY <1>8, TailKeeps DEF TypeInv, DispatcherTakes, Channels
  <2>2. PICK f \in Forwards(Head(chan["router"])) : sends' = [sends EXCEPT !["dispatcher"] = f]
    BY <1>8 DEF DispatcherTakes
  <2>3. \A r \in ReportEvents : <<To("council", r), To("solidify", r)>> \in Seq(Sends)
    BY ReportTyped, ToTyped DEF Channels
  <2>4. \A s \in Sends : <<s>> \in Seq(Sends)
    OBVIOUS
  <2>5. f \in Seq(Sends)
    <3>1. \/ f = <<>>
          \/ \E s \in Sends : f = <<s>>
          \/ \E r \in ReportEvents : f = <<To("council", r), To("solidify", r)>>
      BY <2>1, ForwardsShape
    <3> QED
      BY <1>2, <2>3, <2>4, <3>1
  <2> QED
    BY <1>0, <2>2, <2>5 DEF SendsTyped
<1> QED
  BY <1>1, <1>3, <1>4, <1>5, <1>6, <1>7, <1>8, SendsFrame DEF Handlers

LEMMA TasksStep == TypeInv /\ [SysNext]_sysVars => TasksTyped'
<1> SUFFICES ASSUME TypeInv, [SysNext]_sysVars PROVE TasksTyped'
  OBVIOUS
<1>0. TasksTyped
  BY DEF TypeInv
<1>1. CASE UNCHANGED tasks
  BY <1>0, <1>1 DEF TasksTyped
<1>2. CASE LoadFails
  BY <1>2 DEF LoadFails, TasksTyped
<1>3. ASSUME NEW l \in Layers, LayerTakes(l) PROVE TasksTyped'
  <2>1. Head(chan[l]) \in Events
    BY <1>3, TailKeeps DEF TypeInv, LayerTakes, Layers, Channels
  <2>2. PICK a \in Answers(l, Head(chan[l])) :
          tasks' = IF a = <<>> THEN tasks ELSE tasks \cup {a}
    BY <1>3 DEF LayerTakes
  <2>3. a \in Seq(Events)
    BY <2>1, AnswersTyped
  <2> QED
    BY <1>0, <2>2, <2>3 DEF TasksTyped
<1>4. ASSUME NEW t \in tasks, TaskSends(t) PROVE TasksTyped'
  <2>1. t \in Seq(Events) /\ t # <<>>
    BY <1>0 DEF TasksTyped
  <2>2. Len(t) # 1 => Tail(t) \in Seq(Events) /\ Tail(t) # <<>>
    BY <2>1, RestNotEmpty
  <2> QED
    BY <1>0, <1>4, <2>2 DEF TaskSends, TasksTyped
<1>5. ASSUME NEW t \in tasks, TaskFails(t) PROVE TasksTyped'
  BY <1>0, <1>5 DEF TaskFails, TasksTyped
<1>6. \/ UNCHANGED tasks
      \/ LoadFails \/ (\E l \in Layers : LayerTakes(l))
      \/ (\E t \in tasks : TaskSends(t)) \/ (\E t \in tasks : TaskFails(t))
  BY StepCases DEF BuildFails, Spawns, CooldownsLoaded, Connects, IngressStops, Arrives,
     HandlerSends, HandlerFails, SensoryTakesMessage, SensoryTakesReply, SensoryStops, SensoryFails,
     SensoryEnds, LayerEnds, DispatcherTakes, DispatcherStops, SignalArrives, CronTicks,
     SchedulerReleases, sysVars
<1> QED
  BY <1>1, <1>2, <1>3, <1>4, <1>5, <1>6

(* How each step changes which loops run.                                  *)
LEMMA UpFrame ==
  ASSUME [SysNext]_sysVars
  PROVE  \/ UNCHANGED up
         \/ Spawns \/ CooldownsLoaded \/ LoadFails \/ IngressStops \/ SensoryStops \/ SensoryFails
         \/ (\E l \in Layers : LayerEnds(l)) \/ DispatcherStops
  BY StepCases DEF BuildFails, Connects, Arrives, HandlerSends, HandlerFails, SensoryTakesMessage,
     SensoryTakesReply, LayerTakes, TaskSends, TaskFails, DispatcherTakes, SignalArrives, CronTicks,
     SchedulerReleases, sysVars

LEMMA UpStep == up \in [Loops -> BOOLEAN] /\ [SysNext]_sysVars => up' \in [Loops -> BOOLEAN]
<1> SUFFICES ASSUME up \in [Loops -> BOOLEAN], [SysNext]_sysVars PROVE up' \in [Loops -> BOOLEAN]
  OBVIOUS
<1>1. \A l : [up EXCEPT ![l] = FALSE] \in [Loops -> BOOLEAN]
  OBVIOUS
<1>2. CASE Spawns
  BY <1>2 DEF Spawns
<1>3. CASE CooldownsLoaded
  BY <1>3 DEF CooldownsLoaded
<1>4. CASE LoadFails
  BY <1>4 DEF LoadFails
<1>5. CASE \/ IngressStops \/ SensoryStops \/ SensoryFails
           \/ (\E l \in Layers : LayerEnds(l)) \/ DispatcherStops
  BY <1>1, <1>5 DEF IngressStops, SensoryStops, SensoryFails, SensoryEnds, LayerEnds, DispatcherStops
<1> QED
  BY <1>2, <1>3, <1>4, <1>5, UpFrame

LEMMA FlagsStep == TypeInv /\ [SysNext]_sysVars => FlagsTyped'
<1> SUFFICES ASSUME TypeInv, [SysNext]_sysVars PROVE FlagsTyped'
  OBVIOUS
<1> USE DEF FlagsTyped
<1>0. FlagsTyped
  BY DEF TypeInv
<1>1. up' \in [Loops -> BOOLEAN]
  BY <1>0, UpStep
<1>2. ticks' \in 0..MaxTicks
  <2>1. CASE CronTicks
    BY <1>0, <2>1, CapacityAssumption DEF CronTicks
  <2>2. CronTicks \/ UNCHANGED ticks
    BY StepCases DEF BuildFails, Spawns, CooldownsLoaded, LoadFails, Connects, IngressStops, Arrives,
       HandlerSends, HandlerFails, SensoryTakesMessage, SensoryTakesReply, SensoryStops, SensoryFails,
       SensoryEnds, LayerTakes, LayerEnds, TaskSends, TaskFails, DispatcherTakes, DispatcherStops,
       SignalArrives, SchedulerReleases, sysVars, outside
  <2> QED
    BY <1>0, <2>1, <2>2
<1>3. arrived' \subseteq Messages
  <2>1. (\E m \in Messages : Arrives(m)) \/ UNCHANGED arrived
    BY StepCases DEF BuildFails, Spawns, CooldownsLoaded, LoadFails, Connects, IngressStops,
       HandlerSends, HandlerFails, SensoryTakesMessage, SensoryTakesReply, SensoryStops, SensoryFails,
       SensoryEnds, LayerTakes, LayerEnds, TaskSends, TaskFails, DispatcherTakes, DispatcherStops,
       SignalArrives, CronTicks, SchedulerReleases, sysVars, seen
  <2> QED
    BY <1>0, <2>1 DEF Arrives
<1>4. /\ phase' \in {"building", "loading", "running", "exited"}
      /\ link' \in {"down", "up", "deaf"}
      /\ shutdown' \in BOOLEAN /\ cron' \in BOOLEAN
  <2>1. CASE BuildFails \/ Spawns \/ CooldownsLoaded \/ LoadFails
    BY <1>0, <2>1 DEF BuildFails, Spawns, CooldownsLoaded, LoadFails
  <2>2. CASE Connects \/ (\E m \in Messages : Arrives(m))
    BY <1>0, <2>2 DEF Connects, Arrives
  <2>3. CASE SignalArrives \/ CronTicks \/ SchedulerReleases
    BY <1>0, <2>3 DEF SignalArrives, CronTicks, SchedulerReleases
  <2>4. \/ BuildFails \/ Spawns \/ CooldownsLoaded \/ LoadFails
        \/ Connects \/ (\E m \in Messages : Arrives(m))
        \/ SignalArrives \/ CronTicks \/ SchedulerReleases
        \/ UNCHANGED <<phase, link, shutdown, cron>>
    BY StepCases DEF IngressStops,
       HandlerSends, HandlerFails, SensoryTakesMessage, SensoryTakesReply, SensoryStops, SensoryFails,
       SensoryEnds, LayerTakes, LayerEnds, TaskSends, TaskFails, DispatcherTakes, DispatcherStops,
       sysVars, outside
  <2> QED
    BY <1>0, <2>1, <2>2, <2>3, <2>4
<1> QED
  BY <1>1, <1>2, <1>3, <1>4

-----------------------------------------------------------------------------
(* Starting and stopping *)

LEMMA StartStepInv == TypeInv /\ StartInv /\ [SysNext]_sysVars => StartInv'
<1> SUFFICES ASSUME TypeInv, StartInv, [SysNext]_sysVars PROVE StartInv'
  OBVIOUS
<1> USE DEF StartInv
<1>0. up \in [Loops -> BOOLEAN] /\ sends \in [Handlers -> Seq(Sends)]
  BY DEF TypeInv, FlagsTyped, SendsTyped
<1>1. CASE BuildFails \/ SignalArrives \/ Connects \/ CronTicks \/ SchedulerReleases
  BY <1>1 DEF BuildFails, SignalArrives, Connects, CronTicks, SchedulerReleases
<1>2. CASE Spawns
  BY <1>2 DEF Spawns, Loops
<1>3. CASE CooldownsLoaded
  BY <1>0, <1>3 DEF CooldownsLoaded, Loops
<1>4. CASE LoadFails
  BY <1>4 DEF LoadFails, Loops, Handlers
<1>5. CASE \E m \in Messages : Arrives(m)
  BY <1>5 DEF Arrives
<1>6. ASSUME NEW h \in Handlers, HandlerSends(h) \/ HandlerFails(h) PROVE StartInv'
  <2>1. up[h] /\ UNCHANGED <<up, phase>> /\ h \in Loops
    BY <1>6 DEF HandlerSends, HandlerFails, outside, Handlers, Loops
  <2>2. \A g \in Handlers : g # h => sends'[g] = sends[g]
    BY <1>0, <1>6 DEF HandlerSends, HandlerFails
  <2> QED
    BY <2>1, <2>2 DEF Handlers
<1>7. CASE SensoryTakesMessage
  BY <1>0, <1>7, SensoryBegins DEF SensoryTakesMessage, outside, Between, Loops, Handlers
<1>8. CASE SensoryTakesReply \/ (\E l \in Layers : LayerTakes(l))
           \/ (\E t \in tasks : TaskSends(t)) \/ (\E t \in tasks : TaskFails(t))
  BY <1>8 DEF SensoryTakesReply, LayerTakes, TaskSends, TaskFails, outside
<1>9. ASSUME NEW l \in Loops, up' = [up EXCEPT ![l] = FALSE], UNCHANGED phase,
             sends'["dispatcher"] = sends["dispatcher"],
             l = "dispatcher" => sends["dispatcher"] = <<>>
      PROVE  StartInv'
  <2>1. \A k \in Loops : up'[k] => up[k]
    BY <1>0, <1>9
  <2>2. "dispatcher" \in Loops /\ (l # "dispatcher" => up'["dispatcher"] = up["dispatcher"])
    BY <1>0, <1>9 DEF Loops
  <2> QED
    BY <1>9, <2>1, <2>2
<1>10. CASE SensoryStops \/ SensoryFails
  BY <1>0, <1>9, <1>10 DEF SensoryStops, SensoryFails, SensoryEnds, outside, Handlers, Loops
<1>11. CASE IngressStops \/ (\E l \in Layers : LayerEnds(l))
  BY <1>9, <1>11 DEF IngressStops, LayerEnds, outside, Layers, Loops
<1>12. CASE DispatcherTakes
  BY <1>12 DEF DispatcherTakes, Between, outside, Loops
<1>13. CASE DispatcherStops
  BY <1>9, <1>13 DEF DispatcherStops, Between, outside, Loops
<1>14. CASE UNCHANGED sysVars
  BY <1>14 DEF sysVars
<1> QED
  BY StepCases, <1>1, <1>2, <1>3, <1>4, <1>5, <1>6, <1>7, <1>8, <1>10, <1>11, <1>12, <1>13, <1>14
  DEF Handlers

(* recv() of a layer does not return None while the dispatcher holds a     *)
(* sender, and nothing else ends a layer but run() itself.                 *)
LEMMA LayersStep == TypeInv /\ StartInv /\ LayersOutlive /\ [SysNext]_sysVars => LayersOutlive'
<1> SUFFICES ASSUME TypeInv, StartInv, LayersOutlive, [SysNext]_sysVars, Alive("dispatcher")',
                    NEW k \in Layers \ {"gate"}
             PROVE  up'[k]
  BY DEF LayersOutlive
<1>0. up \in [Loops -> BOOLEAN] /\ k \in Loops \ {"dispatcher", "sensory", "ingress"}
  BY DEF TypeInv, FlagsTyped, Layers, Loops
<1>1. Alive("dispatcher") => up[k]
  BY DEF LayersOutlive
<1>2. CASE Spawns
  BY <1>0, <1>2 DEF Spawns
<1>3. CASE CooldownsLoaded
  BY <1>0, <1>1, <1>3 DEF CooldownsLoaded, Alive
<1>4. CASE LoadFails
  BY <1>4 DEF LoadFails, Alive, Loops
<1>5. UNCHANGED phase \/ BuildFails \/ Spawns \/ CooldownsLoaded \/ LoadFails
  BY StepCases DEF Connects, IngressStops, Arrives, HandlerSends, HandlerFails, SensoryTakesMessage,
     SensoryTakesReply, SensoryStops, SensoryFails, SensoryEnds, LayerTakes, LayerEnds, TaskSends,
     TaskFails, DispatcherTakes, DispatcherStops, SignalArrives, CronTicks, SchedulerReleases,
     sysVars, outside
<1>6. CASE BuildFails
  <2>1. ~Alive("dispatcher")'
    BY <1>6 DEF BuildFails, Alive, StartInv, Loops
  <2> QED
    BY <2>1
<1>7. CASE UNCHANGED <<phase, up>>
  BY <1>1, <1>7 DEF Alive
<1>8. ASSUME UNCHANGED phase, NEW l \in Loops \ {k}, up' = [up EXCEPT ![l] = FALSE] PROVE up'[k]
  <2>1. up'["dispatcher"] => up["dispatcher"]
    BY <1>0, <1>8 DEF Loops
  <2>2. Alive("dispatcher")
    BY <1>8, <2>1 DEF Alive
  <2> QED
    BY <1>0, <1>1, <1>8, <2>2
<1>9. CASE IngressStops \/ SensoryStops \/ SensoryFails \/ DispatcherStops
  BY <1>0, <1>8, <1>9
  DEF IngressStops, SensoryStops, SensoryFails, SensoryEnds, DispatcherStops, outside, Loops
<1>10. ASSUME NEW l \in Layers, LayerEnds(l) PROVE up'[k]
  <2>1. UNCHANGED phase /\ up' = [up EXCEPT ![l] = FALSE] /\ Abandoned(l) /\ l \in Loops
    BY <1>10 DEF LayerEnds, outside, Loops
  <2>2. CASE l = k
    <3>1. ~Alive("dispatcher")
      BY <2>1, <2>2 DEF Abandoned, Holders
    <3>2. up'["dispatcher"] = up["dispatcher"]
      BY <1>0, <2>1, <2>2 DEF Loops
    <3> QED
      BY <2>1, <3>1, <3>2 DEF Alive
  <2> QED
    BY <1>8, <2>1, <2>2
<1> QED
  BY <1>2, <1>3, <1>4, <1>5, <1>6, <1>7, <1>9, <1>10, UpFrame

-----------------------------------------------------------------------------
(* What is sent *)

LEMMA SensorySendsStep == TypeInv /\ SensorySends /\ [SysNext]_sysVars => SensorySends'
<1> SUFFICES ASSUME TypeInv, SensorySends, [SysNext]_sysVars PROVE SensorySends'
  OBVIOUS
<1> USE DEF SensorySends
<1>0. SendsTyped /\ sends \in [Handlers -> Seq(Sends)] /\ "sensory" \in Handlers
  BY DEF TypeInv, SendsTyped, Handlers
<1>1. CASE sends'["sensory"] = sends["sensory"]
  BY <1>1
<1>2. CASE sends'["sensory"] = <<>>
  <2>1. Len(<<>>) = 0
    OBVIOUS
  <2> QED
    BY <1>2, <2>1
<1>3. CASE HandlerSends("sensory")
  <2>1. sends["sensory"] \in Seq(Sends) /\ sends["sensory"] # <<>>
    BY <1>0, <1>3 DEF HandlerSends
  <2>2. sends'["sensory"] = Tail(sends["sensory"])
    BY <1>0, <1>3 DEF HandlerSends
  <2>3. /\ Len(Tail(sends["sensory"])) = Len(sends["sensory"]) - 1
        /\ \A i \in 1..Len(Tail(sends["sensory"])) :
             Tail(sends["sensory"])[i] = sends["sensory"][i + 1]
    BY <2>1
  <2>4. Len(sends["sensory"]) \in Nat
    BY <2>1
  <2> QED
    BY <2>2, <2>3, <2>4
<1>4. CASE SensoryTakesMessage
  BY <1>4, SensoryBegins
<1>5. CASE LoadFails \/ HandlerFails("sensory") \/ SensoryStops \/ SensoryFails
  BY <1>0, <1>2, <1>5 DEF LoadFails, HandlerFails, SensoryStops, SensoryFails, SensoryEnds
<1>6. CASE HandlerSends("dispatcher") \/ HandlerFails("dispatcher") \/ DispatcherTakes
  BY <1>0, <1>1, <1>6 DEF HandlerSends, HandlerFails, DispatcherTakes
<1> QED
  BY <1>1, <1>3, <1>4, <1>5, <1>6, SendsFrame

LEMMA SensorySendsNoReport ==
  ASSUME TypeInv, SensorySends, HandlerSends("sensory") PROVE UNCHANGED gotReport
<1> USE DEF Handlers
<1>1. Head(sends["sensory"]) = sends["sensory"][1] /\ Len(sends["sensory"]) >= 1
  BY HeadOfSends DEF TypeInv, HandlerSends
<1>2. Len(sends["sensory"]) \in Nat
  BY DEF TypeInv, SendsTyped
<1>3. Head(sends["sensory"]).event.kind # "report"
  BY <1>1, <1>2 DEF SensorySends
<1> QED
  BY <1>3 DEF HandlerSends

(* The four things the dispatcher can do to its sends and to the record of *)
(* who got a report.                                                       *)
LEMMA DispatcherSteps ==
  ASSUME WiringInv, HandlerSends("dispatcher")
  PROVE  \/ sends'["dispatcher"] = <<>> /\ UNCHANGED gotReport
            /\ \E s \in Sends : s.event.kind # "report" /\ sends["dispatcher"] = <<s>>
         \/ \E r \in ReportEvents :
              /\ sends["dispatcher"] = <<To("council", r), To("solidify", r)>>
              /\ sends'["dispatcher"] = <<To("solidify", r)>>
              /\ gotReport' = [gotReport EXCEPT ![r.about] = @ \cup {"council"}]
         \/ \E r \in ReportEvents :
              /\ sends["dispatcher"] = <<To("solidify", r)>>
              /\ r.about \in Messages => "council" \in gotReport[r.about]
              /\ sends'["dispatcher"] = <<>>
              /\ gotReport' = [gotReport EXCEPT ![r.about] = @ \cup {"solidify"}]
<1> DEFINE d == sends["dispatcher"]
<1>1. /\ d # <<>>
      /\ sends'["dispatcher"] = Tail(d)
      /\ gotReport' = IF Head(d).event.kind = "report"
                      THEN [gotReport EXCEPT ![Head(d).event.about] = @ \cup {Head(d).to}]
                      ELSE gotReport
  BY DEF WiringInv, TypeInv, SendsTyped, HandlerSends, Handlers
<1>2. \A s \in Sends : Head(<<s>>) = s /\ Tail(<<s>>) = <<>>
  OBVIOUS
<1>3. \A s, t \in Sends : Head(<<s, t>>) = s /\ Tail(<<s, t>>) = <<t>>
  <2> SUFFICES ASSUME NEW s \in Sends, NEW t \in Sends
               PROVE  Head(<<s, t>>) = s /\ Tail(<<s, t>>) = <<t>>
    OBVIOUS
  <2>1. <<s, t>> \in Seq(Sends) /\ <<t>> \in Seq(Sends) /\ Len(<<s, t>>) = 2 /\ Len(<<t>>) = 1
    OBVIOUS
  <2>2. Tail(<<s, t>>) \in Seq(Sends) /\ Len(Tail(<<s, t>>)) = 1 /\ Tail(<<s, t>>)[1] = t
    BY <2>1
  <2>3. Tail(<<s, t>>) = <<t>>
    BY <2>1, <2>2, SeqEqual
  <2> QED
    BY <2>1, <2>3
<1>4. \A r \in ReportEvents, c \in Channels :
        /\ r.kind = "report"
        /\ To(c, r) \in Sends /\ To(c, r).to = c /\ To(c, r).event = r
  BY ReportTyped, ToTyped
<1>5. "council" \in Channels /\ "solidify" \in Channels
  BY DEF Channels
<1>6. DispatcherSends
  BY DEF WiringInv
<1>7. CASE \E s \in Sends : s.event.kind # "report" /\ d = <<s>>
  BY <1>1, <1>2, <1>7
<1>8. ASSUME NEW r \in ReportEvents, d = <<To("council", r), To("solidify", r)>>
      PROVE  /\ sends'["dispatcher"] = <<To("solidify", r)>>
             /\ gotReport' = [gotReport EXCEPT ![r.about] = @ \cup {"council"}]
  <2>1. Head(d) = To("council", r) /\ Tail(d) = <<To("solidify", r)>>
    BY <1>3, <1>4, <1>5, <1>8
  <2>2. r.kind = "report" /\ Head(d).to = "council" /\ Head(d).event = r
    BY <1>4, <1>5, <2>1
  <2> HIDE DEF d
  <2> QED
    BY <1>1, <2>1, <2>2
<1>9. ASSUME NEW r \in ReportEvents, d = <<To("solidify", r)>>
      PROVE  /\ sends'["dispatcher"] = <<>>
             /\ gotReport' = [gotReport EXCEPT ![r.about] = @ \cup {"solidify"}]
  <2>1. Head(d) = To("solidify", r) /\ Tail(d) = <<>>
    BY <1>2, <1>4, <1>5, <1>9
  <2>2. r.kind = "report" /\ Head(d).to = "solidify" /\ Head(d).event = r
    BY <1>4, <1>5, <2>1
  <2> HIDE DEF d
  <2> QED
    BY <1>1, <2>1, <2>2
<1> QED
  BY <1>1, <1>6, <1>7, <1>8, <1>9 DEF DispatcherSends

LEMMA ReportsTypedStep == WiringInv /\ [SysNext]_sysVars => ReportsTyped'
<1> SUFFICES ASSUME WiringInv, [SysNext]_sysVars PROVE ReportsTyped'
  OBVIOUS
<1> USE DEF ReportsTyped
<1>0. ReportsTyped /\ TypeInv /\ SensorySends
  BY DEF WiringInv, TypeInv
<1>1. CASE UNCHANGED gotReport
  BY <1>0, <1>1
<1>2. CASE HandlerSends("dispatcher")
  BY <1>0, <1>1, <1>2, DispatcherSteps
<1> QED
  BY <1>0, <1>1, <1>2, ReportsFrame, SensorySendsNoReport

(* A dispatcher that has begun a report is not stopped: the layers it      *)
(* sends to are there.                                                     *)
LEMMA NoSendFails ==
  ASSUME WiringInv, HandlerFails("dispatcher"), NEW r \in ReportEvents,
         NEW c \in {"council", "solidify"}, Head(sends["dispatcher"]) = To(c, r)
  PROVE  FALSE
<1>1. To(c, r).to = c
  BY ReportTyped, ToTyped DEF Channels
<1>2. ~Alive(Receiver(c)) /\ up["dispatcher"]
  BY <1>1 DEF HandlerFails
<1>3. Receiver(c) = c /\ c \in Layers \ {"gate"}
  BY ReceiverOfLayers DEF Layers
<1>4. up[c]
  BY <1>2, <1>3 DEF WiringInv, LayersOutlive, Alive
<1> QED
  BY <1>2, <1>3, <1>4 DEF Alive

LEMMA HeadOfReport ==
  ASSUME NEW r \in ReportEvents
  PROVE  /\ Head(<<To("solidify", r)>>) = To("solidify", r)
         /\ Head(<<To("council", r), To("solidify", r)>>) = To("council", r)
  OBVIOUS

LEMMA DispatcherSendsStep == WiringInv /\ [SysNext]_sysVars => DispatcherSends'
<1> SUFFICES ASSUME WiringInv, [SysNext]_sysVars PROVE DispatcherSends'
  OBVIOUS
<1>0. DispatcherSends /\ TypeInv /\ SensorySends /\ sends \in [Handlers -> Seq(Sends)]
  BY DEF WiringInv, TypeInv, SendsTyped
<1>1. CASE sends'["dispatcher"] = <<>>
  BY <1>1 DEF DispatcherSends
<1>2. CASE sends'["dispatcher"] = sends["dispatcher"] /\ UNCHANGED gotReport
  BY <1>0, <1>2 DEF DispatcherSends
<1>3. CASE LoadFails \/ HandlerFails("dispatcher")
  BY <1>0, <1>1, <1>3 DEF LoadFails, HandlerFails, Handlers
<1>4. CASE HandlerSends("dispatcher")
  <2>1. CASE \E r \in ReportEvents :
               /\ sends'["dispatcher"] = <<To("solidify", r)>>
               /\ gotReport' = [gotReport EXCEPT ![r.about] = @ \cup {"council"}]
    <3>1. PICK r \in ReportEvents :
               /\ sends'["dispatcher"] = <<To("solidify", r)>>
               /\ gotReport' = [gotReport EXCEPT ![r.about] = @ \cup {"council"}]
      BY <2>1
    <3>2. r.about \in Messages => "council" \in gotReport'[r.about]
      BY <3>1 DEF WiringInv, TypeInv, ReportsTyped
    <3> QED
      BY <3>1, <3>2 DEF DispatcherSends
  <2> QED
    BY <1>1, <1>4, <2>1, DispatcherSteps
<1>5. CASE HandlerSends("sensory")
  <2>1. sends'["dispatcher"] = sends["dispatcher"]
    BY <1>0, <1>5 DEF HandlerSends, Handlers
  <2> QED
    BY <1>0, <1>2, <1>5, <2>1, SensorySendsNoReport
<1>6. CASE HandlerFails("sensory") \/ SensoryStops \/ SensoryFails
  BY <1>0, <1>2, <1>6 DEF HandlerFails, SensoryStops, SensoryFails, SensoryEnds, seen, Handlers
<1>7. CASE SensoryTakesMessage
  <2>1. sends'["dispatcher"] = sends["dispatcher"]
    BY <1>0, <1>7, SensoryBegins DEF Handlers
  <2> QED
    BY <1>2, <1>7, <2>1 DEF SensoryTakesMessage, seen
<1>8. CASE DispatcherTakes
  <2>1. Head(chan["router"]) \in Events
    BY <1>0, <1>8, TailKeeps DEF TypeInv, DispatcherTakes, Channels
  <2>2. PICK f \in Forwards(Head(chan["router"])) : sends' = [sends EXCEPT !["dispatcher"] = f]
    BY <1>8 DEF DispatcherTakes
  <2>3. sends'["dispatcher"] = f
    BY <1>0, <2>2 DEF Handlers
  <2>4. \/ f = <<>>
        \/ \E s \in Sends : s.to # "router" /\ s.event.kind # "report" /\ f = <<s>>
        \/ \E r \in ReportEvents : f = <<To("council", r), To("solidify", r)>>
    BY <2>1, ForwardsShape
  <2> QED
    BY <2>3, <2>4 DEF DispatcherSends
<1>9. CASE UNCHANGED sends
  <2>1. CASE UNCHANGED gotReport
    BY <1>2, <1>9, <2>1
  <2>2. CASE HandlerSends("dispatcher") \/ HandlerSends("sensory")
    BY <1>4, <1>5, <2>2
  <2> QED
    BY <2>1, <2>2, ReportsFrame
<1> QED
  BY <1>3, <1>4, <1>5, <1>6, <1>7, <1>8, <1>9, SendsFrame

(* The dispatcher's half of a report is done or still to do.               *)
LEMMA BothStep == WiringInv /\ [SysNext]_sysVars => ReportReachesBoth'
<1> SUFFICES ASSUME WiringInv, [SysNext]_sysVars, NEW m \in Messages, gotReport'[m] # {}
             PROVE  \/ gotReport'[m] = {"council", "solidify"}
                    \/ up'["dispatcher"] /\ sends'["dispatcher"] = <<To("solidify", Event("report", m))>>
  BY DEF ReportReachesBoth
<1> DEFINE Pending == <<To("solidify", Event("report", m))>>
           Both    == {"council", "solidify"}
<1>a. TypeInv /\ StartInv /\ SensorySends /\ sends \in [Handlers -> Seq(Sends)]
      /\ gotReport \in [Messages -> SUBSET {"council", "solidify"}] /\ up \in [Loops -> BOOLEAN]
  BY DEF WiringInv, TypeInv, SendsTyped, ReportsTyped, FlagsTyped
<1>b. gotReport[m] # {} => \/ gotReport[m] = Both
                           \/ up["dispatcher"] /\ sends["dispatcher"] = Pending
  BY DEF WiringInv, ReportReachesBoth
<1>c. /\ Event("report", m) \in ReportEvents
      /\ \A r \in ReportEvents : r.about = m => r = Event("report", m)
  BY DEF ReportEvents, Event
<1>1. CASE gotReport[m] = Both /\ gotReport'[m] = gotReport[m]
  BY <1>1
<1>2. CASE sends'["dispatcher"] = sends["dispatcher"] /\ UNCHANGED <<up, gotReport>>
  BY <1>b, <1>2
<1>3. CASE HandlerSends("dispatcher")
  <2>0. up["dispatcher"] /\ UNCHANGED up
    BY <1>3 DEF HandlerSends
  <2>1. ASSUME NEW s \in Sends, s.event.kind # "report", sends["dispatcher"] = <<s>>,
               UNCHANGED gotReport
        PROVE  gotReport'[m] = Both
    <3>1. To("solidify", Event("report", m)).event.kind = "report"
      BY DEF To, Event
    <3>2. sends["dispatcher"] # Pending
      BY <2>1, <3>1
    <3> QED
      BY <1>b, <2>1, <3>2
  <2>2. ASSUME NEW r \in ReportEvents, sends["dispatcher"] = <<To("council", r), To("solidify", r)>>,
               sends'["dispatcher"] = <<To("solidify", r)>>,
               gotReport' = [gotReport EXCEPT ![r.about] = @ \cup {"council"}]
        PROVE  \/ gotReport'[m] = Both
               \/ up'["dispatcher"] /\ sends'["dispatcher"] = Pending
    <3>1. CASE r.about = m
      BY <1>c, <2>0, <2>2, <3>1
    <3>2. CASE r.about # m
      <4>1. gotReport'[m] = gotReport[m]
        BY <1>a, <2>2, <3>2
      <4>2. sends["dispatcher"] # Pending
        <5>1. Len(Pending) = 1 /\ Len(sends["dispatcher"]) = 2
          BY <2>2
        <5> QED
          BY <5>1
      <4> QED
        BY <1>b, <4>1, <4>2
    <3> QED
      BY <3>1, <3>2
  <2>3. ASSUME NEW r \in ReportEvents, sends["dispatcher"] = <<To("solidify", r)>>,
               r.about \in Messages => "council" \in gotReport[r.about],
               gotReport' = [gotReport EXCEPT ![r.about] = @ \cup {"solidify"}]
        PROVE  gotReport'[m] = Both
    <3>1. CASE r.about = m
      <4>1. gotReport'[m] = gotReport[m] \cup {"solidify"} /\ "council" \in gotReport[m]
        BY <1>a, <2>3, <3>1
      <4> QED
        BY <1>a, <4>1
    <3>2. CASE r.about # m
      <4>1. gotReport'[m] = gotReport[m]
        BY <1>a, <2>3, <3>2
      <4>2. sends["dispatcher"] # Pending
        <5> SUFFICES ASSUME sends["dispatcher"] = Pending PROVE FALSE
          OBVIOUS
        <5>1. To("solidify", r) = To("solidify", Event("report", m))
          BY <2>3
        <5>2. r = Event("report", m)
          BY <5>1 DEF To
        <5> QED
          BY <3>2, <5>2 DEF Event
      <4> QED
        BY <1>b, <4>1, <4>2
    <3> QED
      BY <3>1, <3>2
  <2> QED
    BY <1>3, <2>1, <2>2, <2>3, DispatcherSteps
<1>4. CASE HandlerFails("dispatcher")
  <2>1. UNCHANGED gotReport
    BY <1>4 DEF HandlerFails, seen
  <2>2. sends["dispatcher"] # Pending
    BY <1>4, <1>c, HeadOfReport, NoSendFails
  <2> QED
    BY <1>b, <2>1, <2>2
<1>5. CASE HandlerSends("sensory")
  BY <1>a, <1>2, <1>5, SensorySendsNoReport DEF HandlerSends, Handlers
<1>6. ASSUME UNCHANGED gotReport, sends["dispatcher"] = <<>> PROVE gotReport'[m] = Both
  BY <1>b, <1>6
<1>7. CASE LoadFails
  <2>1. sends["dispatcher"] = <<>>
    BY <1>a, <1>7 DEF LoadFails, StartInv
  <2> QED
    BY <1>6, <1>7, <2>1 DEF LoadFails, seen
<1>8. CASE DispatcherTakes \/ DispatcherStops
  BY <1>6, <1>8 DEF DispatcherTakes, DispatcherStops, Between, seen
<1>9. CASE Spawns \/ CooldownsLoaded
  <2>1. sends["dispatcher"] = <<>> /\ UNCHANGED gotReport
    BY <1>9, <1>a DEF Spawns, CooldownsLoaded, StartInv, seen, Loops
  <2> QED
    BY <1>6, <2>1
<1>10. ASSUME UNCHANGED gotReport, sends'["dispatcher"] = sends["dispatcher"],
              NEW l \in Loops \ {"dispatcher"}, up' = [up EXCEPT ![l] = FALSE]
       PROVE  \/ gotReport'[m] = Both
              \/ up'["dispatcher"] /\ sends'["dispatcher"] = Pending
  BY <1>a, <1>b, <1>10 DEF Loops
<1>11. CASE IngressStops \/ SensoryStops \/ SensoryFails \/ (\E l \in Layers : LayerEnds(l))
  <2>1. \E l \in Loops \ {"dispatcher"} : up' = [up EXCEPT ![l] = FALSE]
    BY <1>11 DEF IngressStops, SensoryStops, SensoryFails, SensoryEnds, LayerEnds, Loops, Layers
  <2>2. UNCHANGED gotReport /\ sends'["dispatcher"] = sends["dispatcher"]
    BY <1>a, <1>11
    DEF IngressStops, SensoryStops, SensoryFails, SensoryEnds, LayerEnds, seen, Handlers
  <2> QED
    BY <1>10, <2>1, <2>2
<1>12. CASE SensoryTakesMessage
  BY <1>a, <1>2, <1>12, SensoryBegins DEF SensoryTakesMessage, seen, Handlers
<1>13. CASE \/ BuildFails \/ Connects \/ (\E k \in Messages : Arrives(k))
            \/ HandlerFails("sensory") \/ SensoryTakesReply \/ (\E l \in Layers : LayerTakes(l))
            \/ (\E t \in tasks : TaskSends(t)) \/ (\E t \in tasks : TaskFails(t))
            \/ SignalArrives \/ CronTicks \/ SchedulerReleases \/ UNCHANGED sysVars
  <2>1. UNCHANGED <<up, gotReport>> /\ sends'["dispatcher"] = sends["dispatcher"]
    BY <1>a, <1>13 DEF BuildFails, Connects, Arrives, HandlerFails, SensoryTakesReply, LayerTakes,
       TaskSends, TaskFails, SignalArrives, CronTicks, SchedulerReleases, sysVars, seen, Handlers
  <2> QED
    BY <1>2, <2>1
<1> QED
  BY StepCases, <1>3, <1>4, <1>5, <1>7, <1>8, <1>9, <1>11, <1>12, <1>13

-----------------------------------------------------------------------------
(* The theorems *)

LEMMA InitWiring == SysInit => WiringInv
<1> SUFFICES ASSUME SysInit PROVE WiringInv
  OBVIOUS
<1>1. TypeInv
  <2>1. ChannelsTyped(chan)
    BY AllEmptyTyped DEF SysInit
  <2>2. SendsTyped /\ TasksTyped /\ ReportsTyped
    BY DEF SysInit, SendsTyped, TasksTyped, ReportsTyped
  <2>3. FlagsTyped
    <3>1. 0 \in 0..MaxTicks
      BY CapacityAssumption
    <3>2. up \in [Loops -> BOOLEAN]
      BY DEF SysInit
    <3> QED
      BY <3>1, <3>2 DEF SysInit, FlagsTyped
  <2> QED
    BY <2>1, <2>2, <2>3 DEF TypeInv
<1>2. StartInv /\ LayersOutlive
  BY DEF SysInit, StartInv, LayersOutlive, Alive, Loops, Handlers
<1>3. SensorySends
  BY DEF SysInit, SensorySends, Handlers
<1>4. DispatcherSends /\ ReportReachesBoth
  BY DEF SysInit, DispatcherSends, ReportReachesBoth, Handlers
<1> QED
  BY <1>1, <1>2, <1>3, <1>4 DEF WiringInv

LEMMA WiringInvariant == SysSpec => []WiringInv
<1>1. WiringInv /\ [SysNext]_sysVars => WiringInv'
  <2> SUFFICES ASSUME WiringInv, [SysNext]_sysVars PROVE WiringInv'
    OBVIOUS
  <2>1. TypeInv /\ StartInv /\ LayersOutlive /\ SensorySends
    BY DEF WiringInv
  <2>2. TypeInv'
    BY <2>1, ChannelsStep, SendsStep, TasksStep, FlagsStep, ReportsTypedStep DEF TypeInv
  <2>3. StartInv' /\ LayersOutlive' /\ SensorySends'
    BY <2>1, StartStepInv, LayersStep, SensorySendsStep
  <2> QED
    BY <2>2, <2>3, DispatcherSendsStep, BothStep DEF WiringInv
<1> QED
  BY InitWiring, <1>1, PTL DEF SysSpec

(* Whatever the capacities, no send of a handler, of a task, of the cron   *)
(* job or of the ingress puts more into a channel than it holds.           *)
THEOREM TypeCorrect == SysSpec => []TypeOK
<1>1. WiringInv => TypeOK
  BY DEF WiringInv, TypeInv, ChannelsTyped, SendsTyped, TasksTyped, FlagsTyped, ReportsTyped,
         TypeOK, Sends
<1> QED
  BY WiringInvariant, <1>1, PTL

(* A report the dispatcher has sent to the council reaches solidify, for   *)
(* any messages and capacities: the signal is looked at between two        *)
(* events, and the layers it sends to end only after the dispatcher.       *)
THEOREM ReportsReachBoth == SysSpec => []ReportReachesBoth
<1>1. WiringInv => ReportReachesBoth
  BY DEF WiringInv
<1> QED
  BY WiringInvariant, <1>1, PTL

-----------------------------------------------------------------------------
(* Waiting.  The channels form cycles through the dispatcher: it waits for *)
(* room at a layer whose tasks wait for room at its own channel.           *)

(* A send to the channel does not wait: there is room, or nobody receives. *)
Accepts(c) == Room(c) \/ ~Alive(Receiver(c))

(* The guards of LoopStep: some loop or task can go on.                    *)
CanStep ==
  \/ phase \in {"building", "loading"}
  \/ up["ingress"] /\ (link = "down" \/ shutdown)
  \/ \E h \in Handlers : up[h] /\ sends[h] # <<>> /\ Accepts(Head(sends[h]).to)
  \/ Between("sensory") /\ (shutdown \/ chan["raw"] # <<>> \/ chan["routed"] # <<>>)
  \/ Between("dispatcher") /\ (shutdown \/ chan["router"] # <<>>)
  \/ \E l \in Layers : up[l] /\ (chan[l] # <<>> \/ Abandoned(l))
  \/ tasks # {} /\ Accepts("router")

(* What run() waits for after the signal.                                  *)
Stopped ==
  /\ phase \in {"running", "exited"}
  /\ \A l \in Loops : ~up[l] \/ (l = "solidify" /\ cron)

NothingStuck == InMotion \/ (shutdown /\ ~Stopped) => CanStep

(* What is queued has a receiver, and what is being sent a sender.         *)
ReadInv ==
  /\ \A c \in Channels : chan[c] # <<>> => Alive(Receiver(c))
  /\ ~up["sensory"] => sends["sensory"] = <<>>

LEMMA ReceiverTyped == \A c \in Channels : Receiver(c) \in Loops
  BY DEF Receiver, Channels, Loops, Layers

LEMMA ReadStep == WiringInv /\ ReadInv /\ [SysNext]_sysVars => ReadInv'
<1> SUFFICES ASSUME WiringInv, ReadInv, [SysNext]_sysVars PROVE ReadInv'
  OBVIOUS
<1>a. /\ sends \in [Handlers -> Seq(Sends)] /\ chan \in [Channels -> Seq(Events)]
      /\ up \in [Loops -> BOOLEAN] /\ SendsTyped /\ TypeInv /\ StartInv
  BY DEF WiringInv, TypeInv, SendsTyped, ChannelsTyped, FlagsTyped
<1>b. "sensory" \in Handlers /\ "dispatcher" \in Handlers
  BY DEF Handlers
<1>1. ~up'["sensory"] => sends'["sensory"] = <<>>
  <2>1. CASE LoadFails \/ SensoryStops \/ SensoryFails
    BY <1>a, <1>b, <2>1 DEF LoadFails, SensoryStops, SensoryFails, SensoryEnds
  <2>2. CASE HandlerSends("sensory") \/ HandlerFails("sensory") \/ SensoryTakesMessage
    BY <2>2 DEF HandlerSends, HandlerFails, SensoryTakesMessage, Between
  <2>3. CASE HandlerSends("dispatcher") \/ HandlerFails("dispatcher") \/ DispatcherTakes
    BY <1>a, <1>b, <2>3 DEF HandlerSends, HandlerFails, DispatcherTakes, ReadInv
  <2>4. CASE UNCHANGED sends
    <3>1. up'["sensory"] = up["sensory"] \/ sends["sensory"] = <<>> \/ SensoryFails \/ LoadFails
      <4>1. "sensory" \in Loops /\ "sensory" \notin Layers
        BY DEF Loops, Layers
      <4>2. CASE Spawns
        BY <1>a, <4>1, <4>2 DEF Spawns, StartInv, ReadInv
      <4>3. CASE CooldownsLoaded \/ IngressStops \/ DispatcherStops \/ (\E l \in Layers : LayerEnds(l))
        BY <1>a, <4>1, <4>3 DEF CooldownsLoaded, IngressStops, DispatcherStops, LayerEnds
      <4>4. CASE SensoryStops
        BY <4>4 DEF SensoryStops, Between
      <4> QED
        BY <4>2, <4>3, <4>4, UpFrame
    <3> QED
      BY <2>1, <2>4, <3>1 DEF ReadInv
  <2> QED
    BY <2>1, <2>2, <2>3, <2>4, SendsFrame
<1> SUFFICES ASSUME NEW c \in Channels, chan'[c] # <<>> PROVE Alive(Receiver(c))'
  BY <1>1 DEF ReadInv
<1>c. Receiver(c) \in Loops
  BY ReceiverTyped
<1>2. ASSUME UNCHANGED <<phase, up>>, chan[c] = <<>> => Alive(Receiver(c)) PROVE Alive(Receiver(c))'
  BY <1>2 DEF Alive, ReadInv
<1>3. ASSUME UNCHANGED <<phase, up>>, NEW d \in Channels, Room(d), NEW e,
             chan' = [chan EXCEPT ![d] = Append(@, e)]
      PROVE  Alive(Receiver(c))'
  BY <1>a, <1>2, <1>3 DEF Room
<1>4. CASE \E m \in Messages : Arrives(m)
  <2>1. UNCHANGED <<phase, up>> /\ "raw" \in Channels
    BY <1>4 DEF Arrives, Channels
  <2>2. \/ Room("raw") /\ \E e : chan' = [chan EXCEPT !["raw"] = Append(@, e)]
        \/ chan' = chan
    BY <1>4 DEF Arrives
  <2> QED
    BY <1>2, <1>3, <2>1, <2>2
<1>5. ASSUME NEW h \in Handlers, HandlerSends(h) PROVE Alive(Receiver(c))'
  <2>1. Head(sends[h]).to \in Channels
    BY <1>5, <1>a, HeadOfSends DEF HandlerSends
  <2> QED
    BY <1>3, <1>5, <2>1 DEF HandlerSends, outside
<1>6. ASSUME NEW t \in tasks, TaskSends(t) PROVE Alive(Receiver(c))'
  BY <1>3, <1>6 DEF TaskSends, outside, Channels
<1>7. CASE CronTicks
  BY <1>3, <1>7 DEF CronTicks, Channels
<1>8. ASSUME UNCHANGED <<phase, up>>, NEW d \in Channels, chan[d] # <<>>,
             chan' = [chan EXCEPT ![d] = Tail(@)]
      PROVE  Alive(Receiver(c))'
  BY <1>a, <1>2, <1>8 DEF ReadInv
<1>9. CASE SensoryTakesMessage \/ SensoryTakesReply \/ DispatcherTakes
           \/ (\E l \in Layers : LayerTakes(l))
  <2>1. Layers \subseteq Channels /\ {"raw", "routed", "router"} \subseteq Channels
    BY DEF Layers, Channels
  <2> QED
    BY <1>8, <1>9, <2>1 DEF SensoryTakesMessage, SensoryTakesReply, DispatcherTakes, LayerTakes,
                            outside
<1>10. ASSUME UNCHANGED phase, NEW l \in Loops, up' = [up EXCEPT ![l] = FALSE], Receiver(c) # l,
              chan'[c] = chan[c]
       PROVE  Alive(Receiver(c))'
  BY <1>10, <1>a, <1>c DEF Alive, ReadInv
<1>11. CASE SensoryStops \/ SensoryFails
  <2>1. chan' = Drained(chan, {"raw", "routed"}) /\ up' = [up EXCEPT !["sensory"] = FALSE]
        /\ UNCHANGED phase
    BY <1>11 DEF SensoryStops, SensoryFails, SensoryEnds, outside
  <2>2. c \notin {"raw", "routed"} /\ chan'[c] = chan[c]
    BY <2>1 DEF Drained
  <2>3. Receiver(c) # "sensory" /\ "sensory" \in Loops
    BY <2>2 DEF Receiver, Channels, Loops
  <2> QED
    BY <1>10, <2>1, <2>2, <2>3
<1>12. CASE DispatcherStops
  <2>1. chan' = Drained(chan, {"router"}) /\ up' = [up EXCEPT !["dispatcher"] = FALSE]
        /\ UNCHANGED phase
    BY <1>12 DEF DispatcherStops, outside
  <2>2. c # "router" /\ chan'[c] = chan[c]
    BY <2>1 DEF Drained
  <2>3. Receiver(c) # "dispatcher" /\ "dispatcher" \in Loops
    BY <2>2 DEF Receiver, Channels, Loops
  <2> QED
    BY <1>10, <2>1, <2>2, <2>3
<1>13. CASE IngressStops
  <2>1. Receiver(c) # "ingress" /\ "ingress" \in Loops
    BY DEF Receiver, Channels, Loops
  <2> QED
    BY <1>10, <1>13, <2>1 DEF IngressStops, outside
<1>14. ASSUME NEW l \in Layers, LayerEnds(l) PROVE Alive(Receiver(c))'
  <2>1. Receiver(c) = l => c = l
    BY DEF Receiver, Channels, Layers
  <2>2. Receiver(c) # l
    BY <1>14, <2>1 DEF LayerEnds
  <2> QED
    BY <1>10, <1>14, <2>2 DEF LayerEnds, outside, Loops
<1>15. CASE BuildFails \/ Spawns
  <2>1. phase = "building" /\ UNCHANGED chan
    BY <1>15 DEF BuildFails, Spawns
  <2>2. ~Alive(Receiver(c))
    BY <1>a, <1>c, <2>1 DEF StartInv, Alive
  <2> QED
    BY <2>1, <2>2 DEF ReadInv
<1>16. CASE CooldownsLoaded
  BY <1>16, <1>a, <1>c DEF CooldownsLoaded, Alive, ReadInv
<1>17. CASE LoadFails
  BY <1>17 DEF LoadFails
<1>18. CASE \/ Connects \/ HandlerFails("sensory") \/ HandlerFails("dispatcher")
            \/ (\E t \in tasks : TaskFails(t)) \/ SignalArrives \/ SchedulerReleases
            \/ UNCHANGED sysVars
  <2>1. UNCHANGED <<phase, up, chan>>
    BY <1>18 DEF Connects, HandlerFails, TaskFails, SignalArrives, SchedulerReleases, sysVars, outside
  <2> QED
    BY <1>2, <2>1 DEF ReadInv
<1> QED
  BY StepCases, <1>b, <1>4, <1>5, <1>6, <1>7, <1>9, <1>11, <1>12, <1>13, <1>14, <1>15, <1>16, <1>17,
     <1>18

(* A channel that makes a send wait is full, so its receiver has something *)
(* to take.                                                                *)
LEMMA FullIsQueued ==
  ASSUME TypeInv, NEW c \in Channels, ~Accepts(c)
  PROVE  Alive(Receiver(c)) /\ chan[c] # <<>>
<1>1. Alive(Receiver(c)) /\ ~(Len(chan[c]) < Capacity[c])
  BY DEF Accepts, Room
<1>2. Capacity[c] \in Nat \ {0} /\ Len(<<>>) = 0
  BY CapacityAssumption
<1> QED
  BY <1>1, <1>2

(* A layer's loop always takes what is queued, so a sender that waits for  *)
(* it is not the end of a chain.                                           *)
LEMMA LayersServe ==
  ASSUME TypeInv, NEW c \in Layers, ~Accepts(c) PROVE CanStep
<1>1. Receiver(c) = c /\ c \in Channels /\ c # "dispatcher"
  BY ReceiverOfLayers DEF Layers, Channels
<1> QED
  BY <1>1, FullIsQueued DEF Alive, CanStep

LEMMA SensoryServes ==
  ASSUME WiringInv, up["sensory"],
         sends["sensory"] # <<>> \/ shutdown \/ chan["raw"] # <<>> \/ chan["routed"] # <<>>
  PROVE  CanStep
<1>1. TypeInv /\ SendsTyped /\ SensorySends /\ "sensory" \in Handlers
  BY DEF WiringInv, TypeInv, Handlers
<1>2. CASE sends["sensory"] = <<>>
  BY <1>2 DEF CanStep, Between
<1>3. CASE sends["sensory"] # <<>>
  <2>1. Head(sends["sensory"]) = sends["sensory"][1] /\ 1 \in 1 .. Len(sends["sensory"])
    <3>1. Len(sends["sensory"]) \in Nat
      BY <1>1 DEF SendsTyped
    <3> QED
      BY <1>1, <1>3, <3>1, HeadOfSends
  <2>2. Head(sends["sensory"]).to = "gate"
    BY <1>1, <2>1 DEF SensorySends
  <2>3. CASE Accepts("gate")
    BY <1>1, <1>3, <2>2, <2>3 DEF CanStep
  <2>4. CASE ~Accepts("gate")
    BY <1>1, <2>4, LayersServe DEF Layers
  <2> QED
    BY <2>3, <2>4
<1> QED
  BY <1>2, <1>3

LEMMA DispatcherServes ==
  ASSUME WiringInv, up["dispatcher"],
         sends["dispatcher"] # <<>> \/ shutdown \/ chan["router"] # <<>>
  PROVE  CanStep
<1>1. TypeInv /\ SendsTyped /\ "dispatcher" \in Handlers
  BY DEF WiringInv, TypeInv, Handlers
<1>2. CASE sends["dispatcher"] = <<>>
  BY <1>2 DEF CanStep, Between
<1>3. CASE sends["dispatcher"] # <<>>
  <2> DEFINE c == Head(sends["dispatcher"]).to
  <2>1. c \in Channels /\ c # "router"
    <3>1. c \in Channels
      BY <1>1, <1>3, HeadOfSends
    <3>2. ASSUME NEW s \in Sends, s.to # "router", sends["dispatcher"] = <<s>> PROVE c # "router"
      BY <3>2
    <3>3. ASSUME NEW r \in ReportEvents,
                 sends["dispatcher"] \in {<<To("council", r), To("solidify", r)>>, <<To("solidify", r)>>}
          PROVE  c # "router"
      <4>1. Head(sends["dispatcher"]) \in {To("council", r), To("solidify", r)}
        BY <3>3, HeadOfReport
      <4>2. To("council", r).to = "council" /\ To("solidify", r).to = "solidify"
        BY DEF To
      <4> QED
        BY <4>1, <4>2
    <3>4. DispatcherSends
      BY DEF WiringInv
    <3> QED
      BY <1>3, <3>1, <3>2, <3>3, <3>4 DEF DispatcherSends
  <2>2. CASE Accepts(c)
    BY <1>1, <1>3, <2>2 DEF CanStep
  <2> HIDE DEF c
  <2>3. CASE ~Accepts(c) /\ c \in Layers
    BY <1>1, <2>3, LayersServe
  <2>4. CASE ~Accepts(c) /\ c \in {"raw", "routed"}
    <3>1. up["sensory"] /\ chan[c] # <<>>
      BY <1>1, <2>1, <2>4, FullIsQueued DEF Receiver, Alive
    <3> QED
      BY <2>4, <3>1, SensoryServes
  <2> QED
    BY <2>1, <2>2, <2>3, <2>4 DEF Channels, Layers
<1> QED
  BY <1>2, <1>3

LEMMA NotStuck == WiringInv /\ ReadInv => NothingStuck
<1> SUFFICES ASSUME WiringInv, ReadInv, InMotion \/ (shutdown /\ ~Stopped) PROVE CanStep
  BY DEF NothingStuck
<1> SUFFICES ASSUME phase \notin {"building", "loading"} PROVE CanStep
  BY DEF CanStep
<1>0. TypeInv /\ StartInv /\ phase \in {"running", "exited"} /\ up \in [Loops -> BOOLEAN]
  BY DEF WiringInv, TypeInv, FlagsTyped
<1>1. \A l : Alive(l) <=> up[l]
  BY DEF Alive
<1>2. ASSUME NEW c \in Channels, chan[c] # <<>> PROVE CanStep
  <2>1. up[Receiver(c)]
    BY <1>1, <1>2 DEF ReadInv
  <2>2. CASE c \in {"raw", "routed"}
    BY <1>2, <2>1, <2>2, SensoryServes DEF Receiver
  <2>3. CASE c = "router"
    BY <1>2, <2>1, <2>3, DispatcherServes DEF Receiver
  <2>4. CASE c \in Layers
    <3>1. Receiver(c) = c
      BY <2>4, ReceiverOfLayers DEF Layers
    <3> QED
      BY <1>2, <2>1, <2>4, <3>1 DEF CanStep
  <2> QED
    BY <2>2, <2>3, <2>4 DEF Channels, Layers
<1>3. ASSUME NEW h \in Handlers, sends[h] # <<>> PROVE CanStep
  <2>1. CASE h = "sensory"
    BY <1>3, <2>1, SensoryServes DEF ReadInv
  <2>2. CASE h = "dispatcher"
    BY <1>0, <1>3, <2>2, DispatcherServes DEF StartInv
  <2> QED
    BY <2>1, <2>2 DEF Handlers
<1>4. ASSUME tasks # {} PROVE CanStep
  <2>1. CASE Accepts("router")
    BY <1>4, <2>1 DEF CanStep
  <2>2. CASE ~Accepts("router")
    BY <1>0, <1>2, <2>2, FullIsQueued DEF Channels
  <2> QED
    BY <2>1, <2>2
<1>5. ASSUME shutdown, NEW l \in Loops, up[l], ~(l = "solidify" /\ cron) PROVE CanStep
  <2>1. CASE l = "ingress"
    BY <1>5, <2>1 DEF CanStep
  <2>2. CASE l = "sensory"
    BY <1>5, <2>2, SensoryServes
  <2>3. CASE l = "dispatcher"
    BY <1>5, <2>3, DispatcherServes
  <2>4. CASE l = "gate"
    <3>1. CASE up["sensory"]
      BY <1>5, <3>1, SensoryServes
    <3>2. CASE ~up["sensory"]
      <4>1. Abandoned("gate")
        BY <1>1, <3>2 DEF Abandoned, Holders
      <4> QED
        BY <1>5, <2>4, <4>1 DEF CanStep, Layers
    <3> QED
      BY <3>1, <3>2
  <2>5. CASE l \in Layers \ {"gate"}
    <3>1. CASE up["dispatcher"]
      BY <1>5, <3>1, DispatcherServes
    <3>2. CASE ~up["dispatcher"]
      <4>1. Abandoned(l)
        BY <1>1, <1>5, <2>5, <3>2 DEF Abandoned, Holders
      <4> QED
        BY <1>5, <2>5, <4>1 DEF CanStep
    <3> QED
      BY <3>1, <3>2
  <2> QED
    BY <2>1, <2>2, <2>3, <2>4, <2>5 DEF Loops
<1> QED
  BY <1>0, <1>2, <1>3, <1>4, <1>5 DEF InMotion, Stopped

(* With any messages and channels of any capacities nothing is stuck: as   *)
(* long as an event is queued, being sent or a task's, and after the       *)
(* signal as long as run() waits for a loop, a loop or a task can go on.   *)
(* No cycle of awaited sends closes, because the layers' loops spawn       *)
(* (main.rs, router.rs and the actors' run()).                             *)
THEOREM NoCycleOfWaiting == SysSpec => []NothingStuck
<1>1. SysInit => ReadInv
  BY DEF SysInit, ReadInv, Handlers
<1> QED
  BY WiringInvariant, ReadStep, NotStuck, <1>1, PTL DEF SysSpec
=============================================================================
