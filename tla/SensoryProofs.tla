--------------------------- MODULE SensoryProofs ---------------------------
(***************************************************************************)
(* Proofs about sensory, for any messages, users, sizes and capacities:    *)
(* what the gate was sent is kept, a shutdown writes all of it, the states *)
(* in memory are never behind the stored ones, and neither counts a reply  *)
(* that was not sent.                                                      *)
(***************************************************************************)
EXTENDS Sensory, FiniteSetTheorems, TLAPS

LEMMA ElementsAppend ==
  ASSUME NEW S, NEW s \in Seq(S), NEW x \in S
  PROVE  Elements(Append(s, x)) = Elements(s) \cup {x}
<1> DEFINE t == Append(s, x)
<1>1. Len(t) = Len(s) + 1 /\ Len(s) \in Nat /\ t[Len(s) + 1] = x
  OBVIOUS
<1>2. \A i \in 1 .. Len(s) : t[i] = s[i]
  OBVIOUS
<1>3. Elements(t) \subseteq Elements(s) \cup {x}
  <2> SUFFICES ASSUME NEW i \in 1 .. Len(t) PROVE t[i] \in Elements(s) \cup {x}
    BY DEF Elements
  <2>1. CASE i = Len(s) + 1
    BY <2>1, <1>1
  <2>2. CASE i \in 1 .. Len(s)
    BY <2>2, <1>2 DEF Elements
  <2> QED
    BY <2>1, <2>2, <1>1
<1>4. Elements(s) \subseteq Elements(t)
  <2> SUFFICES ASSUME NEW i \in 1 .. Len(s) PROVE s[i] \in Elements(t)
    BY DEF Elements
  <2> QED
    BY <1>1, <1>2 DEF Elements
<1>5. x \in Elements(t)
  BY <1>1 DEF Elements
<1> QED
  BY <1>3, <1>4, <1>5

LEMMA ElementsOfEmpty == Elements(<<>>) = {}
  BY DEF Elements

LEMMA ElementsTyped ==
  ASSUME NEW S, NEW s \in Seq(S) PROVE Elements(s) \subseteq S
  BY DEF Elements

-----------------------------------------------------------------------------
(* Type correctness *)

LEMMA EmptyTyped == ASSUME NEW S PROVE <<>> \in Seq(S) /\ Len(<<>>) = 0
  OBVIOUS

LEMMA InitTyped == Init => TypeOK
<1> SUFFICES ASSUME Init PROVE TypeOK
  OBVIOUS
<1>1. /\ raw \in Seq(Messages) /\ routed \in Seq(Users) /\ gate \in Seq(GateEvents)
      /\ buffer \in Seq(Messages) /\ batch \in Seq(Messages)
      /\ Len(raw) = 0 /\ Len(routed) = 0 /\ Len(gate) = 0 /\ Len(buffer) = 0
  BY EmptyTyped DEF Init
<1>2. /\ states \in [Users -> States \cup {None}] /\ snapshots \in [Users -> States \cup {None}]
      /\ deliveries \in [Messages -> Nat] /\ forwards \in [Messages -> Nat]
      /\ credits \in [Users -> Nat] /\ decided \in [Users -> Nat]
  BY DEF Init
<1>3. /\ step \in Steps /\ after \in {"loop", "detect", "stopped"}
      /\ current \in Messages \cup {None}
      /\ tickDue \in BOOLEAN /\ shutdown \in BOOLEAN /\ evicted \in BOOLEAN
      /\ seen \subseteq Messages /\ rows \subseteq Messages
  BY DEF Init, Steps
<1>4. delta \in [user : Users, state : States] \cup {None}
  BY DEF Init
<1>5. /\ Len(raw) <= RawCapacity /\ Len(routed) <= RoutedCapacity /\ Len(gate) <= GateCapacity
      /\ Len(buffer) < BatchSize
  BY <1>1, SizeAssumption
<1> QED
  BY <1>1, <1>2, <1>3, <1>4, <1>5 DEF TypeOK

LEMMA FreshTyped == Fresh \in States /\ Fresh.replies = 0
  BY DEF Fresh, States

LEMMA OrFreshTyped ==
  ASSUME NEW s \in States \cup {None} PROVE OrFresh(s) \in States
  BY FreshTyped DEF OrFresh

LEMMA TailTyped ==
  ASSUME NEW S, NEW s \in Seq(S), s # <<>>
  PROVE  Head(s) \in S /\ Tail(s) \in Seq(S) /\ Len(Tail(s)) = Len(s) - 1 /\ Len(s) \in Nat
  OBVIOUS

LEMMA AppendTyped ==
  ASSUME NEW S, NEW s \in Seq(S), NEW x \in S
  PROVE  Append(s, x) \in Seq(S) /\ Len(Append(s, x)) = Len(s) + 1 /\ Len(s) \in Nat
  OBVIOUS

LEMMA EventsTyped ==
  /\ \A m \in Messages : MessageEvent(m) \in GateEvents /\ BurstEvent(m) \in GateEvents
  /\ \A u \in Users : StateEvent(u) \in GateEvents
  BY DEF GateEvents, MessageEvent, BurstEvent, StateEvent

LEMMA SendTyped ==
  ASSUME TypeOK, NEW e \in GateEvents, SendToGate(e)
  PROVE  gate' \in Seq(GateEvents) /\ Len(gate') <= GateCapacity
<1>1. Append(gate, e) \in Seq(GateEvents) /\ Len(Append(gate, e)) = Len(gate) + 1
      /\ Len(gate) \in Nat
  BY AppendTyped DEF TypeOK
<1> QED
  BY <1>1, SizeAssumption DEF SendToGate

LEMMA StateTyped ==
  ASSUME NEW s \in States
  PROVE  /\ s.replies \in Nat /\ s.deltas \in Nat
         /\ OnReply(s) \in States /\ OnReply(s).replies = s.replies + 1
         /\ Changed(s) \in States /\ Changed(s).replies = s.replies
  BY DEF States, OnReply, Changed

LEMMA LoopTyped == TypeOK /\ ShapeInv /\ Loop => TypeOK'
<1> SUFFICES ASSUME TypeOK, ShapeInv, Loop PROVE TypeOK'
  OBVIOUS
<1> USE DEF channels, tables, history, Steps
<1>0. Len(<<>>) < BatchSize /\ <<>> \in Seq(Messages)
  BY EmptyTyped, SizeAssumption
<1>1. CASE StopLoop
  BY <1>1, <1>0 DEF StopLoop, Flush, TypeOK
<1>2. CASE FlushTick
  BY <1>2, <1>0 DEF FlushTick, Flush, TypeOK
<1>3. CASE TakeMessage
  <2>1. Head(raw) \in Messages /\ raw' \in Seq(Messages) /\ Len(raw') <= RawCapacity
    BY <1>3, TailTyped, SizeAssumption DEF TakeMessage, TypeOK
  <2>2. OrFresh(states[SenderOf[Head(raw)]]) \in States
    BY <2>1, OrFreshTyped, SenderAssumption DEF TypeOK
  <2>3. states' \in [Users -> States \cup {None}]
    BY <1>3, <2>2 DEF TakeMessage, TypeOK
  <2>4. seen' \subseteq Messages /\ evicted' \in BOOLEAN /\ step' \in Steps
        /\ current' \in Messages \cup {None}
    BY <1>3, <2>1 DEF TakeMessage, TypeOK
  <2> QED
    BY <1>3, <2>1, <2>3, <2>4 DEF TakeMessage, TypeOK
<1>4. CASE TakeReply
  <2>1. Head(routed) \in Users /\ routed' \in Seq(Users) /\ Len(routed') <= RoutedCapacity
    BY <1>4, TailTyped, SizeAssumption DEF TakeReply, TypeOK
  <2>2. OrFresh(states[Head(routed)]) \in States
    BY <2>1, OrFreshTyped DEF TypeOK
  <2>3. OnReply(OrFresh(states[Head(routed)])) \in States
    BY <2>2, StateTyped
  <2>4. states' \in [Users -> States \cup {None}]
    BY <1>4, <2>3 DEF TakeReply, TypeOK
  <2> QED
    BY <1>4, <2>1, <2>4 DEF TakeReply, TypeOK
<1>5. CASE SendMessage
  <2>1. current \in Messages
    BY <1>5 DEF SendMessage, ShapeInv, Handling
  <2>2. gate' \in Seq(GateEvents) /\ Len(gate') <= GateCapacity
    BY <1>5, <2>1, SendTyped, EventsTyped DEF SendMessage
  <2>3. forwards' \in [Messages -> Nat]
    BY <1>5, <2>1 DEF SendMessage, TypeOK
  <2> QED
    BY <1>5, <2>2, <2>3 DEF SendMessage, TypeOK
<1>6. CASE SendState
  <2>1. current \in Messages /\ SenderOf[current] \in Users
    BY <1>6, SenderAssumption DEF SendState, ShapeInv, Handling
  <2>2. gate' \in Seq(GateEvents) /\ Len(gate') <= GateCapacity
    BY <1>6, <2>1, SendTyped, EventsTyped DEF SendState
  <2>3. Append(buffer, current) \in Seq(Messages) /\ Len(Append(buffer, current)) \in Nat
    BY <2>1, AppendTyped DEF TypeOK
  <2>4. /\ buffer' \in Seq(Messages) /\ Len(buffer') < BatchSize
        /\ batch' \in Seq(Messages)
        /\ step' \in Steps /\ after' \in {"loop", "detect", "stopped"}
    <3>1. CASE Len(Append(buffer, current)) >= BatchSize
      <4>1. Flush(Append(buffer, current), "detect")
        BY <1>6, <3>1 DEF SendState
      <4> QED
        BY <4>1, <1>0, <2>3 DEF Flush
    <3>2. CASE ~(Len(Append(buffer, current)) >= BatchSize)
      <4>1. buffer' = Append(buffer, current) /\ step' = "detect" /\ UNCHANGED <<after, batch>>
        BY <1>6, <3>2 DEF SendState
      <4>2. Len(buffer') < BatchSize
        BY <4>1, <2>3, <3>2, SizeAssumption
      <4> QED
        BY <4>1, <4>2, <2>3 DEF TypeOK
    <3> QED
      BY <3>1, <3>2
  <2> QED
    BY <1>6, <2>2, <2>4 DEF SendState, TypeOK
<1>7. CASE NoBurst
  BY <1>7 DEF NoBurst, TypeOK
<1>8. CASE Burst
  BY <1>8 DEF Burst, TypeOK
<1>9. CASE SendBurst
  <2>1. current \in Messages
    BY <1>9 DEF SendBurst, ShapeInv, Handling
  <2>2. gate' \in Seq(GateEvents) /\ Len(gate') <= GateCapacity
    BY <1>9, <2>1, SendTyped, EventsTyped DEF SendBurst
  <2> QED
    BY <1>9, <2>2 DEF SendBurst, TypeOK
<1>10. CASE AppendBatch
  <2>1. rows' \subseteq Messages
    BY <1>10, ElementsTyped DEF AppendBatch, TypeOK
  <2> QED
    BY <1>10, <1>0, <2>1 DEF AppendBatch, TypeOK
<1>11. CASE MarkProcessed
  BY <1>11 DEF MarkProcessed, TypeOK
<1>12. CASE SaveStates
  <2>1. snapshots' \in [Users -> States \cup {None}]
    BY <1>12 DEF SaveStates, TypeOK
  <2> QED
    BY <1>12, <2>1 DEF SaveStates, TypeOK
<1>13. CASE FlushFails
  <2>1. states' \in [Users -> States \cup {None}]
    BY <1>13 DEF FlushFails
  <2>2. /\ raw' \in Seq(Messages) /\ Len(raw') <= RawCapacity
        /\ routed' \in Seq(Users) /\ Len(routed') <= RoutedCapacity
    BY <1>13, EmptyTyped, SizeAssumption DEF FlushFails
  <2> QED
    BY <1>13, <1>0, <2>1, <2>2 DEF FlushFails, TypeOK
<1> QED
  BY <1>1, <1>2, <1>3, <1>4, <1>5, <1>6, <1>7, <1>8, <1>9, <1>10, <1>11, <1>12, <1>13
  DEF Loop, Handle, WriteBatch

LEMMA StepTyped == TypeOK /\ ShapeInv /\ [Next]_vars => TypeOK'
<1> SUFFICES ASSUME TypeOK, ShapeInv, [Next]_vars PROVE TypeOK'
  OBVIOUS
<1> USE DEF channels, loopVars, tables, history, Steps
<1>1. ASSUME NEW m \in Messages, Deliver(m) PROVE TypeOK'
  <2>1. raw' \in Seq(Messages) /\ Len(raw') <= RawCapacity
    BY <1>1, AppendTyped, SizeAssumption DEF Deliver, TypeOK
  <2>2. deliveries' \in [Messages -> Nat]
    BY <1>1 DEF Deliver, TypeOK
  <2>3. UNCHANGED <<routed, gate, loopVars, tables, forwards, evicted, credits, decided>>
    BY <1>1 DEF Deliver
  <2> QED
    BY <2>1, <2>2, <2>3, SMTT(20) DEF TypeOK
<1>2. CASE GateTakes
  <2>1. gate' \in Seq(GateEvents) /\ Len(gate') <= GateCapacity
    BY <1>2, TailTyped, SizeAssumption DEF GateTakes, TypeOK
  <2> QED
    BY <1>2, <2>1 DEF GateTakes, TypeOK
<1>3. ASSUME NEW u \in Users, RouterCredits(u) PROVE TypeOK'
  <2>1. routed' \in Seq(Users) /\ Len(routed') <= RoutedCapacity
    BY <1>3, AppendTyped, SizeAssumption DEF RouterCredits, TypeOK
  <2>2. credits' \in [Users -> Nat]
    BY <1>3 DEF RouterCredits, TypeOK
  <2>3. UNCHANGED <<raw, gate, loopVars, tables, deliveries, forwards, evicted, decided>>
    BY <1>3 DEF RouterCredits
  <2> QED
    BY <2>1, <2>2, <2>3 DEF TypeOK
<1>4. ASSUME NEW u \in Users, DeltaReads(u) PROVE TypeOK'
  <2>1. OrFresh(snapshots[u]) \in States
    BY OrFreshTyped DEF TypeOK
  <2>2. delta' \in [user : Users, state : States]
    BY <1>4, <2>1 DEF DeltaReads
  <2> QED
    BY <1>4, <2>2 DEF DeltaReads, TypeOK
<1>5. CASE DeltaWrites
  <2>1. delta.user \in Users /\ delta.state \in States
    BY <1>5 DEF DeltaWrites, TypeOK
  <2>2. Changed(delta.state) \in States
    BY <2>1, StateTyped
  <2>3. snapshots' \in [Users -> States \cup {None}]
    BY <1>5, <2>1, <2>2 DEF DeltaWrites, TypeOK
  <2>4. decided' \in [Users -> Nat]
    BY <1>5, <2>1 DEF DeltaWrites, TypeOK
  <2> QED
    BY <1>5, <2>3, <2>4 DEF DeltaWrites, TypeOK
<1>6. CASE DeltaFails
  BY <1>6 DEF DeltaFails, TypeOK
<1>7. CASE IntervalElapses
  BY <1>7 DEF IntervalElapses, TypeOK
<1>8. CASE SignalShutdown
  BY <1>8 DEF SignalShutdown, TypeOK
<1>9. CASE Crash
  <2>1. states' \in [Users -> States \cup {None}] /\ forwards' \in [Messages -> Nat]
    BY <1>9 DEF Crash
  <2>2. /\ raw' \in Seq(Messages) /\ Len(raw') <= RawCapacity
        /\ routed' \in Seq(Users) /\ Len(routed') <= RoutedCapacity
        /\ gate' \in Seq(GateEvents) /\ Len(gate') <= GateCapacity
        /\ buffer' \in Seq(Messages) /\ Len(buffer') < BatchSize /\ batch' \in Seq(Messages)
    BY <1>9, EmptyTyped, SizeAssumption DEF Crash
  <2> QED
    BY <1>9, <2>1, <2>2 DEF Crash, TypeOK
<1>10. CASE Restart \/ RestartFails
  BY <1>10 DEF Restart, RestartFails, TypeOK, Steps
<1>11. CASE UNCHANGED vars
  BY <1>11 DEF vars, TypeOK
<1> QED
  BY LoopTyped, <1>1, <1>2, <1>3, <1>4, <1>5, <1>6, <1>7, <1>8, <1>9, <1>10, <1>11 DEF Next

-----------------------------------------------------------------------------
(* What the loop holds at each await *)

(* The steps of the others, which leave what the loop holds alone. *)
Beside ==
  \/ \E m \in Messages : Deliver(m)
  \/ \E u \in Users : RouterCredits(u) \/ DeltaReads(u)
  \/ GateTakes \/ DeltaWrites \/ DeltaFails
  \/ IntervalElapses \/ SignalShutdown

LEMMA BesideStep ==
  Beside \/ UNCHANGED vars =>
    UNCHANGED <<step, after, current, seen, buffer, batch, states, rows, forwards, evicted>>
<1> SUFFICES ASSUME Beside \/ UNCHANGED vars
             PROVE  UNCHANGED <<step, after, current, seen, buffer, batch, states, rows, forwards,
                                evicted>>
  OBVIOUS
<1>1. UNCHANGED <<step, after, current, seen, buffer, batch, states>>
  BY DEF Beside, Deliver, RouterCredits, DeltaReads, GateTakes, DeltaWrites, DeltaFails,
         IntervalElapses, SignalShutdown, loopVars, vars
<1>2. UNCHANGED <<rows, forwards, evicted>>
  BY DEF Beside, Deliver, RouterCredits, DeltaReads, GateTakes, DeltaWrites, DeltaFails,
         IntervalElapses, SignalShutdown, tables, history, vars
<1> QED
  BY <1>1, <1>2

(* Every step is one of the loop's, one of the others', a crash, a restart *)
(* that works or fails, or a stutter.                                      *)
LEMMA StepCases ==
  [Next]_vars => Loop \/ Beside \/ Crash \/ Restart \/ RestartFails \/ UNCHANGED vars
  BY DEF Next, Beside

LEMMA ShapeStep == TypeOK /\ ShapeInv /\ [Next]_vars => ShapeInv'
<1> SUFFICES ASSUME TypeOK, ShapeInv, [Next]_vars PROVE ShapeInv'
  OBVIOUS
<1> USE DEF ShapeInv, Handling, Flushing
<1>1. CASE StopLoop
  BY <1>1 DEF StopLoop, Flush, history
<1>2. CASE FlushTick
  BY <1>2 DEF FlushTick, Flush, history
<1>3. CASE TakeMessage
  <2>1. Head(raw) \in Messages
    BY <1>3 DEF TakeMessage, TypeOK
  <2> QED
    BY <1>3, <2>1 DEF TakeMessage
<1>4. CASE TakeReply
  BY <1>4 DEF TakeReply
<1>5. CASE SendMessage
  BY <1>5 DEF SendMessage
<1>6. CASE SendState
  BY <1>6 DEF SendState, Flush
<1>7. CASE NoBurst
  BY <1>7 DEF NoBurst
<1>8. CASE Burst
  BY <1>8 DEF Burst
<1>9. CASE SendBurst
  BY <1>9 DEF SendBurst
<1>10. CASE AppendBatch
  BY <1>10 DEF AppendBatch
<1>11. CASE MarkProcessed
  BY <1>11 DEF MarkProcessed
<1>12. CASE SaveStates
  BY <1>12 DEF SaveStates, TypeOK
<1>13. CASE FlushFails
  BY <1>13 DEF FlushFails
<1>14. CASE Crash
  BY <1>14 DEF Crash
<1>15. CASE Restart \/ RestartFails
  BY <1>15 DEF Restart, RestartFails
<1>16. CASE Beside \/ UNCHANGED vars
  BY <1>16, BesideStep
<1> QED
  BY StepCases, <1>1, <1>2, <1>3, <1>4, <1>5, <1>6, <1>7, <1>8, <1>9, <1>10, <1>11, <1>12, <1>13,
     <1>14, <1>15, <1>16 DEF Loop, Handle, WriteBatch

-----------------------------------------------------------------------------
(* What the gate was sent is kept *)

Held == rows \cup Elements(buffer) \cup Elements(batch) \cup InHand

LEMMA FlushHolds ==
  ASSUME NEW messages, NEW next, Flush(messages, next)
  PROVE  Elements(buffer') = {} /\ Elements(batch') = Elements(messages)
  BY ElementsOfEmpty DEF Flush

LEMMA KeptStep == TypeOK /\ ShapeInv /\ ForwardedIsKept /\ [Next]_vars => ForwardedIsKept'
<1> SUFFICES ASSUME TypeOK, ShapeInv, ForwardedIsKept, [Next]_vars, step' # "failed",
                    NEW m \in Messages, forwards'[m] > 0
             PROVE  m \in Held'
  BY DEF ForwardedIsKept, Held
<1> DEFINE Before == step # "failed" /\ forwards[m] > 0
<1>0. Before => m \in Held
  BY DEF ForwardedIsKept, Held
<1>1. ASSUME Flush(buffer, after'), step = "loop", UNCHANGED <<rows, forwards>> PROVE m \in Held'
  <2>1. Elements(batch) = {} /\ InHand = {}
    BY <1>1, ElementsOfEmpty DEF ShapeInv, InHand
  <2>2. Elements(batch') = Elements(buffer)
    BY <1>1, FlushHolds
  <2> QED
    BY <1>0, <1>1, <2>1, <2>2 DEF Held
<1>2. CASE StopLoop \/ FlushTick
  BY <1>1, <1>2 DEF StopLoop, FlushTick, Flush, tables, history
<1>3. ASSUME UNCHANGED <<rows, buffer, batch, forwards>>, step # "failed", InHand = {}
      PROVE  m \in Held'
  BY <1>0, <1>3 DEF Held
<1>4. CASE TakeMessage \/ TakeReply \/ NoBurst \/ Burst \/ SendBurst \/ MarkProcessed \/ SaveStates
  <2>1. InHand = {} /\ step # "failed"
    BY <1>4 DEF InHand, TakeMessage, TakeReply, NoBurst, Burst, SendBurst, MarkProcessed, SaveStates
  <2>2. UNCHANGED <<rows, buffer, batch, forwards>>
    BY <1>4 DEF TakeMessage, TakeReply, NoBurst, Burst, SendBurst, MarkProcessed, SaveStates,
                tables, history
  <2> QED
    BY <1>3, <2>1, <2>2
<1>5. CASE SendMessage
  <2>1. UNCHANGED <<rows, buffer, batch>> /\ InHand = {} /\ InHand' = {current}
    BY <1>5 DEF SendMessage, tables, InHand
  <2>2. CASE m = current
    BY <2>1, <2>2 DEF Held
  <2>3. CASE m # current
    <3>1. Before
      BY <1>5, <2>3 DEF SendMessage, TypeOK
    <3> QED
      BY <1>0, <2>1, <3>1 DEF Held
  <2> QED
    BY <2>2, <2>3
<1>6. CASE SendState
  <2>1. current \in Messages /\ Elements(batch) = {} /\ InHand = {current}
    BY <1>6, ElementsOfEmpty DEF SendState, ShapeInv, Handling, InHand
  <2>2. Elements(Append(buffer, current)) = Elements(buffer) \cup {current}
    BY <2>1, ElementsAppend DEF TypeOK
  <2>3. Before /\ UNCHANGED rows
    BY <1>6 DEF SendState, tables, history
  <2>4. \/ Flush(Append(buffer, current), "detect")
        \/ buffer' = Append(buffer, current)
    BY <1>6 DEF SendState
  <2>5. Elements(Append(buffer, current)) \subseteq Elements(buffer') \cup Elements(batch')
    BY <2>4, FlushHolds
  <2> QED
    BY <1>0, <2>1, <2>2, <2>3, <2>5 DEF Held
<1>7. CASE AppendBatch
  <2>1. InHand = {} /\ Before /\ rows' = rows \cup Elements(batch) /\ UNCHANGED buffer
    BY <1>7 DEF AppendBatch, InHand, history
  <2> QED
    BY <1>0, <2>1 DEF Held
<1>8. CASE FlushFails
  BY <1>8 DEF FlushFails
<1>9. CASE Crash
  BY <1>9 DEF Crash
<1>10. CASE Restart \/ RestartFails
  BY <1>10 DEF Restart, RestartFails, ShapeInv, history
<1>11. CASE Beside \/ UNCHANGED vars
  BY <1>0, <1>11, BesideStep DEF Held, InHand
<1> QED
  BY StepCases, <1>2, <1>4, <1>5, <1>6, <1>7, <1>8, <1>9, <1>10, <1>11
  DEF Loop, Handle, WriteBatch

-----------------------------------------------------------------------------
(* Duplicates *)

LEMMA SeenStep == TypeOK /\ SeenInv /\ [Next]_vars => SeenInv'
<1> SUFFICES ASSUME TypeOK, SeenInv, [Next]_vars, ~evicted'
             PROVE  /\ \A m \in Messages : forwards'[m] <= IF m \in seen' THEN 1 ELSE 0
                    /\ step' = "send_message" => current' \in seen' /\ forwards'[current'] = 0
  BY DEF SeenInv
<1> USE DEF SeenInv, history
<1>1. CASE TakeMessage
  <2>1. Head(raw) \in Messages
    BY <1>1 DEF TakeMessage, TypeOK
  <2>2. ~evicted /\ UNCHANGED forwards /\ seen' = seen \cup {Head(raw)}
    BY <1>1 DEF TakeMessage
  <2>3. step' = "send_message" => current' = Head(raw) /\ Head(raw) \notin seen
    BY <1>1 DEF TakeMessage
  <2>4. \A m \in Messages : forwards[m] \in Nat
    BY DEF TypeOK
  <2> QED
    BY <2>1, <2>2, <2>3, <2>4
<1>2. CASE SendMessage
  <2>1. ~evicted /\ UNCHANGED seen /\ step' = "send_state"
    BY <1>2 DEF SendMessage
  <2>2. \A m \in Messages : forwards'[m] = IF m = current THEN forwards[m] + 1 ELSE forwards[m]
    BY <1>2 DEF SendMessage, TypeOK
  <2>3. current \in seen /\ forwards[current] = 0
    BY <1>2, <2>1 DEF SendMessage
  <2> QED
    BY <2>1, <2>2, <2>3
<1>3. CASE Crash
  BY <1>3 DEF Crash
<1>4. CASE Restart \/ RestartFails
  BY <1>4 DEF Restart, RestartFails
<1>5. CASE Beside \/ UNCHANGED vars
  BY <1>5, BesideStep
<1>6. CASE \/ StopLoop \/ FlushTick \/ TakeReply \/ SendState \/ NoBurst \/ Burst \/ SendBurst
           \/ WriteBatch
  <2>1. UNCHANGED <<seen, forwards, evicted>>
    BY <1>6 DEF StopLoop, FlushTick, TakeReply, SendState, NoBurst, Burst, SendBurst, WriteBatch,
                AppendBatch, MarkProcessed, SaveStates, FlushFails
  <2>2. step' # "send_message"
    BY <1>6 DEF StopLoop, FlushTick, TakeReply, SendState, NoBurst, Burst, SendBurst, WriteBatch,
                AppendBatch, MarkProcessed, SaveStates, FlushFails, Flush, TypeOK
  <2> QED
    BY <2>1, <2>2
<1> QED
  BY StepCases, <1>1, <1>2, <1>3, <1>4, <1>5, <1>6 DEF Loop, Handle

-----------------------------------------------------------------------------
(* Affective states *)

LEMMA OrFreshAgain == ASSUME NEW s PROVE OrFresh(OrFresh(s)) = OrFresh(s)
<1>1. Fresh # None
  BY FreshTyped, NoneAssumption
<1> QED
  BY <1>1 DEF OrFresh

LEMMA RepliesTyped ==
  ASSUME TypeOK, NEW u \in Users
  PROVE  OrFresh(snapshots[u]).replies \in Nat /\ OrFresh(states[u]).replies \in Nat
  BY OrFreshTyped, StateTyped DEF TypeOK

LEMMA RepliesStep == TypeOK /\ RepliesInv /\ [Next]_vars => RepliesInv'
<1> SUFFICES ASSUME TypeOK, RepliesInv, [Next]_vars PROVE RepliesInv'
  OBVIOUS
<1> USE DEF RepliesInv, Running
<1>1. ASSUME UNCHANGED <<snapshots, delta>>, Running' => Running,
             \A u \in Users : OrFresh(states'[u]) = OrFresh(states[u])
      PROVE  RepliesInv'
  BY <1>1
<1>2. CASE TakeMessage
  <2>1. Head(raw) \in Messages
    BY <1>2 DEF TakeMessage, TypeOK
  <2>2. \A u \in Users : states'[u] \in {states[u], OrFresh(states[u])}
    BY <1>2, <2>1, SenderAssumption DEF TakeMessage, TypeOK
  <2>3. \A u \in Users : OrFresh(states'[u]) = OrFresh(states[u])
    BY <2>2, OrFreshAgain
  <2>4. UNCHANGED <<snapshots, delta>> /\ Running
    BY <1>2 DEF TakeMessage, tables
  <2> QED
    BY <1>1, <2>3, <2>4
<1>3. CASE TakeReply
  <2>1. Head(routed) \in Users
    BY <1>3 DEF TakeReply, TypeOK
  <2>2. UNCHANGED <<snapshots, delta>> /\ Running
    BY <1>3 DEF TakeReply, tables
  <2>3. \A u \in Users :
          states'[u] = IF u = Head(routed) THEN OnReply(OrFresh(states[u])) ELSE states[u]
    BY <1>3 DEF TakeReply, TypeOK
  <2>4. \A u \in Users : OrFresh(states'[u]).replies >= OrFresh(states[u]).replies
    <3> SUFFICES ASSUME NEW u \in Users
                 PROVE  OrFresh(states'[u]).replies >= OrFresh(states[u]).replies
      OBVIOUS
    <3>1. OrFresh(states[u]) \in States
      BY OrFreshTyped DEF TypeOK
    <3>2. /\ OnReply(OrFresh(states[u])) # None
          /\ OnReply(OrFresh(states[u])).replies = OrFresh(states[u]).replies + 1
      BY <3>1, StateTyped, NoneAssumption
    <3>3. OrFresh(OnReply(OrFresh(states[u]))) = OnReply(OrFresh(states[u]))
      BY <3>2 DEF OrFresh
    <3> QED
      BY <2>3, <3>2, <3>3, RepliesTyped
  <2>5. \A u \in Users : OrFresh(states'[u]).replies \in Nat
    BY RepliesTyped, <1>3, <2>1, <2>3, StateTyped, OrFreshTyped, OrFreshAgain DEF TypeOK, OrFresh
  <2> QED
    BY <2>2, <2>4, <2>5, RepliesTyped
<1>4. CASE SaveStates
  <2>1. \A u \in Users :
          OrFresh(snapshots'[u]) = IF states[u] = None THEN OrFresh(snapshots[u]) ELSE OrFresh(states[u])
    BY <1>4 DEF SaveStates, TypeOK
  <2>2. UNCHANGED <<states, delta>> /\ Running
    BY <1>4 DEF SaveStates
  <2>3. \A u \in Users : /\ OrFresh(snapshots[u]).replies <= OrFresh(snapshots'[u]).replies
                         /\ OrFresh(snapshots'[u]).replies <= OrFresh(states[u]).replies
    BY <2>1, <2>2, RepliesTyped
  <2>4. delta # None => delta.user \in Users /\ delta.state.replies \in Nat
    BY StateTyped DEF TypeOK
  <2> QED
    BY <2>1, <2>2, <2>3, <2>4, RepliesTyped
<1>5. CASE FlushFails
  BY <1>5 DEF FlushFails, tables
<1>6. CASE StopLoop \/ FlushTick \/ Handle \/ AppendBatch \/ MarkProcessed
  <2>1. UNCHANGED <<snapshots, delta, states>>
    BY <1>6 DEF StopLoop, FlushTick, Handle, SendMessage, SendState, NoBurst, Burst, SendBurst,
                AppendBatch, MarkProcessed, tables
  <2>2. Running
    BY <1>6 DEF StopLoop, FlushTick, Handle, SendMessage, SendState, NoBurst, Burst, SendBurst,
                AppendBatch, MarkProcessed
  <2> QED
    BY <1>1, <2>1, <2>2
<1>7. ASSUME NEW u \in Users, DeltaReads(u) PROVE RepliesInv'
  <2>1. delta'.user = u /\ delta'.state = OrFresh(snapshots[u])
    BY <1>7 DEF DeltaReads
  <2>2. UNCHANGED <<snapshots, states, step>>
    BY <1>7 DEF DeltaReads, loopVars
  <2> QED
    BY <2>1, <2>2, RepliesTyped
<1>8. CASE DeltaWrites
  <2>1. delta.user \in Users /\ delta.state \in States /\ delta # None
    BY <1>8 DEF DeltaWrites, TypeOK
  <2>2. UNCHANGED <<states, step>> /\ delta' = None
    BY <1>8 DEF DeltaWrites, loopVars
  <2>3. \A u \in Users :
          snapshots'[u] = IF u = delta.user THEN Changed(delta.state) ELSE snapshots[u]
    BY <1>8 DEF DeltaWrites, TypeOK
  <2>4. /\ OrFresh(Changed(delta.state)) = Changed(delta.state)
        /\ Changed(delta.state).replies = delta.state.replies
        /\ delta.state.replies \in Nat
    BY <2>1, StateTyped, NoneAssumption DEF OrFresh
  <2>5. \A u \in Users : OrFresh(snapshots'[u]).replies <= OrFresh(snapshots[u]).replies
    BY <2>1, <2>3, <2>4, RepliesTyped
  <2>6. \A u \in Users : OrFresh(snapshots'[u]).replies \in Nat
    BY <2>1, <2>3, <2>4, RepliesTyped
  <2> QED
    BY <2>2, <2>5, <2>6, RepliesTyped
<1>9. CASE \/ \E m \in Messages : Deliver(m)
           \/ \E u \in Users : RouterCredits(u)
           \/ GateTakes \/ DeltaFails \/ IntervalElapses \/ SignalShutdown \/ UNCHANGED vars
  <2>1. UNCHANGED <<step, states, snapshots>> /\ (delta' = delta \/ delta' = None)
    BY <1>9 DEF Deliver, RouterCredits, GateTakes, DeltaFails, IntervalElapses, SignalShutdown,
                loopVars, tables, vars
  <2> QED
    BY <2>1
<1>10. CASE Crash
  BY <1>10 DEF Crash
<1>11. CASE Restart \/ RestartFails
  BY <1>11, RepliesTyped DEF Restart, RestartFails, tables
<1> QED
  BY <1>2, <1>3, <1>4, <1>5, <1>6, <1>7, <1>8, <1>9, <1>10, <1>11 DEF Next, Loop, WriteBatch

-----------------------------------------------------------------------------
(* Replies sent and replies counted *)

Places(s, x) == {i \in 1 .. Len(s) : s[i] = x}
Count(s, x)  == Cardinality(Places(s, x))

(* A reply is counted in the states or still queued, and neither the       *)
(* stored state nor the one a memory decision has read counts more.        *)
CreditInv ==
  /\ step = "down" => routed = <<>>
  /\ \A u \in Users : OrFresh(snapshots[u]).replies <= credits[u]
  /\ \A u \in Users : OrFresh(states[u]).replies + Count(routed, u) <= credits[u]
  /\ delta # None => delta.state.replies <= credits[delta.user]

LEMMA PlacesFinite ==
  ASSUME NEW S, NEW s \in Seq(S), NEW x
  PROVE  IsFiniteSet(Places(s, x)) /\ Count(s, x) \in Nat
<1>1. IsFiniteSet(1 .. Len(s))
  <2>1. Len(s) \in Nat
    OBVIOUS
  <2> QED
    BY <2>1, FS_Interval
<1>2. Places(s, x) \subseteq 1 .. Len(s)
  BY DEF Places
<1>3. IsFiniteSet(Places(s, x))
  BY <1>1, <1>2, FS_Subset
<1> QED
  BY <1>3, FS_CardinalityType DEF Count

LEMMA CountEmpty == \A x : Count(<<>>, x) = 0
<1>1. \A x : Places(<<>>, x) = {}
  BY DEF Places
<1> QED
  BY <1>1, FS_EmptySet DEF Count

LEMMA CountAppend ==
  ASSUME NEW S, NEW s \in Seq(S), NEW y \in S, NEW x
  PROVE  Count(Append(s, y), x) = IF x = y THEN Count(s, x) + 1 ELSE Count(s, x)
<1> DEFINE t == Append(s, y)
<1>1. PICK n \in Nat : n = Len(s)
  OBVIOUS
<1>2. Len(t) = n + 1 /\ t[n + 1] = y /\ \A i \in 1 .. n : t[i] = s[i]
  BY <1>1
<1> HIDE DEF t
<1>3. 1 .. n + 1 = (1 .. n) \cup {n + 1} /\ n + 1 \notin 1 .. n
  OBVIOUS
<1>4. Places(t, x) = IF x = y THEN Places(s, x) \cup {n + 1} ELSE Places(s, x)
  BY <1>1, <1>2, <1>3 DEF Places
<1>5. n + 1 \notin Places(s, x)
  BY <1>1, <1>3 DEF Places
<1>6. Cardinality(Places(s, x) \cup {n + 1}) = Cardinality(Places(s, x)) + 1
  BY <1>5, PlacesFinite, FS_AddElement
<1> QED
  BY <1>4, <1>6 DEF Count, t

LEMMA CountTail ==
  ASSUME NEW S, NEW s \in Seq(S), s # <<>>, NEW x
  PROVE  Count(Tail(s), x) <= IF x = Head(s) THEN Count(s, x) - 1 ELSE Count(s, x)
<1> DEFINE t == Tail(s)
           rest == Places(s, x) \ {1}
           next == [i \in Places(t, x) |-> i + 1]
<1>1. PICK n \in Nat : n = Len(t)
  <2>1. Tail(s) \in Seq(S)
    BY TailTyped
  <2> QED
    BY <2>1
<1>2. Len(s) = n + 1 /\ s[1] = Head(s) /\ \A i \in 1 .. n : t[i] = s[i + 1]
  BY <1>1
<1>3. t \in Seq(S)
  BY TailTyped
<1> HIDE DEF t
<1>4. next \in [Places(t, x) -> rest]
  <2> SUFFICES ASSUME NEW i \in Places(t, x) PROVE i + 1 \in rest
    OBVIOUS
  <2>1. i \in 1 .. n /\ t[i] = x
    BY <1>1 DEF Places
  <2>2. i + 1 \in 1 .. n + 1 /\ i + 1 # 1 /\ s[i + 1] = x
    BY <1>2, <2>1
  <2> QED
    BY <1>2, <2>2 DEF Places
<1>5. next \in Injection(Places(t, x), rest)
  <2>1. \A i, j \in Places(t, x) : next[i] = next[j] => i = j
    BY DEF Places
  <2> QED
    BY <1>4, <2>1 DEF Injection, IsInjective
<1>6. IsFiniteSet(Places(s, x)) /\ IsFiniteSet(rest) /\ Cardinality(Places(s, x)) \in Nat
  BY PlacesFinite, FS_RemoveElement DEF Count
<1>7. Cardinality(Places(t, x)) <= Cardinality(rest)
  BY <1>5, <1>6, FS_Injection
<1>8. Cardinality(rest) = IF 1 \in Places(s, x) THEN Cardinality(Places(s, x)) - 1
                          ELSE Cardinality(Places(s, x))
  BY <1>6, FS_RemoveElement
<1>9. 1 \in Places(s, x) <=> x = Head(s)
  <2>1. 1 \in 1 .. n + 1
    OBVIOUS
  <2> QED
    BY <1>2, <2>1 DEF Places
<1>10. Count(t, x) <= IF x = Head(s) THEN Count(s, x) - 1 ELSE Count(s, x)
  BY <1>7, <1>8, <1>9 DEF Count
<1> QED
  BY <1>10 DEF t

LEMMA CreditTypes ==
  ASSUME TypeOK, NEW u \in Users
  PROVE  /\ OrFresh(snapshots[u]).replies \in Nat /\ OrFresh(states[u]).replies \in Nat
         /\ credits[u] \in Nat /\ Count(routed, u) \in Nat
         /\ delta # None => delta.user \in Users /\ delta.state \in States
<1>1. credits[u] \in Nat /\ (delta # None => delta.user \in Users /\ delta.state \in States)
  BY DEF TypeOK
<1>2. Count(routed, u) \in Nat
  BY PlacesFinite DEF TypeOK
<1> QED
  BY <1>1, <1>2, RepliesTyped

LEMMA CreditStep == TypeOK /\ CreditInv /\ [Next]_vars => CreditInv'
<1> SUFFICES ASSUME TypeOK, CreditInv, [Next]_vars PROVE CreditInv'
  OBVIOUS
<1> USE DEF CreditInv
<1>1. CASE UNCHANGED <<routed, snapshots, credits>> /\ (delta' = delta \/ delta' = None)
           /\ (step' = "down" => step = "down")
           /\ \A u \in Users : OrFresh(states'[u]) = OrFresh(states[u])
  BY <1>1
<1>2. CASE TakeMessage
  <2>1. Head(raw) \in Messages
    BY <1>2 DEF TakeMessage, TypeOK
  <2>2. \A u \in Users : states'[u] \in {states[u], OrFresh(states[u])}
    BY <1>2, <2>1, SenderAssumption DEF TakeMessage, TypeOK
  <2>3. \A u \in Users : OrFresh(states'[u]) = OrFresh(states[u])
    BY <2>2, OrFreshAgain
  <2>4. UNCHANGED <<routed, snapshots, credits, delta>> /\ step' # "down"
    BY <1>2 DEF TakeMessage, tables
  <2> QED
    BY <1>1, <2>3, <2>4
<1>3. CASE TakeReply
  <2>1. routed \in Seq(Users) /\ routed # <<>> /\ routed' = Tail(routed) /\ Head(routed) \in Users
    BY <1>3 DEF TakeReply, TypeOK
  <2>2. UNCHANGED <<snapshots, credits, delta, step>> /\ step # "down"
    BY <1>3 DEF TakeReply, tables, history
  <2>3. \A u \in Users :
          states'[u] = IF u = Head(routed) THEN OnReply(OrFresh(states[u])) ELSE states[u]
    BY <1>3 DEF TakeReply, TypeOK
  <2>4. ASSUME NEW u \in Users
        PROVE  OrFresh(states'[u]).replies
                 = IF u = Head(routed) THEN OrFresh(states[u]).replies + 1
                   ELSE OrFresh(states[u]).replies
    <3>1. OrFresh(states[u]) \in States
      BY OrFreshTyped DEF TypeOK
    <3>2. /\ OnReply(OrFresh(states[u])) # None
          /\ OnReply(OrFresh(states[u])).replies = OrFresh(states[u]).replies + 1
      BY <3>1, StateTyped, NoneAssumption
    <3>3. OrFresh(OnReply(OrFresh(states[u]))) = OnReply(OrFresh(states[u]))
      BY <3>2 DEF OrFresh
    <3> QED
      BY <2>3, <3>2, <3>3
  <2>5. ASSUME NEW u \in Users
        PROVE  OrFresh(states'[u]).replies + Count(routed', u) <= credits[u]
    <3>1. Count(routed', u) <= IF u = Head(routed) THEN Count(routed, u) - 1 ELSE Count(routed, u)
      BY <2>1, CountTail
    <3>2. Count(routed', u) \in Nat
      <4>1. routed' \in Seq(Users)
        BY <2>1, TailTyped
      <4> QED
        BY <4>1, PlacesFinite
    <3>3. OrFresh(states[u]).replies + Count(routed, u) <= credits[u]
      OBVIOUS
    <3> QED
      BY <2>4, <3>1, <3>2, <3>3, CreditTypes
  <2> QED
    BY <2>2, <2>5
<1>4. CASE SaveStates
  <2>1. \A u \in Users :
          OrFresh(snapshots'[u]) = IF states[u] = None THEN OrFresh(snapshots[u]) ELSE OrFresh(states[u])
    BY <1>4 DEF SaveStates, TypeOK
  <2>2. UNCHANGED <<routed, states, credits, delta>>
    BY <1>4 DEF SaveStates, channels, history
  <2>3. step' # "down"
    BY <1>4 DEF SaveStates, TypeOK
  <2>4. \A u \in Users : OrFresh(snapshots'[u]).replies <= credits[u]
    BY <2>1, CreditTypes
  <2> QED
    BY <2>2, <2>3, <2>4
<1>5. ASSUME routed' = <<>>, UNCHANGED <<snapshots, credits>>, delta' = delta \/ delta' = None,
             \A u \in Users : states'[u] = None
      PROVE  CreditInv'
  <2>1. \A u \in Users : OrFresh(states'[u]).replies + Count(routed', u) <= credits'[u]
    <3>1. \A u \in Users : Count(routed', u) = 0 /\ OrFresh(states'[u]).replies = 0
      BY <1>5, CountEmpty, FreshTyped DEF OrFresh
    <3> QED
      BY <1>5, <3>1, CreditTypes
  <2> QED
    BY <1>5, <2>1
<1>6. CASE FlushFails \/ Crash
  BY <1>5, <1>6 DEF FlushFails, Crash, tables, history
<1>7. CASE Restart
  <2>1. routed' = <<>> /\ states' = snapshots /\ UNCHANGED <<snapshots, credits, delta>>
        /\ step' # "down"
    BY <1>7 DEF Restart, channels, tables, history
  <2>2. \A u \in Users : OrFresh(states'[u]).replies + Count(routed', u) <= credits'[u]
    BY <2>1, CountEmpty, CreditTypes
  <2> QED
    BY <2>1, <2>2
<1>8. CASE StopLoop \/ FlushTick \/ Handle \/ AppendBatch \/ MarkProcessed \/ RestartFails
  <2>1. UNCHANGED <<routed, snapshots, delta, states, credits>>
    BY <1>8 DEF StopLoop, FlushTick, Handle, SendMessage, SendState, NoBurst, Burst, SendBurst,
                AppendBatch, MarkProcessed, RestartFails, channels, tables, history
  <2>2. step' # "down"
    BY <1>8 DEF StopLoop, FlushTick, Handle, SendMessage, SendState, NoBurst, Burst, SendBurst,
                AppendBatch, MarkProcessed, RestartFails, Flush
  <2> QED
    BY <1>1, <2>1, <2>2
<1>9. ASSUME NEW u \in Users, RouterCredits(u) PROVE CreditInv'
  <2>1. routed' = Append(routed, u) /\ UNCHANGED <<step, states, snapshots, delta>> /\ step # "down"
    BY <1>9 DEF RouterCredits, Running, loopVars, tables
  <2>2. \A v \in Users : credits'[v] = IF v = u THEN credits[v] + 1 ELSE credits[v]
    BY <1>9 DEF RouterCredits, TypeOK
  <2>3. \A v \in Users : Count(routed', v) = IF v = u THEN Count(routed, v) + 1 ELSE Count(routed, v)
    BY <2>1, CountAppend DEF TypeOK
  <2>4. \A v \in Users : credits[v] <= credits'[v]
    BY <2>2, CreditTypes
  <2>5. \A v \in Users : /\ OrFresh(snapshots'[v]).replies <= credits'[v]
                         /\ OrFresh(states'[v]).replies + Count(routed', v) <= credits'[v]
    BY <2>1, <2>2, <2>3, CreditTypes
  <2>6. delta # None => delta.user \in Users /\ delta.state.replies \in Nat
                        /\ delta.state.replies <= credits'[delta.user]
    <3> SUFFICES ASSUME delta # None
                 PROVE  delta.user \in Users /\ delta.state.replies \in Nat
                        /\ delta.state.replies <= credits'[delta.user]
      OBVIOUS
    <3>1. delta.user \in Users /\ delta.state.replies \in Nat
      BY <1>9, StateTyped, CreditTypes
    <3>2. delta.state.replies <= credits[delta.user] /\ credits[delta.user] <= credits'[delta.user]
      BY <2>4, <3>1
    <3>3. credits[delta.user] \in Nat /\ credits'[delta.user] \in Nat
      BY <2>2, <3>1, CreditTypes
    <3> QED
      BY <3>1, <3>2, <3>3
  <2> QED
    BY <2>1, <2>5, <2>6
<1>10. ASSUME NEW u \in Users, DeltaReads(u) PROVE CreditInv'
  <2>1. delta'.user = u /\ delta'.state = OrFresh(snapshots[u])
    BY <1>10 DEF DeltaReads
  <2>2. UNCHANGED <<routed, snapshots, states, step, credits>>
    BY <1>10 DEF DeltaReads, channels, loopVars, history
  <2> QED
    BY <2>1, <2>2
<1>11. CASE DeltaWrites
  <2>1. delta.user \in Users /\ delta.state \in States /\ delta # None
    BY <1>11 DEF DeltaWrites, TypeOK
  <2>2. UNCHANGED <<routed, states, step, credits>> /\ delta' = None
    BY <1>11 DEF DeltaWrites, channels, loopVars
  <2>3. \A u \in Users :
          snapshots'[u] = IF u = delta.user THEN Changed(delta.state) ELSE snapshots[u]
    BY <1>11 DEF DeltaWrites, TypeOK
  <2>4. OrFresh(Changed(delta.state)).replies = delta.state.replies
    BY <2>1, StateTyped, NoneAssumption DEF OrFresh
  <2>5. \A u \in Users : OrFresh(snapshots'[u]).replies <= credits[u]
    BY <2>1, <2>3, <2>4
  <2> QED
    BY <2>2, <2>5
<1>12. CASE \/ \E m \in Messages : Deliver(m)
            \/ GateTakes \/ DeltaFails \/ IntervalElapses \/ SignalShutdown \/ UNCHANGED vars
  <2>1. UNCHANGED <<routed, step, states, snapshots, credits>> /\ (delta' = delta \/ delta' = None)
    BY <1>12 DEF Deliver, GateTakes, DeltaFails, IntervalElapses, SignalShutdown,
                 channels, loopVars, tables, history, vars
  <2> QED
    BY <1>1, <2>1
<1> QED
  BY <1>2, <1>3, <1>4, <1>6, <1>7, <1>8, <1>9, <1>10, <1>11, <1>12 DEF Next, Loop, WriteBatch

-----------------------------------------------------------------------------
(* The theorems *)

SensoryInv == TypeOK /\ ShapeInv /\ ForwardedIsKept /\ SeenInv /\ RepliesInv /\ CreditInv

LEMMA InitInvariant == Init => SensoryInv
<1> SUFFICES ASSUME Init PROVE SensoryInv
  OBVIOUS
<1>1. TypeOK
  BY InitTyped
<1>2. ShapeInv /\ ForwardedIsKept
  BY DEF Init, ShapeInv, Handling, Flushing, ForwardedIsKept
<1>3. SeenInv
  BY DEF Init, SeenInv
<1>4. RepliesInv
  BY <1>1, RepliesTyped DEF Init, RepliesInv
<1>5. CreditInv
  <2>1. \A u \in Users : /\ OrFresh(snapshots[u]).replies = 0 /\ OrFresh(states[u]).replies = 0
                         /\ credits[u] = 0 /\ Count(routed, u) = 0
    BY CountEmpty, FreshTyped DEF Init, OrFresh
  <2>2. step # "down" /\ delta = None
    BY DEF Init
  <2> QED
    BY <2>1, <2>2 DEF CreditInv
<1> QED
  BY <1>1, <1>2, <1>3, <1>4, <1>5 DEF SensoryInv

(* Sensory's inductive invariant: types, what the loop holds at each await *)
(* of handle_message and flush, the seen set, the order of the states and  *)
(* where each reply is counted.                                            *)
THEOREM SensoryInvariant == Spec => []SensoryInv
<1>1. SensoryInv /\ [Next]_vars => SensoryInv'
  BY StepTyped, ShapeStep, KeptStep, SeenStep, RepliesStep, CreditStep DEF SensoryInv
<1> QED
  BY InitInvariant, <1>1, PTL DEF Spec

(* Channels stay within their capacities and the buffer below batch_size,  *)
(* whatever the sizes of the configuration.                                *)
THEOREM TypeCorrect == Spec => []TypeOK
<1>1. SensoryInv => TypeOK
  BY DEF SensoryInv
<1> QED
  BY SensoryInvariant, <1>1, PTL

(* What handle_message has told the gate about is stored, buffered, in the *)
(* batch of the flush or in hand until a flush fails.                      *)
THEOREM ForwardedKept == Spec => []ForwardedIsKept
<1>1. SensoryInv => ForwardedIsKept
  BY DEF SensoryInv
<1> QED
  BY SensoryInvariant, <1>1, PTL

(* When run() returns after a shutdown, the last flush has stored every    *)
(* message the gate was sent.                                              *)
THEOREM ShutdownFlushes == Spec => []FlushedAtShutdown
<1>1. SensoryInv => FlushedAtShutdown
  BY ElementsOfEmpty DEF SensoryInv, ShapeInv, ForwardedIsKept, FlushedAtShutdown, InHand
<1> QED
  BY SensoryInvariant, <1>1, PTL

(* handle_message sends the gate no message twice before it has cleared    *)
(* the set of seen messages for being full.                                *)
THEOREM DuplicatesNeedEviction == Spec => []DuplicateOnlyAfterEviction
<1>1. SensoryInv => DuplicateOnlyAfterEviction
  <2> SUFFICES ASSUME SensoryInv, ~evicted, NEW m \in Messages PROVE ~(forwards[m] > 1)
    BY DEF DuplicateOnlyAfterEviction
  <2>1. forwards[m] <= IF m \in seen THEN 1 ELSE 0
    BY DEF SensoryInv, SeenInv
  <2>2. forwards[m] \in Nat
    BY DEF SensoryInv, TypeOK
  <2> QED
    BY <2>1, <2>2
<1> QED
  BY SensoryInvariant, <1>1, PTL

(* persist_states never takes a reply back: no stored state counts more    *)
(* replies than the one in memory, whatever apply_affective_delta and the  *)
(* restarts did in between.                                                *)
THEOREM MemoryNotBehind == Spec => []MemoryCountsStoredReplies
<1>1. SensoryInv => MemoryCountsStoredReplies
  BY DEF SensoryInv, RepliesInv, MemoryCountsStoredReplies, OrFresh
<1> QED
  BY SensoryInvariant, <1>1, PTL

(* Neither the states handle_reply changes nor the ones persist_states and *)
(* apply_affective_delta write count a reply the router has not sent,      *)
(* through any crashes, restarts and failed writes.                        *)
THEOREM RepliesCountedOnce == Spec => []RepliesNotOvercounted
<1>1. SensoryInv => RepliesNotOvercounted
  <2> SUFFICES ASSUME SensoryInv, NEW u \in Users
               PROVE  /\ snapshots[u] # None => snapshots[u].replies <= credits[u]
                      /\ states[u] # None => states[u].replies <= credits[u]
    BY DEF RepliesNotOvercounted
  <2>1. /\ OrFresh(snapshots[u]).replies <= credits[u]
        /\ OrFresh(states[u]).replies + Count(routed, u) <= credits[u]
    BY DEF SensoryInv, CreditInv
  <2>2. OrFresh(states[u]).replies <= credits[u]
    BY <2>1, CreditTypes DEF SensoryInv
  <2> QED
    BY <2>1, <2>2 DEF OrFresh
<1> QED
  BY SensoryInvariant, <1>1, PTL
=============================================================================
