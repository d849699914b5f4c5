------------------------ MODULE ReplyDispatchProofs ------------------------
(***************************************************************************)
(* Proofs about the reply cooldown and about the dispatcher's way of a     *)
(* reply out of the system, for any groups, replies, interval, resolution  *)
(* of the table and channel capacities.                                    *)
(*                                                                         *)
(* First the limiter on its own: allow() keeps the interval, it does not   *)
(* keep a group silent for longer, and a saved watermark survives a        *)
(* restart.  Then the dispatcher, which implements the limiter's           *)
(* specification and so keeps all of this, and its effects: recorded,      *)
(* delivered, credited, in this order and at most once.                    *)
(***************************************************************************)
EXTENDS ReplyDispatch, SequenceTheorems, TLAPS

(* timestamp_millis() rounds down, by less than a millisecond. *)
LEMMA TruncatedRoundsDown ==
  ASSUME NEW t \in Nat
  PROVE  /\ Truncated(t) \in Nat
         /\ Truncated(t) <= t
         /\ t - Truncated(t) < Resolution
<1> DEFINE q == t \div Resolution
           r == t % Resolution
<1>1. q \in Nat /\ r \in Nat /\ r < Resolution
  BY IntervalAssumption, SMT
<1>2. t = Resolution * q + r
  BY IntervalAssumption, SMT
<1>3. Resolution * q \in Nat
  BY <1>1, IntervalAssumption, SMT
<1>4. r <= t
  BY <1>1, <1>2, <1>3, IntervalAssumption, SMT
<1> QED
  BY <1>1, <1>4, IntervalAssumption DEF Truncated

-----------------------------------------------------------------------------
LEMMA CooldownTypedInit == CooldownInit => CooldownTypeOK
  BY DEF CooldownInit, CooldownTypeOK, Watermarks

LEMMA CooldownTypedStep == CooldownTypeOK /\ [CooldownNext]_cooldownVars => CooldownTypeOK'
<1> SUFFICES ASSUME CooldownTypeOK, [CooldownNext]_cooldownVars
             PROVE  CooldownTypeOK'
  OBVIOUS
<1> USE DEF CooldownTypeOK, Watermarks
<1>1. ASSUME NEW g \in Groups, Grant(g) PROVE CooldownTypeOK'
  BY <1>1 DEF Grant, Now
<1>2. ASSUME NEW s \in saves, SaveCooldown(s) PROVE CooldownTypeOK'
  <2>1. s.group \in Groups /\ s.at \in Nat
    OBVIOUS
  <2>2. Truncated(s.at) \in Nat
    BY <2>1, TruncatedRoundsDown
  <2> QED
    BY <1>2, <2>1, <2>2 DEF SaveCooldown
<1>3. ASSUME NEW s \in saves, SaveFails(s) PROVE CooldownTypeOK'
  BY <1>3 DEF SaveFails
<1>4. CASE Crash
  BY <1>4 DEF Crash
<1>5. CASE Restart
  BY <1>5 DEF Restart
<1>6. CASE Tick
  BY <1>6 DEF Tick
<1>7. CASE SetClockBack
  BY <1>7 DEF SetClockBack, Now
<1>8. CASE UNCHANGED cooldownVars
  BY <1>8 DEF cooldownVars
<1> QED
  BY <1>1, <1>2, <1>3, <1>4, <1>5, <1>6, <1>7, <1>8 DEF CooldownNext, StoreStep, ClockStep

(* Every variable of the limiter and of its table keeps its type; a stored *)
(* watermark is never negative (save_cooldown, load_cooldowns).            *)
THEOREM CooldownTypeCorrect == CooldownSpec => []CooldownTypeOK
  BY CooldownTypedInit, CooldownTypedStep, PTL DEF CooldownSpec

-----------------------------------------------------------------------------
LEMMA WatermarkStep ==
  CooldownTypeOK /\ WatermarkInv /\ LoadedInv /\ [CooldownNext]_cooldownVars => WatermarkInv'
<1> SUFFICES ASSUME CooldownTypeOK, WatermarkInv, LoadedInv, [CooldownNext]_cooldownVars
             PROVE  WatermarkInv'
  OBVIOUS
<1> USE NeverAssumption DEF CooldownTypeOK, WatermarkInv, Watermarks
<1>1. ASSUME NEW g \in Groups, Grant(g) PROVE WatermarkInv'
  <2>1. /\ lastReply' = [lastReply EXCEPT ![g] = Now]
        /\ saves' = saves \cup {[group |-> g, at |-> Now]}
        /\ granted' = [granted EXCEPT ![g] = time]
        /\ thisRun' = thisRun \cup {g}
        /\ UNCHANGED <<time, back, up, stored>>
    BY <1>1 DEF Grant
  <2>2. Now \in Nat /\ Now <= time /\ (back = 0 => Now = time)
    BY DEF Now
  <2>3. granted'[g] = time /\ lastReply'[g] = Now /\ time # Never /\ Now # Never
    BY <2>1, <2>2
  <2>4. \A h \in Groups : h # g => granted'[h] = granted[h] /\ lastReply'[h] = lastReply[h]
    BY <2>1
  <2>5. \A h \in Groups :
          /\ lastReply'[h] # Never => granted'[h] # Never /\ lastReply'[h] <= granted'[h]
          /\ stored'[h] # Never => granted'[h] # Never /\ stored'[h] <= granted'[h]
          /\ granted'[h] # Never => granted'[h] <= time'
    <3> SUFFICES ASSUME NEW h \in Groups
                 PROVE /\ lastReply'[h] # Never => granted'[h] # Never /\ lastReply'[h] <= granted'[h]
                       /\ stored'[h] # Never => granted'[h] # Never /\ stored'[h] <= granted'[h]
                       /\ granted'[h] # Never => granted'[h] <= time'
      OBVIOUS
    <3>1. CASE h = g
      <4>1. stored[g] # Never => stored[g] <= time
        OBVIOUS
      <4> QED
        BY <3>1, <2>1, <2>2, <2>3, <4>1
    <3>2. CASE h # g
      BY <3>2, <2>1, <2>4
    <3> QED
      BY <3>1, <3>2
  <2>6. \A s \in saves' : granted'[s.group] # Never /\ s.at <= granted'[s.group]
    <3> SUFFICES ASSUME NEW s \in saves'
                 PROVE granted'[s.group] # Never /\ s.at <= granted'[s.group]
      OBVIOUS
    <3>1. CASE s \in saves
      <4>1. s.group \in Groups /\ s.at \in Nat
        BY <3>1
      <4>2. granted[s.group] \in Nat /\ s.at <= granted[s.group] /\ granted[s.group] <= time
        BY <3>1, <4>1
      <4> QED
        BY <4>1, <4>2, <2>3, <2>4
    <3>2. CASE s = [group |-> g, at |-> Now]
      BY <3>2, <2>2, <2>3
    <3> QED
      BY <2>1, <3>1, <3>2
  <2>7. back' = 0 => \A h \in thisRun' : granted'[h] # Never /\ lastReply'[h] = granted'[h]
    BY <2>1, <2>2, <2>3, <2>4
  <2> QED
    BY <2>5, <2>6, <2>7
<1>2. ASSUME NEW s \in saves, SaveCooldown(s) PROVE WatermarkInv'
  <2>1. /\ saves' = saves \ {s}
        /\ stored' = [stored EXCEPT ![s.group] = Truncated(s.at)]
        /\ UNCHANGED <<time, back, up, lastReply, granted, thisRun>>
    BY <1>2 DEF SaveCooldown
  <2>2. s.group \in Groups /\ s.at \in Nat
    OBVIOUS
  <2>3. Truncated(s.at) \in Nat /\ Truncated(s.at) <= s.at
    BY <2>2, TruncatedRoundsDown
  <2>4. granted[s.group] # Never /\ granted[s.group] \in Nat /\ s.at <= granted[s.group]
    BY <2>2
  <2>5. ASSUME NEW h \in Groups, stored'[h] # Never
        PROVE  granted'[h] # Never /\ stored'[h] <= granted'[h]
    <3>1. CASE h = s.group
      BY <2>1, <2>2, <2>3, <2>4, <3>1
    <3>2. CASE h # s.group
      BY <2>1, <2>5, <3>2
    <3> QED
      BY <3>1, <3>2
  <2>6. \A h \in Groups :
          /\ lastReply'[h] # Never => granted'[h] # Never /\ lastReply'[h] <= granted'[h]
          /\ granted'[h] # Never => granted'[h] <= time'
    BY <2>1
  <2>7. \A u \in saves' : granted'[u.group] # Never /\ u.at <= granted'[u.group]
    BY <2>1
  <2>8. back' = 0 => \A h \in thisRun' : granted'[h] # Never /\ lastReply'[h] = granted'[h]
    BY <2>1
  <2> QED
    BY <2>5, <2>6, <2>7, <2>8
<1>3. ASSUME NEW s \in saves, SaveFails(s) PROVE WatermarkInv'
  BY <1>3 DEF SaveFails
<1>4. CASE Crash
  BY <1>4 DEF Crash
<1>5. CASE Restart
  <2>1. /\ lastReply' = stored
        /\ UNCHANGED <<time, back, saves, stored, granted, thisRun>>
        /\ thisRun = {}
    BY <1>5 DEF Restart, LoadedInv
  <2> QED
    BY <2>1
<1>6. CASE Tick
  BY <1>6 DEF Tick
<1>7. CASE SetClockBack
  BY <1>7 DEF SetClockBack
<1>8. CASE UNCHANGED cooldownVars
  BY <1>8 DEF cooldownVars
<1> QED
  BY <1>1, <1>2, <1>3, <1>4, <1>5, <1>6, <1>7, <1>8 DEF CooldownNext, StoreStep, ClockStep

LEMMA LoadedStep ==
  CooldownTypeOK /\ LoadedInv /\ [CooldownNext]_cooldownVars => LoadedInv'
<1> SUFFICES ASSUME CooldownTypeOK, LoadedInv, [CooldownNext]_cooldownVars
             PROVE  LoadedInv'
  OBVIOUS
<1> USE DEF CooldownTypeOK, LoadedInv
<1>1. ASSUME NEW g \in Groups, Grant(g) PROVE LoadedInv'
  BY <1>1 DEF Grant
<1>2. ASSUME NEW s \in saves, SaveCooldown(s) PROVE LoadedInv'
  BY <1>2 DEF SaveCooldown
<1>3. ASSUME NEW s \in saves, SaveFails(s) PROVE LoadedInv'
  BY <1>3 DEF SaveFails
<1>4. CASE Crash
  BY <1>4 DEF Crash
<1>5. CASE Restart
  BY <1>5 DEF Restart
<1>6. CASE Tick
  BY <1>6 DEF Tick
<1>7. CASE SetClockBack
  BY <1>7 DEF SetClockBack
<1>8. CASE UNCHANGED cooldownVars
  BY <1>8 DEF cooldownVars
<1> QED
  BY <1>1, <1>2, <1>3, <1>4, <1>5, <1>6, <1>7, <1>8 DEF CooldownNext, StoreStep, ClockStep

(* The inductive invariant of the limiter. *)
CooldownInv == CooldownTypeOK /\ WatermarkInv /\ LoadedInv

THEOREM CooldownInvariant == CooldownSpec => []CooldownInv
<1>1. CooldownInit => CooldownInv
  <2>1. CooldownInit => WatermarkInv /\ LoadedInv
    BY DEF CooldownInit, WatermarkInv, LoadedInv
  <2> QED
    BY <2>1, CooldownTypedInit DEF CooldownInv
<1>2. CooldownInv /\ [CooldownNext]_cooldownVars => CooldownInv'
  BY CooldownTypedStep, WatermarkStep, LoadedStep DEF CooldownInv
<1> QED
  BY <1>1, <1>2, PTL DEF CooldownSpec

-----------------------------------------------------------------------------
(* allow() does not say yes to a group twice within min_interval while the *)
(* process runs and its clock is not set back, however the save tasks run. *)
THEOREM IntervalKept == CooldownSpec => []AllowedOnlyAfterInterval
<1>1. CooldownInv => AllowedOnlyAfterInterval
  <2> SUFFICES ASSUME CooldownInv, NEW g \in thisRun, back = 0, Allows(g)
               PROVE  Since(g) >= MinInterval
    BY DEF AllowedOnlyAfterInterval
  <2>1. g \in Groups /\ time \in Nat /\ Now = time
    BY DEF CooldownInv, CooldownTypeOK, Now
  <2>2. granted[g] # Never /\ lastReply[g] = granted[g] /\ granted[g] \in Nat /\ granted[g] <= time
    BY <2>1 DEF CooldownInv, CooldownTypeOK, WatermarkInv, Watermarks
  <2> QED
    BY <2>1, <2>2, IntervalAssumption DEF Allows, Since
<1> QED
  BY <1>1, CooldownInvariant, PTL

(* allow() says no to a group only within min_interval of its last yes,    *)
(* plus what the clock was set back: a watermark that was loaded, saved    *)
(* out of order or rounded never blocks a group for longer.                *)
THEOREM SilenceBounded == CooldownSpec => []DeniedOnlyWithinInterval
<1>1. CooldownInv => DeniedOnlyWithinInterval
  <2> SUFFICES ASSUME CooldownInv, NEW g \in Groups, ~Allows(g)
               PROVE  granted[g] # Never /\ Since(g) < MinInterval + back
    BY DEF DeniedOnlyWithinInterval
  <2>1. /\ time \in Nat /\ back \in Nat
        /\ lastReply[g] # Never /\ lastReply[g] \in Nat
        /\ Now - lastReply[g] < MinInterval
    BY IntervalAssumption DEF Allows, Now, CooldownInv, CooldownTypeOK, Watermarks
  <2>2. granted[g] # Never /\ granted[g] \in Nat /\ lastReply[g] <= granted[g]
    BY <2>1 DEF CooldownInv, CooldownTypeOK, WatermarkInv, Watermarks
  <2> QED
    BY <2>1, <2>2, IntervalAssumption DEF Now, Since
<1> QED
  BY <1>1, CooldownInvariant, PTL

(* A watermark that reached the table keeps its interval through crashes   *)
(* and restarts, up to the millisecond it was rounded down by.             *)
THEOREM SavedIntervalKept == CooldownSpec => []SavedIntervalSurvivesRestart
<1>1. CooldownInv => SavedIntervalSurvivesRestart
  <2> SUFFICES ASSUME CooldownInv, NEW g \in Groups, up, back = 0,
                      granted[g] # Never, stored[g] = Truncated(granted[g]), Allows(g)
               PROVE  Since(g) > MinInterval - Resolution
    BY DEF SavedIntervalSurvivesRestart
  <2>1. time \in Nat /\ Now = time /\ granted[g] \in Nat /\ granted[g] <= time
    BY DEF CooldownInv, CooldownTypeOK, WatermarkInv, Watermarks, Now
  <2>2. /\ Truncated(granted[g]) \in Nat
        /\ Truncated(granted[g]) <= granted[g]
        /\ granted[g] - Truncated(granted[g]) < Resolution
    BY <2>1, TruncatedRoundsDown
  <2>3. lastReply[g] = granted[g] \/ lastReply[g] = Truncated(granted[g])
    BY DEF CooldownInv, WatermarkInv, LoadedInv
  <2>4. lastReply[g] \in Nat /\ lastReply[g] <= granted[g] /\ granted[g] - lastReply[g] < Resolution
    BY <2>1, <2>2, <2>3, IntervalAssumption
  <2> QED
    BY <2>1, <2>4, NeverAssumption, IntervalAssumption DEF Allows, Since
<1> QED
  BY <1>1, CooldownInvariant, PTL

-----------------------------------------------------------------------------
(* The dispatcher around the limiter. *)

Contents(q) == {q[i] : i \in 1 .. Len(q)}

NoRepeat(q) == \A i, k \in 1 .. Len(q) : q[i] = q[k] => i = k

(* What sending to a channel and taking from it do to its contents. *)
LEMMA Sent ==
  ASSUME NEW S, NEW q \in Seq(S), NEW x \in S
  PROVE  /\ Append(q, x) \in Seq(S)
         /\ Len(Append(q, x)) = Len(q) + 1
         /\ Contents(Append(q, x)) = Contents(q) \cup {x}
         /\ NoRepeat(q) /\ x \notin Contents(q) => NoRepeat(Append(q, x))
<1> DEFINE r == Append(q, x)
           n == Len(q)
<1>1. /\ r \in Seq(S) /\ Len(r) = n + 1 /\ n \in Nat
      /\ \A i \in 1 .. n : r[i] = q[i]
      /\ r[n + 1] = x
  BY AppendProperties, LenProperties
<1> HIDE DEF r, n
<1>2. \A i \in 1 .. n + 1 : i \in 1 .. n \/ i = n + 1
  BY <1>1
<1>3. 1 .. n \subseteq 1 .. n + 1 /\ n + 1 \in 1 .. n + 1
  BY <1>1
<1>4. Contents(r) = Contents(q) \cup {x}
  BY <1>1, <1>2, <1>3 DEF Contents, n
<1>5. NoRepeat(q) /\ x \notin Contents(q) => NoRepeat(r)
  BY <1>1, <1>2 DEF NoRepeat, Contents, n
<1> QED
  BY <1>1, <1>4, <1>5 DEF r, n

LEMMA Taken ==
  ASSUME NEW S, NEW q \in Seq(S), q # <<>>
  PROVE  /\ Head(q) \in S /\ Head(q) \in Contents(q)
         /\ Tail(q) \in Seq(S)
         /\ Len(Tail(q)) = Len(q) - 1
         /\ Contents(Tail(q)) \subseteq Contents(q)
         /\ NoRepeat(q) => NoRepeat(Tail(q)) /\ Head(q) \notin Contents(Tail(q))
<1> DEFINE t == Tail(q)
           n == Len(q)
<1>1. /\ Head(q) \in S /\ t \in Seq(S) /\ Len(t) = n - 1 /\ n \in Nat \ {0}
      /\ \A i \in 1 .. n - 1 : t[i] = q[i + 1]
      /\ Head(q) = q[1]
  BY HeadTailProperties, EmptySeq
<1> HIDE DEF t, n
<1>2. 1 \in 1 .. n /\ \A i \in 1 .. n - 1 : i + 1 \in 1 .. n /\ i + 1 # 1
  BY <1>1
<1>3. Contents(t) \subseteq Contents(q) /\ Head(q) \in Contents(q)
  BY <1>1, <1>2 DEF Contents, n
<1>4. ASSUME NoRepeat(q) PROVE NoRepeat(t) /\ Head(q) \notin Contents(t)
  <2>1. ASSUME NEW i \in 1 .. n - 1, NEW k \in 1 .. n - 1, t[i] = t[k] PROVE i = k
    <3>1. i + 1 = k + 1
      BY <1>1, <1>2, <1>4, <2>1 DEF NoRepeat, n
    <3> QED
      BY <3>1
  <2>2. \A i \in 1 .. n - 1 : t[i] # q[1]
    BY <1>1, <1>2, <1>4 DEF NoRepeat, n
  <2> QED
    BY <1>1, <2>1, <2>2 DEF NoRepeat, Contents
<1> QED
  BY <1>1, <1>3, <1>4 DEF t, n

LEMMA ContentsTyped ==
  ASSUME NEW S, NEW q \in Seq(S)
  PROVE  Contents(q) \subseteq S
  BY ElementOfSeq DEF Contents

LEMMA EmptyQueue ==
  ASSUME NEW S
  PROVE  <<>> \in Seq(S) /\ Len(<<>>) = 0 /\ Contents(<<>>) = {} /\ NoRepeat(<<>>)
<1>1. <<>> \in Seq(S) /\ Len(<<>>) = 0
  BY EmptySeq
<1> QED
  BY <1>1 DEF Contents, NoRepeat

-----------------------------------------------------------------------------
(* Every step of the dispatcher and of its neighbours is one of the        *)
(* limiter's, or leaves the limiter alone.                                 *)
LEMMA DispatchIsCooldown == [Next]_vars => [CooldownNext]_cooldownVars
<1> SUFFICES ASSUME [Next]_vars PROVE [CooldownNext]_cooldownVars
  OBVIOUS
<1>1. ASSUME NEW r \in Replies, TakeAllowed(r) PROVE CooldownNext
  BY <1>1, GroupOfAssumption DEF TakeAllowed, CooldownNext
<1>2. CASE ProcessCrash
  BY <1>2 DEF ProcessCrash, CooldownNext
<1>3. CASE CooldownStep
  BY <1>3 DEF CooldownStep, CooldownNext
<1>4. CASE UNCHANGED vars
  BY <1>4 DEF vars
<1>5. CASE UNCHANGED cooldownVars
  BY <1>5
<1> QED
  BY <1>1, <1>2, <1>3, <1>4, <1>5
  DEF Next, Dispatcher, TakeDenied, Lookup, Persist, PersistFails, Send, SendFails, Route,
      RouteFails, CouncilReplies, SensoryCredits, SensoryStops

(* The dispatcher, with its channels, failures and crashes, uses the       *)
(* limiter as the limiter's specification says (dispatch_event_full).      *)
THEOREM DispatchImplementsCooldown == Spec => CooldownSpec
<1>1. Init => CooldownInit
  BY DEF Init
<1> QED
  BY <1>1, DispatchIsCooldown, PTL DEF Spec, CooldownSpec

(* So the reply interval holds for the replies that are dispatched: it is  *)
(* kept in one run of the process, never exceeded, and survives a restart  *)
(* once its watermark was saved.                                           *)
THEOREM DispatchKeepsInterval ==
  Spec => [](AllowedOnlyAfterInterval /\ DeniedOnlyWithinInterval
               /\ SavedIntervalSurvivesRestart)
  BY DispatchImplementsCooldown, IntervalKept, SilenceBounded, SavedIntervalKept, PTL

-----------------------------------------------------------------------------
(* The type invariant of the dispatcher. *)

LEMMA DispatchTypedStep == TypeOK /\ [Next]_vars => TypeOK'
<1> SUFFICES ASSUME TypeOK, [Next]_vars PROVE TypeOK'
  OBVIOUS
<1>0. CooldownTypeOK'
  BY DispatchIsCooldown, CooldownTypedStep DEF TypeOK
<1> USE <1>0, GroupOfAssumption, QueueAssumption, IdleAssumption
    DEF TypeOK, dispatchVars, dispatchHistory, Done, Steps
<1>1. ASSUME NEW r \in Replies, TakeAllowed(r) \/ TakeDenied(r) PROVE TypeOK'
  <2>1. queue # <<>> /\ queue' = Tail(queue)
    BY <1>1 DEF TakeAllowed, TakeDenied
  <2>2. queue' \in Seq(Replies) /\ Len(queue') <= RouterCapacity
    BY <2>1, Taken
  <2>3. CASE TakeAllowed(r)
    <3>1. /\ current' = r /\ step' = "lookup"
          /\ UNCHANGED <<unsent, table, routed, sensoryUp, sentCount, dispatchHistory>>
      BY <2>3 DEF TakeAllowed
    <3> QED
      BY <2>2, <3>1
  <2>4. CASE TakeDenied(r)
    <3>1. UNCHANGED <<unsent, current, step, table, routed, sensoryUp, sentCount, dispatchHistory>>
      BY <2>4 DEF TakeDenied
    <3> QED
      BY <2>2, <3>1
  <2> QED
    BY <1>1, <2>3, <2>4
<1>2. CASE Lookup \/ PersistFails
  BY <1>2 DEF Lookup, PersistFails
<1>3. CASE Persist
  BY <1>3 DEF Persist
<1>4. ASSUME step # "waiting", Deliver
      PROVE  /\ delivered' \in [Replies -> Nat]
             /\ sentAt' \in [Groups -> Watermarks]
             /\ credited' \subseteq Replies
  BY <1>4 DEF Deliver, CooldownTypeOK, Watermarks
<1>5. CASE Send
  BY <1>4, <1>5 DEF Send
<1>6. CASE SendFails
  BY <1>4, <1>6 DEF SendFails
<1>7. CASE Route
  <2>1. routed' \in Seq(Replies) /\ Len(routed') <= RoutedCapacity
    BY <1>7, Sent DEF Route
  <2> QED
    BY <1>7, <2>1 DEF Route
<1>8. CASE RouteFails
  BY <1>8 DEF RouteFails
<1>9. ASSUME NEW r \in Replies, CouncilReplies(r) PROVE TypeOK'
  <2>1. queue' \in Seq(Replies) /\ Len(queue') <= RouterCapacity
    BY <1>9, Sent DEF CouncilReplies
  <2> QED
    BY <1>9, <2>1 DEF CouncilReplies
<1>10. CASE SensoryCredits
  <2>1. Head(routed) \in Replies /\ routed' \in Seq(Replies) /\ Len(routed') <= RoutedCapacity
    BY <1>10, Taken DEF SensoryCredits
  <2> QED
    BY <1>10, <2>1 DEF SensoryCredits
<1>11. <<>> \in Seq(Replies) /\ Len(<<>>) = 0
  BY EmptyQueue
<1>12. CASE SensoryStops
  <2>1. /\ routed' = <<>> /\ sensoryUp' = FALSE
        /\ UNCHANGED <<unsent, queue, current, step, table, sentCount, dispatchHistory>>
    BY <1>12 DEF SensoryStops
  <2>2. routed' \in Seq(Replies) /\ Len(routed') <= RoutedCapacity
    BY <1>11, <2>1
  <2> QED
    BY <2>1, <2>2
<1>13. CASE ProcessCrash
  <2>1. delivered' \in [Replies -> Nat] /\ sentAt' \in [Groups -> Watermarks]
          /\ credited' \subseteq Replies
    BY <1>4, <1>13 DEF ProcessCrash
  <2>2. /\ queue' = <<>> /\ routed' = <<>> /\ sensoryUp' = TRUE /\ sentCount' = 0
        /\ Done /\ UNCHANGED <<unsent, table>>
    BY <1>13 DEF ProcessCrash
  <2> QED
    BY <1>11, <2>1, <2>2
<1>14. CASE CooldownStep
  BY <1>14 DEF CooldownStep
<1>15. CASE UNCHANGED vars
  BY <1>15 DEF vars
<1> QED
  BY <1>1, <1>2, <1>3, <1>5, <1>6, <1>7, <1>8, <1>9, <1>10, <1>12, <1>13, <1>14, <1>15
  DEF Next, Dispatcher

(* Both channels respect their capacity, and the dispatcher holds a reply  *)
(* exactly while it handles one, whatever fails and wherever the process   *)
(* dies.                                                                   *)
THEOREM DispatchTypeCorrect == Spec => []TypeOK
<1>1. Init => TypeOK
  <2>1. Init => CooldownTypeOK
    BY CooldownTypedInit DEF Init
  <2> QED
    BY <2>1, EmptyQueue, QueueAssumption, IdleAssumption DEF Init, TypeOK, Steps, Watermarks
<1> QED
  BY <1>1, DispatchTypedStep, PTL DEF Spec

-----------------------------------------------------------------------------
(* The effects of a reply.  A reply is in one place until the egress has   *)
(* it, and until then it was not delivered; what was delivered is in the   *)
(* table, and what sensory hears of was delivered.                         *)

(* The replies the egress may still get. *)
Pending ==
  unsent \cup Contents(queue)
    \cup (IF step \in {"lookup", "persist", "send"} THEN {current} ELSE {})

PlacesApart ==
  /\ NoRepeat(queue)
  /\ Contents(queue) \cap unsent = {}
  /\ current \notin unsent \cup Contents(queue)

PendingUndelivered == \A r \in Pending : delivered[r] = 0

OrderInv ==
  /\ \A r \in Replies : delivered[r] > 0 => r \in table
  /\ \A r \in credited \cup Contents(routed) : delivered[r] > 0
  /\ step = "send" => current \in table
  /\ step = "route" => delivered[current] > 0

EffectsInv == PlacesApart /\ PendingUndelivered /\ DeliveredAtMostOnce /\ OrderInv

LEMMA PlacesStep == TypeOK /\ PlacesApart /\ [Next]_vars => PlacesApart'
<1> SUFFICES ASSUME TypeOK, PlacesApart, [Next]_vars PROVE PlacesApart'
  OBVIOUS
<1> USE DEF PlacesApart
<1>0. /\ unsent \subseteq Replies /\ queue \in Seq(Replies) /\ Contents(queue) \subseteq Replies
      /\ Idle \notin Replies
  BY IdleAssumption DEF TypeOK, Contents
<1>1. ASSUME NEW r \in Replies, TakeAllowed(r) \/ TakeDenied(r) PROVE PlacesApart'
  <2>1. /\ queue # <<>> /\ r = Head(queue) /\ queue' = Tail(queue)
        /\ unsent' = unsent /\ current' \in {current, r}
    BY <1>1 DEF TakeAllowed, TakeDenied
  <2>2. /\ r \in Contents(queue) /\ r \notin Contents(queue') /\ NoRepeat(queue')
        /\ Contents(queue') \subseteq Contents(queue)
    BY <1>0, <2>1, Taken
  <2> QED
    BY <2>1, <2>2
<1>2. ASSUME NEW r \in Replies, CouncilReplies(r) PROVE PlacesApart'
  <2>1. /\ r \in unsent /\ unsent' = unsent \ {r} /\ queue' = Append(queue, r)
        /\ current' = current
    BY <1>2 DEF CouncilReplies
  <2>2. Contents(queue') = Contents(queue) \cup {r} /\ NoRepeat(queue')
    BY <1>0, <2>1, Sent
  <2> QED
    BY <2>1, <2>2
<1>3. CASE ProcessCrash
  <2>1. queue' = <<>> /\ current' = Idle /\ unsent' = unsent
    BY <1>3 DEF ProcessCrash, Done
  <2>2. Contents(queue') = {} /\ NoRepeat(queue')
    BY <2>1, EmptyQueue
  <2> QED
    BY <1>0, <2>1, <2>2
<1>4. CASE UNCHANGED <<unsent, queue>> /\ current' \in {current, Idle}
  <2>1. Contents(queue') = Contents(queue) /\ NoRepeat(queue')
    BY <1>4
  <2> QED
    BY <1>0, <1>4, <2>1
<1> QED
  BY <1>1, <1>2, <1>3, <1>4
  DEF Next, Dispatcher, Done, Lookup, Persist, PersistFails, Send, SendFails, Route, RouteFails,
      SensoryCredits, SensoryStops, CooldownStep, dispatchVars, vars

(* What delivering the current reply does: it was not delivered before.    *)
LEMMA Delivery ==
  ASSUME TypeOK, EffectsInv, step = "send", Deliver
  PROVE  /\ current \in Replies /\ current \in table
         /\ delivered' = [delivered EXCEPT ![current] = 1]
         /\ DeliveredAtMostOnce'
         /\ \A r \in Replies : r # current => delivered'[r] = delivered[r]
         /\ delivered'[current] = 1
         /\ credited' = credited
<1>1. current \in Replies /\ delivered \in [Replies -> Nat]
  BY DEF TypeOK
<1>2. current \in table /\ delivered[current] = 0
  BY DEF EffectsInv, OrderInv, PendingUndelivered, Pending
<1>3. delivered' = [delivered EXCEPT ![current] = 1]
  BY <1>1, <1>2 DEF Deliver
<1>4. /\ \A r \in Replies : r # current => delivered'[r] = delivered[r]
      /\ delivered'[current] = 1
  BY <1>1, <1>3
<1>5. DeliveredAtMostOnce'
  BY <1>1, <1>4 DEF EffectsInv, DeliveredAtMostOnce
<1> QED
  BY <1>1, <1>2, <1>3, <1>4, <1>5 DEF Deliver

(* No step makes a reply pending again. *)
LEMMA PendingShrinks == TypeOK /\ PlacesApart /\ [Next]_vars => Pending' \subseteq Pending
<1> SUFFICES ASSUME TypeOK, PlacesApart, [Next]_vars PROVE Pending' \subseteq Pending
  OBVIOUS
<1> USE DEF Pending
<1>0. unsent \subseteq Replies /\ queue \in Seq(Replies) /\ step \in Steps
  BY DEF TypeOK
<1>1. ASSUME NEW r \in Replies, TakeAllowed(r) \/ TakeDenied(r) PROVE Pending' \subseteq Pending
  <2>1. /\ queue # <<>> /\ r = Head(queue) /\ queue' = Tail(queue)
        /\ unsent' = unsent /\ step = "waiting"
        /\ \/ current' = r
           \/ step' = "waiting"
    BY <1>1 DEF TakeAllowed, TakeDenied
  <2>2. r \in Contents(queue) /\ Contents(queue') \subseteq Contents(queue)
    BY <1>0, <2>1, Taken
  <2> QED
    BY <2>1, <2>2
<1>2. ASSUME NEW r \in Replies, CouncilReplies(r) PROVE Pending' \subseteq Pending
  <2>1. /\ r \in unsent /\ unsent' = unsent \ {r} /\ queue' = Append(queue, r)
        /\ current' = current /\ step' = step
    BY <1>2 DEF CouncilReplies
  <2>2. Contents(queue') = Contents(queue) \cup {r}
    BY <1>0, <2>1, Sent
  <2> QED
    BY <2>1, <2>2
<1>3. CASE ProcessCrash
  <2>1. queue' = <<>> /\ step' = "waiting" /\ unsent' = unsent
    BY <1>3 DEF ProcessCrash, Done
  <2>2. Contents(queue') = {}
    BY <2>1, EmptyQueue
  <2> QED
    BY <2>1, <2>2
<1>4. CASE /\ UNCHANGED <<unsent, queue>>
           /\ \/ step' \in {"waiting", "route"}
              \/ current' = current /\ step \in {"lookup", "persist"}
              \/ current' = current /\ step' = step
  <2>1. Contents(queue') = Contents(queue)
    BY <1>4
  <2> QED
    BY <1>4, <2>1
<1> QED
  BY <1>1, <1>2, <1>3, <1>4
  DEF Next, Dispatcher, Done, Lookup, Persist, PersistFails, Send, SendFails, Route, RouteFails,
      SensoryCredits, SensoryStops, CooldownStep, dispatchVars, vars

LEMMA EffectsStep == TypeOK /\ TypeOK' /\ EffectsInv /\ [Next]_vars => EffectsInv'
<1> SUFFICES ASSUME TypeOK, TypeOK', EffectsInv, [Next]_vars PROVE EffectsInv'
  OBVIOUS
<1>1. PlacesApart' /\ Pending' \subseteq Pending
  BY PlacesStep, PendingShrinks DEF EffectsInv
<1>2. /\ unsent \subseteq Replies /\ queue \in Seq(Replies) /\ routed \in Seq(Replies)
      /\ credited \subseteq Replies /\ table \subseteq Replies
      /\ Contents(queue) \subseteq Replies /\ Contents(routed) \subseteq Replies
  BY ContentsTyped DEF TypeOK
<1>3. CASE step = "send" /\ Deliver
  <2>0. /\ current \in Replies /\ current \in table
        /\ DeliveredAtMostOnce'
        /\ \A r \in Replies : r # current => delivered'[r] = delivered[r]
        /\ delivered'[current] = 1
        /\ credited' = credited
    BY <1>3, Delivery
  <2>1. CASE Send \/ SendFails
    <3>1. /\ table' = table /\ routed' = routed /\ queue' = queue /\ unsent' = unsent
          /\ \/ step' = "route" /\ current' = current
             \/ step' = "waiting"
      BY <2>1 DEF Send, SendFails, Done
    <3>2. Contents(queue') = Contents(queue) /\ Contents(routed') = Contents(routed)
      BY <3>1
    <3>3. current \notin Pending'
      BY <3>1, <3>2 DEF EffectsInv, PlacesApart, Pending
    <3>4. PendingUndelivered'
      <4> SUFFICES ASSUME NEW r \in Pending' PROVE delivered'[r] = 0
        BY DEF PendingUndelivered
      <4>1. r \in Pending /\ r # current
        BY <1>1, <3>3
      <4>2. r \in Replies
        BY <1>2, <4>1 DEF Pending
      <4> QED
        BY <2>0, <4>1, <4>2 DEF EffectsInv, PendingUndelivered
    <3>5. OrderInv'
      <4>1. ASSUME NEW r \in Replies, delivered'[r] > 0 PROVE r \in table'
        BY <2>0, <3>1, <4>1 DEF EffectsInv, OrderInv
      <4>2. ASSUME NEW r \in credited' \cup Contents(routed)' PROVE delivered'[r] > 0
        <5>1. r \in credited \cup Contents(routed) /\ r \in Replies
          BY <1>2, <2>0, <3>2, <4>2
        <5>2. delivered[r] > 0
          BY <5>1 DEF EffectsInv, OrderInv
        <5> QED
          BY <2>0, <5>1, <5>2
      <4>3. step' # "send" /\ (step' = "route" => delivered'[current'] > 0)
        BY <2>0, <3>1
      <4> QED
        BY <4>1, <4>2, <4>3 DEF OrderInv
    <3> QED
      BY <1>1, <2>0, <3>4, <3>5 DEF EffectsInv
  <2>2. CASE ProcessCrash
    <3>1. /\ table' = table /\ routed' = <<>> /\ queue' = <<>> /\ unsent' = unsent
          /\ step' = "waiting"
      BY <2>2 DEF ProcessCrash, Done
    <3>2. Contents(queue') = {} /\ Contents(routed') = {}
      BY <3>1, EmptyQueue
    <3>3. PendingUndelivered'
      <4> SUFFICES ASSUME NEW r \in Pending' PROVE delivered'[r] = 0
        BY DEF PendingUndelivered
      <4>1. r \in unsent
        BY <3>1, <3>2 DEF Pending
      <4>2. r \in Replies /\ r # current /\ r \in Pending
        BY <1>2, <4>1 DEF EffectsInv, PlacesApart, Pending
      <4> QED
        BY <2>0, <4>2 DEF EffectsInv, PendingUndelivered
    <3>4. OrderInv'
      <4>1. ASSUME NEW r \in Replies, delivered'[r] > 0 PROVE r \in table'
        BY <2>0, <3>1, <4>1 DEF EffectsInv, OrderInv
      <4>2. ASSUME NEW r \in credited' \cup Contents(routed)' PROVE delivered'[r] > 0
        <5>1. r \in credited /\ r \in Replies
          BY <1>2, <2>0, <3>2, <4>2
        <5>2. delivered[r] > 0
          BY <5>1 DEF EffectsInv, OrderInv
        <5> QED
          BY <2>0, <5>1, <5>2
      <4> QED
        BY <3>1, <4>1, <4>2 DEF OrderInv
    <3> QED
      BY <1>1, <2>0, <3>3, <3>4 DEF EffectsInv
  <2>3. delivered' # delivered
    <3>1. delivered[current] = 0
      BY <1>3 DEF EffectsInv, PendingUndelivered, Pending
    <3> QED
      BY <2>0, <3>1
  <2> QED
    BY <2>1, <2>2, <2>3
    DEF Next, Dispatcher, TakeAllowed, TakeDenied, Lookup, Persist, PersistFails, Route,
        RouteFails, CouncilReplies, SensoryCredits, SensoryStops, CooldownStep,
        dispatchHistory, vars
<1>4. CASE UNCHANGED delivered
  <2>1. PendingUndelivered' /\ DeliveredAtMostOnce'
    BY <1>1, <1>4 DEF EffectsInv, PendingUndelivered, DeliveredAtMostOnce
  <2>2. table \subseteq table'
    BY <1>2 DEF Next, Dispatcher, TakeAllowed, TakeDenied, Lookup, Persist, PersistFails, Send,
       SendFails, Route, RouteFails, CouncilReplies, SensoryCredits, SensoryStops, ProcessCrash,
       CooldownStep, dispatchVars, vars
  <2>3. credited' \cup Contents(routed') \subseteq
          credited \cup Contents(routed) \cup (IF step = "route" THEN {current} ELSE {})
    <3>1. CASE Route
      <4>1. routed' = Append(routed, current) /\ credited' = credited /\ step = "route"
              /\ current \in Replies
        BY <3>1 DEF Route, dispatchHistory, TypeOK
      <4>2. Contents(routed') = Contents(routed) \cup {current}
        BY <1>2, <4>1, Sent
      <4> QED
        BY <4>1, <4>2
    <3>2. CASE SensoryCredits
      <4>1. routed # <<>> /\ credited' = credited \cup {Head(routed)} /\ routed' = Tail(routed)
        BY <3>2 DEF SensoryCredits
      <4>2. Head(routed) \in Contents(routed) /\ Contents(routed') \subseteq Contents(routed)
        BY <1>2, <4>1, Taken
      <4> QED
        BY <4>1, <4>2
    <3>3. CASE routed' = <<>> /\ credited' = credited
      <4>1. Contents(routed') = {}
        BY <3>3, EmptyQueue
      <4> QED
        BY <3>3, <4>1
    <3>4. CASE routed' = routed /\ credited' = credited
      BY <3>4
    <3> QED
      BY <3>1, <3>2, <3>3, <3>4
      DEF Next, Dispatcher, TakeAllowed, TakeDenied, Lookup, Persist, PersistFails, Send,
       SendFails, RouteFails, CouncilReplies, SensoryStops, ProcessCrash, Deliver,
       CooldownStep, dispatchVars, dispatchHistory, vars
  <2>4. /\ step' = "send" => (step = "send" /\ current' = current) \/ Persist
        /\ step' = "route" => (step = "route" /\ current' = current) \/ Send
    BY DEF Next, Dispatcher, TakeAllowed, TakeDenied, Lookup, Persist, PersistFails, Send,
       SendFails, Route, RouteFails, CouncilReplies, SensoryCredits, SensoryStops, ProcessCrash,
       CooldownStep, Done, dispatchVars, vars
  <2>5. Persist => current' = current /\ current \in table'
    BY DEF Persist
  <2>6. ~Send
    <3> SUFFICES ASSUME Send PROVE FALSE
      OBVIOUS
    <3>1. step = "send" /\ Deliver
      BY DEF Send
    <3>2. delivered'[current] = 1 /\ delivered[current] = 0
      BY <3>1, Delivery DEF EffectsInv, PendingUndelivered, Pending
    <3> QED
      BY <1>4, <3>2
  <2>7. OrderInv'
    <3>1. \A r \in Replies : delivered'[r] > 0 => r \in table'
      BY <1>4, <2>2 DEF EffectsInv, OrderInv
    <3>2. \A r \in credited' \cup Contents(routed)' : delivered'[r] > 0
      BY <1>4, <2>3 DEF EffectsInv, OrderInv
    <3>3. step' = "send" => current' \in table'
      BY <2>2, <2>4, <2>5 DEF EffectsInv, OrderInv
    <3>4. step' = "route" => delivered'[current'] > 0
      BY <1>4, <2>4, <2>6 DEF EffectsInv, OrderInv
    <3> QED
      BY <3>1, <3>2, <3>3, <3>4 DEF OrderInv
  <2> QED
    BY <1>1, <2>1, <2>7 DEF EffectsInv
<1> QED
  BY <1>3, <1>4
  DEF Next, Dispatcher, TakeAllowed, TakeDenied, Lookup, Persist, PersistFails, Send, SendFails,
      Route, RouteFails, CouncilReplies, SensoryCredits, SensoryStops, ProcessCrash,
      CooldownStep, dispatchHistory, vars

LEMMA EffectsInvariant == Spec => [](TypeOK /\ EffectsInv)
<1>1. Init => EffectsInv
  <2> SUFFICES ASSUME Init PROVE EffectsInv
    OBVIOUS
  <2>1. /\ unsent = Replies /\ queue = <<>> /\ routed = <<>> /\ credited = {}
        /\ current = Idle /\ step = "waiting" /\ delivered = [r \in Replies |-> 0]
    BY DEF Init
  <2>2. Contents(queue) = {} /\ Contents(routed) = {} /\ NoRepeat(queue)
    BY <2>1, EmptyQueue
  <2>3. PlacesApart
    BY <2>1, <2>2, IdleAssumption DEF PlacesApart
  <2>4. Pending \subseteq Replies
    BY <2>1, <2>2 DEF Pending
  <2>5. PendingUndelivered /\ DeliveredAtMostOnce /\ OrderInv
    BY <2>1, <2>2, <2>4 DEF PendingUndelivered, DeliveredAtMostOnce, OrderInv
  <2> QED
    BY <2>3, <2>5 DEF EffectsInv
<1>2. TypeOK /\ TypeOK' /\ EffectsInv /\ [Next]_vars => EffectsInv'
  BY EffectsStep
<1> QED
  BY <1>1, <1>2, DispatchTypeCorrect, PTL DEF Spec

(* dispatch_event_full, ReplyOut: the platform gets no reply that is not   *)
(* in the table, and sensory credits none that the platform did not get,   *)
(* whichever await fails and wherever the process dies.                    *)
THEOREM EffectsKeepOrder == Spec => []EffectsInOrder
<1>1. TypeOK /\ EffectsInv => EffectsInOrder
  BY DEF EffectsInv, OrderInv, EffectsInOrder, Contents
<1> QED
  BY <1>1, EffectsInvariant, PTL

(* No reply is delivered twice: a failed send is not retried, and a        *)
(* restarted process holds none of the replies of the one before.          *)
THEOREM NoReplyTwice == Spec => []DeliveredAtMostOnce
<1>1. EffectsInv => DeliveredAtMostOnce
  BY DEF EffectsInv
<1> QED
  BY <1>1, EffectsInvariant, PTL

=============================================================================
