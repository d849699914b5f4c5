-------------------------- MODULE DetectiveProofs --------------------------
(* Theorems of the detective and its memory, and their proofs. *)
EXTENDS Detective, SequenceTheorems, TLAPS

-----------------------------------------------------------------------------
(* The elements of a sequence.                                             *)

LEMMA ElementsAppended ==
  ASSUME NEW S, NEW s \in Seq(S), NEW e \in S
  PROVE  Elements(Append(s, e)) = Elements(s) \cup {e}
<1>1. /\ Len(s) \in Nat /\ Len(Append(s, e)) = Len(s) + 1
      /\ \A i \in 1 .. Len(s) : Append(s, e)[i] = s[i]
      /\ Append(s, e)[Len(s) + 1] = e
      /\ DOMAIN s = 1 .. Len(s) /\ DOMAIN Append(s, e) = 1 .. Len(s) + 1
  BY AppendProperties
<1> HIDE DEF Elements
<1>2. PICK n \in Nat : n = Len(s)
  BY <1>1
<1>3. 1 .. n + 1 = (1 .. n) \cup {n + 1}
  OBVIOUS
<1>4. QED BY <1>1, <1>2, <1>3 DEF Elements

LEMMA ElementsTaken ==
  ASSUME NEW S, NEW s \in Seq(S), s # <<>>
  PROVE  /\ Elements(s) = {Head(s)} \cup Elements(Tail(s))
         /\ Head(s) \in S /\ Tail(s) \in Seq(S)
<1>1. /\ Len(s) \in Nat \ {0} /\ Head(s) \in S /\ Tail(s) \in Seq(S) /\ Head(s) = s[1]
      /\ Len(Tail(s)) = Len(s) - 1 /\ \A i \in 1 .. Len(Tail(s)) : Tail(s)[i] = s[i + 1]
      /\ DOMAIN s = 1 .. Len(s) /\ DOMAIN Tail(s) = 1 .. Len(Tail(s))
  BY HeadTailProperties, EmptySeq
<1>2. PICK n \in Nat : n = Len(s) - 1
  <2>1. Len(s) - 1 \in Nat
    BY <1>1
  <2>2. QED BY <2>1
<1>3. /\ DOMAIN s = 1 .. n + 1 /\ DOMAIN Tail(s) = 1 .. n
      /\ \A i \in 1 .. n : Tail(s)[i] = s[i + 1]
  BY <1>1, <1>2
<1>4. ASSUME NEW i \in 1 .. n + 1
      PROVE  s[i] = Head(s) \/ \E j \in 1 .. n : s[i] = Tail(s)[j]
  <2>1. CASE i = 1
    BY <1>1, <2>1
  <2>2. CASE i # 1
    <3>1. i - 1 \in 1 .. n /\ (i - 1) + 1 = i
      BY <2>2
    <3>2. QED BY <1>3, <3>1
  <2>3. QED BY <2>1, <2>2
<1>5. \A j \in 1 .. n : \E i \in 1 .. n + 1 : s[i] = Tail(s)[j]
  BY <1>3
<1>6. 1 \in 1 .. n + 1
  OBVIOUS
<1>7. Elements(s) = {s[i] : i \in 1 .. n + 1} /\ Elements(Tail(s)) = {Tail(s)[j] : j \in 1 .. n}
  BY <1>3 DEF Elements
<1>8. {s[i] : i \in 1 .. n + 1} = {Head(s)} \cup {Tail(s)[j] : j \in 1 .. n}
  <2>1. Head(s) \in {s[i] : i \in 1 .. n + 1}
    BY <1>1, <1>6
  <2>2. {s[i] : i \in 1 .. n + 1} \subseteq {Head(s)} \cup {Tail(s)[j] : j \in 1 .. n}
    BY <1>4
  <2>3. {Tail(s)[j] : j \in 1 .. n} \subseteq {s[i] : i \in 1 .. n + 1}
    BY <1>5
  <2>4. QED BY <2>1, <2>2, <2>3
<1>9. QED BY <1>1, <1>7, <1>8

LEMMA ElementsEmpty == Elements(<<>>) = {}
  BY DEF Elements

LEMMA ElementsIn ==
  ASSUME NEW S, NEW s \in Seq(S)
  PROVE  Elements(s) \subseteq S
  BY DEF Elements

-----------------------------------------------------------------------------
(* What a task may be.                                                     *)

(* A request's task looks up facts while some are left, and stores the new *)
(* ones when none is. *)
RequestShape(w) ==
  /\ w \in [st : Stages, op : Uses, todo : Seq(Facts), new : Seq(Facts)]
  /\ w.st \notin {"decide", "apply"}
  /\ w.st \in {"none", "asking", "report", "done"} => w.op = "search"
  /\ w.op = "dedup" => w.todo # <<>>
  /\ w.op = "upsert" => w.todo = <<>>

(* A burst's task does not use the store. *)
BurstShape(w) ==
  w \in [st : {"none", "asking", "decide", "done"}, op : {"search"}, todo : Seq(Facts),
         new : Seq(Facts)]

(* The router, while it applies, has an update and knows its burst.        *)
RouterShape(w) ==
  /\ w \in [st : {"none", "ensure", "create", "perform", "apply"}, op : Uses,
            todo : Seq(Updates), new : Seq(Bursts)]
  /\ w.st # "none" => w.todo # <<>> /\ w.new # <<>>
  /\ w.st = "apply" => Head(w.todo).kind # "vector"
  /\ w.st \in {"ensure", "create", "perform"} => Head(w.todo).kind = "vector"

WorkInv ==
  /\ work = [t \in Works \cup {Router} |-> work[t]]
  /\ \A r \in Requests : RequestShape(work[r])
  /\ \A b \in Bursts : BurstShape(work[b])
  /\ RouterShape(work[Router])
  /\ \A t \in Works \cup {Router} : work[t].st = "perform" => collection

(* Idle, ended and asking tasks, and those that learn, have the shape of a *)
(* request's.                                                              *)
LEMMA Shapes ==
  /\ RequestShape(Idle) /\ RequestShape(Ended) /\ RequestShape(Asking)
  /\ BurstShape(Idle) /\ BurstShape(Ended) /\ BurstShape(Asking)
  /\ RouterShape(Idle)
  /\ Idle.st = "none" /\ Ended.st = "done" /\ Asking.st = "asking"
  /\ Idle.op = "search" /\ Ended.op = "search" /\ Asking.op = "search"
<1>1. /\ Idle = [st |-> "none", op |-> "search", todo |-> <<>>, new |-> <<>>]
      /\ Ended = [st |-> "done", op |-> "search", todo |-> <<>>, new |-> <<>>]
      /\ Asking = [st |-> "asking", op |-> "search", todo |-> <<>>, new |-> <<>>]
  BY DEF Idle, Ended, Asking, Task
<1>2. <<>> \in Seq(Facts) /\ <<>> \in Seq(Updates) /\ <<>> \in Seq(Bursts)
  OBVIOUS
<1>3. QED BY <1>1, <1>2 DEF RequestShape, BurstShape, RouterShape, Stages, Uses

LEMMA LearningShape ==
  ASSUME NEW todo \in Seq(Facts), NEW new \in Seq(Facts)
  PROVE  /\ RequestShape(Learning(todo, new))
         /\ Learning(todo, new).st \in {"ensure", "report"}
         /\ Learning(todo, new).op =
              IF todo # <<>> THEN "dedup" ELSE IF new # <<>> THEN "upsert" ELSE "search"
         /\ Learning(todo, new).op \in {"dedup", "upsert"} =>
              Learning(todo, new).todo = todo /\ Learning(todo, new).new = new
         /\ Learning(todo, new).op = "search" =>
              todo = <<>> /\ new = <<>> /\ Learning(todo, new).st = "report"
<1>1. CASE todo # <<>>
  BY <1>1 DEF Learning, RequestShape, Task, Stages, Uses
<1>2. CASE todo = <<>> /\ new # <<>>
  BY <1>2 DEF Learning, RequestShape, Task, Stages, Uses
<1>3. CASE todo = <<>> /\ new = <<>>
  BY <1>3 DEF Learning, RequestShape, Task, Stages, Uses
<1>4. QED BY <1>1, <1>2, <1>3

(* What a request's task becomes when the model has answered, and when     *)
(* there is nothing to learn.                                              *)
LEMMA LearningBegins ==
  ASSUME NEW todo \in Seq(Facts)
  PROVE  /\ RequestShape(Learning(todo, <<>>)) /\ Learning(todo, <<>>).st # "perform"
         /\ todo # <<>> => Learning(todo, <<>>) = Task("ensure", "dedup", todo, <<>>)
         /\ todo = <<>> => Learning(todo, <<>>) = Task("report", "search", <<>>, <<>>)
<1>1. <<>> \in Seq(Facts)
  OBVIOUS
<1>2. CASE todo # <<>>
  BY <1>1, <1>2 DEF Learning, RequestShape, Task, Stages, Uses
<1>3. CASE todo = <<>>
  BY <1>1, <1>3 DEF Learning, RequestShape, Task, Stages, Uses
<1>4. QED BY <1>2, <1>3

LEMMA LearningEnds ==
  /\ RequestShape(Learning(<<>>, <<>>))
  /\ Learning(<<>>, <<>>).st = "report" /\ Learning(<<>>, <<>>).op = "search"
<1>1. <<>> \in Seq(Facts)
  OBVIOUS
<1>2. Learning(<<>>, <<>>) = [st |-> "report", op |-> "search", todo |-> <<>>, new |-> <<>>]
  BY DEF Learning, Task
<1> DEFINE w == [st |-> "report", op |-> "search", todo |-> <<>>, new |-> <<>>]
<1>3. RequestShape(w) /\ w.st = "report" /\ w.op = "search"
  BY <1>1 DEF RequestShape, Stages, Uses
<1> HIDE DEF w
<1>4. Learning(<<>>, <<>>) = w
  BY <1>2 DEF w
<1>5. QED BY <1>3, <1>4

(* What one task's step leaves of the others. *)
LEMMA OneTaskMoves ==
  ASSUME WorkInv, NEW t \in Works \cup {Router}, NEW w, work' = [work EXCEPT ![t] = w]
  PROVE  /\ work' = [u \in Works \cup {Router} |-> work'[u]]
         /\ work'[t] = w
         /\ \A u \in (Works \cup {Router}) \ {t} : work'[u] = work[u]
  BY DEF WorkInv

(* A request's task, a burst's and the router's are three different ones.  *)
LEMMA RequestMoves ==
  ASSUME WorkInv, NEW r \in Requests, NEW w, RequestShape(w), work' = [work EXCEPT ![r] = w],
         w.st = "perform" => collection', collection => collection'
  PROVE  WorkInv'
<1>1. r \in Works \cup {Router} /\ r \notin Bursts /\ r # Router
  BY WorkAssumption DEF Works
<1>2. /\ work' = [u \in Works \cup {Router} |-> work'[u]] /\ work'[r] = w
      /\ \A u \in (Works \cup {Router}) \ {r} : work'[u] = work[u]
  BY <1>1, OneTaskMoves
<1>3. QED BY <1>1, <1>2 DEF WorkInv, Works

LEMMA BurstMoves ==
  ASSUME WorkInv, NEW b \in Bursts, NEW w, BurstShape(w), work' = [work EXCEPT ![b] = w],
         UNCHANGED collection
  PROVE  WorkInv'
<1>1. b \in Works \cup {Router} /\ b \notin Requests /\ b # Router
  BY WorkAssumption DEF Works
<1>2. /\ work' = [u \in Works \cup {Router} |-> work'[u]] /\ work'[b] = w
      /\ \A u \in (Works \cup {Router}) \ {b} : work'[u] = work[u]
  BY <1>1, OneTaskMoves
<1>3. w.st # "perform"
  BY DEF BurstShape
<1>4. QED BY <1>1, <1>2, <1>3 DEF WorkInv, Works

LEMMA RouterMoves ==
  ASSUME WorkInv, NEW w, RouterShape(w), work' = [work EXCEPT ![Router] = w],
         w.st = "perform" => collection', collection => collection'
  PROVE  WorkInv'
<1>1. Router \notin Requests /\ Router \notin Bursts
  BY WorkAssumption DEF Works
<1>2. /\ work' = [u \in Works \cup {Router} |-> work'[u]] /\ work'[Router] = w
      /\ \A u \in (Works \cup {Router}) \ {Router} : work'[u] = work[u]
  BY OneTaskMoves
<1>3. QED BY <1>1, <1>2 DEF WorkInv, Works

-----------------------------------------------------------------------------
(* The types.                                                              *)

(* What WorkInv says of the tasks is what the types say of them. *)
LEMMA WorkTyped ==
  ASSUME WorkInv
  PROVE  /\ \A t \in Works : work[t] \in [st : Stages, op : Uses, todo : Seq(Facts), new : Seq(Facts)]
         /\ work[Router] \in [st : Stages, op : Uses, todo : Seq(Updates), new : Seq(Bursts)]
<1>1. ASSUME NEW r \in Requests
      PROVE  work[r] \in [st : Stages, op : Uses, todo : Seq(Facts), new : Seq(Facts)]
  BY DEF WorkInv, RequestShape
<1>2. ASSUME NEW b \in Bursts
      PROVE  work[b] \in [st : Stages, op : Uses, todo : Seq(Facts), new : Seq(Facts)]
  <2>1. BurstShape(work[b])
    BY DEF WorkInv
  <2>2. QED BY <2>1 DEF BurstShape, Stages, Uses
<1>3. work[Router] \in [st : Stages, op : Uses, todo : Seq(Updates), new : Seq(Bursts)]
  <2>1. RouterShape(work[Router])
    BY DEF WorkInv
  <2>2. QED BY <2>1 DEF RouterShape, Stages, Uses
<1>4. QED BY <1>1, <1>2, <1>3 DEF Works

(* Everything but the tasks, of which a task's step changes some. *)
ChannelsTyped ==
  /\ inbox \in Seq(Works) /\ Len(inbox) <= InboxCapacity
  /\ out \in Seq(Works) /\ Len(out) <= RouterCapacity
  /\ routerUp \in BOOLEAN

StoreTyped ==
  /\ collection \in BOOLEAN
  /\ taken \subseteq [fact : Facts, group : Groups, by : Works] /\ points \subseteq taken
  /\ taken # {} => collection

HistoryTyped ==
  /\ report \in [Requests -> Seq(Facts)]
  /\ blind \subseteq [fact : Facts, group : Groups, by : Requests]
  /\ lost \subseteq Requests /\ overlap \subseteq SUBSET Requests
  /\ decision \in [Bursts -> Seq(Updates)]

TypeInv == ChannelsTyped /\ StoreTyped /\ HistoryTyped /\ WorkInv

LEMMA TypeInvTypes ==
  ASSUME TypeInv
  PROVE  TypeOK
  BY WorkTyped DEF TypeInv, TypeOK, ChannelsTyped, StoreTyped, HistoryTyped

LEMMA TypeInit ==
  ASSUME DetectiveInit
  PROVE  TypeInv
<1>1. work = [t \in Works \cup {Router} |-> Idle]
  BY DEF DetectiveInit
<1>2. WorkInv
  BY <1>1, Shapes DEF WorkInv, Works
<1>3. ChannelsTyped
  BY CapacityAssumption DEF DetectiveInit, ChannelsTyped
<1>4. StoreTyped /\ HistoryTyped
  <2>1. StoreTyped
    BY DEF DetectiveInit, StoreTyped
  <2>2. HistoryTyped
    BY DEF DetectiveInit, HistoryTyped
  <2>3. QED BY <2>1, <2>2
<1>5. QED BY <1>2, <1>3, <1>4 DEF TypeInv

(* A task that uses the store is a request's, or the router. *)
LEMMA WhoIsAt ==
  ASSUME WorkInv, NEW t \in Works
  PROVE  /\ work[t].st \in {"ensure", "create", "perform", "report"} => t \in Requests
         /\ work[t].st = "decide" => t \in Bursts
  BY DEF WorkInv, BurstShape, RequestShape, Works

(* The points of a task are typed. *)
LEMMA PointTyped ==
  ASSUME NEW t \in Works, NEW f \in Facts
  PROVE  /\ Point(t, f) \in [fact : Facts, group : Groups, by : Works]
         /\ t \in Requests => Point(t, f) \in [fact : Facts, group : Groups, by : Requests]
  BY WorkAssumption DEF Point

(* What the router applies is a burst's. *)
LEMMA SourceTyped ==
  ASSUME RouterShape(work[Router]), work[Router].st # "none"
  PROVE  /\ Source \in Bursts /\ Head(work[Router].todo) \in Updates
         /\ Tail(work[Router].todo) \in Seq(Updates)
<1>1. /\ work[Router].todo \in Seq(Updates) /\ work[Router].todo # <<>>
      /\ work[Router].new \in Seq(Bursts) /\ work[Router].new # <<>>
  BY DEF RouterShape
<1>2. QED BY <1>1, HeadTailProperties DEF Source

(* What a step of a task may do to the store. *)
StoreStep(t) ==
  \/ UNCHANGED store
  \/ AnswerLost(t)
  \/ work[t].st = "perform" /\ (t \in Requests => work[t].op = "upsert") /\ Takes(t)

LEMMA StoreStepTyped ==
  ASSUME TypeInv, NEW t \in Requests \cup {Router}, StoreStep(t)
  PROVE  StoreTyped' /\ (collection => collection')
<1>1. CASE UNCHANGED store
  BY <1>1 DEF store, TypeInv, StoreTyped
<1>2. CASE Creates
  BY <1>2 DEF Creates, TypeInv, StoreTyped
<1>3. CASE work[t].st = "perform" /\ Takes(t)
  <2>1. Upserted(t) \subseteq [fact : Facts, group : Groups, by : Works]
    <3>1. CASE t \in Requests
      <4>1. t # Router /\ t \in Works /\ work[t].new \in Seq(Facts)
        BY <3>1, WorkAssumption DEF TypeInv, WorkInv, RequestShape, Works
      <4>2. Elements(work[t].new) \subseteq Facts
        BY <4>1, ElementsIn
      <4>3. QED BY <4>1, <4>2, PointTyped DEF Upserted
    <3>2. CASE t = Router
      <4>1. /\ RouterShape(work[Router]) /\ work[Router].st = "perform"
            /\ Head(work[Router].todo).kind = "vector"
        BY <1>3, <3>2 DEF TypeInv, WorkInv, RouterShape
      <4>2. Source \in Works /\ Head(work[Router].todo) \in Updates
        BY <4>1, SourceTyped DEF Works
      <4>3. Head(work[Router].todo).fact \in Facts
        BY <4>1, <4>2 DEF Updates
      <4>4. QED BY <3>2, <4>2, <4>3, PointTyped DEF Upserted
    <3>3. QED BY <3>1, <3>2
  <2>2. collection
    BY <1>3 DEF TypeInv, WorkInv, Works
  <2>3. QED BY <1>3, <2>1, <2>2 DEF Takes, TypeInv, StoreTyped
<1>4. QED BY <1>1, <1>2, <1>3 DEF StoreStep, AnswerLost

(* ensure_collection(), whoever waits for it: it changes the stage. *)
EnsureStep(t) == CollectionThere(t) \/ CollectionMissing(t) \/ CollectionCreated(t)

LEMMA EnsureTyped ==
  ASSUME TypeInv, NEW t \in Requests \cup {Router}, EnsureStep(t)
  PROVE  /\ TypeInv' /\ UNCHANGED <<rest, taken>>
         /\ \E st \in {"create", "perform"} : work' = [work EXCEPT ![t].st = st]
         /\ work[t].st \in {"ensure", "create"}
<1>1. PICK st \in {"create", "perform"} : work' = [work EXCEPT ![t].st = st]
  BY DEF EnsureStep, CollectionThere, CollectionMissing, CollectionCreated
<1>2. st = "perform" => collection'
  <2>1. CASE CollectionThere(t)
    BY <2>1 DEF CollectionThere, store
  <2>2. CASE CollectionMissing(t)
    <3>1. work' = [work EXCEPT ![t].st = "create"]
      BY <2>2 DEF CollectionMissing
    <3>2. t \in DOMAIN work /\ "st" \in DOMAIN work[t]
      BY DEF TypeInv, WorkInv, RequestShape, RouterShape, Works
    <3>3. work'[t].st = "create" /\ work'[t].st = st
      BY <1>1, <3>1, <3>2
    <3>4. QED BY <3>3
  <2>3. CASE CollectionCreated(t)
    BY <2>3 DEF CollectionCreated, Creates
  <2>4. QED BY <2>1, <2>2, <2>3 DEF EnsureStep
<1>3. /\ work[t].st \in {"ensure", "create"} /\ UNCHANGED <<rest, taken, points>>
      /\ collection => collection'
      /\ collection' = collection \/ collection' = TRUE
  BY DEF EnsureStep, CollectionThere, CollectionMissing, CollectionCreated, Creates, store
<1>4. WorkInv'
  <2>1. CASE t \in Requests
    <3>1. RequestShape(work[t])
      BY <2>1 DEF TypeInv, WorkInv
    <3>2. RequestShape([work[t] EXCEPT !.st = st]) /\ [work[t] EXCEPT !.st = st].st = st
      BY <1>3, <3>1 DEF RequestShape, Stages
    <3>3. QED BY <1>1, <1>2, <1>3, <2>1, <3>2, RequestMoves DEF TypeInv
  <2>2. CASE t = Router
    <3>1. RouterShape(work[t])
      BY <2>2 DEF TypeInv, WorkInv
    <3>2. RouterShape([work[t] EXCEPT !.st = st]) /\ [work[t] EXCEPT !.st = st].st = st
      BY <1>3, <3>1 DEF RouterShape
    <3>3. QED BY <1>1, <1>2, <1>3, <2>2, <3>2, RouterMoves DEF TypeInv
  <2>3. QED BY <2>1, <2>2
<1>5. StoreTyped'
  BY <1>3 DEF StoreTyped, TypeInv
<1>6. ChannelsTyped' /\ HistoryTyped'
  BY <1>3 DEF ChannelsTyped, HistoryTyped, TypeInv, rest, learnt
<1>7. QED BY <1>1, <1>3, <1>4, <1>5, <1>6 DEF TypeInv

(* The dispatcher sends work, and the loop spawns a task for it. *)
LEMMA WorkArrives ==
  ASSUME TypeInv, (\E t \in Works : RouterSends(t)) \/ TakeWork
  PROVE  TypeInv'
<1>1. ASSUME NEW t \in Works, RouterSends(t)
      PROVE  TypeInv'
  <2>1. inbox \in Seq(Works) /\ Len(inbox) \in Nat
    BY DEF TypeInv, ChannelsTyped
  <2>2. inbox' \in Seq(Works) /\ Len(inbox') = Len(inbox) + 1
    BY <1>1, <2>1, AppendProperties DEF RouterSends
  <2>3. Len(inbox') <= InboxCapacity
    BY <1>1, <2>1, <2>2, CapacityAssumption DEF RouterSends
  <2>4. QED
    BY <1>1, <2>2, <2>3
    DEF RouterSends, TypeInv, ChannelsTyped, StoreTyped, HistoryTyped, WorkInv, store, learnt
<1>2. CASE TakeWork
  <2> DEFINE t == Head(inbox)
             w == IF t \in Requests THEN Task("ensure", "search", <<>>, <<>>)
                  ELSE Task("asking", "search", <<>>, <<>>)
  <2>1. inbox # <<>> /\ inbox \in Seq(Works) /\ Len(inbox) \in Nat
    BY <1>2 DEF TypeInv, ChannelsTyped, TakeWork
  <2>2. t \in Works /\ Tail(inbox) \in Seq(Works) /\ Len(Tail(inbox)) = Len(inbox) - 1
    BY <2>1, HeadTailProperties
  <2>3. inbox' \in Seq(Works) /\ Len(inbox') <= InboxCapacity
    <3>1. inbox' = Tail(inbox)
      BY <1>2 DEF TakeWork
    <3>2. Len(inbox) <= InboxCapacity
      BY DEF TypeInv, ChannelsTyped
    <3>3. QED BY <2>1, <2>2, <3>1, <3>2, CapacityAssumption
  <2>4. work' = [work EXCEPT ![t] = w] /\ UNCHANGED <<out, routerUp, store, learnt, decision>>
    BY <1>2 DEF TakeWork
  <2>5. UNCHANGED <<collection, taken, points>>
    BY <2>4 DEF store
  <2>6. w.st # "perform" /\ (t \in Requests => RequestShape(w)) /\ (t \in Bursts => BurstShape(w))
    <3>1. CASE t \in Requests
      <4>1. w = Task("ensure", "search", <<>>, <<>>) /\ t \notin Bursts
        BY <3>1, WorkAssumption
      <4>2. QED BY <4>1 DEF Task, RequestShape, Stages, Uses
    <3>2. CASE t \notin Requests
      <4>1. w = Task("asking", "search", <<>>, <<>>)
        BY <3>2
      <4>2. QED BY <3>2, <4>1 DEF Task, BurstShape
    <3>3. QED BY <3>1, <3>2
  <2> HIDE DEF t, w
  <2>7. WorkInv'
    <3>1. CASE t \in Requests
      BY <2>4, <2>5, <2>6, <3>1, RequestMoves DEF TypeInv
    <3>2. CASE t \in Bursts
      BY <2>4, <2>5, <2>6, <3>2, BurstMoves DEF TypeInv
    <3>3. QED BY <2>2, <3>1, <3>2 DEF Works
  <2>8. QED
    BY <2>3, <2>4, <2>5, <2>7 DEF TypeInv, ChannelsTyped, StoreTyped, HistoryTyped, learnt
<1>3. QED BY <1>1, <1>2

(* A step that ends an event's task, by sending it or not. *)
LEMMA SendTyped ==
  ASSUME ChannelsTyped, NEW t \in Works, Turn, out' = IF routerUp THEN Append(out, t) ELSE out,
         UNCHANGED <<inbox, routerUp>>
  PROVE  ChannelsTyped'
<1>1. out \in Seq(Works) /\ Len(out) \in Nat /\ Len(out) <= RouterCapacity
  BY DEF ChannelsTyped
<1>2. CASE routerUp
  <2>1. out' \in Seq(Works) /\ Len(out') = Len(out) + 1
    BY <1>1, <1>2, AppendProperties
  <2>2. Len(out') <= RouterCapacity
    BY <1>1, <1>2, <2>1, CapacityAssumption DEF Turn
  <2>3. QED BY <2>1, <2>2 DEF ChannelsTyped
<1>3. CASE ~routerUp
  BY <1>3 DEF ChannelsTyped
<1>4. QED BY <1>2, <1>3

(* What a search for a duplicate, and its failure, make of a task that     *)
(* still has facts to look up.                                             *)
LEMMA FactMoves ==
  ASSUME NEW w, RequestShape(w), w.op = "dedup"
  PROVE  /\ Head(w.todo) \in Facts /\ Tail(w.todo) \in Seq(Facts) /\ w.new \in Seq(Facts)
         /\ Append(w.new, Head(w.todo)) \in Seq(Facts)
         /\ Elements(w.todo) = {Head(w.todo)} \cup Elements(Tail(w.todo))
         /\ Elements(Append(w.new, Head(w.todo))) = Elements(w.new) \cup {Head(w.todo)}
<1>1. w.todo \in Seq(Facts) /\ w.todo # <<>> /\ w.new \in Seq(Facts)
  BY DEF RequestShape
<1>2. QED BY <1>1, ElementsTaken, ElementsAppended, AppendProperties

(* The steps of a request's task that do not wait for the collection. *)
RequestStep(r) ==
  \/ Searched(r) \/ ModelReports(r) \/ ModelFails(r) \/ ReportUnparsable(r)
  \/ FactChecked(r) \/ FactsTaken(r) \/ StoreFails(r) \/ ReportSent(r)

LEMMA RequestTyped ==
  ASSUME TypeInv, NEW r \in Requests, RequestStep(r)
  PROVE  TypeInv'
<1>0. /\ RequestShape(work[r]) /\ r \in Works
      /\ work[r].todo \in Seq(Facts) /\ work[r].new \in Seq(Facts)
  BY DEF TypeInv, WorkInv, RequestShape, Works
<1>1. ASSUME NEW w, RequestShape(w), w.st # "perform", work' = [work EXCEPT ![r] = w],
             collection => collection'
      PROVE  WorkInv'
  BY <1>1, RequestMoves DEF TypeInv
<1>2. CASE Searched(r)
  <2>1. work' = [work EXCEPT ![r] = Asking] /\ UNCHANGED <<rest, collection, taken, points>>
    BY <1>2 DEF Searched, store
  <2>2. WorkInv'
    BY <1>1, <2>1, Shapes
  <2>3. QED
    BY <2>1, <2>2 DEF TypeInv, ChannelsTyped, StoreTyped, HistoryTyped, rest, learnt
<1>3. CASE ModelReports(r)
  <2>1. PICK facts \in Reports[r] :
          /\ work' = [work EXCEPT ![r] = Learning(facts, <<>>)]
          /\ report' = [report EXCEPT ![r] = facts]
          /\ overlap' = overlap \cup {{r, q} : q \in {q \in Requests : Learns(q)}}
          /\ UNCHANGED <<inbox, out, routerUp, store, blind, lost, decision>>
    BY <1>3 DEF ModelReports
  <2>2. facts \in Seq(Facts) /\ UNCHANGED <<collection, taken, points>>
    BY <2>1, ModelAssumption DEF store
  <2>3. WorkInv'
    BY <1>1, <2>1, <2>2, LearningBegins
  <2>4. report' \in [Requests -> Seq(Facts)] /\ overlap' \subseteq SUBSET Requests
    <3>1. report \in [Requests -> Seq(Facts)] /\ overlap \subseteq SUBSET Requests
      BY DEF TypeInv, HistoryTyped
    <3>2. \A q \in Requests : {r, q} \in SUBSET Requests
      OBVIOUS
    <3>3. overlap' \subseteq SUBSET Requests
      BY <2>1, <3>1, <3>2
    <3>4. QED BY <2>1, <2>2, <3>1, <3>3
  <2>5. QED
    BY <2>1, <2>2, <2>3, <2>4 DEF TypeInv, ChannelsTyped, StoreTyped, HistoryTyped
<1>4. CASE ModelFails(r)
  <2>1. work' = [work EXCEPT ![r] = Learning(<<>>, <<>>)] /\ UNCHANGED <<rest, collection, taken, points>>
    BY <1>4 DEF ModelFails, store
  <2>2. WorkInv'
    BY <1>1, <2>1, LearningEnds
  <2>3. QED
    BY <2>1, <2>2 DEF TypeInv, ChannelsTyped, StoreTyped, HistoryTyped, rest, learnt
<1>5. CASE ReportUnparsable(r)
  <2>1. work' = [work EXCEPT ![r] = Ended] /\ UNCHANGED <<rest, collection, taken, points>>
    BY <1>5 DEF ReportUnparsable, store
  <2>2. WorkInv'
    BY <1>1, <2>1, Shapes
  <2>3. QED
    BY <2>1, <2>2 DEF TypeInv, ChannelsTyped, StoreTyped, HistoryTyped, rest, learnt
<1>6. CASE FactChecked(r)
  <2> DEFINE f == Head(work[r].todo)
             new == IF AlreadyKnown(r, f) THEN work[r].new ELSE Append(work[r].new, f)
  <2>1. /\ work' = [work EXCEPT ![r] = Learning(Tail(work[r].todo), new)]
        /\ blind' = IF Taken(r, f) /\ ~Known(r, f) THEN blind \cup {Point(r, f)} ELSE blind
        /\ work[r].op = "dedup" /\ UNCHANGED <<inbox, out, routerUp, report, overlap, lost, decision>>
        /\ UNCHANGED <<collection, taken, points>>
    BY <1>6 DEF FactChecked, store
  <2>2. Tail(work[r].todo) \in Seq(Facts) /\ new \in Seq(Facts) /\ f \in Facts
    BY <1>0, <2>1, FactMoves
  <2> HIDE DEF new, f
  <2>3. WorkInv'
    BY <1>1, <2>1, <2>2, LearningShape
  <2>4. blind' \subseteq [fact : Facts, group : Groups, by : Requests]
    BY <1>0, <2>1, <2>2, PointTyped DEF TypeInv, HistoryTyped
  <2>5. QED
    BY <2>1, <2>3, <2>4 DEF TypeInv, ChannelsTyped, StoreTyped, HistoryTyped
<1>7. CASE FactsTaken(r)
  <2>1. /\ work' = [work EXCEPT ![r] = Learning(<<>>, <<>>)]
        /\ StoreStep(r) /\ UNCHANGED rest
    BY <1>7 DEF FactsTaken, StoreStep
  <2>2. StoreTyped' /\ (collection => collection')
    BY <2>1, StoreStepTyped
  <2>3. WorkInv'
    BY <1>1, <2>1, <2>2, LearningEnds
  <2>4. QED
    BY <2>1, <2>2, <2>3 DEF TypeInv, ChannelsTyped, HistoryTyped, rest, learnt
<1>8. CASE StoreFails(r)
  <2> DEFINE w == work[r]
             next == CASE w.op = "search" -> Asking
                       [] w.op = "dedup"  -> Learning(Tail(w.todo), Append(w.new, Head(w.todo)))
                       [] w.op = "upsert" -> Learning(<<>>, <<>>)
  <2>1. /\ work' = [work EXCEPT ![r] = next] /\ StoreStep(r)
        /\ blind' = IF w.op = "dedup" THEN blind \cup {Point(r, Head(w.todo))} ELSE blind
        /\ lost' = IF w.op = "upsert" THEN lost \cup {r} ELSE lost
        /\ UNCHANGED <<inbox, out, routerUp, report, overlap, decision>>
    BY <1>8 DEF StoreFails, StoreStep
  <2>2. RequestShape(next) /\ next.st # "perform"
    <3>1. CASE w.op = "search"
      <4>1. next = Asking
        BY <3>1
      <4>2. QED BY <4>1, Shapes
    <3>2. CASE w.op = "dedup"
      <4>1. next = Learning(Tail(w.todo), Append(w.new, Head(w.todo)))
        BY <3>2
      <4>2. Tail(w.todo) \in Seq(Facts) /\ Append(w.new, Head(w.todo)) \in Seq(Facts)
        BY <1>0, <3>2, FactMoves
      <4>3. /\ RequestShape(Learning(Tail(w.todo), Append(w.new, Head(w.todo))))
            /\ Learning(Tail(w.todo), Append(w.new, Head(w.todo))).st \in {"ensure", "report"}
        BY <4>2, LearningShape
      <4>4. QED BY <4>1, <4>3
    <3>3. CASE w.op = "upsert"
      <4>1. next = Learning(<<>>, <<>>)
        BY <3>3
      <4>2. QED BY <4>1, LearningEnds
    <3>4. w.op \in Uses
      BY <1>0 DEF RequestShape
    <3>5. QED BY <3>1, <3>2, <3>3, <3>4 DEF Uses
  <2> HIDE DEF next
  <2>3. StoreTyped' /\ (collection => collection')
    BY <2>1, StoreStepTyped
  <2>4. WorkInv'
    BY <1>1, <2>1, <2>2, <2>3
  <2>5. blind' \subseteq [fact : Facts, group : Groups, by : Requests] /\ lost' \subseteq Requests
    <3>1. w.op = "dedup" => Head(w.todo) \in Facts
      BY <1>0, FactMoves
    <3>2. QED BY <1>0, <2>1, <3>1, PointTyped DEF TypeInv, HistoryTyped
  <2>6. QED
    BY <2>1, <2>3, <2>4, <2>5 DEF TypeInv, ChannelsTyped, HistoryTyped
<1>9. CASE ReportSent(r)
  <2>1. /\ work' = [work EXCEPT ![r] = Ended] /\ Turn
        /\ out' = IF routerUp THEN Append(out, r) ELSE out
        /\ UNCHANGED <<inbox, routerUp, collection, taken, points, learnt, decision>>
    BY <1>9 DEF ReportSent, store
  <2>2. WorkInv'
    BY <1>1, <2>1, Shapes
  <2>3. ChannelsTyped'
    BY <1>0, <2>1, SendTyped DEF TypeInv
  <2>4. QED
    BY <2>1, <2>2, <2>3 DEF TypeInv, StoreTyped, HistoryTyped, learnt
<1>10. QED
  BY <1>2, <1>3, <1>4, <1>5, <1>6, <1>7, <1>8, <1>9 DEF RequestStep

(* The steps of a burst's task. *)
LEMMA BurstTyped ==
  ASSUME TypeInv, NEW b \in Bursts, BurstCurated(b) \/ DecisionSent(b)
  PROVE  TypeInv'
<1>0. BurstShape(work[b]) /\ b \in Works
  BY DEF TypeInv, WorkInv, Works
<1>1. CASE BurstCurated(b)
  <2>1. PICK updates \in Decisions :
          /\ work' = [work EXCEPT ![b] = IF updates = <<>> THEN Ended ELSE [work[b] EXCEPT !.st = "decide"]]
          /\ decision' = [decision EXCEPT ![b] = updates]
          /\ UNCHANGED <<inbox, out, routerUp, store, learnt>>
    BY <1>1 DEF BurstCurated
  <2>2. updates \in Seq(Updates) /\ UNCHANGED <<collection, taken, points>>
    BY <2>1, ModelAssumption DEF store
  <2>3. BurstShape(IF updates = <<>> THEN Ended ELSE [work[b] EXCEPT !.st = "decide"])
    <3>1. BurstShape([work[b] EXCEPT !.st = "decide"])
      BY <1>0 DEF BurstShape
    <3>2. QED BY <3>1, Shapes
  <2>4. WorkInv'
    BY <2>1, <2>2, <2>3, BurstMoves DEF TypeInv
  <2>5. decision' \in [Bursts -> Seq(Updates)]
    BY <2>1, <2>2 DEF TypeInv, HistoryTyped
  <2>6. QED
    BY <2>1, <2>2, <2>4, <2>5 DEF TypeInv, ChannelsTyped, StoreTyped, HistoryTyped, learnt
<1>2. CASE DecisionSent(b)
  <2>1. /\ work' = [work EXCEPT ![b] = Ended] /\ Turn
        /\ out' = IF routerUp THEN Append(out, b) ELSE out
        /\ UNCHANGED <<inbox, routerUp, collection, taken, points, learnt, decision>>
    BY <1>2 DEF DecisionSent, store
  <2>2. WorkInv'
    BY <2>1, Shapes, BurstMoves DEF TypeInv
  <2>3. ChannelsTyped'
    BY <1>0, <2>1, SendTyped DEF TypeInv
  <2>4. QED
    BY <2>1, <2>2, <2>3 DEF TypeInv, StoreTyped, HistoryTyped, learnt
<1>3. QED BY <1>1, <1>2

(* The router with updates of a burst to apply. *)
LEMMA ApplyingShape ==
  ASSUME NEW todo \in Seq(Updates), NEW b \in Bursts
  PROVE  /\ RouterShape([Applying(todo) EXCEPT !.new = <<b>>])
         /\ [Applying(todo) EXCEPT !.new = <<b>>].st # "perform"
<1>1. <<b>> \in Seq(Bursts) /\ <<b>> # <<>> /\ <<>> \in Seq(Updates)
  OBVIOUS
<1>2. CASE todo = <<>>
  <2>1. [Applying(todo) EXCEPT !.new = <<b>>]
          = [st |-> "none", op |-> "search", todo |-> <<>>, new |-> <<b>>]
    BY <1>2 DEF Applying, Idle, Task
  <2>2. QED BY <1>1, <2>1 DEF RouterShape, Uses
<1>3. CASE todo # <<>>
  <2> DEFINE st == IF Head(todo).kind = "vector" THEN "ensure" ELSE "apply"
  <2>1. [Applying(todo) EXCEPT !.new = <<b>>]
          = [st |-> st, op |-> "upsert", todo |-> todo, new |-> <<b>>]
    BY <1>3 DEF Applying, Task
  <2>2. st \in {"ensure", "apply"} /\ (st = "ensure" <=> Head(todo).kind = "vector")
    OBVIOUS
  <2> HIDE DEF st
  <2>3. QED BY <1>1, <1>3, <2>1, <2>2 DEF RouterShape, Uses
<1>4. QED BY <1>2, <1>3

(* The router's own steps. *)
LEMMA RouterTyped ==
  ASSUME TypeInv, RouterTakes \/ UpdateApplied \/ UpdateFails \/ RouterStops
  PROVE  TypeInv'
<1>0. RouterShape(work[Router])
  BY DEF TypeInv, WorkInv
<1>1. ASSUME NEW w, RouterShape(w), w.st # "perform", work' = [work EXCEPT ![Router] = w],
             collection => collection'
      PROVE  WorkInv'
  BY <1>1, RouterMoves DEF TypeInv
<1>2. CASE RouterTakes
  <2> DEFINE t == Head(out)
             w == IF t \in Bursts THEN [Applying(decision[t]) EXCEPT !.new = <<t>>] ELSE Idle
  <2>1. /\ out # <<>> /\ out \in Seq(Works) /\ Len(out) \in Nat /\ Len(out) <= RouterCapacity
        /\ out' = Tail(out) /\ work' = [work EXCEPT ![Router] = w]
        /\ UNCHANGED <<inbox, routerUp, collection, taken, points, learnt, decision>>
    BY <1>2 DEF TypeInv, ChannelsTyped, RouterTakes, store
  <2>2. out' \in Seq(Works) /\ Len(out') = Len(out) - 1
    BY <2>1, HeadTailProperties
  <2>3. Len(out') <= RouterCapacity
    BY <2>1, <2>2, CapacityAssumption
  <2>4. RouterShape(w) /\ w.st # "perform"
    <3>1. CASE t \in Bursts
      <4>1. decision[t] \in Seq(Updates)
        BY <3>1 DEF TypeInv, HistoryTyped
      <4>2. QED BY <3>1, <4>1, ApplyingShape
    <3>2. CASE t \notin Bursts
      BY <3>2, Shapes
    <3>3. QED BY <3>1, <3>2
  <2> HIDE DEF w
  <2>5. WorkInv'
    BY <1>1, <2>1, <2>4
  <2>6. QED
    BY <2>1, <2>2, <2>3, <2>5 DEF TypeInv, ChannelsTyped, StoreTyped, HistoryTyped, learnt
<1>3. CASE UpdateApplied
  <2> DEFINE w == IF Len(work[Router].todo) = 1 THEN Idle
                  ELSE [Applying(Tail(work[Router].todo)) EXCEPT !.new = <<Source>>]
  <2>1. /\ work' = [work EXCEPT ![Router] = w] /\ UNCHANGED rest
        /\ work[Router].st \in {"perform", "apply"}
        /\ IF Head(work[Router].todo).kind = "vector" THEN Takes(Router) ELSE UNCHANGED store
    BY <1>3 DEF UpdateApplied
  <2>2. Tail(work[Router].todo) \in Seq(Updates) /\ Source \in Bursts
    BY <1>0, <2>1, SourceTyped
  <2>3. StoreStep(Router)
    BY <1>0, <2>1, WorkAssumption DEF RouterShape, StoreStep, Works
  <2>4. RouterShape(w) /\ w.st # "perform"
    <3>1. CASE Len(work[Router].todo) = 1
      BY <3>1, Shapes
    <3>2. CASE Len(work[Router].todo) # 1
      BY <2>2, <3>2, ApplyingShape
    <3>3. QED BY <3>1, <3>2
  <2> HIDE DEF w
  <2>5. StoreTyped' /\ (collection => collection')
    BY <2>3, StoreStepTyped
  <2>6. WorkInv'
    BY <1>1, <2>1, <2>4, <2>5
  <2>7. QED
    BY <2>1, <2>5, <2>6 DEF TypeInv, ChannelsTyped, HistoryTyped, rest, learnt
<1>4. CASE UpdateFails
  <2>1. work' = [work EXCEPT ![Router] = Idle] /\ UNCHANGED rest /\ StoreStep(Router)
    BY <1>4 DEF UpdateFails, StoreStep
  <2>2. StoreTyped' /\ (collection => collection')
    BY <2>1, StoreStepTyped
  <2>3. WorkInv'
    BY <1>1, <2>1, <2>2, Shapes
  <2>4. QED
    BY <2>1, <2>2, <2>3 DEF TypeInv, ChannelsTyped, HistoryTyped, rest, learnt
<1>5. CASE RouterStops
  <2>1. routerUp' = FALSE /\ out' = <<>> /\ UNCHANGED <<inbox, work, collection, taken, points, learnt, decision>>
    BY <1>5 DEF RouterStops, store
  <2>2. out' \in Seq(Works) /\ Len(out') <= RouterCapacity
    BY <2>1, CapacityAssumption
  <2>3. ChannelsTyped'
    BY <2>1, <2>2 DEF TypeInv, ChannelsTyped
  <2>4. QED
    BY <2>1, <2>3 DEF TypeInv, StoreTyped, HistoryTyped, WorkInv, learnt
<1>6. QED BY <1>2, <1>3, <1>4, <1>5

(* The steps there are, by whose they are. *)
LEMMA StepCases ==
  ASSUME WorkInv, DetectiveNext
  PROVE  \/ \E t \in Works : RouterSends(t)
         \/ TakeWork
         \/ \E p \in taken : PointApplied(p)
         \/ \E t \in Requests \cup {Router} : EnsureStep(t)
         \/ \E r \in Requests : RequestStep(r)
         \/ \E b \in Bursts : BurstCurated(b) \/ DecisionSent(b)
         \/ RouterTakes \/ UpdateApplied \/ UpdateFails \/ RouterStops
<1>1. ASSUME NEW t \in Works, EnsureStep(t)
      PROVE  t \in Requests
  BY <1>1, WhoIsAt DEF EnsureStep, CollectionThere, CollectionMissing, CollectionCreated
<1>2. ASSUME NEW t \in Works, RequestStep(t)
      PROVE  t \in Requests
  BY <1>2, WhoIsAt
  DEF RequestStep, Searched, ModelReports, ModelFails, ReportUnparsable, FactChecked, FactsTaken,
      StoreFails, ReportSent
<1>3. ASSUME NEW t \in Works, BurstCurated(t) \/ DecisionSent(t)
      PROVE  t \in Bursts
  BY <1>3, WhoIsAt DEF BurstCurated, DecisionSent
<1>4. ASSUME NEW t \in Works, TaskStep(t)
      PROVE  \/ t \in Requests /\ EnsureStep(t)
             \/ t \in Requests /\ RequestStep(t)
             \/ t \in Bursts /\ (BurstCurated(t) \/ DecisionSent(t))
  BY <1>1, <1>2, <1>3, <1>4 DEF TaskStep, EnsureStep, RequestStep
<1>5. RouterStep => EnsureStep(Router) \/ RouterTakes \/ UpdateApplied \/ UpdateFails
  BY DEF RouterStep, EnsureStep
<1>6. QED BY <1>4, <1>5 DEF DetectiveNext

(* The store applies a point it has taken. *)
LEMMA AppliedTyped ==
  ASSUME TypeInv, NEW p \in taken, PointApplied(p)
  PROVE  TypeInv'
<1>1. points' = points \cup {p} /\ UNCHANGED <<rest, work, collection, taken>>
  BY DEF PointApplied
<1>2. QED
  BY <1>1 DEF TypeInv, ChannelsTyped, StoreTyped, HistoryTyped, WorkInv, rest, learnt

LEMMA TypeStep ==
  ASSUME TypeInv, [DetectiveNext]_detVars
  PROVE  TypeInv'
<1>1. CASE UNCHANGED detVars
  BY <1>1 DEF detVars, TypeInv, ChannelsTyped, StoreTyped, HistoryTyped, WorkInv
<1>2. CASE DetectiveNext
  BY <1>2, StepCases, WorkArrives, AppliedTyped, EnsureTyped, RequestTyped, BurstTyped, RouterTyped
  DEF TypeInv
<1>3. QED BY <1>1, <1>2

(* The channels hold no more than their capacities and every task what it  *)
(* can hold; nothing is stored before the collection exists, whoever       *)
(* creates it (run, handle_request and handle_burst, actor.rs;             *)
(* ensure_collection, qdrant.rs).                                          *)
THEOREM TypeCorrect == DetectiveSpec => []TypeOK
<1>1. TypeInv => TypeOK
  BY TypeInvTypes
<1>2. QED BY <1>1, TypeInit, TypeStep, PTL DEF DetectiveSpec

-----------------------------------------------------------------------------
(* What is learnt.                                                         *)

(* What waits in the inbox has no task yet, and waits there once. *)
OnceInv ==
  /\ \A i \in DOMAIN inbox : work[inbox[i]] = Idle
  /\ \A i, j \in DOMAIN inbox : inbox[i] = inbox[j] => i = j

(* Two requests that are learning know of each other. *)
PairInv == \A r, q \in Requests : Learns(r) /\ Learns(q) /\ r # q => {r, q} \in overlap

(* What a request is to store and another's taken facts hold, the two      *)
(* learnt at the same time, or the request looked it up in vain.           *)
NewInv ==
  \A r \in Requests : Learns(r) =>
    \A p \in taken :
      p.by \in Requests /\ p.by # r /\ p.group = GroupOf[r] /\ p.fact \in Elements(work[r].new)
        => {p.by, r} \in overlap \/ Point(r, p.fact) \in blind

(* A reported fact is taken, or still to be looked up, or to be stored.    *)
LearntInv ==
  \A r \in Requests :
    /\ work[r].op = "search" /\ ~Reported(r) => report[r] = <<>>
    /\ Learns(r) => \A f \in Elements(report[r]) :
         Taken(r, f) \/ f \in Elements(work[r].todo) \/ f \in Elements(work[r].new)

(* DuplicateOnlyFromOverlap for what is taken, applied or not: applying a  *)
(* point then needs no argument.                                           *)
TwiceInv ==
  \A p, q \in {x \in taken : x.by \in Requests} :
    p.fact = q.fact /\ p.group = q.group /\ p.by # q.by =>
      {p.by, q.by} \in overlap \/ p \in blind \/ q \in blind

LearnInv == PairInv /\ NewInv /\ LearntInv /\ TwiceInv /\ TakenBeforeReported

(* What is taken stays taken. *)
LEMMA TakenForever ==
  ASSUME taken \subseteq taken', NEW r, NEW f, Taken(r, f)
  PROVE  Taken(r, f)'
  BY DEF Taken

(* A step that changes nothing a request learns: the store may take points *)
(* from others than requests.                                              *)
LEMMA NothingLearnt ==
  ASSUME LearnInv, UNCHANGED <<report, overlap>>, blind \subseteq blind', lost \subseteq lost',
         taken \subseteq taken', \A p \in taken' \ taken : p.by \notin Requests,
         \A r \in Requests :
           /\ work'[r].op = work[r].op
           /\ Learns(r) => work'[r].todo = work[r].todo /\ work'[r].new = work[r].new
           /\ Reported(r)' <=> Reported(r)
  PROVE  LearnInv'
<1>1. \A r \in Requests : Learns(r)' <=> Learns(r)
  BY DEF Learns
<1>2. PairInv'
  BY <1>1 DEF LearnInv, PairInv
<1>3. NewInv'
  BY <1>1 DEF LearnInv, NewInv
<1>4. LearntInv'
  BY <1>1, TakenForever DEF LearnInv, LearntInv
<1>5. TwiceInv'
  BY DEF LearnInv, TwiceInv
<1>6. TakenBeforeReported'
  BY TakenForever DEF LearnInv, TakenBeforeReported
<1>7. QED BY <1>2, <1>3, <1>4, <1>5, <1>6 DEF LearnInv

(* A step of a request: what has to hold of it, and of the taken it       *)
(* stores, for the others' sake and its own.                               *)
LEMMA RequestLearns ==
  ASSUME TypeInv, LearnInv, NEW r \in Requests, NEW w, work' = [work EXCEPT ![r] = w],
         overlap \subseteq overlap', blind \subseteq blind', lost \subseteq lost',
         taken \subseteq taken', \A p \in taken' \ taken : p.by = r,
         \A q \in Requests \ {r} : report'[q] = report[q],
         \A q \in Requests \ {r} : Learns(q) /\ Learns(r)' => {r, q} \in overlap' /\ {q, r} \in overlap',
         Learns(r)' =>
           \A p \in taken' :
             p.by \in Requests /\ p.by # r /\ p.group = GroupOf[r] /\ p.fact \in Elements(w.new)
               => {p.by, r} \in overlap' \/ Point(r, p.fact) \in blind',
         \A q \in Requests \ {r} : Learns(q) /\ taken' # taken => {r, q} \in overlap',
         w.op = "search" /\ ~Reported(r)' => report'[r] = <<>>,
         Learns(r)' => \A f \in Elements(report'[r]) :
           Taken(r, f)' \/ f \in Elements(w.todo) \/ f \in Elements(w.new),
         Reported(r)' /\ r \notin lost' => \A f \in Elements(report'[r]) : Taken(r, f)',
         \A p \in taken' \ taken, q \in taken :
           q.by \in Requests /\ q.by # r /\ p.fact = q.fact /\ p.group = q.group =>
             ({q.by, r} \in overlap' /\ {r, q.by} \in overlap') \/ p \in blind'
  PROVE  LearnInv'
<1>1. /\ work'[r] = w
      /\ \A q \in Requests \ {r} : work'[q] = work[q]
  BY OneTaskMoves DEF TypeInv, Works
<1>2. \A q \in Requests \ {r} : (Learns(q)' <=> Learns(q)) /\ (Reported(q)' <=> Reported(q))
  BY <1>1 DEF Learns, Reported
<1>3. PairInv'
  BY <1>2 DEF LearnInv, PairInv
<1>4. NewInv'
  <2>1. ASSUME NEW q \in Requests, Learns(q)', NEW p \in taken',
               p.by \in Requests, p.by # q, p.group = GroupOf[q], p.fact \in Elements(work'[q].new)
        PROVE  {p.by, q} \in overlap' \/ Point(q, p.fact) \in blind'
    <3>1. CASE q = r
      BY <1>1, <2>1, <3>1
    <3>2. CASE q # r /\ p \in taken
      BY <1>1, <1>2, <2>1, <3>2 DEF LearnInv, NewInv
    <3>3. CASE q # r /\ p \notin taken
      <4>1. p.by = r /\ taken' # taken
        BY <2>1, <3>3
      <4>2. QED BY <1>2, <2>1, <3>3, <4>1
    <3>4. QED BY <3>1, <3>2, <3>3
  <2>2. QED BY <2>1 DEF NewInv
<1>5. LearntInv'
  <2>1. ASSUME NEW q \in Requests \ {r}
        PROVE  /\ work'[q].op = "search" /\ ~Reported(q)' => report'[q] = <<>>
               /\ Learns(q)' => \A f \in Elements(report'[q]) :
                    Taken(q, f)' \/ f \in Elements(work'[q].todo) \/ f \in Elements(work'[q].new)
    BY <1>1, <1>2, TakenForever DEF LearnInv, LearntInv
  <2>2. QED BY <1>1, <2>1 DEF LearntInv
<1>6. TwiceInv'
  <2>1. ASSUME NEW p \in taken', NEW q \in taken', p.by \in Requests, q.by \in Requests,
               p.fact = q.fact, p.group = q.group, p.by # q.by
        PROVE  {p.by, q.by} \in overlap' \/ p \in blind' \/ q \in blind'
    <3>1. CASE p \in taken /\ q \in taken
      BY <2>1, <3>1 DEF LearnInv, TwiceInv
    <3>2. CASE p \notin taken /\ q \in taken
      BY <2>1, <3>2
    <3>3. CASE p \in taken /\ q \notin taken
      BY <2>1, <3>3
    <3>4. CASE p \notin taken /\ q \notin taken
      BY <2>1, <3>4
    <3>5. QED BY <3>1, <3>2, <3>3, <3>4
  <2>2. QED BY <2>1 DEF TwiceInv
<1>7. TakenBeforeReported'
  <2>1. ASSUME NEW q \in Requests \ {r}, Reported(q)', q \notin lost', NEW f \in Elements(report'[q])
        PROVE  Taken(q, f)'
    BY <1>2, <2>1, TakenForever DEF LearnInv, TakenBeforeReported
  <2>2. QED BY <2>1 DEF TakenBeforeReported
<1>8. QED BY <1>3, <1>4, <1>5, <1>6, <1>7 DEF LearnInv

(* The task of a request that searches or asks does not learn, and has no  *)
(* report.                                                                 *)
LEMMA NotLearningYet ==
  ASSUME TypeInv, LearnInv, NEW r \in Requests, work[r].op = "search", ~Reported(r)
  PROVE  ~Learns(r) /\ report[r] = <<>> /\ Elements(report[r]) = {}
  BY ElementsEmpty DEF LearnInv, LearntInv, Learns

(* A search that found something or failed, and an answer that is none:    *)
(* the request has nothing to learn. *)
LEMMA NothingToLearn ==
  ASSUME TypeInv, LearnInv, NEW r \in Requests, NEW w, work' = [work EXCEPT ![r] = w],
         work[r].op = "search", ~Reported(r), w.op = "search",
         UNCHANGED <<taken, report, overlap, blind, lost>>
  PROVE  LearnInv'
<1>1. ~Learns(r) /\ report[r] = <<>> /\ Elements(report[r]) = {}
  BY NotLearningYet
<1>2. ~Learns(r)'
  BY OneTaskMoves DEF TypeInv, Works, Learns
<1>3. QED BY <1>1, <1>2, RequestLearns

(* The model reports facts to a request: the others that learn are noted.  *)
LEMMA ReportLearns ==
  ASSUME TypeInv, LearnInv, NEW r \in Requests, ModelReports(r)
  PROVE  LearnInv'
<1>0. RequestShape(work[r]) /\ work[r].st = "asking"
  BY DEF TypeInv, WorkInv, ModelReports
<1>1. PICK facts \in Reports[r] :
        /\ work' = [work EXCEPT ![r] = Learning(facts, <<>>)]
        /\ report' = [report EXCEPT ![r] = facts]
        /\ overlap' = overlap \cup {{r, q} : q \in {q \in Requests : Learns(q)}}
        /\ UNCHANGED <<taken, blind, lost>>
  BY DEF ModelReports, store
<1>2. facts \in Seq(Facts)
  BY ModelAssumption
<1> DEFINE w == Learning(facts, <<>>)
<1>3. /\ facts # <<>> => w.op = "dedup" /\ w.st = "ensure" /\ w.todo = facts /\ w.new = <<>>
      /\ facts = <<>> => w.op = "search" /\ w.st = "report"
  BY <1>2, LearningBegins DEF Task
<1> HIDE DEF w
<1>4. work'[r] = w /\ work' = [work EXCEPT ![r] = w]
  BY <1>1, OneTaskMoves DEF TypeInv, Works, w
<1>5. /\ report'[r] = facts /\ \A q \in Requests \ {r} : report'[q] = report[q]
  BY <1>1 DEF TypeInv, HistoryTyped
<1>6. Learns(r)' => facts # <<>> /\ w.todo = facts /\ w.new = <<>>
  BY <1>3, <1>4 DEF Learns
<1>7. Reported(r)' => facts = <<>>
  BY <1>3, <1>4 DEF Reported
<1>8. \A q \in Requests \ {r} : Learns(q) /\ Learns(r)' => {r, q} \in overlap' /\ {q, r} \in overlap'
  <2>1. ASSUME NEW q \in Requests \ {r}, Learns(q)
        PROVE  {r, q} \in overlap'
    BY <1>1, <2>1
  <2>2. \A q : {r, q} = {q, r}
    OBVIOUS
  <2>3. QED BY <2>1, <2>2
<1>9. w.op = "search" => facts = <<>>
  BY <1>3
<1>10. Learns(r)' => Elements(w.new) = {} /\ Elements(w.todo) = Elements(facts)
  BY <1>6, ElementsEmpty
<1>11. Reported(r)' => Elements(report'[r]) = {}
  BY <1>5, <1>7, ElementsEmpty
<1>12. overlap \subseteq overlap'
  BY <1>1
<1>13. Learns(r)' => \A f \in Elements(report'[r]) :
           Taken(r, f)' \/ f \in Elements(w.todo) \/ f \in Elements(w.new)
  BY <1>5, <1>10
<1>14. Learns(r)' => \A p \in taken' : p.fact \notin Elements(w.new)
  BY <1>10
<1>15. w.op = "search" /\ ~Reported(r)' => report'[r] = <<>>
  BY <1>5, <1>9
<1>16. Reported(r)' => \A f \in Elements(report'[r]) : Taken(r, f)'
  BY <1>11
<1>17. QED
  BY <1>1, <1>4, <1>5, <1>8, <1>12, <1>13, <1>14, <1>15, <1>16, RequestLearns

(* A fact is looked up: it is found, and taken, or it is among those to be *)
(* stored; it is none that is taken, unless the look was in vain.          *)
LEMMA LookupLearns ==
  ASSUME TypeInv, LearnInv, NEW r \in Requests, work[r].op = "dedup",
         NEW new \in Seq(Facts), work' = [work EXCEPT ![r] = Learning(Tail(work[r].todo), new)],
         UNCHANGED <<taken, report, overlap, lost>>, blind \subseteq blind',
         Elements(work[r].new) \subseteq Elements(new),
         Taken(r, Head(work[r].todo)) \/ Head(work[r].todo) \in Elements(new),
         \A f \in Elements(new) :
           f \in Elements(work[r].new) \/ ~Taken(r, f) \/ Point(r, f) \in blind'
  PROVE  LearnInv'
<1> DEFINE w == Learning(Tail(work[r].todo), new)
<1>0. RequestShape(work[r]) /\ Learns(r)
  BY DEF TypeInv, WorkInv, Learns
<1>1. /\ Tail(work[r].todo) \in Seq(Facts)
      /\ Elements(work[r].todo) = {Head(work[r].todo)} \cup Elements(Tail(work[r].todo))
  BY <1>0, FactMoves
<1>2. /\ w.st \in {"ensure", "report"}
      /\ w.op = IF Tail(work[r].todo) # <<>> THEN "dedup" ELSE IF new # <<>> THEN "upsert" ELSE "search"
      /\ w.op \in {"dedup", "upsert"} => w.todo = Tail(work[r].todo) /\ w.new = new
      /\ w.op = "search" => Tail(work[r].todo) = <<>> /\ new = <<>> /\ w.st = "report"
  BY <1>1, LearningShape
<1> HIDE DEF w
<1>3. work'[r] = w /\ work' = [work EXCEPT ![r] = w]
  BY OneTaskMoves DEF TypeInv, Works, w
<1>4. \A f \in Elements(report[r]) :
        Taken(r, f) \/ f \in Elements(Tail(work[r].todo)) \/ f \in Elements(new)
  BY <1>0, <1>1 DEF LearnInv, LearntInv
<1>5. Learns(r)' => w.todo = Tail(work[r].todo) /\ w.new = new
  BY <1>2, <1>3 DEF Learns
<1>6. Reported(r)' => w.op = "search" /\ Tail(work[r].todo) = <<>> /\ new = <<>>
  <2>1. w.op \in {"dedup", "upsert"} => w.st = "ensure"
    BY DEF w, Learning, Task
  <2>2. QED BY <1>2, <1>3, <2>1 DEF Reported
<1>7. \A q \in Requests \ {r} : Learns(q) => {r, q} \in overlap' /\ {q, r} \in overlap'
  BY <1>0 DEF LearnInv, PairInv
<1>8. \A f : Taken(r, f)' <=> Taken(r, f)
  BY DEF Taken
<1>9. ASSUME Learns(r)', NEW p \in taken, p.by \in Requests, p.by # r,
             p.group = GroupOf[r], p.fact \in Elements(w.new)
      PROVE  {p.by, r} \in overlap' \/ Point(r, p.fact) \in blind'
  <2>1. Taken(r, p.fact) /\ p.fact \in Elements(new)
    BY <1>5, <1>9 DEF Taken
  <2>2. p.fact \in Elements(work[r].new) \/ Point(r, p.fact) \in blind'
    BY <2>1
  <2>3. QED BY <1>0, <1>9, <2>2 DEF LearnInv, NewInv
<1>10. w.op = "search" => Reported(r)'
  BY <1>2, <1>3 DEF Reported
<1>11. Learns(r)' => \A f \in Elements(report'[r]) :
           Taken(r, f)' \/ f \in Elements(w.todo) \/ f \in Elements(w.new)
  BY <1>4, <1>5, <1>8
<1>12. Reported(r)' => \A f \in Elements(report'[r]) : Taken(r, f)'
  BY <1>4, <1>6, <1>8, ElementsEmpty
<1>13. QED
  BY <1>3, <1>7, <1>9, <1>10, <1>11, <1>12, RequestLearns

(* The store takes the new facts, whatever the request is told: what was   *)
(* reported is taken. *)
LEMMA StoringLearns ==
  ASSUME TypeInv, LearnInv, NEW r \in Requests, work[r].op = "upsert", Takes(r),
         work' = [work EXCEPT ![r] = Learning(<<>>, <<>>)],
         UNCHANGED <<report, overlap, blind>>, lost \subseteq lost'
  PROVE  LearnInv'
<1> DEFINE w == Learning(<<>>, <<>>)
<1>0. /\ RequestShape(work[r]) /\ Learns(r) /\ work[r].op = "upsert" /\ work[r].todo = <<>>
      /\ work' = [work EXCEPT ![r] = w]
      /\ taken' = taken \cup {Point(r, f) : f \in Elements(work[r].new)}
  BY WorkAssumption DEF TypeInv, WorkInv, RequestShape, Learns, Takes, Upserted, Works
<1>1. w.op = "search" /\ w.st = "report"
  BY LearningEnds
<1> HIDE DEF w
<1>2. ~Learns(r)' /\ Reported(r)'
  BY <1>0, <1>1, OneTaskMoves DEF TypeInv, Works, Learns, Reported
<1>3. \A p \in taken' \ taken :
        /\ p.by = r /\ p.group = GroupOf[r] /\ p.fact \in Elements(work[r].new)
        /\ p = Point(r, p.fact)
  BY <1>0 DEF Point
<1>4. \A q \in Requests \ {r} : Learns(q) => {r, q} \in overlap /\ {q, r} \in overlap
  BY <1>0 DEF LearnInv, PairInv
<1>5. ASSUME NEW f \in Elements(report[r])
      PROVE  Taken(r, f)'
  <2>1. CASE Taken(r, f)
    BY <1>0, <2>1, TakenForever
  <2>2. CASE f \in Elements(work[r].new)
    <3>1. Point(r, f) \in taken' /\ Point(r, f).fact = f /\ Point(r, f).group = GroupOf[r]
      BY <1>0, <2>2 DEF Point
    <3>2. QED BY <3>1 DEF Taken
  <2>3. QED BY <1>0, <2>1, <2>2, ElementsEmpty DEF LearnInv, LearntInv
<1>6. ASSUME NEW p \in taken' \ taken, NEW q \in taken, p \notin blind,
             q.by \in Requests, q.by # r, p.fact = q.fact, p.group = q.group
      PROVE  {q.by, r} \in overlap' /\ {r, q.by} \in overlap'
  <2>1. {q.by, r} \in overlap'
    BY <1>0, <1>3, <1>6 DEF LearnInv, NewInv
  <2>2. {r, q.by} = {q.by, r}
    OBVIOUS
  <2>3. QED BY <2>1, <2>2
<1>7. /\ taken \subseteq taken' /\ \A p \in taken' \ taken : p.by = r
      /\ overlap \subseteq overlap' /\ blind \subseteq blind' /\ lost \subseteq lost'
      /\ \A q \in Requests \ {r} : report'[q] = report[q]
  BY <1>0, <1>3
<1>8. \A q \in Requests \ {r} : Learns(q) /\ taken' # taken => {r, q} \in overlap'
  BY <1>0, <1>4
<1>9. \A p \in taken' \ taken, q \in taken :
        q.by \in Requests /\ q.by # r /\ p.fact = q.fact /\ p.group = q.group =>
          ({q.by, r} \in overlap' /\ {r, q.by} \in overlap') \/ p \in blind'
  BY <1>0, <1>6
<1>10. \A f \in Elements(report'[r]) : Taken(r, f)'
  BY <1>0, <1>5
<1>11. QED
  BY <1>0, <1>2, <1>7, <1>8, <1>9, <1>10, RequestLearns

(* The new facts cannot be stored: they are lost. *)
LEMMA LosingLearns ==
  ASSUME TypeInv, LearnInv, NEW r \in Requests, work[r].op = "upsert",
         work' = [work EXCEPT ![r] = Learning(<<>>, <<>>)], lost' = lost \cup {r},
         UNCHANGED <<taken, report, overlap, blind>>
  PROVE  LearnInv'
<1> DEFINE w == Learning(<<>>, <<>>)
<1>1. w.op = "search" /\ w.st = "report"
  BY LearningEnds
<1> HIDE DEF w
<1>2. work' = [work EXCEPT ![r] = w]
  BY DEF w
<1>3. ~Learns(r)' /\ Reported(r)'
  BY <1>1, <1>2, OneTaskMoves DEF TypeInv, Works, Learns, Reported
<1>4. QED BY <1>2, <1>3, RequestLearns

(* Every step of a request's task. *)
LEMMA RequestStepLearns ==
  ASSUME TypeInv, LearnInv, NEW r \in Requests, RequestStep(r)
  PROVE  LearnInv'
<1>0. /\ RequestShape(work[r]) /\ work[r].new \in Seq(Facts) /\ work[r].op \in Uses
  BY DEF TypeInv, WorkInv, RequestShape
<1>1. CASE Searched(r)
  <2>1. /\ work' = [work EXCEPT ![r] = Asking] /\ work[r].op = "search" /\ ~Reported(r)
        /\ UNCHANGED <<taken, report, overlap, blind, lost>>
    BY <1>1 DEF Searched, store, rest, learnt, Reported
  <2>2. QED BY <2>1, Shapes, NothingToLearn
<1>2. CASE ModelReports(r)
  BY <1>2, ReportLearns
<1>3. CASE ModelFails(r)
  <2>1. /\ work' = [work EXCEPT ![r] = Learning(<<>>, <<>>)] /\ work[r].op = "search" /\ ~Reported(r)
        /\ UNCHANGED <<taken, report, overlap, blind, lost>>
    BY <1>0, <1>3 DEF ModelFails, store, rest, learnt, Reported, RequestShape
  <2>2. QED BY <2>1, LearningEnds, NothingToLearn
<1>4. CASE ReportUnparsable(r)
  <2>1. /\ work' = [work EXCEPT ![r] = Ended] /\ work[r].op = "search" /\ ~Reported(r)
        /\ UNCHANGED <<taken, report, overlap, blind, lost>>
    BY <1>0, <1>4 DEF ReportUnparsable, store, rest, learnt, Reported, RequestShape
  <2>2. QED BY <2>1, Shapes, NothingToLearn
<1>5. CASE FactChecked(r)
  <2> DEFINE f == Head(work[r].todo)
             new == IF AlreadyKnown(r, f) THEN work[r].new ELSE Append(work[r].new, f)
  <2>1. /\ work' = [work EXCEPT ![r] = Learning(Tail(work[r].todo), new)] /\ work[r].op = "dedup"
        /\ blind' = IF Taken(r, f) /\ ~Known(r, f) THEN blind \cup {Point(r, f)} ELSE blind
        /\ UNCHANGED <<taken, report, overlap, lost>>
    BY <1>5 DEF FactChecked, store
  <2>2. /\ Append(work[r].new, f) \in Seq(Facts)
        /\ Elements(Append(work[r].new, f)) = Elements(work[r].new) \cup {f}
    BY <1>0, <2>1, FactMoves
  <2>3. /\ new \in Seq(Facts) /\ Elements(work[r].new) \subseteq Elements(new)
        /\ Taken(r, f) \/ f \in Elements(new)
        /\ \A g \in Elements(new) :
             g \in Elements(work[r].new) \/ ~Taken(r, g) \/ Point(r, g) \in blind'
    <3>1. CASE Known(r, f)
      <4>1. new = work[r].new
        BY <3>1 DEF AlreadyKnown
      <4>2. Taken(r, f)
        BY <3>1 DEF Known, Taken, TypeInv, StoreTyped
      <4>3. QED BY <1>0, <4>1, <4>2
    <3>2. CASE ~Known(r, f)
      <4>1. new = Append(work[r].new, f)
        BY <3>2 DEF AlreadyKnown
      <4>2. ~Taken(r, f) \/ Point(r, f) \in blind'
        BY <2>1, <3>2
      <4>3. QED BY <2>2, <4>1, <4>2
    <3>3. QED BY <3>1, <3>2
  <2>4. blind \subseteq blind'
    BY <2>1
  <2> HIDE DEF new
  <2>5. QED BY <2>1, <2>3, <2>4, LookupLearns
<1>6. CASE FactsTaken(r)
  <2>1. /\ work[r].op = "upsert" /\ Takes(r) /\ work' = [work EXCEPT ![r] = Learning(<<>>, <<>>)]
        /\ UNCHANGED <<report, overlap, blind, lost>>
    BY <1>6 DEF FactsTaken, rest, learnt
  <2>2. QED BY <2>1, StoringLearns
<1>7. CASE StoreFails(r)
  <2>0. /\ UNCHANGED <<report, overlap>> /\ ~Reported(r)
        /\ work[r].st \in {"ensure", "create", "perform"}
        /\ UNCHANGED taken \/ (work[r].op = "upsert" /\ Takes(r))
    BY <1>7 DEF StoreFails, AnswerLost, Creates, store, Reported
  <2>1. CASE work[r].op = "search"
    <3>1. work' = [work EXCEPT ![r] = Asking] /\ UNCHANGED <<blind, lost>>
      BY <1>7, <2>1 DEF StoreFails
    <3>2. UNCHANGED taken
      BY <2>0, <2>1
    <3>3. QED BY <2>0, <2>1, <3>1, <3>2, Shapes, NothingToLearn
  <2>2. CASE work[r].op = "dedup"
    <3> DEFINE new == Append(work[r].new, Head(work[r].todo))
    <3>1. /\ work' = [work EXCEPT ![r] = Learning(Tail(work[r].todo), new)]
          /\ blind' = blind \cup {Point(r, Head(work[r].todo))} /\ lost' = lost
          /\ UNCHANGED taken
      BY <1>7, <2>0, <2>2 DEF StoreFails
    <3>2. new \in Seq(Facts) /\ Elements(new) = Elements(work[r].new) \cup {Head(work[r].todo)}
      BY <1>0, <2>2, FactMoves
    <3> HIDE DEF new
    <3>3. QED BY <2>0, <2>2, <3>1, <3>2, LookupLearns
  <2>3. CASE work[r].op = "upsert"
    <3>1. work' = [work EXCEPT ![r] = Learning(<<>>, <<>>)] /\ lost' = lost \cup {r} /\ blind' = blind
      BY <1>7, <2>3 DEF StoreFails
    <3>2. CASE UNCHANGED taken
      BY <2>0, <2>3, <3>1, <3>2, LosingLearns
    <3>3. CASE Takes(r)
      BY <2>0, <2>3, <3>1, <3>3, StoringLearns
    <3>4. QED BY <2>0, <3>2, <3>3
  <2>4. QED BY <1>0, <2>1, <2>2, <2>3 DEF Uses
<1>8. CASE ReportSent(r)
  <2>1. /\ work' = [work EXCEPT ![r] = Ended] /\ work[r].st = "report"
        /\ UNCHANGED <<taken, report, overlap, blind, lost>>
    BY <1>8 DEF ReportSent, store, learnt
  <2>2. work[r].op = "search"
    BY <1>0, <2>1 DEF RequestShape
  <2>3. /\ work'[r] = Ended /\ \A q \in Requests \ {r} : work'[q] = work[q]
    BY <2>1, OneTaskMoves DEF TypeInv, Works
  <2>4. Reported(r) /\ Reported(r)' /\ ~Learns(r) /\ work'[r].op = "search"
    BY <2>1, <2>2, <2>3, Shapes DEF Reported, Learns
  <2>5. \A q \in Requests : /\ work'[q].op = work[q].op
                            /\ Learns(q) => work'[q].todo = work[q].todo /\ work'[q].new = work[q].new
                            /\ Reported(q)' <=> Reported(q)
    BY <2>2, <2>3, <2>4 DEF Reported
  <2>6. QED BY <2>1, <2>5, NothingLearnt
<1>9. QED
  BY <1>1, <1>2, <1>3, <1>4, <1>5, <1>6, <1>7, <1>8 DEF RequestStep

(* A step that leaves the inbox alone, and the tasks that have not begun. *)
LEMMA OnceKept ==
  ASSUME TypeInv, OnceInv, inbox' = inbox, \A t \in Works : work[t] = Idle => work'[t] = Idle
  PROVE  OnceInv'
<1>1. \A i \in DOMAIN inbox : inbox[i] \in Works
  BY DEF TypeInv, ChannelsTyped
<1>2. QED BY <1>1 DEF OnceInv

(* One task moves that has begun, or the router. *)
LEMMA OnceWhileRunning ==
  ASSUME TypeInv, OnceInv, inbox' = inbox, NEW t \in Works \cup {Router}, NEW w,
         work' = [work EXCEPT ![t] = w], t = Router \/ work[t].st # "none"
  PROVE  OnceInv'
<1>1. \A u \in (Works \cup {Router}) \ {t} : work'[u] = work[u]
  BY OneTaskMoves DEF TypeInv
<1>2. \A u \in Works : work[u] = Idle => u # t
  BY WorkAssumption, Shapes
<1>3. QED BY <1>1, <1>2, OnceKept

LEMMA OnceStep ==
  ASSUME TypeInv, OnceInv, [DetectiveNext]_detVars
  PROVE  OnceInv'
<1>0. WorkInv /\ inbox \in Seq(Works)
  BY DEF TypeInv, ChannelsTyped
<1>1. CASE UNCHANGED detVars
  BY <1>1 DEF detVars, OnceInv
<1>2. ASSUME NEW t \in Works, RouterSends(t)
      PROVE  OnceInv'
  <2>0. PICK n \in Nat : n = Len(inbox)
    BY <1>0
  <2>1. /\ DOMAIN inbox = 1 .. n /\ DOMAIN inbox' = 1 .. n + 1
        /\ \A i \in 1 .. n : inbox'[i] = inbox[i]
        /\ inbox'[n + 1] = t /\ work' = work
    BY <1>0, <1>2, <2>0, AppendProperties DEF RouterSends
  <2>2. work[t] = Idle /\ \A i \in 1 .. n : inbox[i] # t
    BY <1>2, <2>1 DEF RouterSends, Requested, Elements
  <2>3. QED BY <2>1, <2>2 DEF OnceInv
<1>3. CASE TakeWork
  <2> DEFINE w == IF Head(inbox) \in Requests THEN Task("ensure", "search", <<>>, <<>>)
                  ELSE Task("asking", "search", <<>>, <<>>)
  <2>1. inbox # <<>> /\ inbox' = Tail(inbox) /\ work' = [work EXCEPT ![Head(inbox)] = w]
    BY <1>3 DEF TakeWork
  <2> HIDE DEF w
  <2>2. /\ Len(inbox) \in Nat \ {0} /\ DOMAIN inbox = 1 .. Len(inbox) /\ Head(inbox) = inbox[1]
        /\ DOMAIN inbox' = 1 .. Len(inbox) - 1 /\ \A i \in DOMAIN inbox' : inbox'[i] = inbox[i + 1]
        /\ Head(inbox) \in Works
    BY <1>0, <2>1, HeadTailProperties, EmptySeq
  <2>3. \A i \in DOMAIN inbox' : i + 1 \in DOMAIN inbox /\ i + 1 # 1
    BY <2>2
  <2>4. \A t \in Works \ {Head(inbox)} : work'[t] = work[t]
    BY <1>0, <2>1, <2>2, OneTaskMoves
  <2>5. \A i \in DOMAIN inbox : inbox[i] \in Works
    BY <1>0
  <2>6. \A i \in DOMAIN inbox' : inbox'[i] # Head(inbox) /\ inbox'[i] \in Works
    BY <2>2, <2>3, <2>5 DEF OnceInv
  <2>7. \A i, j \in DOMAIN inbox' : inbox'[i] = inbox'[j] => i = j
    <3>1. ASSUME NEW i \in DOMAIN inbox', NEW j \in DOMAIN inbox', inbox'[i] = inbox'[j]
          PROVE  i = j
      <4>1. i + 1 = j + 1
        BY <2>2, <2>3, <3>1 DEF OnceInv
      <4>2. QED BY <2>2, <4>1
    <3>2. QED BY <3>1
  <2>8. \A i \in DOMAIN inbox' : work'[inbox'[i]] = Idle
    BY <2>2, <2>3, <2>4, <2>6 DEF OnceInv
  <2>9. QED BY <2>7, <2>8 DEF OnceInv
<1>4. ASSUME NEW t \in Requests \cup {Router}, EnsureStep(t)
      PROVE  OnceInv'
  <2>1. /\ UNCHANGED rest /\ work[t].st \in {"ensure", "create"}
        /\ \E st \in {"create", "perform"} : work' = [work EXCEPT ![t].st = st]
    BY <1>4, EnsureTyped
  <2>2. t \in Works \cup {Router} /\ inbox' = inbox
    BY <2>1 DEF Works, rest
  <2>3. QED BY <2>1, <2>2, OnceWhileRunning
<1>5. ASSUME NEW r \in Requests, RequestStep(r)
      PROVE  OnceInv'
  <2>1. r \in Works \cup {Router} /\ inbox' = inbox /\ work[r].st # "none"
    BY <1>5 DEF Works, RequestStep, Searched, ModelReports, ModelFails, ReportUnparsable,
                FactChecked, FactsTaken, StoreFails, ReportSent, rest
  <2>2. \E w : work' = [work EXCEPT ![r] = w]
    BY <1>5 DEF RequestStep, Searched, ModelReports, ModelFails, ReportUnparsable,
                FactChecked, FactsTaken, StoreFails, ReportSent
  <2>3. QED BY <2>1, <2>2, OnceWhileRunning
<1>6. ASSUME NEW b \in Bursts, BurstCurated(b) \/ DecisionSent(b)
      PROVE  OnceInv'
  <2>1. b \in Works \cup {Router} /\ inbox' = inbox /\ work[b].st # "none"
    BY <1>6 DEF Works, BurstCurated, DecisionSent
  <2>2. \E w : work' = [work EXCEPT ![b] = w]
    BY <1>6 DEF BurstCurated, DecisionSent
  <2>3. QED BY <2>1, <2>2, OnceWhileRunning
<1>7. CASE RouterTakes \/ UpdateApplied \/ UpdateFails
  <2>1. inbox' = inbox
    BY <1>7 DEF RouterTakes, UpdateApplied, UpdateFails, rest
  <2>2. \E w : work' = [work EXCEPT ![Router] = w]
    BY <1>7 DEF RouterTakes, UpdateApplied, UpdateFails
  <2>3. QED BY <2>1, <2>2, OnceWhileRunning
<1>8. CASE RouterStops \/ \E p \in taken : PointApplied(p)
  BY <1>8 DEF RouterStops, PointApplied, OnceInv, rest
<1>9. QED
  BY <1>0, <1>1, <1>2, <1>3, <1>4, <1>5, <1>6, <1>7, <1>8, StepCases

(* Every step keeps what is said about learning. *)
LEMMA LearnStep ==
  ASSUME TypeInv, OnceInv, LearnInv, [DetectiveNext]_detVars
  PROVE  LearnInv'
<1>0. WorkInv /\ inbox \in Seq(Works)
  BY DEF TypeInv, ChannelsTyped
<1>1. ASSUME UNCHANGED <<taken, report, overlap, blind, lost>>,
             NEW t \in Works \cup {Router}, NEW w, work' = [work EXCEPT ![t] = w],
             t \in Requests => /\ w.op = work[t].op /\ w.todo = work[t].todo /\ w.new = work[t].new
                               /\ w.st \in {"report", "done"} <=> Reported(t)
      PROVE  LearnInv'
  <2>1. work'[t] = w /\ \A u \in (Works \cup {Router}) \ {t} : work'[u] = work[u]
    BY <1>0, <1>1, OneTaskMoves
  <2>2. \A r \in Requests :
          /\ work'[r].op = work[r].op /\ work'[r].todo = work[r].todo /\ work'[r].new = work[r].new
          /\ Reported(r)' <=> Reported(r)
    BY <1>1, <2>1 DEF Works, Reported
  <2>3. QED BY <1>1, <2>2, NothingLearnt
<1>2. CASE UNCHANGED <<work, taken, report, overlap, blind, lost>>
  BY <1>2, NothingLearnt DEF Reported
<1>3. CASE \/ UNCHANGED detVars \/ RouterStops \/ \E t \in Works : RouterSends(t)
           \/ \E p \in taken : PointApplied(p)
  BY <1>2, <1>3 DEF detVars, RouterStops, RouterSends, PointApplied, rest, store, learnt
<1>4. CASE TakeWork
  <2> DEFINE t == Head(inbox)
             w == IF t \in Requests THEN Task("ensure", "search", <<>>, <<>>)
                  ELSE Task("asking", "search", <<>>, <<>>)
  <2>1. /\ inbox # <<>> /\ work' = [work EXCEPT ![t] = w]
        /\ UNCHANGED <<taken, report, overlap, blind, lost>>
    BY <1>4 DEF TakeWork, store, learnt
  <2>2. t \in Works /\ t = inbox[1] /\ 1 \in DOMAIN inbox
    BY <1>0, <2>1, HeadTailProperties, EmptySeq
  <2>3. work[t] = Idle
    BY <2>2 DEF OnceInv
  <2>4. t \in Requests => /\ w.op = work[t].op /\ w.todo = work[t].todo /\ w.new = work[t].new
                          /\ w.st \in {"report", "done"} <=> Reported(t)
    BY <2>3 DEF Idle, Task, Reported
  <2> HIDE DEF w, t
  <2>5. QED BY <1>1, <2>1, <2>2, <2>4
<1>5. ASSUME NEW t \in Requests \cup {Router}, EnsureStep(t)
      PROVE  LearnInv'
  <2>1. /\ UNCHANGED <<rest, taken>> /\ work[t].st \in {"ensure", "create"}
    BY <1>5, EnsureTyped
  <2>2. PICK st \in {"create", "perform"} : work' = [work EXCEPT ![t].st = st]
    BY <1>5, EnsureTyped
  <2> DEFINE w == [work[t] EXCEPT !.st = st]
  <2>3. t \in Requests => /\ w.op = work[t].op /\ w.todo = work[t].todo /\ w.new = work[t].new
                          /\ w.st \in {"report", "done"} <=> Reported(t)
    BY <1>0, <2>1 DEF WorkInv, RequestShape, Reported
  <2>4. work' = [work EXCEPT ![t] = w] /\ t \in Works \cup {Router}
    BY <2>2 DEF Works
  <2>5. UNCHANGED <<taken, report, overlap, blind, lost>>
    BY <2>1 DEF rest, learnt
  <2> HIDE DEF w
  <2>6. QED BY <1>1, <2>3, <2>4, <2>5
<1>6. ASSUME NEW r \in Requests, RequestStep(r)
      PROVE  LearnInv'
  BY <1>6, RequestStepLearns
<1>7. ASSUME NEW b \in Bursts, BurstCurated(b) \/ DecisionSent(b)
      PROVE  LearnInv'
  <2>1. b \in Works \cup {Router} /\ b \notin Requests
    BY WorkAssumption DEF Works
  <2>2. UNCHANGED <<taken, report, overlap, blind, lost>> /\ \E w : work' = [work EXCEPT ![b] = w]
    BY <1>7 DEF BurstCurated, DecisionSent, store, learnt
  <2>3. QED BY <1>1, <2>1, <2>2
<1>8. CASE RouterTakes \/ UpdateApplied \/ UpdateFails
  <2>1. /\ UNCHANGED <<report, overlap, blind, lost>>
        /\ \E w : work' = [work EXCEPT ![Router] = w]
        /\ UNCHANGED taken \/ (work[Router].st = "perform" /\ Takes(Router))
    <3>1. CASE RouterTakes
      BY <3>1 DEF RouterTakes, store, learnt
    <3>2. CASE UpdateApplied
      BY <1>0, <3>2 DEF UpdateApplied, WorkInv, RouterShape, store, learnt, rest
    <3>3. CASE UpdateFails
      BY <3>3 DEF UpdateFails, AnswerLost, Creates, store, learnt, rest
    <3>4. QED BY <1>8, <3>1, <3>2, <3>3
  <2>2. taken \subseteq taken' /\ \A p \in taken' \ taken : p.by \notin Requests
    <3>1. CASE UNCHANGED taken
      BY <3>1
    <3>2. CASE work[Router].st = "perform" /\ Takes(Router)
      <4>1. Source \in Bursts
        BY <1>0, <3>2, SourceTyped DEF WorkInv
      <4>2. QED BY <3>2, <4>1, WorkAssumption DEF Takes, Upserted, Point
    <3>3. QED BY <2>1, <3>1, <3>2
  <2>3. \A r \in Requests : work'[r] = work[r]
    BY <1>0, <2>1, OneTaskMoves, WorkAssumption DEF Works
  <2>4. QED BY <2>1, <2>2, <2>3, NothingLearnt DEF Reported
<1>9. QED
  BY <1>0, <1>3, <1>4, <1>5, <1>6, <1>7, <1>8, StepCases

LEMMA LearnInit ==
  ASSUME DetectiveInit
  PROVE  OnceInv /\ LearnInv
<1>1. /\ inbox = <<>> /\ taken = {} /\ report = [r \in Requests |-> <<>>]
      /\ work = [t \in Works \cup {Router} |-> Idle]
  BY DEF DetectiveInit
<1>2. \A r \in Requests : ~Learns(r) /\ ~Reported(r) /\ report[r] = <<>>
  BY <1>1, Shapes DEF Learns, Reported, Works
<1>3. OnceInv
  BY <1>1 DEF OnceInv
<1>4. PairInv /\ NewInv /\ LearntInv
  BY <1>2 DEF PairInv, NewInv, LearntInv
<1>5. TwiceInv /\ TakenBeforeReported
  BY <1>1, <1>2 DEF TwiceInv, TakenBeforeReported
<1>6. QED BY <1>3, <1>4, <1>5 DEF LearnInv

(* Whenever the store applies what it took, and whatever becomes of its    *)
(* answers, two requests have stored the same fact of a group only if they *)
(* learnt at the same time, or one of them looked it up in vain: its       *)
(* search failed, or came before the store had applied what it had taken   *)
(* (persist_facts, actor.rs; upsert_points, qdrant.rs).                    *)
THEOREM NothingLearntTwice == DetectiveSpec => []DuplicateOnlyFromOverlap
<1>1. TypeInv /\ LearnInv => DuplicateOnlyFromOverlap
  BY DEF TypeInv, StoreTyped, LearnInv, TwiceInv, DuplicateOnlyFromOverlap
<1>2. QED BY <1>1, TypeInit, TypeStep, LearnInit, OnceStep, LearnStep, PTL DEF DetectiveSpec

(* When a report goes out the store has taken all its facts, or the        *)
(* request was told that they could not be stored (persist_facts and       *)
(* handle_request, actor.rs).  It says nothing of whether they are applied.*)
THEOREM ReportsAreTaken == DetectiveSpec => []TakenBeforeReported
<1>1. LearnInv => TakenBeforeReported
  BY DEF LearnInv
<1>2. QED BY <1>1, TypeInit, TypeStep, LearnInit, OnceStep, LearnStep, PTL DEF DetectiveSpec
=============================================================================
