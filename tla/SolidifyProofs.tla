--------------------------- MODULE SolidifyProofs ---------------------------
(* Theorems about Solidify.tla for every buffer limit, every number of     *)
(* jobs and every number of reports.                                       *)
EXTENDS Solidify, SequenceTheorems, FiniteSetTheorems, TLAPS

(* What restore puts back: a prefix of what the job took. *)
LEMMA PrefixType ==
  ASSUME NEW S, NEW s \in Seq(S), NEW k \in 0 .. Len(s)
  PROVE  SubSeq(s, 1, k) \in Seq(S) /\ Len(SubSeq(s, 1, k)) = k
<1>1. \A i \in 1 .. k : s[i] \in S
  BY LenProperties, ElementOfSeq
<1>2. QED
  BY <1>1, SubSeqProperties, LenProperties

(* Taking the head of a channel leaves a channel within its capacity. *)
LEMMA Dequeued ==
  ASSUME NEW S, NEW q \in Seq(S), q # <<>>, NEW c \in Nat, Len(q) <= c
  PROVE  Head(q) \in S /\ Tail(q) \in Seq(S) /\ Len(Tail(q)) <= c
  BY HeadTailProperties, LenProperties

(* The elements of a sequence of reports are reports. *)
LEMMA ElementsType ==
  ASSUME NEW s \in Seq(Reports)
  PROVE  Elements(s) \subseteq Reports
  BY ElementOfSeq DEF Elements

LEMMA ElementsOfEmpty == Elements(<<>>) = {}
<1>1. Len(<<>>) = 0
  OBVIOUS
<1>2. QED
  BY <1>1 DEF Elements

(* The number of reports a restore keeps, and the buffer it leaves: it is  *)
(* full or holds everything that was taken.                                *)
LEMMA RestoreFits ==
  ASSUME NEW j \in Jobs, TypeOK, BufferWithinLimit, RestoreBuffer(j)
  PROVE  /\ buffer' \in Seq(Reports)
         /\ Len(buffer') <= Limit
         /\ gone' \subseteq Reports
         /\ gone' # gone => Len(buffer') = Limit
<1>. DEFINE n == Len(taken[j])
            kept == IF n < Remaining THEN n ELSE Remaining
<1>1. /\ buffer \in Seq(Reports) /\ taken[j] \in Seq(Reports)
      /\ Len(buffer) \in Nat /\ n \in Nat
  BY LenProperties DEF TypeOK
<1>2. kept \in 0 .. n /\ kept <= Limit - Len(buffer)
  BY <1>1, LimitAssumption DEF Remaining, BufferWithinLimit
<1>3. /\ buffer' = buffer \o SubSeq(taken[j], 1, kept)
      /\ gone' = gone \cup Elements(SubSeq(taken[j], kept + 1, n))
  BY DEF RestoreBuffer
<1>. HIDE DEF kept
<1>4. SubSeq(taken[j], 1, kept) \in Seq(Reports) /\ Len(SubSeq(taken[j], 1, kept)) = kept
  BY <1>1, <1>2, PrefixType
<1>5. buffer' \in Seq(Reports) /\ Len(buffer') = Len(buffer) + kept
  BY <1>1, <1>3, <1>4, ConcatProperties
<1>6. SubSeq(taken[j], kept + 1, n) \in Seq(Reports)
  <2>1. \A i \in kept + 1 .. n : taken[j][i] \in Reports
    BY <1>1, <1>2, ElementOfSeq
  <2>2. QED
    BY <1>1, <1>2, <2>1, SubSeqProperties
<1>7. gone' # gone => Len(buffer') = Limit
  <2>1. CASE kept = n
    <3>1. SubSeq(taken[j], kept + 1, n) = <<>>
      BY <1>1, <2>1, SubSeqEmpty
    <3>2. Elements(SubSeq(taken[j], kept + 1, n)) = {}
      BY <3>1, ElementsOfEmpty
    <3>3. QED
      BY <1>3, <3>2
  <2>2. CASE kept # n
    BY <1>1, <1>2, <1>5, <2>2, LimitAssumption DEF kept, Remaining
  <2>3. QED
    BY <2>1, <2>2
<1>8. QED
  <2>1. Elements(SubSeq(taken[j], kept + 1, n)) \subseteq Reports
    BY <1>6, ElementsType
  <2>2. gone' \subseteq Reports
    BY <1>3, <2>1 DEF TypeOK
  <2>3. Len(buffer') <= Limit
    BY <1>1, <1>2, <1>5, LimitAssumption
  <2>4. QED
    BY <1>5, <1>7, <2>2, <2>3

-----------------------------------------------------------------------------
(* Every reachable state is well typed and the buffer is within its limit; *)
(* each needs the other.                                                   *)
LEMMA Invariant == Spec => [](TypeOK /\ BufferWithinLimit)
<1>. USE LimitAssumption, BoundAssumption, CapacityAssumption
<1>1. Init => TypeOK /\ BufferWithinLimit
  <2> SUFFICES ASSUME Init PROVE TypeOK /\ BufferWithinLimit
    OBVIOUS
  <2>1. <<>> \in Seq(Reports) /\ <<>> \in Seq(SUBSET Reports) /\ Len(<<>>) = 0
    BY EmptySeq
  <2>2. /\ received \in 0 .. MaxReports
        /\ step \in [Jobs -> Steps]
        /\ taken \in [Jobs -> Seq(Reports)]
        /\ summary \in [Jobs -> SUBSET Reports]
        /\ written \in [Reports -> Nat]
    BY <2>1 DEF Init, Steps
  <2>3. /\ buffer \in Seq(Reports) /\ Len(buffer) <= Limit
        /\ out \in Seq(SUBSET Reports) /\ Len(out) <= OutCapacity
        /\ toCouncil \in Seq(SUBSET Reports) /\ Len(toCouncil) <= InCapacity
    BY <2>1 DEF Init
  <2>4. QED
    BY <2>2, <2>3 DEF Init, TypeOK, BufferWithinLimit
<1>2. TypeOK /\ BufferWithinLimit /\ [Next]_vars => (TypeOK /\ BufferWithinLimit)'
  <2> SUFFICES ASSUME TypeOK, BufferWithinLimit, [Next]_vars
               PROVE  TypeOK' /\ BufferWithinLimit'
    OBVIOUS
  <2>. USE DEF TypeOK, BufferWithinLimit
  <2>0. \A j \in Jobs : Elements(taken[j]) \subseteq Reports
    BY ElementsType
  <2>1. CASE ReceiveReport
    <3>1. /\ received' \in Reports /\ received' \in 0 .. MaxReports
          /\ Len(buffer) \in Nat
      BY <2>1, LenProperties DEF ReceiveReport, Reports
    <3>2. CASE Len(buffer) < Limit
      <4>1. buffer' = Append(buffer, received') /\ gone' = gone
        BY <2>1, <3>2 DEF ReceiveReport
      <4>2. buffer' \in Seq(Reports) /\ Len(buffer') = Len(buffer) + 1
        BY <3>1, <4>1, AppendProperties
      <4>3. QED
        BY <2>1, <3>1, <3>2, <4>1, <4>2 DEF ReceiveReport
    <3>3. CASE ~(Len(buffer) < Limit)
      <4>1. buffer' = Append(Tail(buffer), received') /\ gone' = gone \cup {Head(buffer)}
        BY <2>1, <3>3 DEF ReceiveReport
      <4>2. /\ buffer # <<>>
            /\ Head(buffer) \in Reports
            /\ Tail(buffer) \in Seq(Reports)
            /\ Len(Tail(buffer)) = Len(buffer) - 1
        BY <3>1, <3>3, HeadTailProperties
      <4>3. buffer' \in Seq(Reports) /\ Len(buffer') = Len(buffer)
        BY <3>1, <4>1, <4>2, AppendProperties
      <4>4. QED
        BY <2>1, <3>1, <4>1, <4>2, <4>3 DEF ReceiveReport
    <3>4. QED
      BY <3>2, <3>3
  <2>2. ASSUME NEW j \in Jobs, ReceiveTick(j) PROVE TypeOK' /\ BufferWithinLimit'
    BY <2>2 DEF ReceiveTick, Steps
  <2>3. ASSUME NEW j \in Jobs, NothingToDo(j) PROVE TypeOK' /\ BufferWithinLimit'
    BY <2>3 DEF NothingToDo, Steps
  <2>4. ASSUME NEW j \in Jobs, TakeBuffer(j) PROVE TypeOK' /\ BufferWithinLimit'
    BY <2>4 DEF TakeBuffer, Steps
  <2>5. ASSUME NEW j \in Jobs, RestoreBuffer(j) PROVE TypeOK' /\ BufferWithinLimit'
    <3>1. buffer' \in Seq(Reports) /\ Len(buffer') <= Limit /\ gone' \subseteq Reports
      BY <2>5, RestoreFits
    <3>2. step' \in [Jobs -> Steps] /\ taken' \in [Jobs -> Seq(Reports)]
      BY <2>5 DEF RestoreBuffer, Finish, Steps
    <3>3. UNCHANGED <<received, summary, graph, out, toCouncil, context, written, unordered>>
      BY <2>5 DEF RestoreBuffer
    <3>4. QED
      BY <3>1, <3>2, <3>3
  <2>6. ASSUME NEW j \in Jobs, NoUpdates(j) PROVE TypeOK' /\ BufferWithinLimit'
    BY <2>0, <2>6 DEF NoUpdates, Finish, Steps
  <2>7. ASSUME NEW j \in Jobs, UpdatesParsed(j) PROVE TypeOK' /\ BufferWithinLimit'
    BY <2>7 DEF UpdatesParsed, Steps
  <2>8. ASSUME NEW j \in Jobs, ApplyUpdates(j) PROVE TypeOK' /\ BufferWithinLimit'
    BY <2>0, <2>8 DEF ApplyUpdates, Write, Steps
  <2>9. ASSUME NEW j \in Jobs, ApplyFails(j) PROVE TypeOK' /\ BufferWithinLimit'
    <3>1. PICK k \in 0 .. Len(taken[j]) - 1 : Write(Elements(SubSeq(taken[j], 1, k)))
      BY <2>9 DEF ApplyFails
    <3>2. SubSeq(taken[j], 1, k) \in Seq(Reports)
      BY <3>1, PrefixType, LenProperties
    <3>3. Elements(SubSeq(taken[j], 1, k)) \subseteq Reports
      BY <3>2, ElementsType
    <3>4. graph' \subseteq Reports /\ written' \in [Reports -> Nat]
      BY <3>1, <3>3 DEF Write
    <3>5. step' \in [Jobs -> Steps] /\ taken' \in [Jobs -> Seq(Reports)]
      BY <2>9 DEF ApplyFails, Finish, Steps
    <3>6. gone' \subseteq Reports
      BY <2>0, <2>9 DEF ApplyFails
    <3>7. UNCHANGED <<received, buffer, summary, out, toCouncil, context, unordered>>
      BY <2>9 DEF ApplyFails
    <3>8. QED
      BY <3>4, <3>5, <3>6, <3>7
  <2>10. ASSUME NEW j \in Jobs, ReadSummary(j) PROVE TypeOK' /\ BufferWithinLimit'
    BY <2>10 DEF ReadSummary, Steps
  <2>11. ASSUME NEW j \in Jobs, SummaryFails(j) PROVE TypeOK' /\ BufferWithinLimit'
    BY <2>11 DEF SummaryFails, Steps
  <2>12. ASSUME NEW j \in Jobs, SendContext(j) PROVE TypeOK' /\ BufferWithinLimit'
    <3>1. out' \in Seq(SUBSET Reports) /\ Len(out') <= OutCapacity
      BY <2>12, AppendProperties, LenProperties DEF SendContext
    <3>2. QED
      BY <2>12, <3>1 DEF SendContext, Steps
  <2>13. CASE ForwardContext
    <3>1. Head(out) \in SUBSET Reports /\ out' \in Seq(SUBSET Reports) /\ Len(out') <= OutCapacity
      BY <2>13, Dequeued DEF ForwardContext
    <3>2. toCouncil' \in Seq(SUBSET Reports) /\ Len(toCouncil') <= InCapacity
      BY <2>13, <3>1, AppendProperties, LenProperties DEF ForwardContext
    <3>3. QED
      BY <2>13, <3>1, <3>2 DEF ForwardContext
  <2>14. CASE RecordContextFails
    <3>1. out' \in Seq(SUBSET Reports) /\ Len(out') <= OutCapacity
      BY <2>14, Dequeued DEF RecordContextFails
    <3>2. QED
      BY <2>14, <3>1 DEF RecordContextFails
  <2>15. CASE StoreDailyContext
    <3>1. /\ context' \in SUBSET Reports
          /\ toCouncil' \in Seq(SUBSET Reports) /\ Len(toCouncil') <= InCapacity
      BY <2>15, Dequeued DEF StoreDailyContext
    <3>2. QED
      BY <2>15, <3>1 DEF StoreDailyContext
  <2>16. CASE UNCHANGED vars
    BY <2>16 DEF vars
  <2>17. QED
    BY <2>1, <2>2, <2>3, <2>4, <2>5, <2>6, <2>7, <2>8, <2>9, <2>10, <2>11, <2>12,
       <2>13, <2>14, <2>15, <2>16
    DEF Next, Job
<1>3. QED
  BY <1>1, <1>2, PTL DEF Spec

(* Every reachable state is well typed; both channels respect their        *)
(* capacity.                                                               *)
THEOREM TypeCorrect == Spec => []TypeOK
  BY Invariant, PTL

(* The buffer never exceeds report_buffer_limit, for any limit, any number *)
(* of overlapping jobs and any arrivals: limit - len in solidify() cannot  *)
(* underflow.                                                              *)
THEOREM BufferBounded == Spec => []BufferWithinLimit
  BY Invariant, PTL

(* A model failure costs reports only when they no longer fit (solidify,   *)
(* restore).                                                               *)
THEOREM RestoreSafe == Spec => RestoreLosesOnlyWhenFull
<1>1. TypeOK /\ BufferWithinLimit
        => \A j \in Jobs : RestoreBuffer(j) /\ gone' # gone => Len(buffer') = Limit
  BY RestoreFits
<1>2. TypeOK /\ BufferWithinLimit
        => [\A j \in Jobs : RestoreBuffer(j) /\ gone' # gone => Len(buffer') = Limit]_vars
  BY <1>1
<1>3. QED
  BY <1>2, Invariant, PTL DEF RestoreLosesOnlyWhenFull

-----------------------------------------------------------------------------
(* What the operations on the buffer do to the reports in it. *)

NoRepeat(s) == \A i, k \in 1 .. Len(s) : s[i] = s[k] => i = k

LEMMA AppendedReport ==
  ASSUME NEW S, NEW s \in Seq(S), NEW x \in S
  PROVE  /\ Elements(Append(s, x)) = Elements(s) \cup {x}
         /\ NoRepeat(s) /\ x \notin Elements(s) => NoRepeat(Append(s, x))
<1>. DEFINE r == Append(s, x)
            n == Len(s)
<1>1. /\ Len(r) = n + 1 /\ n \in Nat
      /\ \A i \in 1 .. n : r[i] = s[i]
      /\ r[n + 1] = x
  BY AppendProperties, LenProperties
<1>. HIDE DEF r, n
<1>2. /\ \A i \in 1 .. n + 1 : i \in 1 .. n \/ i = n + 1
      /\ 1 .. n \subseteq 1 .. n + 1 /\ n + 1 \in 1 .. n + 1
  BY <1>1
<1>3. Elements(r) = Elements(s) \cup {x}
  BY <1>1, <1>2 DEF Elements, n
<1>4. NoRepeat(s) /\ x \notin Elements(s) => NoRepeat(r)
  BY <1>1, <1>2 DEF NoRepeat, Elements, n
<1>5. QED
  BY <1>3, <1>4 DEF r

LEMMA FirstRemoved ==
  ASSUME NEW S, NEW s \in Seq(S), s # <<>>
  PROVE  /\ Elements(s) = {Head(s)} \cup Elements(Tail(s))
         /\ NoRepeat(s) => NoRepeat(Tail(s)) /\ Head(s) \notin Elements(Tail(s))
<1>. DEFINE t == Tail(s)
            n == Len(s)
<1>1. /\ Len(t) = n - 1 /\ n \in Nat \ {0}
      /\ \A i \in 1 .. n - 1 : t[i] = s[i + 1]
      /\ Head(s) = s[1]
  BY HeadTailProperties, LenProperties, EmptySeq
<1>. HIDE DEF t, n
<1>2. /\ \A i \in 1 .. n : i = 1 \/ (i - 1 \in 1 .. n - 1 /\ i = (i - 1) + 1)
      /\ 1 \in 1 .. n
      /\ \A i \in 1 .. n - 1 : i + 1 \in 1 .. n /\ i + 1 # 1
  BY <1>1
<1>3. Elements(s) = {Head(s)} \cup Elements(t)
  <2>1. ASSUME NEW i \in 1 .. n PROVE s[i] = Head(s) \/ s[i] \in Elements(t)
    <3>1. CASE i = 1
      BY <1>1, <3>1
    <3>2. CASE i # 1
      <4>1. i - 1 \in 1 .. Len(t) /\ s[i] = t[i - 1]
        BY <1>1, <1>2, <3>2
      <4>2. QED
        BY <4>1 DEF Elements
    <3>3. QED
      BY <3>1, <3>2
  <2>2. Head(s) \in Elements(s)
    BY <1>1, <1>2 DEF Elements, n
  <2>3. Elements(t) \subseteq Elements(s)
    BY <1>1, <1>2 DEF Elements, n
  <2>4. Elements(s) \subseteq {Head(s)} \cup Elements(t)
    BY <2>1 DEF Elements, n
  <2>5. QED
    BY <2>2, <2>3, <2>4
<1>4. ASSUME NoRepeat(s) PROVE NoRepeat(t) /\ Head(s) \notin Elements(t)
  <2>1. \A i, k \in 1 .. n - 1 : t[i] = t[k] => i + 1 = k + 1
    BY <1>1, <1>2, <1>4 DEF NoRepeat, n
  <2>2. NoRepeat(t)
    BY <1>1, <2>1 DEF NoRepeat
  <2>3. QED
    BY <1>1, <1>2, <1>4, <2>2 DEF NoRepeat, Elements, n
<1>5. QED
  BY <1>3, <1>4 DEF t

LEMMA Parted ==
  ASSUME NEW S, NEW s \in Seq(S), NEW k \in 0 .. Len(s)
  PROVE  LET a == SubSeq(s, 1, k)
             b == SubSeq(s, k + 1, Len(s))
         IN /\ a \in Seq(S)
            /\ Elements(s) = Elements(a) \cup Elements(b)
            /\ NoRepeat(s) => NoRepeat(a) /\ Elements(a) \cap Elements(b) = {}
<1>. DEFINE a == SubSeq(s, 1, k)
            n == Len(s)
            b == SubSeq(s, k + 1, n)
<1>0. n \in Nat /\ \A i \in 1 .. n : s[i] \in S
  BY LenProperties, ElementOfSeq
<1>1. a \in Seq(S) /\ Len(a) = k /\ \A i \in 1 .. k : a[i] = s[i]
  <2>1. \A i \in 1 .. k : s[i] \in S
    BY <1>0
  <2>2. QED
    BY <1>0, <2>1, SubSeqProperties
<1>2. Len(b) = n - k /\ \A i \in 1 .. n - k : b[i] = s[k + i]
  <2>1. \A i \in k + 1 .. n : s[i] \in S
    BY <1>0
  <2>2. /\ Len(b) = IF k + 1 <= n THEN n - (k + 1) + 1 ELSE 0
        /\ \A i \in 1 .. Len(b) : b[i] = s[(k + 1) + i - 1]
    BY <1>0, <2>1, SubSeqProperties
  <2>3. Len(b) = n - k
    BY <1>0, <2>2
  <2>4. \A i \in 1 .. n - k : (k + 1) + i - 1 = k + i
    BY <1>0
  <2>5. QED
    BY <2>2, <2>3, <2>4
<1>. HIDE DEF a, b, n
<1>3. /\ \A i \in 1 .. n : i \in 1 .. k \/ (i - k \in 1 .. n - k /\ i = k + (i - k))
      /\ \A i \in 1 .. k : i \in 1 .. n
      /\ \A i \in 1 .. n - k : k + i \in 1 .. n /\ k + i \notin 1 .. k
  BY <1>0 DEF n
<1>4. Elements(s) = Elements(a) \cup Elements(b)
  <2>1. ASSUME NEW i \in 1 .. n PROVE s[i] \in Elements(a) \cup Elements(b)
    <3>1. CASE i \in 1 .. k
      BY <1>1, <3>1 DEF Elements
    <3>2. CASE i \notin 1 .. k
      <4>1. i - k \in 1 .. Len(b) /\ s[i] = b[i - k]
        BY <1>2, <1>3, <3>2
      <4>2. QED
        BY <4>1 DEF Elements
    <3>3. QED
      BY <3>1, <3>2
  <2>2. Elements(a) \subseteq Elements(s)
    BY <1>1, <1>3 DEF Elements, n
  <2>3. Elements(b) \subseteq Elements(s)
    <3>1. \A i \in 1 .. n - k : b[i] = s[k + i] /\ k + i \in 1 .. n
      BY <1>2, <1>3
    <3>2. QED
      BY <1>2, <3>1 DEF Elements, n
  <2>4. Elements(s) \subseteq Elements(a) \cup Elements(b)
    BY <2>1 DEF Elements, n
  <2>5. QED
    BY <2>2, <2>3, <2>4
<1>5. ASSUME NoRepeat(s) PROVE NoRepeat(a) /\ Elements(a) \cap Elements(b) = {}
  <2>1. NoRepeat(a)
    BY <1>1, <1>3, <1>5 DEF NoRepeat, n
  <2>2. \A i \in 1 .. k, l \in 1 .. n - k : a[i] # b[l]
    BY <1>1, <1>2, <1>3, <1>5 DEF NoRepeat, n
  <2>3. QED
    BY <1>1, <1>2, <2>1, <2>2 DEF Elements
<1>6. QED
  BY <1>1, <1>4, <1>5 DEF a, b, n

LEMMA Joined ==
  ASSUME NEW S, NEW s \in Seq(S), NEW t \in Seq(S)
  PROVE  /\ Elements(s \o t) = Elements(s) \cup Elements(t)
         /\ NoRepeat(s) /\ NoRepeat(t) /\ Elements(s) \cap Elements(t) = {} => NoRepeat(s \o t)
<1>. DEFINE r == s \o t
            n == Len(s)
            m == Len(t)
<1>1. /\ n \in Nat /\ m \in Nat /\ Len(r) = n + m
      /\ \A i \in 1 .. n : r[i] = s[i]
      /\ \A i \in n + 1 .. n + m : r[i] = t[i - n]
  BY ConcatProperties, LenProperties
<1>. HIDE DEF r, n, m
<1>2. /\ \A i \in 1 .. n + m : i \in 1 .. n \/ (i \in n + 1 .. n + m /\ i - n \in 1 .. m)
      /\ \A i \in 1 .. n : i \in 1 .. n + m
      /\ \A i \in 1 .. m : n + i \in n + 1 .. n + m /\ n + i \in 1 .. n + m /\ (n + i) - n = i
  BY <1>1
<1>3. Elements(r) \subseteq Elements(s) \cup Elements(t)
  BY <1>1, <1>2 DEF Elements, n, m
<1>4. Elements(s) \subseteq Elements(r)
  BY <1>1, <1>2 DEF Elements, n
<1>5. Elements(t) \subseteq Elements(r)
  <2>1. \A i \in 1 .. m : t[i] = r[n + i]
    BY <1>1, <1>2
  <2>2. QED
    BY <1>1, <1>2, <2>1 DEF Elements, m
<1>6. ASSUME NoRepeat(s), NoRepeat(t), Elements(s) \cap Elements(t) = {}
      PROVE  NoRepeat(r)
  <2> SUFFICES ASSUME NEW i \in 1 .. n + m, NEW k \in 1 .. n + m, r[i] = r[k] PROVE i = k
    BY <1>1 DEF NoRepeat
  <2>1. CASE i \in 1 .. n /\ k \in 1 .. n
    BY <1>1, <1>6, <2>1 DEF NoRepeat, n
  <2>2. CASE i \in n + 1 .. n + m /\ k \in n + 1 .. n + m
    <3>1. i - n \in 1 .. m /\ k - n \in 1 .. m /\ t[i - n] = t[k - n]
      BY <1>1, <2>2
    <3>2. i - n = k - n
      BY <1>6, <3>1 DEF NoRepeat, m
    <3>3. QED
      BY <1>1, <3>2
  <2>3. \A a \in 1 .. n, b \in n + 1 .. n + m : r[a] # r[b]
    <3> SUFFICES ASSUME NEW a \in 1 .. n, NEW b \in n + 1 .. n + m PROVE r[a] # r[b]
      OBVIOUS
    <3>1. r[a] = s[a] /\ r[b] = t[b - n] /\ b - n \in 1 .. m
      BY <1>1
    <3>2. r[a] \in Elements(s) /\ r[b] \in Elements(t)
      BY <3>1 DEF Elements, n, m
    <3>3. QED
      BY <1>6, <3>2
  <2>4. QED
    BY <1>2, <2>1, <2>2, <2>3
<1>7. QED
  BY <1>3, <1>4, <1>5, <1>6 DEF r

-----------------------------------------------------------------------------
(* Where the reports are.  The buffer, what each job holds, and the reports*)
(* that are gone are apart from each other and hold all that was received, *)
(* none of it twice; a job holds reports only while it asks the model or   *)
(* applies the updates.                                                    *)
PlaceInv ==
  /\ NoRepeat(buffer)
  /\ \A j \in Jobs : NoRepeat(taken[j])
  /\ \A j \in Jobs : Elements(buffer) \cap Elements(taken[j]) = {}
  /\ \A j, k \in Jobs : j # k => Elements(taken[j]) \cap Elements(taken[k]) = {}
  /\ gone \cap Elements(buffer) = {}
  /\ \A j \in Jobs : gone \cap Elements(taken[j]) = {}
  /\ \A n : n \in 1 .. received <=>
           n \in gone \/ n \in Elements(buffer) \/ \E j \in Jobs : n \in Elements(taken[j])
  /\ \A j \in Jobs : step[j] \notin {"asking", "applying"} => taken[j] = <<>>

LEMMA PlaceInit == Init => PlaceInv
<1> SUFFICES ASSUME Init PROVE PlaceInv
  OBVIOUS
<1>1. /\ buffer = <<>> /\ gone = {} /\ received = 0
      /\ \A j \in Jobs : taken[j] = <<>>
  BY DEF Init
<1>2. Elements(<<>>) = {} /\ NoRepeat(<<>>)
  BY ElementsOfEmpty DEF NoRepeat
<1>3. 1 .. received = {}
  BY <1>1
<1>4. QED
  BY <1>1, <1>2, <1>3 DEF PlaceInv

LEMMA PlaceStep ==
  TypeOK /\ BufferWithinLimit /\ TypeOK' /\ PlaceInv /\ [Next]_vars => PlaceInv'
<1> SUFFICES ASSUME TypeOK, BufferWithinLimit, TypeOK', PlaceInv, [Next]_vars
             PROVE  PlaceInv'
  OBVIOUS
<1>0. /\ buffer \in Seq(Reports) /\ buffer' \in Seq(Reports)
      /\ taken \in [Jobs -> Seq(Reports)] /\ taken' \in [Jobs -> Seq(Reports)]
      /\ step \in [Jobs -> Steps] /\ received \in Nat
      /\ Elements(<<>>) = {} /\ NoRepeat(<<>>)
  BY ElementsOfEmpty DEF TypeOK, NoRepeat
<1>1. CASE ReceiveReport
  <2>1. /\ received' = received + 1 /\ received' \in Reports
        /\ \A n : n \in 1 .. received' <=> n \in 1 .. received \/ n = received'
        /\ received' \notin 1 .. received
    BY <1>0, <1>1, BoundAssumption DEF ReceiveReport, Reports
  <2>2. taken' = taken /\ step' = step
    BY <1>1 DEF ReceiveReport
  <2>3. \A j \in Jobs : received' \notin Elements(taken[j])
    BY <2>1 DEF PlaceInv
  <2>4. received' \notin gone \cup Elements(buffer)
    BY <2>1 DEF PlaceInv
  <2>5. ASSUME NEW E, Elements(buffer') = E \cup {received'}, NoRepeat(buffer'),
               gone \cup Elements(buffer) = gone' \cup E,
               gone' \cap E = {}, E \subseteq Elements(buffer)
        PROVE  PlaceInv'
    <3>1. \A n : n \in 1 .. received' <=> \/ n \in gone' \/ n \in Elements(buffer')
                                        \/ \E j \in Jobs : n \in Elements(taken'[j])
      <4>1. \A n : n \in gone' \/ n \in Elements(buffer')
                     <=> n \in gone \/ n \in Elements(buffer) \/ n = received'
        BY <2>5
      <4>2. \A n : n \in 1 .. received <=>
                 n \in gone \/ n \in Elements(buffer) \/ \E j \in Jobs : n \in Elements(taken[j])
        BY DEF PlaceInv
      <4>3. QED
        BY <2>1, <2>2, <4>1, <4>2
    <3>2. gone' \subseteq gone \cup Elements(buffer) /\ received' \notin gone'
      BY <2>4, <2>5
    <3>3. \A j \in Jobs : /\ Elements(buffer') \cap Elements(taken'[j]) = {}
                        /\ gone' \cap Elements(taken'[j]) = {}
      BY <2>2, <2>3, <2>5, <3>2 DEF PlaceInv
    <3>4. gone' \cap Elements(buffer') = {}
      BY <2>5, <3>2
    <3>5. QED
      BY <2>2, <2>5, <3>1, <3>3, <3>4 DEF PlaceInv
  <2>6. CASE Len(buffer) < Limit
    <3>1. buffer' = Append(buffer, received') /\ gone' = gone
      BY <1>1, <2>6 DEF ReceiveReport
    <3>2. Elements(buffer') = Elements(buffer) \cup {received'} /\ NoRepeat(buffer')
      BY <1>0, <2>1, <2>4, <3>1, AppendedReport DEF PlaceInv
    <3>3. QED
      BY <2>5, <3>1, <3>2 DEF PlaceInv
  <2>7. CASE ~(Len(buffer) < Limit)
    <3>. DEFINE t == Tail(buffer)
    <3>1. buffer # <<>> /\ buffer' = Append(t, received') /\ gone' = gone \cup {Head(buffer)}
      <4>1. Len(buffer) \in Nat /\ Len(buffer) # 0
        BY <1>0, <2>7, LenProperties, LimitAssumption
      <4>2. QED
        BY <1>1, <2>7, <4>1 DEF ReceiveReport
    <3>2. /\ Elements(buffer) = {Head(buffer)} \cup Elements(t)
          /\ NoRepeat(t) /\ Head(buffer) \notin Elements(t)
          /\ t \in Seq(Reports)
      BY <1>0, <3>1, FirstRemoved, HeadTailProperties DEF PlaceInv
    <3>. HIDE DEF t
    <3>3. received' \notin Elements(t)
      BY <2>4, <3>2
    <3>4. Elements(Append(t, received')) = Elements(t) \cup {received'}
            /\ NoRepeat(Append(t, received'))
      BY <2>1, <3>2, <3>3, AppendedReport
    <3>5. /\ gone \cup Elements(buffer) = gone' \cup Elements(t)
          /\ gone' \cap Elements(t) = {}
          /\ Elements(t) \subseteq Elements(buffer)
      BY <3>1, <3>2 DEF PlaceInv
    <3>6. QED
      BY <2>5, <3>1, <3>4, <3>5
  <2>8. QED
    BY <2>6, <2>7
<1>2. ASSUME NEW j \in Jobs, TakeBuffer(j) PROVE PlaceInv'
  <2>1. /\ taken[j] = <<>>
        /\ taken' = [taken EXCEPT ![j] = buffer] /\ buffer' = <<>>
        /\ step' = [step EXCEPT ![j] = "asking"]
        /\ gone' = gone /\ received' = received
    BY <1>2 DEF TakeBuffer, PlaceInv
  <2>2. taken'[j] = buffer /\ \A k \in Jobs : k # j => taken'[k] = taken[k] /\ step'[k] = step[k]
    BY <1>0, <2>1
  <2>3. step'[j] = "asking"
    BY <1>0, <2>1
  <2>4. QED
    BY <1>0, <2>1, <2>2, <2>3 DEF PlaceInv
<1>3. ASSUME NEW j \in Jobs, RestoreBuffer(j) PROVE PlaceInv'
  <2>. DEFINE n    == Len(taken[j])
              kept == IF n < Remaining THEN n ELSE Remaining
              a    == SubSeq(taken[j], 1, kept)
              b    == SubSeq(taken[j], kept + 1, n)
  <2>1. /\ buffer' = buffer \o a /\ gone' = gone \cup Elements(b)
        /\ taken' = [taken EXCEPT ![j] = <<>>]
        /\ step' = [step EXCEPT ![j] = "idle"]
        /\ received' = received
    BY <1>3 DEF RestoreBuffer, Finish
  <2>2. kept \in 0 .. n
    BY <1>0, LenProperties, LimitAssumption DEF Remaining, BufferWithinLimit
  <2>. HIDE DEF kept
  <2>3. /\ a \in Seq(Reports)
        /\ Elements(taken[j]) = Elements(a) \cup Elements(b)
        /\ NoRepeat(a) /\ Elements(a) \cap Elements(b) = {}
    BY <1>0, <2>2, Parted DEF PlaceInv
  <2>. HIDE DEF a, b
  <2>4. Elements(buffer) \cap Elements(a) = {} /\ NoRepeat(buffer)
    BY <2>3 DEF PlaceInv
  <2>5. Elements(buffer') = Elements(buffer) \cup Elements(a) /\ NoRepeat(buffer')
    BY <1>0, <2>1, <2>3, <2>4, Joined
  <2>6. /\ taken'[j] = <<>>
        /\ \A k \in Jobs : k # j => taken'[k] = taken[k] /\ step'[k] = step[k]
    BY <1>0, <2>1
  <2>7. \A m : m \in 1 .. received' <=> \/ m \in gone' \/ m \in Elements(buffer')
                                      \/ \E k \in Jobs : m \in Elements(taken'[k])
    BY <1>0, <2>1, <2>3, <2>5, <2>6 DEF PlaceInv
  <2>8. /\ gone' \cap Elements(buffer') = {}
        /\ \A k \in Jobs : /\ gone' \cap Elements(taken'[k]) = {}
                          /\ Elements(buffer') \cap Elements(taken'[k]) = {}
    <3>1. gone' \cap Elements(buffer') = {}
      BY <2>1, <2>3, <2>5 DEF PlaceInv
    <3>2. ASSUME NEW k \in Jobs, k # j
          PROVE  gone' \cap Elements(taken[k]) = {} /\ Elements(buffer') \cap Elements(taken[k]) = {}
      BY <2>1, <2>3, <2>5, <3>2 DEF PlaceInv
    <3>3. QED
      BY <1>0, <2>6, <3>1, <3>2
  <2>9. /\ \A k \in Jobs : NoRepeat(taken'[k])
        /\ \A k, l \in Jobs : k # l => Elements(taken'[k]) \cap Elements(taken'[l]) = {}
        /\ \A k \in Jobs : step'[k] \notin {"asking", "applying"} => taken'[k] = <<>>
    <3>1. \A k \in Jobs : NoRepeat(taken'[k])
      BY <1>0, <2>6 DEF PlaceInv
    <3>2. ASSUME NEW k \in Jobs, NEW l \in Jobs, k # l
          PROVE  Elements(taken'[k]) \cap Elements(taken'[l]) = {}
      BY <1>0, <2>6, <3>2 DEF PlaceInv
    <3>3. \A k \in Jobs : step'[k] \notin {"asking", "applying"} => taken'[k] = <<>>
      BY <2>6 DEF PlaceInv
    <3>4. QED
      BY <3>1, <3>2, <3>3
  <2>10. QED
    BY <2>5, <2>7, <2>8, <2>9 DEF PlaceInv
<1>4. ASSUME NEW j \in Jobs, NoUpdates(j) \/ ApplyUpdates(j) \/ ApplyFails(j) PROVE PlaceInv'
  <2>1. /\ buffer' = buffer /\ gone' = gone \cup Elements(taken[j])
        /\ taken' = [taken EXCEPT ![j] = <<>>]
        /\ step' = [step EXCEPT ![j] = step'[j]]
        /\ received' = received
    BY <1>0, <1>4 DEF NoUpdates, ApplyUpdates, ApplyFails, Finish
  <2>2. /\ taken'[j] = <<>>
        /\ \A k \in Jobs : k # j => taken'[k] = taken[k] /\ step'[k] = step[k]
    BY <1>0, <2>1
  <2>3. QED
    BY <1>0, <2>1, <2>2 DEF PlaceInv
<1>5. ASSUME NEW j \in Jobs,
             \/ ReceiveTick(j) \/ NothingToDo(j) \/ UpdatesParsed(j)
             \/ ReadSummary(j) \/ SummaryFails(j) \/ SendContext(j)
      PROVE  PlaceInv'
  <2>1. UNCHANGED <<buffer, gone, taken, received>>
    BY <1>5 DEF ReceiveTick, NothingToDo, UpdatesParsed, ReadSummary, SummaryFails, SendContext
  <2>2. \A k \in Jobs : step[k] \in {"asking", "applying"} => step'[k] \in {"asking", "applying"}
    BY <1>0, <1>5 DEF ReceiveTick, NothingToDo, UpdatesParsed, ReadSummary, SummaryFails,
       SendContext
  <2>3. QED
    BY <2>1, <2>2 DEF PlaceInv
<1>6. CASE UNCHANGED <<buffer, gone, taken, received, step>>
  BY <1>6 DEF PlaceInv
<1>7. QED
  BY <1>1, <1>2, <1>3, <1>4, <1>5, <1>6
  DEF Next, Job, ForwardContext, RecordContextFails, StoreDailyContext, vars

LEMMA PlaceInvariant == Spec => [](TypeOK /\ PlaceInv)
<1>1. TypeOK /\ BufferWithinLimit /\ TypeOK' /\ PlaceInv /\ [Next]_vars => PlaceInv'
  BY PlaceStep
<1>2. QED
  BY <1>1, PlaceInit, Invariant, PTL DEF Spec

(* A report has one position in a sequence without repetition that holds   *)
(* it, and none in one that does not.                                      *)
PlacesIn(t, s, n) == {<<t, i>> : i \in {k \in 1 .. Len(s) : s[k] = n}}

LEMMA Positions ==
  ASSUME NEW t, NEW s, NEW n, NoRepeat(s)
  PROVE  /\ n \in Elements(s) => \E p : PlacesIn(t, s, n) = {p}
         /\ n \notin Elements(s) => PlacesIn(t, s, n) = {}
<1>. DEFINE at == {k \in 1 .. Len(s) : s[k] = n}
<1>1. CASE n \in Elements(s)
  <2>1. PICK i \in 1 .. Len(s) : s[i] = n
    BY <1>1 DEF Elements
  <2>2. at = {i}
    BY <2>1 DEF NoRepeat
  <2>3. {<<t, k>> : k \in at} = {<<t, i>>}
    BY <2>2
  <2>4. QED
    BY <1>1, <2>3 DEF PlacesIn
<1>2. CASE n \notin Elements(s)
  BY <1>2 DEF Elements, PlacesIn
<1>3. QED
  BY <1>1, <1>2

(* The buffer, the jobs and what is gone share every report received among *)
(* them, for any limit and any number of jobs: whatever overlaps, fails or *)
(* is restored, no report is doubled and none vanishes (run, solidify).    *)
THEOREM ReportsConserved == Spec => []EveryReportInOnePlace
<1>1. PlaceInv => EveryReportInOnePlace
  <2> SUFFICES ASSUME PlaceInv, NEW n \in 1 .. received
      PROVE  Cardinality(PlacesIn("buffer", buffer, n))
               + Cardinality(UNION {PlacesIn(j, taken[j], n) : j \in Jobs})
               + Cardinality(IF n \in gone THEN {"gone"} ELSE {}) = 1
    BY DEF EveryReportInOnePlace, PlacesIn
  <2>. DEFINE inBuffer == PlacesIn("buffer", buffer, n)
              inJobs   == UNION {PlacesIn(j, taken[j], n) : j \in Jobs}
              isGone   == IF n \in gone THEN {"gone"} ELSE {}
  <2>1. /\ n \in Elements(buffer) => \E p : inBuffer = {p}
        /\ n \notin Elements(buffer) => inBuffer = {}
    BY Positions DEF PlaceInv
  <2>2. \A j \in Jobs :
          /\ n \in Elements(taken[j]) => \E p : PlacesIn(j, taken[j], n) = {p}
          /\ n \notin Elements(taken[j]) => PlacesIn(j, taken[j], n) = {}
    BY Positions DEF PlaceInv
  <2>3. (\A j \in Jobs : n \notin Elements(taken[j])) => inJobs = {}
    BY <2>2
  <2>4. ASSUME NEW j \in Jobs, n \in Elements(taken[j]),
               \A k \in Jobs : k # j => n \notin Elements(taken[k])
        PROVE  \E p : inJobs = {p}
    <3>1. PICK p : PlacesIn(j, taken[j], n) = {p}
      BY <2>2, <2>4
    <3>2. \A k \in Jobs : k # j => PlacesIn(k, taken[k], n) = {}
      BY <2>2, <2>4
    <3>3. inJobs = {p}
      BY <3>1, <3>2
    <3>4. QED
      BY <3>3
  <2>5. (n \in gone => isGone = {"gone"}) /\ (n \notin gone => isGone = {})
    OBVIOUS
  <2>. HIDE DEF inBuffer, inJobs, isGone
  <2>6. ASSUME NEW A, NEW B, NEW C, NEW p, A = {p}, B = {}, C = {}
        PROVE  Cardinality(A) = 1 /\ Cardinality(B) = 0 /\ Cardinality(C) = 0
    BY <2>6, FS_EmptySet, FS_Singleton
  <2>7. CASE n \in gone
    <3>1. n \notin Elements(buffer) /\ \A j \in Jobs : n \notin Elements(taken[j])
      BY <2>7 DEF PlaceInv
    <3>2. inBuffer = {} /\ inJobs = {} /\ isGone = {"gone"}
      BY <2>1, <2>3, <2>5, <2>7, <3>1
    <3>3. Cardinality(inBuffer) = 0 /\ Cardinality(inJobs) = 0 /\ Cardinality(isGone) = 1
      BY <2>6, <3>2
    <3>4. Cardinality(inBuffer) + Cardinality(inJobs) + Cardinality(isGone) = 1
      BY <3>3
    <3>5. QED
      BY <3>4 DEF inBuffer, inJobs, isGone
  <2>8. CASE n \in Elements(buffer)
    <3>1. n \notin gone /\ \A j \in Jobs : n \notin Elements(taken[j])
      BY <2>8 DEF PlaceInv
    <3>2. inJobs = {} /\ isGone = {} /\ \E p : inBuffer = {p}
      BY <2>1, <2>3, <2>5, <2>8, <3>1
    <3>3. Cardinality(inBuffer) = 1 /\ Cardinality(inJobs) = 0 /\ Cardinality(isGone) = 0
      BY <2>6, <3>2
    <3>4. Cardinality(inBuffer) + Cardinality(inJobs) + Cardinality(isGone) = 1
      BY <3>3
    <3>5. QED
      BY <3>4 DEF inBuffer, inJobs, isGone
  <2>9. CASE \E j \in Jobs : n \in Elements(taken[j])
    <3>1. PICK j \in Jobs : n \in Elements(taken[j])
      BY <2>9
    <3>2. /\ n \notin gone /\ n \notin Elements(buffer)
          /\ \A k \in Jobs : k # j => n \notin Elements(taken[k])
      BY <3>1 DEF PlaceInv
    <3>3. inBuffer = {} /\ isGone = {} /\ \E p : inJobs = {p}
      BY <2>1, <2>4, <2>5, <3>1, <3>2
    <3>4. Cardinality(inBuffer) = 0 /\ Cardinality(inJobs) = 1 /\ Cardinality(isGone) = 0
      BY <2>6, <3>3
    <3>5. Cardinality(inBuffer) + Cardinality(inJobs) + Cardinality(isGone) = 1
      BY <3>4
    <3>6. QED
      BY <3>5 DEF inBuffer, inJobs, isGone
  <2>10. QED
    BY <2>7, <2>8, <2>9 DEF PlaceInv
<1>2. QED
  BY <1>1, PlaceInvariant, PTL

-----------------------------------------------------------------------------
(* What was written to the graph has left the buffer and the jobs. *)
WrittenInv == \A n \in Reports : written[n] # 0 => written[n] = 1 /\ n \in gone

LEMMA WrittenStep == TypeOK /\ PlaceInv /\ WrittenInv /\ [Next]_vars => WrittenInv'
<1> SUFFICES ASSUME TypeOK, PlaceInv, WrittenInv, [Next]_vars PROVE WrittenInv'
  OBVIOUS
<1>0. /\ taken \in [Jobs -> Seq(Reports)] /\ written \in [Reports -> Nat]
      /\ \A j \in Jobs : Len(taken[j]) \in Nat
  BY LenProperties DEF TypeOK
<1>1. ASSUME NEW j \in Jobs, NEW E, E \subseteq Elements(taken[j]), Write(E),
             gone' = gone \cup Elements(taken[j])
      PROVE  WrittenInv'
  <2>1. \A n \in E : n \notin gone
    BY <1>1 DEF PlaceInv
  <2>2. QED
    BY <1>0, <1>1, <2>1 DEF Write, WrittenInv
<1>2. ASSUME NEW j \in Jobs, ApplyUpdates(j) PROVE WrittenInv'
  BY <1>1, <1>2 DEF ApplyUpdates
<1>3. ASSUME NEW j \in Jobs, ApplyFails(j) PROVE WrittenInv'
  <2>1. PICK k \in 0 .. Len(taken[j]) - 1 : Write(Elements(SubSeq(taken[j], 1, k)))
    BY <1>3 DEF ApplyFails
  <2>2. taken[j] \in Seq(Reports) /\ k \in 0 .. Len(taken[j])
    BY <1>0, <2>1
  <2>3. Elements(SubSeq(taken[j], 1, k)) \subseteq Elements(taken[j])
    BY <2>2, Parted
  <2>4. QED
    BY <1>1, <1>3, <2>1, <2>3 DEF ApplyFails
<1>4. ASSUME written' = written, gone \subseteq gone' PROVE WrittenInv'
  BY <1>4 DEF WrittenInv
<1>5. ASSUME NEW j \in Jobs,
             \/ ReceiveTick(j) \/ NothingToDo(j) \/ TakeBuffer(j) \/ RestoreBuffer(j)
             \/ NoUpdates(j) \/ UpdatesParsed(j) \/ ReadSummary(j) \/ SummaryFails(j)
             \/ SendContext(j)
      PROVE  WrittenInv'
  BY <1>4, <1>5 DEF ReceiveTick, NothingToDo, TakeBuffer, RestoreBuffer, NoUpdates,
     UpdatesParsed, ReadSummary, SummaryFails, SendContext
<1>6. CASE \/ ReceiveReport \/ ForwardContext \/ RecordContextFails \/ StoreDailyContext
           \/ UNCHANGED vars
  BY <1>4, <1>6
  DEF ReceiveReport, ForwardContext, RecordContextFails, StoreDailyContext, vars
<1>7. QED
  BY <1>2, <1>3, <1>5, <1>6 DEF Next, Job

(* No report reaches the graph twice, whatever job fails half way and      *)
(* whatever is restored (apply_updates, restore).                          *)
THEOREM NoReportWrittenTwice == Spec => []WrittenAtMostOnce
<1>1. Init => WrittenInv
  BY DEF Init, WrittenInv
<1>2. TypeOK /\ PlaceInv /\ WrittenInv /\ [Next]_vars => WrittenInv'
  BY WrittenStep
<1>3. WrittenInv => WrittenAtMostOnce
  <2> SUFFICES ASSUME WrittenInv, NEW n \in Reports PROVE written[n] <= 1
    BY DEF WrittenAtMostOnce
  <2>1. written[n] = 0 \/ written[n] = 1
    BY DEF WrittenInv
  <2>2. QED
    BY <2>1
<1>4. QED
  BY <1>1, <1>2, <1>3, PlaceInvariant, PTL DEF Spec

-----------------------------------------------------------------------------
(* The contexts on their way to the council.  While no two jobs overlapped *)
(* and the graph answered, they rise from the council's context through    *)
(* both channels and the summary a job is about to send to the graph.      *)
Busy(j) == step[j] \notin {"idle", "spawned"}

Below(x, s) == \A y \in Elements(s) : x \subseteq y
Above(x, s) == \A y \in Elements(s) : y \subseteq x
Rising(s) == \A i, k \in 1 .. Len(s) : i <= k => s[i] \subseteq s[k]

Chain ==
  /\ \A j, k \in Jobs : Busy(j) /\ Busy(k) => j = k
  /\ Rising(toCouncil) /\ Rising(out)
  /\ Below(context, toCouncil) /\ Below(context, out)
  /\ \A y \in Elements(toCouncil) : Below(y, out)
  /\ Above(graph, toCouncil) /\ Above(graph, out) /\ context \subseteq graph
  /\ \A j \in Jobs :
       step[j] = "sending" =>
         /\ summary[j] \subseteq graph
         /\ context \subseteq summary[j]
         /\ Above(summary[j], toCouncil) /\ Above(summary[j], out)

ContextInv == ~unordered => Chain

(* What sending to a channel and taking from it do to this order. *)
LEMMA RisingAfterSend ==
  ASSUME NEW S, NEW q \in Seq(S), NEW x \in S, Rising(q), Above(x, q)
  PROVE  Rising(Append(q, x))
<1>. DEFINE r == Append(q, x)
            n == Len(q)
<1>1. /\ Len(r) = n + 1 /\ n \in Nat
      /\ \A i \in 1 .. n : r[i] = q[i]
      /\ r[n + 1] = x
  BY AppendProperties, LenProperties
<1>. HIDE DEF r, n
<1>2. \A i, k \in 1 .. n + 1 :
        i <= k => (i \in 1 .. n /\ k \in 1 .. n) \/ (i \in 1 .. n /\ k = n + 1) \/ i = k
  BY <1>1
<1>3. \A i \in 1 .. n : q[i] \subseteq x
  BY DEF Above, Elements, n
<1>4. \A i, k \in 1 .. n : i <= k => q[i] \subseteq q[k]
  BY DEF Rising, n
<1>5. \A i, k \in 1 .. n + 1 : i <= k => r[i] \subseteq r[k]
  BY <1>1, <1>2, <1>3, <1>4
<1>6. QED
  BY <1>1, <1>5 DEF Rising, r

LEMMA RisingAfterReceive ==
  ASSUME NEW S, NEW q \in Seq(S), q # <<>>, Rising(q)
  PROVE  Rising(Tail(q)) /\ Below(Head(q), Tail(q))
<1>. DEFINE t == Tail(q)
            n == Len(q)
<1>1. /\ Len(t) = n - 1 /\ n \in Nat \ {0}
      /\ \A i \in 1 .. n - 1 : t[i] = q[i + 1]
      /\ Head(q) = q[1]
  BY HeadTailProperties, LenProperties, EmptySeq
<1>. HIDE DEF t, n
<1>2. /\ 1 \in 1 .. n
      /\ \A i \in 1 .. n - 1 : i + 1 \in 1 .. n /\ 1 <= i + 1
      /\ \A i, k \in 1 .. n - 1 : i <= k => i + 1 <= k + 1
  BY <1>1
<1>3. Rising(t)
  BY <1>1, <1>2 DEF Rising, n
<1>4. Below(Head(q), t)
  BY <1>1, <1>2 DEF Rising, Below, Elements, n
<1>5. QED
  BY <1>3, <1>4 DEF t

LEMMA ContextStep == TypeOK /\ ContextInv /\ [Next]_vars => ContextInv'
<1> SUFFICES ASSUME TypeOK, ContextInv, [Next]_vars, ~unordered' PROVE Chain'
  BY DEF ContextInv
<1>0. /\ out \in Seq(SUBSET Reports) /\ toCouncil \in Seq(SUBSET Reports)
      /\ step \in [Jobs -> Steps] /\ summary \in [Jobs -> SUBSET Reports]
      /\ graph \in SUBSET Reports
  BY DEF TypeOK
<1>1. ~unordered
  BY DEF Next, Job, ReceiveReport, ReceiveTick, NothingToDo, TakeBuffer, RestoreBuffer, NoUpdates,
     UpdatesParsed, ApplyUpdates, ApplyFails, ReadSummary, SummaryFails, SendContext,
     ForwardContext, RecordContextFails, StoreDailyContext, vars
<1>2. Chain
  BY <1>1 DEF ContextInv
<1>3. ASSUME NEW j \in Jobs, ApplyUpdates(j) \/ ApplyFails(j) PROVE graph \subseteq graph'
  BY <1>3 DEF ApplyUpdates, ApplyFails, Write
<1>4. ASSUME NEW j \in Jobs, step' = [step EXCEPT ![j] = step'[j]],
             Busy(j)' => Busy(j) \/ \A k \in Jobs \ {j} : ~Busy(k),
             step'[j] = "sending" => step[j] = "sending",
             UNCHANGED <<summary, out, toCouncil, context>>,
             graph \subseteq graph'
      PROVE  Chain'
  <2>1. \A k \in Jobs : k # j => step'[k] = step[k]
    BY <1>0, <1>4
  <2>2. \A k, l \in Jobs : Busy(k)' /\ Busy(l)' => k = l
    BY <1>2, <1>4, <2>1 DEF Chain, Busy
  <2>3. \A k \in Jobs : step'[k] = "sending" => step[k] = "sending"
    BY <1>4, <2>1
  <2>4. QED
    BY <1>2, <1>4, <2>2, <2>3 DEF Chain, Above, Below, Rising
<1>5. ASSUME NEW j \in Jobs,
             \/ ReceiveTick(j) \/ NothingToDo(j) \/ RestoreBuffer(j) \/ NoUpdates(j)
             \/ UpdatesParsed(j) \/ ApplyUpdates(j) \/ ApplyFails(j)
      PROVE  Chain'
  <2>1. /\ step' = [step EXCEPT ![j] = step'[j]]
        /\ step'[j] # "sending"
        /\ Busy(j)' => Busy(j)
    BY <1>0, <1>5 DEF ReceiveTick, NothingToDo, RestoreBuffer, NoUpdates, UpdatesParsed,
       ApplyUpdates, ApplyFails, Finish, Busy
  <2>2. UNCHANGED <<summary, out, toCouncil, context>>
    BY <1>5 DEF ReceiveTick, NothingToDo, RestoreBuffer, NoUpdates, UpdatesParsed,
       ApplyUpdates, ApplyFails
  <2>3. graph \subseteq graph'
    BY <1>3, <1>5 DEF ReceiveTick, NothingToDo, RestoreBuffer, NoUpdates, UpdatesParsed
  <2>4. QED
    BY <1>4, <2>1, <2>2, <2>3
<1>6. ASSUME NEW j \in Jobs, TakeBuffer(j) PROVE Chain'
  <2>1. /\ step' = [step EXCEPT ![j] = "asking"]
        /\ \A k \in Jobs \ {j} : ~Busy(k)
        /\ UNCHANGED <<summary, out, toCouncil, context, graph>>
    BY <1>6 DEF TakeBuffer, Busy
  <2>2. step'[j] = "asking"
    BY <1>0, <2>1
  <2>3. QED
    BY <1>4, <2>1, <2>2
<1>7. ASSUME NEW j \in Jobs, ReadSummary(j) PROVE Chain'
  <2>1. /\ step[j] = "summarising" /\ step' = [step EXCEPT ![j] = "sending"]
        /\ summary' = [summary EXCEPT ![j] = graph]
        /\ UNCHANGED <<out, toCouncil, context, graph>>
    BY <1>7 DEF ReadSummary
  <2>2. /\ summary'[j] = graph /\ step'[j] = "sending"
        /\ \A k \in Jobs : k # j => step'[k] = step[k] /\ summary'[k] = summary[k]
    BY <1>0, <2>1
  <2>3. \A k, l \in Jobs : Busy(k)' /\ Busy(l)' => k = l
    BY <1>2, <2>1, <2>2 DEF Chain, Busy
  <2>4. QED
    BY <1>2, <2>1, <2>2, <2>3 DEF Chain, Above, Below, Rising
<1>8. ASSUME NEW j \in Jobs, SendContext(j) PROVE Chain'
  <2>1. /\ step[j] = "sending" /\ step' = [step EXCEPT ![j] = "idle"]
        /\ out' = Append(out, summary[j])
        /\ UNCHANGED <<toCouncil, context, graph>>
    BY <1>8 DEF SendContext
  <2>2. step'[j] = "idle" /\ \A k \in Jobs : k # j => step'[k] = step[k]
    BY <1>0, <2>1
  <2>3. /\ \A k \in Jobs : step'[k] # "sending"
        /\ \A k, l \in Jobs : Busy(k)' /\ Busy(l)' => k = l
    BY <1>2, <2>1, <2>2 DEF Chain, Busy
  <2>4. Elements(out') = Elements(out) \cup {summary[j]}
    BY <1>0, <2>1, AppendedReport
  <2>5. Rising(out')
    BY <1>0, <1>2, <2>1, RisingAfterSend DEF Chain
  <2>6. QED
    BY <1>2, <2>1, <2>3, <2>4, <2>5 DEF Chain, Above, Below, Rising
<1>9. CASE ForwardContext
  <2>. DEFINE h == Head(out)
  <2>1. /\ out # <<>> /\ toCouncil' = Append(toCouncil, h) /\ out' = Tail(out)
        /\ UNCHANGED <<step, summary, context, graph>>
    BY <1>9 DEF ForwardContext
  <2>2. h \in SUBSET Reports /\ Elements(out) = {h} \cup Elements(out')
    BY <1>0, <2>1, FirstRemoved, HeadTailProperties
  <2>3. Rising(out') /\ Below(h, out')
    BY <1>0, <1>2, <2>1, RisingAfterReceive DEF Chain
  <2>4. Above(h, toCouncil)
    BY <1>2, <2>2 DEF Chain, Above, Below
  <2>5. Rising(toCouncil') /\ Elements(toCouncil') = Elements(toCouncil) \cup {h}
    BY <1>0, <1>2, <2>1, <2>2, <2>4, RisingAfterSend, AppendedReport DEF Chain
  <2>. HIDE DEF h
  <2>6. \A y \in Elements(toCouncil') : Below(y, out')
    BY <1>2, <2>2, <2>3, <2>5 DEF Chain, Below
  <2>7. /\ Below(context', toCouncil') /\ Below(context', out')
        /\ Above(graph', toCouncil') /\ Above(graph', out') /\ context' \subseteq graph'
    BY <1>2, <2>1, <2>2, <2>5 DEF Chain, Above, Below
  <2>8. \A j \in Jobs :
          step'[j] = "sending" =>
            /\ summary'[j] \subseteq graph'
            /\ context' \subseteq summary'[j]
            /\ Above(summary'[j], toCouncil') /\ Above(summary'[j], out')
    BY <1>2, <2>1, <2>2, <2>5 DEF Chain, Above
  <2>9. \A j, k \in Jobs : Busy(j)' /\ Busy(k)' => j = k
    BY <1>2, <2>1 DEF Chain, Busy
  <2>10. QED
    BY <2>3, <2>5, <2>6, <2>7, <2>8, <2>9 DEF Chain
<1>10. CASE RecordContextFails
  <2>1. /\ out # <<>> /\ out' = Tail(out)
        /\ UNCHANGED <<step, summary, context, graph, toCouncil>>
    BY <1>10 DEF RecordContextFails
  <2>2. Elements(out') \subseteq Elements(out) /\ Rising(out')
    BY <1>0, <1>2, <2>1, FirstRemoved, RisingAfterReceive DEF Chain
  <2>3. QED
    BY <1>2, <2>1, <2>2 DEF Chain, Above, Below, Busy, Rising
<1>11. CASE StoreDailyContext
  <2>1. /\ toCouncil # <<>> /\ context' = Head(toCouncil) /\ toCouncil' = Tail(toCouncil)
        /\ UNCHANGED <<step, summary, out, graph>>
    BY <1>11 DEF StoreDailyContext
  <2>2. Elements(toCouncil) = {context'} \cup Elements(toCouncil')
    BY <1>0, <2>1, FirstRemoved
  <2>3. Rising(toCouncil') /\ Below(context', toCouncil')
    BY <1>0, <1>2, <2>1, RisingAfterReceive DEF Chain
  <2>4. QED
    BY <1>2, <2>1, <2>2, <2>3 DEF Chain, Above, Below, Busy, Rising
<1>12. CASE UNCHANGED <<step, summary, out, toCouncil, context, graph>>
  BY <1>2, <1>12 DEF Chain, Above, Below, Busy, Rising
<1>13. ASSUME NEW j \in Jobs, SummaryFails(j) PROVE FALSE
  BY <1>13 DEF SummaryFails
<1>14. QED
  BY <1>5, <1>6, <1>7, <1>8, <1>9, <1>10, <1>11, <1>12, <1>13
  DEF Next, Job, ReceiveReport, vars

LEMMA ContextInvariant == Spec => [](TypeOK /\ ContextInv)
<1>1. Init => ContextInv
  <2> SUFFICES ASSUME Init PROVE Chain
    BY DEF ContextInv
  <2>1. /\ out = <<>> /\ toCouncil = <<>> /\ context = {}
        /\ \A j \in Jobs : step[j] = "idle"
    BY DEF Init
  <2>2. Elements(out) = {} /\ Elements(toCouncil) = {} /\ Rising(out) /\ Rising(toCouncil)
    BY <2>1, ElementsOfEmpty DEF Rising
  <2>3. QED
    BY <2>1, <2>2 DEF Chain, Busy, Above, Below
<1>2. TypeOK /\ ContextInv /\ [Next]_vars => ContextInv'
  BY ContextStep
<1>3. QED
  BY <1>1, <1>2, TypeCorrect, PTL DEF Spec

(* The council's long-term memory never goes back to an older state of the *)
(* graph, with any capacities of the channels, as long as no two jobs      *)
(* overlapped and the graph answered (solidify, store_daily_context).      *)
THEOREM MemoryMovesForward == Spec => ContextMovesForward
<1>1. TypeOK /\ ContextInv /\ Next =>
        (context' # context /\ ~unordered => context \subseteq context')
  <2> SUFFICES ASSUME TypeOK, ContextInv, Next, context' # context, ~unordered
               PROVE  context \subseteq context'
    OBVIOUS
  <2>1. StoreDailyContext
    BY DEF Next, Job, ReceiveReport, ReceiveTick, NothingToDo, TakeBuffer, RestoreBuffer,
       NoUpdates, UpdatesParsed, ApplyUpdates, ApplyFails, ReadSummary, SummaryFails,
       SendContext, ForwardContext, RecordContextFails
  <2>2. /\ toCouncil # <<>> /\ context' = Head(toCouncil)
        /\ toCouncil \in Seq(SUBSET Reports)
    BY <2>1 DEF StoreDailyContext, TypeOK
  <2>3. Head(toCouncil) \in Elements(toCouncil)
    BY <2>2, FirstRemoved
  <2>4. QED
    BY <2>2, <2>3 DEF ContextInv, Chain, Below
<1>2. TypeOK /\ ContextInv /\ [Next]_vars =>
        [context' # context /\ ~unordered => context \subseteq context']_vars
  BY <1>1
<1>3. QED
  BY <1>2, ContextInvariant, PTL DEF Spec, ContextMovesForward

=============================================================================
