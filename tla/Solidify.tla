------------------------------ MODULE Solidify ------------------------------
(***************************************************************************)
(* The solidification layer (crates/neko-solidify/src/actor.rs) and the    *)
(* way of its result to the council.  The loop buffers detective reports;  *)
(* every tick of the cron scheduler spawns a job that takes the buffer,    *)
(* asks the model for graph updates, applies them, reads a summary of the  *)
(* graph and sends it, through the router, to the council, which keeps it  *)
(* as its daily context.                                                   *)
(*                                                                         *)
(* Reports are numbered in the order in which the loop receives them.  The *)
(* graph is the set of reports it reflects, and a summary is the graph it  *)
(* was read from: how the model words its updates, and the 20 strongest    *)
(* relations a summary is cut to, are left out.  An event is modelled when *)
(* the loop takes it from its channel.                                     *)
(***************************************************************************)
EXTENDS Integers, Sequences, FiniteSets

CONSTANTS
  Limit,        \* report_buffer_limit
  Jobs,         \* names of the jobs that run at the same time
  MaxReports,   \* bound on the reports received, for the model checker
  OutCapacity,  \* capacity of the channel to the router
  InCapacity    \* capacity of the channel into the council

ASSUME LimitAssumption == Limit \in Nat \ {0}

ASSUME BoundAssumption == MaxReports \in Nat

ASSUME CapacityAssumption == OutCapacity \in Nat \ {0} /\ InCapacity \in Nat \ {0}

Reports == 1 .. MaxReports

VARIABLES
  received,   \* number of reports received
  buffer,     \* the reports waiting for a tick, in the buffer's order
  step,       \* the await each job has reached
  taken,      \* the reports a job took and has neither written nor given up
  summary,    \* the graph as a job has read it
  graph,      \* the reports reflected in the graph
  out,        \* channel solidify -> router, summaries only
  toCouncil,  \* channel router -> council, summaries only
  context,    \* the council's daily_context
  \* history: nothing in the code reads these
  gone,       \* reports that left the buffer or a job for good
  written,    \* how often a report was written to the graph
  unordered   \* two jobs overlapped, or a summary query failed

vars == <<received, buffer, step, taken, summary, graph, out, toCouncil, context,
          gone, written, unordered>>

Steps == {"idle", "spawned", "asking", "applying", "summarising", "sending"}

Elements(s) == {s[i] : i \in 1 .. Len(s)}

Init ==
  /\ received = 0
  /\ buffer = <<>>
  /\ step = [j \in Jobs |-> "idle"]
  /\ taken = [j \in Jobs |-> <<>>]
  /\ summary = [j \in Jobs |-> {}]
  /\ graph = {}
  /\ out = <<>>
  /\ toCouncil = <<>>
  /\ context = {}
  /\ gone = {}
  /\ written = [n \in Reports |-> 0]
  /\ unordered = FALSE

-----------------------------------------------------------------------------
(* run(): the loop *)

(* A report arrives: the buffer takes it, and when it is full its first    *)
(* report makes room.                                                      *)
ReceiveReport ==
  /\ received < MaxReports
  /\ received' = received + 1
  /\ IF Len(buffer) < Limit
     THEN buffer' = Append(buffer, received') /\ UNCHANGED gone
     ELSE /\ buffer' = Append(Tail(buffer), received')
          /\ gone' = gone \cup {Head(buffer)}
  /\ UNCHANGED <<step, taken, summary, graph, out, toCouncil, context, written, unordered>>

(* A SolidifyTick arrives: a job is spawned, whatever other jobs do. *)
ReceiveTick(j) ==
  /\ step[j] = "idle"
  /\ step' = [step EXCEPT ![j] = "spawned"]
  /\ UNCHANGED <<received, buffer, taken, summary, graph, out, toCouncil, context,
                 gone, written, unordered>>

-----------------------------------------------------------------------------
(* solidify(): one job *)

Finish(j) ==
  /\ step' = [step EXCEPT ![j] = "idle"]
  /\ taken' = [taken EXCEPT ![j] = <<>>]

(* The buffer is empty: nothing to do. *)
NothingToDo(j) ==
  /\ step[j] = "spawned"
  /\ buffer = <<>>
  /\ step' = [step EXCEPT ![j] = "idle"]
  /\ UNCHANGED <<received, buffer, taken, summary, graph, out, toCouncil, context,
                 gone, written, unordered>>

(* Mutant: the job works on a copy of the buffer. *)
TakeBufferCopy(j) ==
  /\ step[j] = "spawned"
  /\ buffer # <<>>
  /\ taken' = [taken EXCEPT ![j] = buffer]
  /\ step' = [step EXCEPT ![j] = "asking"]
  /\ unordered' = (unordered \/ \E k \in Jobs \ {j} : step[k] \notin {"idle", "spawned"})
  /\ UNCHANGED <<received, buffer, summary, graph, out, toCouncil, context, gone, written>>

(* The job takes the whole buffer under its lock and calls the model. *)
TakeBuffer(j) ==
  /\ step[j] = "spawned"
  /\ buffer # <<>>
  /\ taken' = [taken EXCEPT ![j] = buffer]
  /\ buffer' = <<>>
  /\ step' = [step EXCEPT ![j] = "asking"]
  /\ unordered' = (unordered \/ \E k \in Jobs \ {j} : step[k] \notin {"idle", "spawned"})
  /\ UNCHANGED <<received, summary, graph, out, toCouncil, context, gone, written>>

(* Mutant: the room for restored reports ignores those that arrived since. *)
RemainingWhenTaken == Limit

(* report_buffer_limit - buf.len(): a usize, which must not underflow. *)
Remaining == Limit - Len(buffer)

(* Mutant: what does not fit as a whole is not restored at all. *)
RestoreAllOrNothing(j) ==
  LET kept == IF Len(taken[j]) <= Remaining THEN Len(taken[j]) ELSE 0
  IN /\ step[j] = "asking"
     /\ buffer' = buffer \o SubSeq(taken[j], 1, kept)
     /\ gone' = gone \cup Elements(SubSeq(taken[j], kept + 1, Len(taken[j])))
     /\ Finish(j)
     /\ UNCHANGED <<received, summary, graph, out, toCouncil, context, written, unordered>>

(* The model fails: as many reports as there is room for go back, behind   *)
(* those that arrived meanwhile.                                           *)
RestoreBuffer(j) ==
  LET kept == IF Len(taken[j]) < Remaining THEN Len(taken[j]) ELSE Remaining
  IN /\ step[j] = "asking"
     /\ buffer' = buffer \o SubSeq(taken[j], 1, kept)
     /\ gone' = gone \cup Elements(SubSeq(taken[j], kept + 1, Len(taken[j])))
     /\ Finish(j)
     /\ UNCHANGED <<received, summary, graph, out, toCouncil, context, written, unordered>>

(* The answer does not parse, or holds no updates: the job ends and its    *)
(* reports with it.                                                        *)
NoUpdates(j) ==
  /\ step[j] = "asking"
  /\ gone' = gone \cup Elements(taken[j])
  /\ Finish(j)
  /\ UNCHANGED <<received, buffer, summary, graph, out, toCouncil, context, written, unordered>>

(* The answer holds updates. *)
UpdatesParsed(j) ==
  /\ step[j] = "asking"
  /\ step' = [step EXCEPT ![j] = "applying"]
  /\ UNCHANGED <<received, buffer, taken, summary, graph, out, toCouncil, context,
                 gone, written, unordered>>

(* Mutant: the night's updates replace the graph. *)
WriteReplaces(E) ==
  /\ graph' = E
  /\ written' = [n \in Reports |-> IF n \in E THEN written[n] + 1 ELSE written[n]]

Write(E) ==
  /\ graph' = graph \cup E
  /\ written' = [n \in Reports |-> IF n \in E THEN written[n] + 1 ELSE written[n]]

(* apply_updates() writes one update after the other, all of them ... *)
ApplyUpdates(j) ==
  /\ step[j] = "applying"
  /\ Write(Elements(taken[j]))
  /\ gone' = gone \cup Elements(taken[j])
  /\ step' = [step EXCEPT ![j] = "summarising"]
  /\ taken' = [taken EXCEPT ![j] = <<>>]
  /\ UNCHANGED <<received, buffer, summary, out, toCouncil, context, unordered>>

(* Mutant: a failed job puts its reports back, written or not. *)
ApplyFailsThenRestores(j) ==
  LET kept == IF Len(taken[j]) < Remaining THEN Len(taken[j]) ELSE Remaining
  IN /\ step[j] = "applying"
     /\ \E k \in 0 .. Len(taken[j]) - 1 : Write(Elements(SubSeq(taken[j], 1, k)))
     /\ buffer' = buffer \o SubSeq(taken[j], 1, kept)
     /\ gone' = gone \cup Elements(SubSeq(taken[j], kept + 1, Len(taken[j])))
     /\ Finish(j)
     /\ UNCHANGED <<received, summary, out, toCouncil, context, unordered>>

(* ... or fails at one of them: those before it stay in the graph, *)
(* the others are lost with the job.                                       *)
ApplyFails(j) ==
  /\ step[j] = "applying"
  /\ \E k \in 0 .. Len(taken[j]) - 1 :
       Write(Elements(SubSeq(taken[j], 1, k)))
  /\ gone' = gone \cup Elements(taken[j])
  /\ Finish(j)
  /\ UNCHANGED <<received, buffer, summary, out, toCouncil, context, unordered>>

(* relationship_summary(): the graph as it is now. *)
ReadSummary(j) ==
  /\ step[j] = "summarising"
  /\ summary' = [summary EXCEPT ![j] = graph]
  /\ step' = [step EXCEPT ![j] = "sending"]
  /\ UNCHANGED <<received, buffer, taken, graph, out, toCouncil, context, gone, written,
                 unordered>>

(* The query or the reading of its rows fails: the store answers with what *)
(* it has read so far, nothing perhaps, which the job words as "no         *)
(* relations yet".                                                         *)
SummaryFails(j) ==
  /\ step[j] = "summarising"
  /\ \E part \in SUBSET graph \ {graph} : summary' = [summary EXCEPT ![j] = part]
  /\ unordered' = TRUE
  /\ step' = [step EXCEPT ![j] = "sending"]
  /\ UNCHANGED <<received, buffer, taken, graph, out, toCouncil, context, gone, written>>

(* Mutant: the channel to the router has no bound. *)
SendContextUnbounded(j) ==
  /\ step[j] = "sending"
  /\ out' = Append(out, summary[j])
  /\ step' = [step EXCEPT ![j] = "idle"]
  /\ summary' = [summary EXCEPT ![j] = {}]
  /\ UNCHANGED <<received, buffer, taken, graph, toCouncil, context, gone, written, unordered>>

(* The summary is sent as Event::DailyContext. *)
SendContext(j) ==
  /\ step[j] = "sending"
  /\ Len(out) < OutCapacity
  /\ out' = Append(out, summary[j])
  /\ step' = [step EXCEPT ![j] = "idle"]
  /\ summary' = [summary EXCEPT ![j] = {}]
  /\ UNCHANGED <<received, buffer, taken, graph, toCouncil, context, gone, written, unordered>>

-----------------------------------------------------------------------------
(* The router and the council *)

(* The router records the context and passes it on ... *)
ForwardContext ==
  /\ out # <<>>
  /\ Len(toCouncil) < InCapacity
  /\ toCouncil' = Append(toCouncil, Head(out))
  /\ out' = Tail(out)
  /\ UNCHANGED <<received, buffer, step, taken, summary, graph, context, gone, written, unordered>>

(* ... unless it cannot be recorded: then the council never sees it. *)
RecordContextFails ==
  /\ out # <<>>
  /\ out' = Tail(out)
  /\ UNCHANGED <<received, buffer, step, taken, summary, graph, toCouncil, context,
                 gone, written, unordered>>

(* store_daily_context(): the council's prompts use it from now on. *)
StoreDailyContext ==
  /\ toCouncil # <<>>
  /\ context' = Head(toCouncil)
  /\ toCouncil' = Tail(toCouncil)
  /\ UNCHANGED <<received, buffer, step, taken, summary, graph, out, gone, written, unordered>>

-----------------------------------------------------------------------------
Job(j) ==
  \/ NothingToDo(j) \/ TakeBuffer(j)
  \/ RestoreBuffer(j) \/ NoUpdates(j) \/ UpdatesParsed(j)
  \/ ApplyUpdates(j) \/ ApplyFails(j)
  \/ ReadSummary(j) \/ SummaryFails(j)
  \/ SendContext(j)

Next ==
  \/ ReceiveReport
  \/ \E j \in Jobs : ReceiveTick(j) \/ Job(j)
  \/ ForwardContext \/ RecordContextFails \/ StoreDailyContext

Spec == Init /\ [][Next]_vars

-----------------------------------------------------------------------------
(* Properties *)

(* The type invariant. *)
TypeOK ==
  /\ received \in 0 .. MaxReports
  /\ buffer \in Seq(Reports)
  /\ step \in [Jobs -> Steps]
  /\ taken \in [Jobs -> Seq(Reports)]
  /\ summary \in [Jobs -> SUBSET Reports]
  /\ graph \subseteq Reports
  /\ out \in Seq(SUBSET Reports) /\ Len(out) <= OutCapacity
  /\ toCouncil \in Seq(SUBSET Reports) /\ Len(toCouncil) <= InCapacity
  /\ context \subseteq Reports
  /\ gone \subseteq Reports
  /\ written \in [Reports -> Nat]
  /\ unordered \in BOOLEAN

(* The buffer never holds more than report_buffer_limit, so the room for   *)
(* restored reports, limit - len, never underflows: not with reports that  *)
(* arrive while the model is asked and jobs that fail one after another.   *)
BufferWithinLimit == Len(buffer) <= Limit

(* Every report received is in one place: at one position of the buffer,   *)
(* at one position of what one job holds, or gone for good.  No report is  *)
(* solidified twice, and none is lost by the handover between buffer and   *)
(* jobs.                                                                   *)
EveryReportInOnePlace ==
  \A n \in 1 .. received :
    LET inBuffer == {<<"buffer", i>> : i \in {k \in 1 .. Len(buffer) : buffer[k] = n}}
        inJobs   == UNION {{<<j, i>> : i \in {k \in 1 .. Len(taken[j]) : taken[j][k] = n}} :
                             j \in Jobs}
        isGone   == IF n \in gone THEN {"gone"} ELSE {}
    IN Cardinality(inBuffer) + Cardinality(inJobs) + Cardinality(isGone) = 1

(* No report is written to the graph twice, a job that fails half way and  *)
(* a restored buffer included.                                             *)
WrittenAtMostOnce == \A n \in Reports : written[n] <= 1

(* A model failure costs a report only when the buffer is full after the   *)
(* restore.                                                                *)
RestoreLosesOnlyWhenFull ==
  [][\A j \in Jobs : RestoreBuffer(j) /\ gone' # gone => Len(buffer') = Limit]_vars

(* The council's memory does not go back: a context replaces one that      *)
(* reflects no more of the graph, as long as jobs do not overlap and the   *)
(* graph answers.                                                          *)
ContextMovesForward ==
  [][context' # context /\ ~unordered => context \subseteq context']_vars

(* actor.rs:128 says that the council's long-term memory is refreshed from *)
(* the graph, so that solidification influences the next day's replies.    *)
ContextRefreshedFromGraph ==
  [][context' # context => context' # {}]_vars
=============================================================================
