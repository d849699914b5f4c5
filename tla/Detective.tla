----------------------------- MODULE Detective -----------------------------
(***************************************************************************)
(* Layer 4 (crates/neko-detective/src/actor.rs, parser.rs), the vector     *)
(* memory it shares with the router (qdrant.rs, neko-llm/src/embedding.rs) *)
(* and the router's arm that applies memory decisions (apply_memory_       *)
(* decision, neko-router/src/router.rs).                                   *)
(*                                                                         *)
(* The loop spawns a task per request and per burst.  A request's task     *)
(* searches the memory, asks the model for a report, stores the facts the  *)
(* memory does not hold yet, and sends the report.  A burst's task asks    *)
(* the model for memory updates, which the router applies one by one.      *)
(* Every operation of the store first makes sure that the collection       *)
(* exists, in two calls.  An upsert is not told to wait: the store answers *)
(* when it has taken the points, and applies them later.                   *)
(*                                                                         *)
(* A fact stands for all the texts the similarity threshold takes for the  *)
(* same.  What the history and the memory add to a prompt is left out, as  *)
(* are blank facts.                                                        *)
(***************************************************************************)
EXTENDS Integers, Sequences, FiniteSets

CONSTANTS
  Requests, Bursts,   \* what the dispatcher sends
  Router,             \* the dispatcher, as a user of the store
  Groups, GroupOf,    \* the group of a request or burst
  Facts,              \* texts, up to similarity
  Reports,            \* what a model may report to a request: the facts it lists
  Decisions,          \* the updates a model may decide on
  InboxCapacity, RouterCapacity

Works == Requests \cup Bursts
Users == Requests \cup {Router}         \* who uses the store

(* A memory update, by the store it is for. *)
Updates == [kind : {"vector"}, fact : Facts] \cup [kind : {"graph", "affective"}]

ASSUME WorkAssumption == /\ GroupOf \in [Works -> Groups]
                         /\ Requests \cap Bursts = {} /\ Router \notin Works

ASSUME ModelAssumption == /\ Reports \in [Requests -> SUBSET Seq(Facts)]
                          /\ Decisions \subseteq Seq(Updates)

ASSUME CapacityAssumption == InboxCapacity \in Nat \ {0} /\ RouterCapacity \in Nat \ {0}

VARIABLES
  inbox,        \* channel dispatcher -> detective
  work,         \* the task of each request and burst, and of the router
  out,          \* channel layers -> dispatcher
  routerUp,     \* the dispatcher runs
  collection,   \* the collection exists
  taken,        \* the points the store has taken
  points,       \* those of them it has applied: what a search finds
  \* history: nothing in the code reads these
  report,       \* the facts the model reported to a request
  overlap,      \* pairs of requests that learnt at the same time
  blind,        \* what a request looked up in vain: the search failed, or came too early
  lost,         \* requests that were told their facts could not be stored
  decision      \* the updates the model decided on for a burst

detVars == <<inbox, work, out, routerUp, collection, taken, points, report, overlap, blind,
             lost, decision>>
store   == <<collection, taken, points>>
learnt  == <<report, overlap, blind, lost>>

(* A task: the await it has reached; what it uses the store for; the facts *)
(* (the router: the updates) still to be looked at; the facts to store.    *)
Task(st, op, todo, new) == [st |-> st, op |-> op, todo |-> todo, new |-> new]
Idle  == Task("none", "search", <<>>, <<>>)
Ended == Task("done", "search", <<>>, <<>>)

Stages == {"none", "ensure", "create", "perform", "asking", "report", "decide", "apply", "done"}
Uses   == {"search", "dedup", "upsert"}

Point(t, f) == [fact |-> f, group |-> GroupOf[t], by |-> t]
Known(t, f) == \E p \in points : p.fact = f /\ p.group = GroupOf[t]
Taken(t, f) == \E p \in taken : p.fact = f /\ p.group = GroupOf[t]

Elements(s) == {s[i] : i \in DOMAIN s}

DetectiveInit ==
  /\ inbox = <<>> /\ out = <<>> /\ routerUp = TRUE
  /\ work = [t \in Works \cup {Router} |-> Idle]
  /\ collection = FALSE /\ taken = {} /\ points = {}
  /\ report = [r \in Requests |-> <<>>]
  /\ overlap = {} /\ blind = {} /\ lost = {}
  /\ decision = [b \in Bursts |-> <<>>]

-----------------------------------------------------------------------------
(* The dispatcher's arms for requests and bursts, and the loop.            *)

Requested(t) == \/ work[t] # Idle
                \/ t \in Elements(inbox)

(* Each request and burst comes once. *)
RouterSends(t) ==
  /\ routerUp /\ work[Router] = Idle
  /\ ~Requested(t) /\ Len(inbox) < InboxCapacity
  /\ inbox' = Append(inbox, t)
  /\ UNCHANGED <<work, out, routerUp, store, learnt, decision>>

TakeWork ==
  LET t == Head(inbox) IN
  /\ inbox # <<>>
  /\ inbox' = Tail(inbox)
  /\ work' = [work EXCEPT ![t] = IF t \in Requests THEN Task("ensure", "search", <<>>, <<>>)
                                 ELSE Task("asking", "search", <<>>, <<>>)]
  /\ UNCHANGED <<out, routerUp, store, learnt, decision>>

-----------------------------------------------------------------------------
(* ensure_collection(): the check and the creation are two calls.          *)

rest == <<inbox, out, routerUp, learnt, decision>>

CollectionThere(t) ==
  /\ work[t].st = "ensure" /\ collection
  /\ work' = [work EXCEPT ![t].st = "perform"]
  /\ UNCHANGED <<rest, store>>

CollectionMissing(t) ==
  /\ work[t].st = "ensure" /\ ~collection
  /\ work' = [work EXCEPT ![t].st = "create"]
  /\ UNCHANGED <<rest, store>>

Creates == collection' = TRUE /\ UNCHANGED <<taken, points>>

(* Of two tasks that found it missing only the first can create it. *)
CollectionCreated(t) ==
  /\ work[t].st = "create" /\ ~collection
  /\ Creates
  /\ work' = [work EXCEPT ![t].st = "perform"]
  /\ UNCHANGED rest

-----------------------------------------------------------------------------
(* upsert_points(): the call does not ask the store to wait.               *)

(* The burst whose decision the router applies. *)
Source == Head(work[Router].new)

(* Every record has an id of its own, so nothing is replaced. *)
Upserted(t) ==
  IF t = Router THEN {Point(Source, Head(work[Router].todo).fact)}
  ELSE {Point(t, f) : f \in Elements(work[t].new)}

Takes(t) == taken' = taken \cup Upserted(t) /\ UNCHANGED <<collection, points>>

(* A call that fails may have been carried out, its answer lost. *)
AnswerLost(t) ==
  \/ work[t].st = "create" /\ Creates
  \/ work[t].st = "perform" /\ work[t].op = "upsert" /\ Takes(t)

(* The store applies what it took, when it gets to it; what it never       *)
(* applies it does not report.                                             *)
PointApplied(p) ==
  /\ p \in taken \ points
  /\ points' = points \cup {p}
  /\ UNCHANGED <<rest, work, collection, taken>>

-----------------------------------------------------------------------------
(* handle_request(): the memory is searched, the model asked.              *)

Asking == Task("asking", "search", <<>>, <<>>)

Searched(r) ==
  /\ work[r].st = "perform" /\ work[r].op = "search"
  /\ work' = [work EXCEPT ![r] = Asking]
  /\ UNCHANGED <<rest, store>>

(* persist_facts(): facts are looked up one by one, the new ones stored    *)
(* together, then the report is sent.                                      *)
Learning(todo, new) ==
  IF todo # <<>> THEN Task("ensure", "dedup", todo, new)
  ELSE IF new # <<>> THEN Task("ensure", "upsert", <<>>, new)
  ELSE Task("report", "search", <<>>, <<>>)

Learns(r) == r \in Requests /\ work[r].op \in {"dedup", "upsert"}

(* The model's report parses. *)
ModelReports(r) ==
  /\ r \in Requests /\ work[r].st = "asking"
  /\ \E facts \in Reports[r] :
      /\ work' = [work EXCEPT ![r] = Learning(facts, <<>>)]
      /\ report' = [report EXCEPT ![r] = facts]
      /\ overlap' = overlap \cup {{r, q} : q \in {q \in Requests : Learns(q)}}
      /\ UNCHANGED <<inbox, out, routerUp, store, blind, lost, decision>>

(* The call fails: the report is empty. *)
ModelFails(r) ==
  /\ r \in Requests /\ work[r].st = "asking"
  /\ work' = [work EXCEPT ![r] = Learning(<<>>, <<>>)]
  /\ UNCHANGED <<rest, store>>

(* Mutant: the investigation is started again. *)
ReportUnparsableStartsOver(r) ==
  /\ r \in Requests /\ work[r].st = "asking"
  /\ work' = [work EXCEPT ![r] = Task("ensure", "search", <<>>, <<>>)]
  /\ UNCHANGED <<rest, store>>

(* The answer does not parse: nobody gets a report. *)
ReportUnparsable(r) ==
  /\ r \in Requests /\ work[r].st = "asking"
  /\ work' = [work EXCEPT ![r] = Ended]
  /\ UNCHANGED <<rest, store>>

(* Mutant: a fact is never found similar enough. *)
NeverKnown(t, f) == FALSE

AlreadyKnown(t, f) == Known(t, f)

(* search_with_score() in the request's group: a fact the memory holds is  *)
(* skipped; one the store has taken and not applied yet is not found.      *)
FactChecked(r) ==
  LET f == Head(work[r].todo) IN
  /\ work[r].st = "perform" /\ work[r].op = "dedup"
  /\ work' = [work EXCEPT ![r] =
       Learning(Tail(@.todo), IF AlreadyKnown(r, f) THEN @.new ELSE Append(@.new, f))]
  /\ blind' = IF Taken(r, f) /\ ~Known(r, f) THEN blind \cup {Point(r, f)} ELSE blind
  /\ UNCHANGED <<inbox, out, routerUp, store, report, overlap, lost, decision>>

(* embed_and_upsert() returns Ok: the store has taken the facts. *)
FactsTaken(r) ==
  /\ r \in Requests /\ work[r].st = "perform" /\ work[r].op = "upsert"
  /\ Takes(r)
  /\ work' = [work EXCEPT ![r] = Learning(<<>>, <<>>)]
  /\ UNCHANGED rest

(* Mutant: a fact whose search fails is skipped. *)
StoreFailsSkipping(r) ==
  LET w == work[r] IN
  /\ r \in Requests /\ w.st \in {"ensure", "create", "perform"}
  /\ work' = [work EXCEPT ![r] =
       CASE w.op = "search" -> Asking
         [] w.op = "dedup"  -> Learning(Tail(w.todo), w.new)
         [] w.op = "upsert" -> Learning(<<>>, <<>>)]
  /\ blind' = IF w.op = "dedup" THEN blind \cup {Point(r, Head(w.todo))} ELSE blind
  /\ lost' = IF w.op = "upsert" THEN lost \cup {r} ELSE lost
  /\ UNCHANGED store \/ AnswerLost(r)
  /\ UNCHANGED <<inbox, out, routerUp, report, overlap, decision>>

(* The store, or the embedding of a text, fails, and it always does for    *)
(* the second task that creates the collection.  A search comes back       *)
(* empty; a fact is stored without its check; facts that cannot be stored  *)
(* are given up, although the store may have taken them.                   *)
StoreFails(r) ==
  LET w == work[r] IN
  /\ r \in Requests /\ w.st \in {"ensure", "create", "perform"}
  /\ work' = [work EXCEPT ![r] =
       CASE w.op = "search" -> Asking
         [] w.op = "dedup"  -> Learning(Tail(w.todo), Append(w.new, Head(w.todo)))
         [] w.op = "upsert" -> Learning(<<>>, <<>>)]
  /\ blind' = IF w.op = "dedup" THEN blind \cup {Point(r, Head(w.todo))} ELSE blind
  /\ lost' = IF w.op = "upsert" THEN lost \cup {r} ELSE lost
  /\ UNCHANGED store \/ AnswerLost(r)
  /\ UNCHANGED <<inbox, out, routerUp, report, overlap, decision>>

(* Mutant: the channel to the router has no bound. *)
UnboundedTurn == TRUE

(* out.send() waits for room, and returns at once when the router is gone. *)
Turn == Len(out) < RouterCapacity \/ ~routerUp

(* The report goes out under its request's ids, whatever the model wrote;  *)
(* a closed channel is ignored.                                            *)
ReportSent(r) ==
  /\ work[r].st = "report" /\ Turn
  /\ out' = IF routerUp THEN Append(out, r) ELSE out
  /\ work' = [work EXCEPT ![r] = Ended]
  /\ UNCHANGED <<inbox, routerUp, store, learnt, decision>>

-----------------------------------------------------------------------------
(* handle_burst(): a failed call, an answer that does not parse and an     *)
(* empty decision all end the task without a word.                         *)

BurstCurated(b) ==
  \E updates \in Decisions :
    /\ b \in Bursts /\ work[b].st = "asking"
    /\ work' = [work EXCEPT ![b] = IF updates = <<>> THEN Ended ELSE [@ EXCEPT !.st = "decide"]]
    /\ decision' = [decision EXCEPT ![b] = updates]
    /\ UNCHANGED <<inbox, out, routerUp, store, learnt>>

DecisionSent(b) ==
  /\ work[b].st = "decide" /\ Turn
  /\ out' = IF routerUp THEN Append(out, b) ELSE out
  /\ work' = [work EXCEPT ![b] = Ended]
  /\ UNCHANGED <<inbox, routerUp, store, learnt, decision>>

TaskStep(t) ==
  \/ CollectionThere(t) \/ CollectionMissing(t) \/ CollectionCreated(t)
  \/ Searched(t) \/ ModelReports(t) \/ ModelFails(t) \/ ReportUnparsable(t)
  \/ FactChecked(t) \/ FactsTaken(t) \/ StoreFails(t) \/ ReportSent(t)
  \/ BurstCurated(t) \/ DecisionSent(t)

-----------------------------------------------------------------------------
(* apply_memory_decision(): the updates in order; the first that fails     *)
(* ends it.                                                                *)

Applying(todo) ==
  IF todo = <<>> THEN Idle
  ELSE Task(IF Head(todo).kind = "vector" THEN "ensure" ELSE "apply", "upsert", todo, <<>>)

(* The report's arm only forwards it. *)
RouterTakes ==
  LET t == Head(out) IN
  /\ routerUp /\ work[Router] = Idle /\ out # <<>>
  /\ out' = Tail(out)
  /\ work' = [work EXCEPT ![Router] =
       IF t \in Bursts THEN [Applying(decision[t]) EXCEPT !.new = <<t>>] ELSE Idle]
  /\ UNCHANGED <<inbox, routerUp, store, learnt, decision>>

UpdateApplied ==
  LET u == Head(work[Router].todo) IN
  /\ work[Router].st \in {"perform", "apply"}
  /\ IF u.kind = "vector" THEN Takes(Router) ELSE UNCHANGED store
  /\ work' = [work EXCEPT ![Router] =
       IF Len(@.todo) = 1 THEN Idle ELSE [Applying(Tail(@.todo)) EXCEPT !.new = <<Source>>]]
  /\ UNCHANGED rest

UpdateFails ==
  /\ work[Router].st \in {"ensure", "create", "perform", "apply"}
  /\ work' = [work EXCEPT ![Router] = Idle]
  /\ UNCHANGED store \/ AnswerLost(Router)
  /\ UNCHANGED rest

RouterStep ==
  \/ RouterTakes \/ UpdateApplied \/ UpdateFails
  \/ CollectionThere(Router) \/ CollectionMissing(Router) \/ CollectionCreated(Router)

(* Shutdown: seen between two events. *)
RouterStops ==
  /\ routerUp /\ work[Router] = Idle
  /\ routerUp' = FALSE /\ out' = <<>>
  /\ UNCHANGED <<inbox, work, store, learnt, decision>>

DetectiveNext ==
  \/ \E t \in Works : RouterSends(t) \/ TaskStep(t)
  \/ TakeWork \/ RouterStep \/ RouterStops
  \/ \E p \in taken : PointApplied(p)

DetectiveSpec == DetectiveInit /\ [][DetectiveNext]_detVars

(* The runtime runs the loop, the tasks and the dispatcher; calls of the   *)
(* store and the model return or time out.  Nothing is asked of how soon   *)
(* the store applies what it took.                                         *)
DetectiveFairness ==
  /\ WF_detVars(TakeWork) /\ WF_detVars(RouterStep)
  /\ \A t \in Works : WF_detVars(TaskStep(t))

DetectiveFairSpec == DetectiveSpec /\ DetectiveFairness

-----------------------------------------------------------------------------
(* The types. *)
TypeOK ==
  /\ inbox \in Seq(Works) /\ Len(inbox) <= InboxCapacity
  /\ out \in Seq(Works) /\ Len(out) <= RouterCapacity
  /\ \A t \in Works : work[t] \in [st : Stages, op : Uses, todo : Seq(Facts), new : Seq(Facts)]
  /\ work[Router] \in [st : Stages, op : Uses, todo : Seq(Updates), new : Seq(Bursts)]
  /\ routerUp \in BOOLEAN /\ collection \in BOOLEAN
  /\ taken \subseteq [fact : Facts, group : Groups, by : Works] /\ points \subseteq taken
  /\ taken # {} => collection
  /\ report \in [Requests -> Seq(Facts)]
  /\ blind \subseteq [fact : Facts, group : Groups, by : Requests]
  /\ lost \subseteq Requests /\ overlap \subseteq SUBSET Requests
  /\ decision \in [Bursts -> Seq(Updates)]

(* Two requests store the same fact of a group only if they were learning  *)
(* at the same time, or one of them looked it up in vain: its search       *)
(* failed, or came after the store had acknowledged the other's fact and   *)
(* before it applied it.  What a search can find is never learnt again     *)
(* (persist_facts, actor.rs; embed_and_upsert, qdrant.rs).                 *)
DuplicateOnlyFromOverlap ==
  \A p, q \in {x \in points : x.by \in Requests} :
    p.fact = q.fact /\ p.group = q.group /\ p.by # q.by =>
      {p.by, q.by} \in overlap \/ p \in blind \/ q \in blind

Reported(r) == work[r].st \in {"report", "done"}

(* When a report goes out the store has taken all its facts, in its group, *)
(* or the request was told that they could not be stored: neither the      *)
(* check for duplicates nor its failure loses one (persist_facts is        *)
(* awaited before the report is sent).                                     *)
TakenBeforeReported ==
  \A r \in Requests : Reported(r) /\ r \notin lost =>
    \A f \in Elements(report[r]) : Taken(r, f)

(* Every request and burst that is taken comes to an end, although the     *)
(* model and the stores may fail at every call and the dispatcher, which   *)
(* drains the channel the tasks wait for, uses the same store.             *)
EventuallySettled == \A t \in Works : work[t].st # "none" ~> work[t].st = "done"
=============================================================================
