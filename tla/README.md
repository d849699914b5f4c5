# NekoRouter in TLA+

TLA+ models of NekoRouter, the TLC runs that check them on small instances and
the TLAPS proofs of the properties that matter most. Paths below are relative
to `crates/` of the repository.

## 1. The system

A chat bot for group chats: five layers connected by bounded tokio channels, a
dispatcher in the middle, three stores at the bottom.

```
 platform --ws--> ingress --raw(4096)--> sensory --gate(1024)--> gate
                                            ^                      |
                               routed(1024) |                      | Escalation, GateDecision
                                            |                      v
 platform <--egress-- [ dispatcher <---------router(1024)----------+
                        |  |  |  ^ ^ ^ CouncilDecision, DetectiveRequest, ReplyOut
             council ---+  |  |  | | +---- council   <--- council(1024)
             detective ----+  |  | +------ detective <--- detective(1024)
             solidify --------+  +-------- solidify  <--- solidify(1024) <-- cron
```

| Component | State it keeps | Operations | Talks to |
| --- | --- | --- | --- |
| ingress (`neko-sensory/src/ingress.rs`) | the websocket | reconnect, parse, `try_send`, drop when full | sensory |
| sensory (`neko-sensory/src/actor.rs`) | affective states, batch buffer, seen ids, burst windows | handle a message or a reply, flush, detect a burst, restore at start | gate, history store |
| gate (`neko-gate/src`) | recent context per group, last affective state | classify a message in a task of its own | dispatcher, model |
| model client (`neko-llm/src`) | none | send a request, retry after a wait | gate, council, detective, solidify |
| council (`neko-council/src/actor.rs`) | `pending_detective`, `daily_context` | a task per escalation, a task per report, the sweeper, the daily context | dispatcher, model, history store |
| detective (`neko-detective/src/actor.rs`) | none; vector memory outside | a task per request, a task per burst | dispatcher, model, both memories |
| solidify (`neko-solidify/src/actor.rs`) | the report buffer | buffer a report, a job per tick | dispatcher, model, graph store |
| dispatcher (`neko-router/src/router.rs`, `main.rs`) | the cooldown, counters | one arm per event, in line | every layer, stores, egress |
| cooldown (`neko-core/src/cooldown.rs`) | a watermark per group, in memory and in SQLite | `allow`, save in a task, load at start | dispatcher, history store |
| history store (`neko-memory/src/sqlite.rs`) | messages, replies, events, affective states, watermarks | inserts, upserts, context queries | all |
| graph store (`neko-solidify/src/neo4j.rs`) | relations between users | apply updates, summary, merge a relation | solidify, dispatcher |
| vector memory (`neko-detective/src/qdrant.rs`) | facts with embeddings | make sure the collection exists, search, upsert | detective, dispatcher |
| wiring (`neko-router/src/main.rs`) | channels, the shutdown signal, the cron job | build, spawn, load the cooldowns, join every loop | all |

What is hard about it:

* **Concurrency.** The council, the gate, the detective and solidify handle each
  event in a task of its own; the tasks share maps and buffers and are
  interleaved at every `await`. Saving a watermark is a task nobody waits for.
* **Ordering.** A report may come before its request is booked, after it was
  swept, twice, or for an escalation that was replaced; saves finish in any
  order; jobs of two ticks overlap.
* **Copies.** The layers clone themselves into their tasks; an `Arc` is shared by
  such a clone, a bare `DashMap` is copied.
* **Failure.** Every call to a model, a store or the platform may fail, in the
  middle of a handler that already changed something. An answer of the platform
  may be lost after it delivered. The process may die between any two steps.
* **Time.** The sweeper is periodic, the cooldown reads a wall clock that can be
  set back, and the table rounds it to milliseconds.
* **Limits.** Channels are bounded and awaited in line; buffers and sets are
  bounded by dropping or clearing.

`PROJECT.json` lists each hazard at its line with the properties that would
catch it, or the plan for it.

## 2. The modules

| Module | Models | Kind |
| --- | --- | --- |
| `ReplyAuthority` | what the council promises about an escalation | abstract specification |
| `Council` | `neko-council/src/actor.rs`, with the dispatcher and the detective as its environment | component |
| `ReplyCooldown` | `cooldown.rs` and the `reply_cooldowns` table, clock, crash, restart | component |
| `ReplyDispatch` | the `ReplyOut` arm of the dispatcher, on top of `ReplyCooldown`, with the `replies` table, the egress and sensory's channel | composition |
| `Solidify` | `neko-solidify/src/actor.rs`, the graph store and the daily context's way to the council | component |
| `Sensory` | `neko-sensory/src/actor.rs`, `push_or_drop` of the ingress, the `messages` and `affective_snapshots` tables, `apply_affective_delta` | component |
| `Affective` | the arithmetic of an affective state: decay, touch, reply, delta, and the table's rounding, under a wall clock | component |
| `ModelCall` | what a call of a model promises its caller | abstract specification |
| `ModelClient` | the retry loop of `neko-llm/src/openai.rs` | component |
| `Gate` | `neko-gate/src`, on top of `ModelClient`, with sensory before it and the dispatcher behind it | composition |
| `Detective` | `neko-detective/src`, the vector store, and the dispatcher's `apply_memory_decision` | composition |
| `NekoRouter` | `run()` and everything it spawns: loops, channels, connection, cron job, start-up, shutdown | composition |
| `CouncilProofs`, `ReplyDispatchProofs`, `SolidifyProofs`, `SensoryProofs`, `AffectiveProofs`, `GateProofs`, `DetectiveProofs`, `NekoRouterProofs` | theorems and proofs | proofs |
| `MC*` | values of the constants for TLC | model checking |

`NekoRouter` has the loops and the channels between them; the component modules
have what happens inside a layer. Each component carries as much of its
neighbours as its properties need.

### Council

One action per step of a task from one `await` to the next. `task[e]` is the
await the task of escalation `e` has reached: the history query, the model, the
send of the decision, of the reply or of the request. `pending` is the shared
`DashMap`, keyed by message: two escalations may carry the same message.
`inserted_at` is kept as an age that `Tick` advances for every entry; `by`, the
escalation that made the entry, is not in the code and is there to tell whose
reply a reply is. `phase` and `sweepDue` are tokio's interval with
`MissedTickBehavior::Skip`. `DecisionSent` is one action because the insertion
into the map follows the send of the decision with no await between them.
`reviews` and `composed` are the `handle_report` tasks. `RouterStops` is
shutdown as the council sees it: the sends of its tasks fail, and its loop
drains what is queued. `replied`, `removal` and `ignored` are history variables.

`StageOf` maps a state to `ReplyAuthority`: an escalation is open while its
task, its entry or its composed reply can still answer it, answered once a reply
was sent, dropped otherwise. The refinement says that these are final: nothing
that comes later answers an escalation that was dropped.

### ReplyCooldown and ReplyDispatch

`time` is real time, `time - back` the wall clock. `lastReply` is the map behind
the mutex, `saves` the spawned tasks, `stored` the table. `Allows` is the test in
`allow`, including the branch in which the difference is negative. A crash drops
memory and tasks; a restart loads the table before the first `allow`.

`ReplyDispatch` extends it: `step` is the await the dispatcher has reached with
its current reply (look up the platform id, insert the row, call the egress, tell
sensory). Each await may fail and the process may die in each; a failed or cut
send may have been delivered all the same. `table` and `delivered` outlive the
process. A graceful shutdown stops between two events and loses the queue and
the saves, which is `ProcessCrash` in the step `"waiting"`.

### Solidify

Reports are numbered as the loop receives them. A job's `step` is its await: the
model, `apply_updates`, `relationship_summary`, the send. `graph` is the set of
reports that were written; a summary is the graph it was read from, and a failed
or cut-off query yields less than the graph (the store answers `Ok`). The
summary passes the dispatcher, which records it first and drops it when it
cannot, to the council's `daily_context`. Several jobs may run at once: ticks are
not serialised. Shutdown is `NekoRouter`'s.

### Sensory

One loop handles one event at a time, so `step` is the single await it has
reached and `after` the place a flush returns to (the loop, the burst detection
of the message that filled the batch, or the end of `run`). The biased `select!`
is the order of the guards: shutdown, tick, messages, replies. `seen` is the set
that is cleared when full. Of an affective state this module keeps how many
replies and how many deltas it accounts for; `Affective` has its arithmetic.
`DeltaReads` and `DeltaWrites` are the two awaits of `apply_affective_delta`,
which the dispatcher runs beside the loop on the same table. `FlushFails` ends
`run`, as the `?` of the three store calls does. `Deliver` is the platform: a
message may come twice, and a full channel drops it. `Burst` and `NoBurst` leave
the outcome of `detect_burst` open. A crash loses what is in memory and keeps
`rows` and `snapshots`; the exit after a shutdown is the same step. A restart loads
the stored states, or fails to (`RestartFails`), and then `run` is over before its
loop began.

### Affective

Energy and favorability are counted in units of what they lose per second, so
both are integers and the code's floats are not rounded. `Seconds` is
`num_seconds`, which truncates towards zero. `decay` takes the sign of
favorability with `signum`, which gives a zero the sign bit of its float: `Signs`
leaves that open. `Saved` is what the table keeps of a time: whole milliseconds.
The wall clock may be set back (`SetClockBack`), after which the elapsed time is
negative and decay adds. Every handler is one step here, and a flush does not
fail: the awaits between them are `Sensory`'s.

### ModelClient and Gate

`call[c]` is where a call stands and how many retries it has made.
`TransientFailure` is a request that is not sent, a timeout, a 429 or a 5xx; any
other 4xx, a body that breaks off or does not decode, and an answer without
choices end the call at once, as they do in the code. `Promise` maps it to
`ModelCall`: a retry counts as a request once its wait is over.

`Gate` extends it: a message's task calls the model under the message's id. A
message is its *shape*, the features the rules look at, and `ByRules` and
`Obvious` are the rules. `classifier` is the strategy built from the
configuration's name; an unknown name means the rules. The affective state of a
user is its version. `TakeMessage` clones the actor for the task: the context
map is copied, so the task adds its message to a window nobody else sees and the
actor's own stays empty. A classification that fails ends the task, and nobody is
told.

### Detective

`work[t]` is the task of a request or a burst: the await it has reached, what it
uses the store for, the facts still to be looked at and the facts to store. The
store makes sure of its collection before every operation, in two calls
(`ensure`, `create`), and of two tasks that both found it missing the second
fails to create it. A fact stands for all the texts the threshold takes for the
same. A search for a duplicate that fails counts as not found, an upsert that
fails leaves the report as it is. The router is a task too: it applies a memory
decision update by update, stops at the first that fails, and uses the same
vector store.

`upsert_points` is called without `wait(true)`, so an `Ok` acknowledges: the store
has taken the points and applies them later, each at a time of its own and perhaps
never, which it does not report. `taken` are the points it has taken, `points` those
of them it has applied, which is what a search finds (`Known`); `FactsTaken` is the
answer, `PointApplied` the store's own step. A call that fails may have been carried
out all the same, its answer lost (`AnswerLost`), a creation as well as an upsert.
`blind` records what a request looked up in vain: the search failed, or a fact was
taken and not yet applied when it ran. It is history, as `overlap`, `lost`, `report`
are.

### NekoRouter

`phase` is how far `run()` has come: everything but the dispatcher is spawned,
then the cooldowns are loaded, then the dispatcher is spawned. `Alive` says who
holds the receiving end of a channel: until it is spawned, `run()` holds the
dispatcher's. `sends` is what a handler of sensory or the dispatcher still has to
send, in line; `tasks` are what each spawned task still has to send. A layer
appears as what it sends for what it receives. A layer's loop ends when its
channel is empty and no holder of a sender is left; the cron job's closure holds
one of solidify's, and the job may fire after the signal, until the scheduler has
dropped it. `link` is the connection of the ingress, `deaf` when nobody
listens on it any more. `LoadFails` cuts off what is already running.

## 3. What the runs check

| Run | Instance | Shows |
| --- | --- | --- |
| `council` | 3 escalations, 2 of them of one message; timeout 2, sweeps every 1; channels of 1 | `OneReplyPerEscalation`, `PendingAgeBounded`, `ReportFindsItsEntry`, `TypeOK`; `ImplementsAuthority` and, under fairness, `EventuallySettled` |
| `dispatch` | 3 replies of one group; interval 2, millisecond of 2 units, time up to 5, clock set back by 1 | `EffectsInOrder`, `DeliveredAtMostOnce`, `AllowedOnlyAfterInterval`, `DeniedOnlyWithinInterval`, `SavedIntervalSurvivesRestart`, `TypeOK` |
| `solidify` | 2 jobs, buffer of 2, 4 reports | `BufferWithinLimit`, `EveryReportInOnePlace`, `WrittenAtMostOnce`, `RestoreLosesOnlyWhenFull`, `ContextMovesForward`, `TypeOK` |
| `sensory` | 2 messages of one user, each delivered up to twice; batches of 2, a seen set of 2, channels of 1; a reply and a memory decision | `ForwardedIsKept`, `FlushedAtShutdown`, `DuplicateOnlyAfterEviction`, `MemoryCountsStoredReplies`, `RepliesNotOvercounted`, `TypeOK`, `EventuallyStored` under fairness |
| `affective` | 1 user; millisecond of 2 units, second of 4; time up to 4, set back by up to 5 | `FavorabilityBounded`, `TypeOK` (energy in its range) |
| `gate` | 2 messages of one user, 3 shapes, 4 classifier names, 1 retry, channels of 1 | `DecisionPrecedesEscalation`, `StateOneMessageOld`, `TypeOK`; `ImplementsModelCall` and `EventuallyClassified` under fairness |
| `detective` | 2 requests of one group, a burst of another, a report of two facts and one of one of them, channels of 1 | `DuplicateOnlyFromOverlap`, `TakenBeforeReported`, `TypeOK`, `EventuallySettled` under fairness |
| `nekorouter` | 2 messages, 1 tick, channels of 1, three starting points | `ReportReachesBoth`, `TypeOK`; `ComesToRest` and `EventuallyStopped` under fairness |
| `burst_lost` | as `nekorouter`, from the start | `NoBurstDiscarded` fails |
| `gate_context` | as `gate`, one shape | `ContextHoldsEarlierMessages` fails |
| `cooldown_consumed` | replies of one group | `DroppedOnlyAfterReply` fails |
| `blank_context` | as `solidify` | `ContextRefreshedFromGraph` fails |

`ReplyCooldown` has no run of its own: `ReplyDispatch` extends it and takes every
one of its steps.

Bounds and why they are enough:

* **council.** Two escalations of one message are what it takes for entries to be
  replaced and reports to be confused; the third, of another message, shares the
  channels and the sweep. Channels of one slot make every send a possible wait.
  The entries are the only clock-driven state: the sweep bounds their age, so the
  instance needs no bound on time.
* **dispatch.** `MaxTime` and `MaxBack` bound the clock. Five units with an interval
  of two allow the group three times, so two saves can be in flight while the third
  is decided. A millisecond of two units makes the table round.
* **solidify.** Four reports and a buffer of two overflow the buffer both while a
  job holds reports and after a restore. Two jobs are the fewest that overlap.
* **sensory.** Two messages fill a batch and a seen set of two, so a third delivery
  finds the set full and clears it, and one message alone waits for the tick. One
  user suffices: no handler relates two users. One reply, one memory decision and
  any number of crashes give every order of read, flush and write.
* **affective.** Being set back by more than a second is what makes decay add; one
  unit more than a second shows the truncation. Users' states never meet.
* **gate.** The shapes are one the model is not asked about, one the rules take
  and one a word too long for them; two messages give every interleaving of two
  tasks. One retry is the least that has a first, a last and a failed wait.
  `MaxVersion` bounds how often a user's state changes: each message changes it
  once and a reply in between once more.
* **detective.** Two requests of a group are the fewest that learn the same fact;
  the burst may decide on updates, so the dispatcher uses the vector
  store while they learn. One request's report lists two facts, of which the other's
  may already hold one. They learn at the same time or one after the other, in
  either order, with the store applying what the first stored before, between or
  after the lookups of the second.
* **nekorouter.** A channel of one slot is the hardest for a cycle of waiting
  senders. The reachable states of two fresh messages and a tick are too many, so
  there are three starting points: one message from scratch with a tick, a new
  message while another is escalated, and two escalated messages with a tick. All
  three are states the program can be in.
* Deadlock is checked in `solidify`. It is switched off where the instance really
  comes to a stop: everything is settled and the router stopped (`council`, `gate`,
  `detective`, `nekorouter`), time is bounded (`dispatch`, `affective`), or
  deliveries are (`sensory`). That nothing hangs there is what the liveness
  properties say.

Fairness is weak fairness, and only for what the runtime and the services
guarantee: a task or a loop whose await is ready is polled, a call of a store or of
a model returns or fails (the HTTP client has a timeout and the retry loop a
bound), and time passes.

* `council`: the tasks and the loop together (`Work`), and the sweeper with the
  clock. One conjunct for all the work is enough: with finitely many escalations
  no task is busy for ever.
* `sensory`: the loop and its store calls (`Loop`), the gate that takes what is
  queued (`GateTakes`), the flush interval (`IntervalElapses`).
* `gate`: the loop, the dispatcher that takes events while it runs
  (`RouterTakes`), and each message's task and call.
* `detective`: the loop, the dispatcher, and each task. Nothing is asked of
  the store's applying what it has taken.
* `nekorouter`: one conjunct for every step of a loop, a task or the connection
  that serves what is there. With finitely many messages and ticks none of them
  can keep the others waiting for ever.

Nothing forces a message, a delivery, a reply, a report of the detective, a
memory decision, the shutdown signal, the scheduler's dropping of its job, a
crash or a failure.

Every property has a mutant: a plausible slip in the code (a read instead of a
remove, `>` for `>=`, a retry too few, a buffer that is copied instead of taken, a
channel without a bound) that makes TLC find the property violated. The mutants
stand before the definition they would replace and are used nowhere else.

### Where the code and what it says disagree

With a run each:

1. `burst_lost`: `docs/adaptive-presence-and-memory-architecture.md:106` has bursts
   forwarded to the detective. Sensory sends them to the gate
   (`neko-sensory/src/actor.rs:195`), which ignores what it does not know
   (`neko-gate/src/actor.rs:145`).
2. `gate_context`: `neko-gate/src/actor.rs:61` and `161` describe a rolling window of
   recent messages that a model is given. `run` clones the actor for every task
   (`208`), and with it the map, so a message is classified with itself as context.
3. `cooldown_consumed`: `neko-core/src/cooldown.rs:10`: the limiter tracks the last
   reply that was sent. It tracks the last one it allowed; a reply that then fails
   to be recorded or sent silences the group for an interval
   (`neko-router/src/router.rs:90`).
4. `blank_context`: `neko-solidify/src/actor.rs:128`: the council's memory is
   refreshed from the graph. When the summary query fails it is replaced by "no
   relations yet" (`neko-solidify/src/neo4j.rs:67`).

Seen while modelling, without a run:

* `docs/architecture.md:62`: a late report is ignored. The council ignores it only
  after the next sweep, up to 30 s later (`neko-council/src/actor.rs:265`).
* `neko-solidify/src/actor.rs:63`: a full buffer drops its oldest report. After a
  restore the front of the buffer is not the oldest.
* `neko-memory/src/sqlite.rs:251`: `apply_affective_delta` applies a delta to the
  persisted state. Sensory's next flush writes its own state over it.
* `neko-detective/src/actor.rs:167`: facts from one investigation are retrieved by
  the next. The upsert does not wait for the store to apply them
  (`neko-detective/src/qdrant.rs:105`), so an investigation that begins after the
  report went out may find nothing, although no call failed. The integration test
  skips when a search after an upsert is empty
  (`neko-detective/tests/qdrant_integration.rs:125`).
* `neko-detective/src/actor.rs:170`: a fact too similar to one the memory has is
  skipped. Two investigations at once both store it, and so does one whose lookup
  failed or came before the store had applied the other's fact
  (`DuplicateOnlyFromOverlap` says that these are all).
* `docs/architecture.md:38` names a semaphore that limits model calls. There is
  none, and `concurrency_limit` is not read.
* After the clock is set back favorability leaves [-1, 1], by what
  `FavorabilityBounded` says. And `touch` moves `last_updated` whatever the whole
  seconds that passed, so what is less than a second never decays.

`ContextMovesForward` is stated for jobs that do not overlap: when they do, the
older summary may arrive last. `AllowedOnlyAfterInterval` is stated for a clock
that is not set back, and `SavedIntervalSurvivesRestart` for a watermark that
reached the table: a crash before the save loses it. `EventuallyStopped` excepts
solidify while the scheduler still holds the cron job. `RepliesNotOvercounted` is an
upper bound: it does not say that a memory decision survives sensory's next flush,
which it need not. `TakenBeforeReported` says nothing of when the facts can be found.

## 4. What is proved

Every invariant and every safety action property of the runs is a theorem, for
every value of the constants that satisfies the named assumptions of the modules:

* `Council`: `TimeoutAssumption` (timeout and cap are positive), `CapacityAssumption`,
  `MsgOfAssumption`, `NoEntryAssumption`.
* `ReplyCooldown`, `ReplyDispatch`: `IntervalAssumption` (the interval may be zero, the
  resolution of what is saved not), `BoundAssumption`, `NeverAssumption`,
  `GroupOfAssumption`, `QueueAssumption` (channels have a slot), `IdleAssumption`.
* `Solidify`: `LimitAssumption` (the buffer limit is positive), `BoundAssumption`,
  `CapacityAssumption`.
* `Sensory`: `SenderAssumption`, `SizeAssumption` (its sizes are positive),
  `BoundAssumption`, `NoneAssumption`.
* `Affective`: `ClockAssumption` (a millisecond and a second are not zero),
  `ScaleAssumption` (what a message and a reply add is not negative),
  `NoneAssumption`.
* `ModelClient`, `Gate`: `RetryAssumption` (at most 32 retries), `MessageAssumption`,
  `GateSizeAssumption`.
* `Detective`: `WorkAssumption` (a work is a request or a burst, and has a group),
  `ModelAssumption` (a report is a sequence of facts, a decision one of updates),
  `CapacityAssumption`.
* `NekoRouter`: `CapacityAssumption`.

Each of them is evaluated by TLC on the instances of the runs.

| Theorem | Statement | Argument |
| --- | --- | --- |
| `CouncilProofs!TypeCorrect` | `Spec => []TypeOK` | step by step; the capacity conjuncts need the guards of the sends |
| `CouncilProofs!AgeBounded` | `Spec => []PendingAgeBounded` | `AgeInv`: an entry has aged by at most the time since the last sweep, on top of `DetectiveTimeout - 1`, the most a sweep leaves. The property alone is not inductive: it does not say how near the next sweep is |
| `CouncilProofs!AnsweredAtMostOnce` | `Spec => []OneReplyPerEscalation` | `QueueInv`: an escalation's event is queued once, before its task exists; `ClaimInv`: an escalation can answer from one place only, its task before the verdict, its entry, or its composed reply, and from none once it answered |
| `CouncilProofs!ReportNeverTooEarly` | `Spec => []ReportFindsItsEntry` | `ReportInv`: whoever may still report about an escalation (it is asked, queued or under review) finds it registered: its entry exists, or was removed for a reason the state records. The property speaks of the report that arrives; the invariant has to speak of every report on its way |
| `CouncilProofs!CouncilImplementsAuthority` | `Spec => ImplementsAuthority` | `StageOf` maps an escalation to its abstract stage; `AuthorityStep`: each step is a step of `ReplyAuthority` or a stutter, under `ClaimInv` and `QueueInv` |
| `ReplyDispatchProofs!IntervalKept` | `CooldownSpec => []AllowedOnlyAfterInterval` | `WatermarkInv`: no watermark, in memory, in a save or in the table, is later than the last yes; with a clock that was not set back the one in memory is it |
| `ReplyDispatchProofs!SilenceBounded` | `CooldownSpec => []DeniedOnlyWithinInterval` | `WatermarkInv` |
| `ReplyDispatchProofs!SavedIntervalKept` | `CooldownSpec => []SavedIntervalSurvivesRestart` | `LoadedInv`: since the restart a group that was not allowed has the loaded watermark and no save under way; `TruncatedRoundsDown` |
| `ReplyDispatchProofs!DispatchImplementsCooldown` | `Spec => CooldownSpec` | the dispatcher moves the limiter only by `Allow`, `Save`, the clock and the restart; every other step leaves its variables |
| `ReplyDispatchProofs!DispatchKeepsInterval` | `Spec =>` the three properties of the limiter | from the refinement |
| `ReplyDispatchProofs!DispatchTypeCorrect` | `Spec => []TypeOK` | a reply is in hand exactly while `step` is not idle |
| `ReplyDispatchProofs!EffectsKeepOrder` | `Spec => []EffectsInOrder` | `EffectsInv`, four parts: a reply is in one place (`PlacesApart`), one that is still to be sent was not delivered (`PendingUndelivered`), none is delivered twice, and `OrderInv` ties `step` to the row and the delivery of the reply in hand |
| `ReplyDispatchProofs!NoReplyTwice` | `Spec => []DeliveredAtMostOnce` | `EffectsInv` |
| `SolidifyProofs!TypeCorrect` | `Spec => []TypeOK` | needs `BufferWithinLimit`: the room left for restored reports is a natural number |
| `SolidifyProofs!BufferBounded` | `Spec => []BufferWithinLimit` | each of the three writes of the buffer; `RestoreFits` bounds the restored part |
| `SolidifyProofs!RestoreSafe` | `Spec => RestoreLosesOnlyWhenFull` | from the bound: what was cut off did not fit |
| `SolidifyProofs!ReportsConserved` | `Spec => []EveryReportInOnePlace` | `PlaceInv`: the places are disjoint, no place repeats a report, and together they hold what was received; splitting the buffer and putting part of a batch back preserve it (lemmas on the ranges of subsequences) |
| `SolidifyProofs!NoReportWrittenTwice` | `Spec => []WrittenAtMostOnce` | `WrittenInv`: what is written is gone from buffer and jobs, so no later job can write it |
| `SolidifyProofs!MemoryMovesForward` | `Spec => ContextMovesForward` | `ContextInv`: while no jobs overlapped and the graph answered, contexts never fall along the chain from the council through both channels and the summary in hand to the graph (`Chain`). The property sees only the last link |
| `SensoryProofs!TypeCorrect` | `Spec => []TypeOK` | needs `ShapeInv`: a message is in hand wherever the loop sends it on |
| `SensoryProofs!ForwardedKept` | `Spec => []ForwardedIsKept` | `ShapeInv`: the batch is empty except while it is appended, so taking the buffer loses nothing, and a process that is down has forwarded nothing |
| `SensoryProofs!ShutdownFlushes` | `Spec => []FlushedAtShutdown` | `ForwardedIsKept` in a state where `ShapeInv` leaves buffer and batch empty |
| `SensoryProofs!DuplicatesNeedEviction` | `Spec => []DuplicateOnlyAfterEviction` | `SeenInv`: until it is cleared, the seen set holds what was forwarded, and the message about to be was not |
| `SensoryProofs!MemoryNotBehind` | `Spec => []MemoryCountsStoredReplies` | `RepliesInv`: a memory decision under way has read a state with no more replies than the stored one, which has no more than the one in memory, absent ones counting as zero |
| `SensoryProofs!RepliesCountedOnce` | `Spec => []RepliesNotOvercounted` | `CreditInv`: the stored count, the count a memory decision read, and the one in memory together with what is still queued, are at most what was sent. `Count` is the number of positions of a queue, so appending and taking need only cardinalities (`CountAppend`, `CountTail`), no induction |
| `AffectiveProofs!EnergyInRange` | `AffSpec => []TypeOK` | each operation clamps or starts from zero; energy decays no lower than zero and is cut at its full value, also when the elapsed time is negative and decay adds |
| `AffectiveProofs!FavorabilityStays` | `AffSpec => []FavorabilityBounded` | `AffInv`, with `Within`: what favorability is out of its range by and the time by which the state's `last` lies ahead of the clock are both paid for by `back`. The property alone is not inductive: it does not say how much of `back` the next decay may still spend |
| `GateProofs!TypeCorrect` | `GateSpec => []TypeOK` | `OwedInv`: what sensory still owes the gate is one state; a task holds a verdict from its classification on |
| `GateProofs!CallsKeepTheirBudget` | `GateSpec =>` the safety half of `ImplementsModelCall` | each step of the gate is a step of `ModelCall` or a stutter; `UnbegunInv`: a call that has not begun has made no retry. So it sends at most `max_retries + 1` requests and blames the transport after all of them only |
| `GateProofs!DecisionFirst` | `GateSpec => []DecisionPrecedesEscalation` | `SentInv`: what was sent of a message leaves its task at a stage behind it, and a task about to escalate has told its decision, if the router still listened |
| `GateProofs!JudgedOneMessageOld` | `GateSpec => []StateOneMessageOld` | `StreamInv` (the stream sensory writes numbers a user's states in order), `UntakenInv`, `KnownInv` and `VersionInv`: what the loop keeps of a user is the state of the last message it took of him |
| `DetectiveProofs!TypeCorrect` | `DetectiveSpec => []TypeOK` | `WorkInv`: what a task holds at each of its awaits, and that none performs an operation before the collection exists; `StoreStep`: what a step may do to the store, lost answers included |
| `DetectiveProofs!NothingLearntTwice` | `DetectiveSpec => []DuplicateOnlyFromOverlap` | `OnceInv`: a request gets one task. `PairInv`: two that are learning know of each other. `NewInv`: what a request is to store and the store has taken from another, the two were learning at the same time or the request looked it up in vain. `TwiceInv` is the property for all that is taken, applied or not: the property itself is not inductive, since it says nothing of a duplicate that is yet to be applied |
| `DetectiveProofs!ReportsAreTaken` | `DetectiveSpec => []TakenBeforeReported` | `LearntInv`: each fact of a report under way is taken for its group, still to be looked up, or still to be stored (a lookup finds only what was applied, and that was taken); a request whose write failed learns no more |
| `NekoRouterProofs!TypeCorrect` | `SysSpec => []TypeOK` | every send is guarded by the capacity of its channel |
| `NekoRouterProofs!ReportsReachBoth` | `SysSpec => []ReportReachesBoth` | `WiringInv`: what each loop may send, the order in which the dispatcher sends a report, and that the layers outlive the dispatcher, which holds their senders |
| `NekoRouterProofs!NoCycleOfWaiting` | `SysSpec => []NothingStuck` | while anything is queued or being sent, and from the signal until the loops have stopped, one of them or a task can go on. `ReadInv`: what is queued has a living receiver. A loop that waits for room waits for a loop further on, and the chain ends at a layer, which always takes. `CanStep` writes out the guards of the loops' steps, since `ENABLED` is out of reach |

Model-checked only, because liveness under fairness and `ENABLED` are beyond TLAPS:
`EventuallySettled` of `Council` and of `Detective`, `EventuallyStored`,
`EventuallyClassified`, `ComesToRest`, `EventuallyStopped`, and the fairness part of
`ImplementsModelCall`. Of the two of
`NekoRouter`, `ComesToRest` and `EventuallyStopped`, what is proved is that nothing
stands still before it should; that this comes to an end is left to TLC.

## 5. Plan

Written and checked, the most important behaviour first: `Council` with
`ReplyAuthority`, `ReplyCooldown`, `ReplyDispatch`, `Solidify`, `Sensory`,
`ModelClient` with `ModelCall`, `Gate`, `Detective`, `NekoRouter`, `Affective`. All the
modules are free of recursive operators, so that each can be proved about.

Proofs to come: the counterparts of `NoCycleOfWaiting` inside the parts, each from
the type invariant and the shape of its awaits:

1. `Council`: while an escalation is not settled, some step of its own, of its task
   or of the sweeper is possible.
2. `Gate` and `Detective`: a task whose call has been answered, or whose channel has
   room, can go on.
3. `Sensory`: the loop waits only for the gate's channel.

Model left to write: burst detection (windows, score, cooldown) as functions of the
messages in a window, against a reference.

## 6. Not modelled

* **Burst detection** in sensory: the windows, the score and the burst cooldown.
  Whether a message completes a burst is left open, so the models allow every
  outcome of it.
* **Prompts and answer parsers**: wording and JSON. An answer that does not parse is
  an outcome of the model call.
* **Context queries** and the rows of the `events` table: what they return goes into
  prompts only; that they fail is modelled.
* **Configuration**: read once at start; its values are the constants.
* **Status server, `observe`, logging**: read-only.
* **In-memory stores**: used by tests only.
* **Connections of clients**: the egress' cached connection and the pools of the
  stores' clients; a send or a query succeeds or fails, and where it matters to a
  property (the egress, the vector store) it may be carried out and fail.
* **Floating point**: energy and favorability are exact in `Affective`; a similarity
  score is a yes or no of the threshold.
