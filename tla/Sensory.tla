------------------------------ MODULE Sensory ------------------------------
(***************************************************************************)
(* Layer 1 (crates/neko-sensory/src/actor.rs): one loop that drops         *)
(* duplicates, keeps the affective states, forwards messages to the gate   *)
(* and writes messages and states to the history store in batches.  With   *)
(* it the ingress that fills its channel, the tables it writes, the memory *)
(* decisions that change a stored state behind its back (router.rs,        *)
(* apply_affective_delta), crashes, restarts and shutdown.                 *)
(*                                                                         *)
(* The loop handles one event at a time; step names the await it has       *)
(* reached.  Of an affective state only the number of replies and of       *)
(* deltas it accounts for is kept; whether a message completes a topic     *)
(* burst is left open.                                                     *)
(***************************************************************************)
EXTENDS Integers, Sequences, FiniteSets

CONSTANTS
  Messages,         \* ids of chat messages, derived from the platform's ids
  Users,            \* (group, user) pairs
  SenderOf,         \* who sent a message
  None,             \* no message in hand, no state kept, no delta under way
  BatchSize,        \* batch_size
  MaxRecent,        \* max_recent_messages
  RawCapacity, RoutedCapacity, GateCapacity,   \* the channels' capacities
  MaxDeliveries,    \* bound on the deliveries of a message
  MaxReplies,       \* bound on the replies to a user
  MaxDeltas         \* bound on the memory decisions about a user

ASSUME SenderAssumption == SenderOf \in [Messages -> Users]

ASSUME SizeAssumption ==
  /\ BatchSize \in Nat \ {0} /\ MaxRecent \in Nat \ {0}
  /\ RawCapacity \in Nat \ {0} /\ RoutedCapacity \in Nat \ {0} /\ GateCapacity \in Nat \ {0}

ASSUME BoundAssumption == MaxDeliveries \in Nat /\ MaxReplies \in Nat /\ MaxDeltas \in Nat

(* An AffectiveState: the replies and the deltas it accounts for. *)
States == [replies : Nat, deltas : Nat]

ASSUME NoneAssumption == None \notin Messages \cup Users \cup States

VARIABLES
  raw,         \* channel ingress -> sensory
  routed,      \* channel router -> sensory: whom a reply went to
  gate,        \* channel sensory -> gate
  step,        \* the await the loop has reached
  after,       \* where a flush returns to
  current,     \* the message being handled
  tickDue,     \* the flush interval's tick is ready
  shutdown,    \* the shutdown signal was given
  seen,        \* recent_senders
  buffer,      \* messages not yet flushed
  batch,       \* messages taken by a flush
  states,      \* the affective states in memory
  rows,        \* the messages table
  snapshots,   \* the affective_snapshots table
  delta,       \* the memory decision the router is applying
  \* history: nothing in the code reads these
  deliveries,  \* how often the platform delivered a message
  forwards,    \* how often the gate was sent a message, in this process
  evicted,     \* the set of seen messages was cleared, in this process
  credits,     \* replies the router told sensory about, per user
  decided      \* memory decisions applied, per user

channels == <<raw, routed, gate>>
loopVars == <<step, after, current, tickDue, shutdown, seen, buffer, batch, states>>
tables   == <<rows, snapshots, delta>>
history  == <<deliveries, forwards, evicted, credits, decided>>
vars     == <<channels, loopVars, tables, history>>

Steps == {"down", "loop", "send_message", "send_state", "append", "mark", "save",
          "detect", "send_burst", "stopped", "failed"}

MessageEvent(m) == [kind |-> "message", about |-> m]
StateEvent(u)   == [kind |-> "state", about |-> u]
BurstEvent(m)   == [kind |-> "burst", about |-> m]
GateEvents ==
  [kind : {"message", "burst"}, about : Messages] \cup [kind : {"state"}, about : Users]

Elements(s) == {s[i] : i \in 1 .. Len(s)}

Running == step \notin {"down", "stopped", "failed"}

Fresh == [replies |-> 0, deltas |-> 0]                  \* Default
OrFresh(s) == IF s = None THEN Fresh ELSE s             \* or_default()
OnReply(s) == [s EXCEPT !.replies = @ + 1]              \* on_reply()
Changed(s) == [s EXCEPT !.deltas = @ + 1]               \* a delta, added and clamped

Init ==
  /\ raw = <<>> /\ routed = <<>> /\ gate = <<>>
  /\ step = "loop" /\ after = "loop"
  /\ current = None
  /\ tickDue = TRUE             \* the first tick of an interval is immediate
  /\ shutdown = FALSE
  /\ seen = {} /\ buffer = <<>> /\ batch = <<>>
  /\ states = [u \in Users |-> None]
  /\ rows = {}
  /\ snapshots = [u \in Users |-> None]
  /\ delta = None
  /\ deliveries = [m \in Messages |-> 0]
  /\ forwards = [m \in Messages |-> 0]
  /\ evicted = FALSE
  /\ credits = [u \in Users |-> 0]
  /\ decided = [u \in Users |-> 0]

-----------------------------------------------------------------------------
(* run(): the biased select serves shutdown before the flush tick, the     *)
(* tick before messages and messages before replies.                       *)

(* flush(): the batch is taken; an empty one leaves only the states to be  *)
(* saved.                                                                  *)
Flush(messages, next) ==
  /\ batch' = messages
  /\ buffer' = <<>>
  /\ step' = IF messages = <<>> THEN "save" ELSE "append"
  /\ after' = next

(* Mutant: the loop ends without a last flush. *)
StopWithoutFlush ==
  /\ step = "loop" /\ shutdown
  /\ step' = "stopped"
  /\ UNCHANGED <<channels, after, current, tickDue, shutdown, seen, buffer, batch, states, tables,
                 history>>

(* The loop ends with a last flush. *)
StopLoop ==
  /\ step = "loop" /\ shutdown
  /\ Flush(buffer, "stopped")
  /\ UNCHANGED <<channels, current, tickDue, shutdown, seen, states, tables, history>>

(* Mutant: a tick saves the states and leaves the messages in the buffer. *)
FlushTickStatesOnly ==
  /\ step = "loop" /\ ~shutdown /\ tickDue
  /\ tickDue' = FALSE
  /\ step' = "save" /\ after' = "loop"
  /\ UNCHANGED <<channels, current, shutdown, seen, buffer, batch, states, tables, history>>

FlushTick ==
  /\ step = "loop" /\ ~shutdown /\ tickDue
  /\ tickDue' = FALSE
  /\ Flush(buffer, "loop")
  /\ UNCHANGED <<channels, current, shutdown, seen, states, tables, history>>

(* Mutant: a message is looked up and never remembered. *)
TakeMessageForgets ==
  LET m    == Head(raw)
      full == Cardinality(seen) >= MaxRecent
  IN /\ step = "loop" /\ ~shutdown /\ ~tickDue
     /\ raw # <<>>
     /\ raw' = Tail(raw)
     /\ seen' = IF full THEN {} ELSE seen
     /\ evicted' = (evicted \/ full)
     /\ step' = "send_message"
     /\ current' = m
     /\ states' = [states EXCEPT ![SenderOf[m]] = OrFresh(@)]
     /\ UNCHANGED <<routed, gate, after, tickDue, shutdown, buffer, batch, tables,
                    deliveries, forwards, credits, decided>>

(* handle_message(): the set of seen messages is cleared when it is full;  *)
(* a message it holds is dropped; another one is remembered, its sender's  *)
(* state touched, and the gate told.                                       *)
TakeMessage ==
  LET m     == Head(raw)
      full  == Cardinality(seen) >= MaxRecent
      known == IF full THEN {} ELSE seen
  IN /\ step = "loop" /\ ~shutdown /\ ~tickDue
     /\ raw # <<>>
     /\ raw' = Tail(raw)
     /\ seen' = known \cup {m}
     /\ evicted' = (evicted \/ full)
     /\ IF m \in known
        THEN UNCHANGED <<step, current, states>>
        ELSE /\ step' = "send_message"
             /\ current' = m
             /\ states' = [states EXCEPT ![SenderOf[m]] = OrFresh(@)]
     /\ UNCHANGED <<routed, gate, after, tickDue, shutdown, buffer, batch, tables,
                    deliveries, forwards, credits, decided>>

(* handle_reply() *)
TakeReply ==
  LET u == Head(routed)
  IN /\ step = "loop" /\ ~shutdown /\ ~tickDue /\ raw = <<>>
     /\ routed # <<>>
     /\ routed' = Tail(routed)
     /\ states' = [states EXCEPT ![u] = OnReply(OrFresh(@))]
     /\ UNCHANGED <<raw, gate, step, after, current, tickDue, shutdown, seen, buffer, batch,
                    tables, history>>

-----------------------------------------------------------------------------
(* The rest of handle_message *)

(* Mutant: the channel to the gate has no bound. *)
SendToGateUnbounded(event) == gate' = Append(gate, event)

SendToGate(event) == Len(gate) < GateCapacity /\ gate' = Append(gate, event)

(* IncomingMessage is sent. *)
SendMessage ==
  /\ step = "send_message"
  /\ SendToGate(MessageEvent(current))
  /\ step' = "send_state"
  /\ forwards' = [forwards EXCEPT ![current] = @ + 1]
  /\ UNCHANGED <<raw, routed, after, current, tickDue, shutdown, seen, buffer, batch, states,
                 tables, deliveries, evicted, credits, decided>>

(* AffectiveUpdated is sent; the message enters the buffer, and a full     *)
(* buffer is flushed.                                                      *)
SendState ==
  /\ step = "send_state"
  /\ SendToGate(StateEvent(SenderOf[current]))
  /\ LET filled == Append(buffer, current)
     IN IF Len(filled) >= BatchSize
        THEN Flush(filled, "detect")
        ELSE buffer' = filled /\ step' = "detect" /\ UNCHANGED <<after, batch>>
  /\ UNCHANGED <<raw, routed, current, tickDue, shutdown, seen, states, tables, history>>

(* detect_burst(): no burst, and the message is done ... *)
NoBurst ==
  /\ step = "detect"
  /\ step' = "loop"
  /\ current' = None
  /\ UNCHANGED <<channels, after, tickDue, shutdown, seen, buffer, batch, states, tables, history>>

(* ... or a burst, which goes to the gate. *)
Burst ==
  /\ step = "detect"
  /\ step' = "send_burst"
  /\ UNCHANGED <<channels, after, current, tickDue, shutdown, seen, buffer, batch, states, tables,
                 history>>

SendBurst ==
  /\ step = "send_burst"
  /\ SendToGate(BurstEvent(current))
  /\ step' = "loop"
  /\ current' = None
  /\ UNCHANGED <<raw, routed, after, tickDue, shutdown, seen, buffer, batch, states, tables,
                 history>>

-----------------------------------------------------------------------------
(* flush() *)

(* append_batch(): one transaction that ignores ids it has. *)
AppendBatch ==
  /\ step = "append"
  /\ rows' = rows \cup Elements(batch)
  /\ batch' = <<>>
  /\ step' = "mark"
  /\ UNCHANGED <<channels, after, current, tickDue, shutdown, seen, buffer, states, snapshots,
                 delta, history>>

(* mark_processed(): sets processed_at, which nothing reads. *)
MarkProcessed ==
  /\ step = "mark"
  /\ step' = "save"
  /\ UNCHANGED <<channels, after, current, tickDue, shutdown, seen, buffer, batch, states, tables,
                 history>>

(* Mutant: the upsert adds the replies instead of replacing their number. *)
SaveStatesAdds ==
  /\ step = "save"
  /\ snapshots' = [u \in Users |->
                     IF states[u] = None THEN snapshots[u]
                     ELSE [states[u] EXCEPT !.replies = @ + OrFresh(snapshots[u]).replies]]
  /\ step' = after
  /\ UNCHANGED <<channels, after, current, tickDue, shutdown, seen, buffer, batch, states, rows,
                 delta, history>>

(* persist_states(): every state in memory replaces the stored one. *)
SaveStates ==
  /\ step = "save"
  /\ snapshots' = [u \in Users |-> IF states[u] = None THEN snapshots[u] ELSE states[u]]
  /\ step' = after
  /\ UNCHANGED <<channels, after, current, tickDue, shutdown, seen, buffer, batch, states, rows,
                 delta, history>>

(* Mutant: a failed flush is logged and the loop goes on. *)
FlushFailsQuietly ==
  /\ step \in {"append", "mark", "save"}
  /\ step' = after
  /\ batch' = <<>>
  /\ UNCHANGED <<channels, after, current, tickDue, shutdown, seen, buffer, states, tables,
                 history>>

(* Each of the three may fail, the last one if there is a state to save:   *)
(* run() returns the error, and what the loop held is lost.                *)
FlushFails ==
  /\ step \in {"append", "mark"} \/ (step = "save" /\ \E u \in Users : states[u] # None)
  /\ step' = "failed"
  /\ raw' = <<>> /\ routed' = <<>>
  /\ buffer' = <<>> /\ batch' = <<>>
  /\ states' = [u \in Users |-> None]
  /\ UNCHANGED <<gate, after, current, tickDue, shutdown, seen, tables, history>>

-----------------------------------------------------------------------------
(* The ingress, the gate, the router and the process *)

(* push_or_drop(): a message is delivered, perhaps again after a           *)
(* reconnect; a full channel drops it.                                     *)
Deliver(m) ==
  /\ Running
  /\ deliveries[m] < MaxDeliveries
  /\ deliveries' = [deliveries EXCEPT ![m] = @ + 1]
  /\ raw' = IF Len(raw) < RawCapacity THEN Append(raw, m) ELSE raw
  /\ UNCHANGED <<routed, gate, loopVars, tables, forwards, evicted, credits, decided>>

(* The gate takes what it is sent; a burst it discards. *)
GateTakes ==
  /\ gate # <<>>
  /\ gate' = Tail(gate)
  /\ UNCHANGED <<raw, routed, loopVars, tables, history>>

(* The router sends a reply it has delivered. *)
RouterCredits(u) ==
  /\ Running
  /\ Len(routed) < RoutedCapacity
  /\ credits[u] < MaxReplies
  /\ credits' = [credits EXCEPT ![u] = @ + 1]
  /\ routed' = Append(routed, u)
  /\ UNCHANGED <<raw, gate, loopVars, tables, deliveries, forwards, evicted, decided>>

(* apply_affective_delta(): the router reads the stored state ... *)
DeltaReads(u) ==
  /\ step # "down" /\ delta = None
  /\ decided[u] < MaxDeltas
  /\ delta' = [user |-> u, state |-> OrFresh(snapshots[u])]
  /\ UNCHANGED <<channels, loopVars, rows, snapshots, history>>

(* ... and writes it back changed. *)
DeltaWrites ==
  /\ delta # None
  /\ snapshots' = [snapshots EXCEPT ![delta.user] = Changed(delta.state)]
  /\ decided' = [decided EXCEPT ![delta.user] = @ + 1]
  /\ delta' = None
  /\ UNCHANGED <<channels, loopVars, rows, deliveries, forwards, evicted, credits>>

DeltaFails ==
  /\ delta # None
  /\ delta' = None
  /\ UNCHANGED <<channels, loopVars, rows, snapshots, history>>

IntervalElapses ==
  /\ Running /\ ~tickDue
  /\ tickDue' = TRUE
  /\ UNCHANGED <<channels, step, after, current, shutdown, seen, buffer, batch, states, tables,
                 history>>

SignalShutdown ==
  /\ Running /\ ~shutdown
  /\ shutdown' = TRUE
  /\ UNCHANGED <<channels, step, after, current, tickDue, seen, buffer, batch, states, tables,
                 history>>

(* The process dies, or exits after shutdown. *)
Crash ==
  /\ step # "down"
  /\ step' = "down" /\ after' = "loop" /\ current' = None
  /\ tickDue' = FALSE /\ shutdown' = FALSE
  /\ raw' = <<>> /\ routed' = <<>> /\ gate' = <<>>
  /\ seen' = {} /\ buffer' = <<>> /\ batch' = <<>>
  /\ states' = [u \in Users |-> None]
  /\ delta' = None
  /\ forwards' = [m \in Messages |-> 0]
  /\ evicted' = FALSE
  /\ UNCHANGED <<rows, snapshots, deliveries, credits, decided>>

(* Mutant: the next process starts with no states. *)
RestartWithoutStates ==
  /\ step = "down"
  /\ step' = "loop"
  /\ tickDue' = TRUE
  /\ UNCHANGED <<channels, after, current, shutdown, seen, buffer, batch, states, tables, history>>

(* run() of the next process loads the stored states. *)
Restart ==
  /\ step = "down"
  /\ step' = "loop"
  /\ tickDue' = TRUE
  /\ states' = snapshots
  /\ UNCHANGED <<channels, after, current, shutdown, seen, buffer, batch, tables, history>>

(* The load fails: run() returns the error before the loop. *)
RestartFails ==
  /\ step = "down"
  /\ step' = "failed"
  /\ UNCHANGED <<channels, after, current, tickDue, shutdown, seen, buffer, batch, states, tables,
                 history>>

-----------------------------------------------------------------------------
Handle == SendMessage \/ SendState \/ NoBurst \/ Burst \/ SendBurst

WriteBatch == AppendBatch \/ MarkProcessed \/ SaveStates \/ FlushFails

Loop == StopLoop \/ FlushTick \/ TakeMessage \/ TakeReply \/ Handle \/ WriteBatch

Next ==
  \/ Loop
  \/ \E m \in Messages : Deliver(m)
  \/ GateTakes
  \/ \E u \in Users : RouterCredits(u) \/ DeltaReads(u)
  \/ DeltaWrites \/ DeltaFails
  \/ IntervalElapses \/ SignalShutdown
  \/ Crash \/ Restart \/ RestartFails

Spec == Init /\ [][Next]_vars

(* The loop is polled when it can go on, the store answers, the gate takes *)
(* what is queued, time passes.                                            *)
FairSpec == Spec /\ WF_vars(Loop) /\ WF_vars(GateTakes) /\ WF_vars(IntervalElapses)

-----------------------------------------------------------------------------
(* Properties *)

(* The type invariant: channels within their capacity, and a message in    *)
(* hand exactly where the code holds one.                                  *)
TypeOK ==
  /\ raw \in Seq(Messages) /\ Len(raw) <= RawCapacity
  /\ routed \in Seq(Users) /\ Len(routed) <= RoutedCapacity
  /\ gate \in Seq(GateEvents) /\ Len(gate) <= GateCapacity
  /\ step \in Steps /\ after \in {"loop", "detect", "stopped"}
  /\ current \in Messages \cup {None}
  /\ tickDue \in BOOLEAN /\ shutdown \in BOOLEAN
  /\ seen \subseteq Messages
  /\ buffer \in Seq(Messages) /\ Len(buffer) < BatchSize
  /\ batch \in Seq(Messages)
  /\ states \in [Users -> States \cup {None}]
  /\ rows \subseteq Messages
  /\ snapshots \in [Users -> States \cup {None}]
  /\ delta \in [user : Users, state : States] \cup {None}
  /\ deliveries \in [Messages -> Nat] /\ forwards \in [Messages -> Nat]
  /\ evicted \in BOOLEAN
  /\ credits \in [Users -> Nat] /\ decided \in [Users -> Nat]

InHand == IF step = "send_state" THEN {current} ELSE {}

(* A message the gate was sent by this process is stored, buffered, in the *)
(* batch being written or just in hand, as long as sensory has not failed: *)
(* what the upper layers react to does not vanish from the history.        *)
ForwardedIsKept ==
  step # "failed" =>
    \A m \in Messages :
      forwards[m] > 0 => m \in rows \cup Elements(buffer) \cup Elements(batch) \cup InHand

(* A shutdown that is not cut short loses none of them: the last flush     *)
(* wrote every one.                                                        *)
FlushedAtShutdown ==
  step = "stopped" => \A m \in Messages : forwards[m] > 0 => m \in rows

(* A message that is delivered again is handed to the gate again only      *)
(* after the set of seen messages was cleared for being full.              *)
DuplicateOnlyAfterEviction ==
  \A m \in Messages : forwards[m] > 1 => evicted

(* The states in memory are never behind the stored ones in the replies    *)
(* they count, so that no flush takes a reply back: not after a restart,   *)
(* and not when a memory decision writes a state it read before the flush. *)
MemoryCountsStoredReplies ==
  Running =>
    \A u \in Users :
      states[u] # None /\ snapshots[u] # None => snapshots[u].replies <= states[u].replies

(* No reply is counted twice, in memory or in the store, whatever crashes  *)
(* and memory decisions do.                                                *)
RepliesNotOvercounted ==
  \A u \in Users :
    /\ snapshots[u] # None => snapshots[u].replies <= credits[u]
    /\ states[u] # None => states[u].replies <= credits[u]

(* A message the gate was sent reaches the history store, unless sensory   *)
(* fails or the process ends.                                              *)
EventuallyStored ==
  \A m \in Messages :
    forwards[m] > 0 ~> m \in rows \/ step \in {"failed", "down"}

-----------------------------------------------------------------------------
(* The inductive invariants behind these properties (see SensoryProofs).   *)

Handling == {"send_message", "send_state", "detect", "send_burst"}
Flushing == {"append", "mark", "save"}

(* What the loop holds at each await: a message while it handles one, a    *)
(* batch while it appends one, an empty buffer from the last flush on, and *)
(* nothing while the process is down.                                      *)
ShapeInv ==
  /\ step \in Handling \/ (step \in Flushing /\ after = "detect") => current \in Messages
  /\ step # "append" => batch = <<>>
  /\ step = "stopped" \/ (step \in Flushing /\ after = "stopped") => buffer = <<>>
  /\ step = "down" => forwards = [m \in Messages |-> 0] /\ buffer = <<>>

(* Until the set of seen messages is cleared it holds what was forwarded,  *)
(* and what is about to be was not forwarded before.                       *)
SeenInv ==
  ~evicted =>
    /\ \A m \in Messages : forwards[m] <= IF m \in seen THEN 1 ELSE 0
    /\ step = "send_message" => current \in seen /\ forwards[current] = 0

(* No stored state counts more replies than the one in memory, and the     *)
(* state a memory decision has read no more than the stored one.           *)
RepliesInv ==
  /\ Running => \A u \in Users : OrFresh(snapshots[u]).replies <= OrFresh(states[u]).replies
  /\ delta # None => delta.state.replies <= OrFresh(snapshots[delta.user]).replies
=============================================================================
