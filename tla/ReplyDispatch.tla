--------------------------- MODULE ReplyDispatch ---------------------------
(***************************************************************************)
(* The way of a reply out of the system: the ReplyOut arm of the router's  *)
(* dispatcher (crates/neko-router/src/router.rs), composed with the        *)
(* cooldown it asks first, the replies table it writes, the egress it      *)
(* calls and the channel on which it tells sensory about the reply.        *)
(*                                                                         *)
(* The dispatcher handles one event at a time and awaits the store, the    *)
(* egress and sensory's channel in line.  An error ends the handling of    *)
(* the event and is only logged.  The process may die between any two      *)
(* steps; the table and what the platform delivered outlive it.            *)
(***************************************************************************)
EXTENDS ReplyCooldown, Sequences, FiniteSets

CONSTANTS
  Replies,         \* ReplyOut values (their ids are fresh)
  GroupOf,         \* group_id
  Idle,            \* the dispatcher waits for an event
  RouterCapacity,  \* capacity of the channel into the router
  RoutedCapacity   \* capacity of the channel to sensory

ASSUME GroupOfAssumption == GroupOf \in [Replies -> Groups]

ASSUME QueueAssumption == RouterCapacity \in Nat \ {0} /\ RoutedCapacity \in Nat \ {0}

ASSUME IdleAssumption == Idle \notin Replies

VARIABLES
  unsent,      \* replies the council has not produced yet
  queue,       \* router_rx
  current,     \* the reply being handled, or Idle
  step,        \* the await the handling of current has reached
  table,       \* ids in the replies table
  routed,      \* the channel to sensory
  sensoryUp,   \* sensory holds its end of that channel
  sentCount,   \* RuntimeState.replies_sent
  \* history: nothing in the code reads these
  delivered,   \* how often the platform delivered a reply
  sentAt,      \* when the platform last delivered a reply to a group
  credited     \* replies sensory has credited to their user's state

dispatchVars == <<unsent, queue, current, step, table, routed, sensoryUp, sentCount>>
dispatchHistory == <<delivered, sentAt, credited>>
vars == <<cooldownVars, dispatchVars, dispatchHistory>>

Steps == {"waiting", "lookup", "persist", "send", "route"}

Init ==
  /\ CooldownInit
  /\ unsent = Replies
  /\ queue = <<>>
  /\ current = Idle
  /\ step = "waiting"
  /\ table = {}
  /\ routed = <<>>
  /\ sensoryUp = TRUE
  /\ sentCount = 0
  /\ delivered = [r \in Replies |-> 0]
  /\ sentAt = [g \in Groups |-> Never]
  /\ credited = {}

-----------------------------------------------------------------------------
(* dispatch_event_full, ReplyOut *)

Done == current' = Idle /\ step' = "waiting"

(* The cooldown allows the reply. *)
TakeAllowed(r) ==
  /\ step = "waiting" /\ queue # <<>> /\ r = Head(queue)
  /\ queue' = Tail(queue)
  /\ Grant(GroupOf[r])
  /\ current' = r
  /\ step' = "lookup"
  /\ UNCHANGED <<unsent, table, routed, sensoryUp, sentCount, dispatchHistory>>

(* The cooldown denies the reply: it is dropped before it is recorded. *)
TakeDenied(r) ==
  /\ up
  /\ step = "waiting" /\ queue # <<>> /\ r = Head(queue)
  /\ ~Allows(GroupOf[r])
  /\ queue' = Tail(queue)
  /\ UNCHANGED <<cooldownVars, unsent, current, step, table, routed, sensoryUp, sentCount,
                 dispatchHistory>>

(* Mutant: the reply is sent without being recorded. *)
LookupThenSend ==
  /\ step = "lookup"
  /\ step' = "send"
  /\ UNCHANGED <<cooldownVars, unsent, queue, current, table, routed,
                 sensoryUp, sentCount, dispatchHistory>>

(* The platform id of the message is looked up; failing that, the reply    *)
(* goes out without a quote.                                               *)
Lookup ==
  /\ step = "lookup"
  /\ step' = "persist"
  /\ UNCHANGED <<cooldownVars, unsent, queue, current, table, routed,
                 sensoryUp, sentCount, dispatchHistory>>

(* persist_reply() *)
Persist ==
  /\ step = "persist"
  /\ table' = table \cup {current}
  /\ step' = "send"
  /\ UNCHANGED <<cooldownVars, unsent, queue, current, routed, sensoryUp, sentCount,
                 dispatchHistory>>

(* Mutant: the dispatcher goes on waiting and still holds the reply. *)
PersistFailsHolding ==
  /\ step = "persist"
  /\ step' = "waiting"
  /\ UNCHANGED <<cooldownVars, unsent, queue, current, table, routed, sensoryUp, sentCount,
                 dispatchHistory>>

(* The insert fails: the reply is given up, its cooldown stays consumed. *)
PersistFails ==
  /\ step = "persist"
  /\ Done
  /\ UNCHANGED <<cooldownVars, unsent, queue, table, routed, sensoryUp, sentCount,
                 dispatchHistory>>

(* What the platform does when it delivers the current reply. *)
Deliver ==
  /\ delivered' = [delivered EXCEPT ![current] = @ + 1]
  /\ sentAt' = [sentAt EXCEPT ![GroupOf[current]] = time]
  /\ UNCHANGED credited

(* egress.send() returns: the platform has delivered the reply, which is   *)
(* counted in replies_sent.                                                *)
Send ==
  /\ step = "send"
  /\ Deliver
  /\ sentCount' = sentCount + 1
  /\ step' = "route"
  /\ UNCHANGED <<cooldownVars, unsent, queue, current, table, routed, sensoryUp>>

(* Mutant: a failed send is retried. *)
SendFailsThenRetries ==
  /\ step = "send"
  /\ Deliver \/ UNCHANGED dispatchHistory
  /\ UNCHANGED <<cooldownVars, dispatchVars>>

(* egress.send() fails: the group is no number, the connection that is     *)
(* kept has dropped and another cannot be opened, or the call fails and    *)
(* the reply may have been delivered all the same, when only the answer    *)
(* was lost.                                                               *)
SendFails ==
  /\ step = "send"
  /\ Done
  /\ Deliver \/ UNCHANGED dispatchHistory
  /\ UNCHANGED <<cooldownVars, unsent, queue, table, routed, sensoryUp, sentCount>>

(* Sensory is told when its channel has room ... *)
Route ==
  /\ step = "route"
  /\ sensoryUp /\ Len(routed) < RoutedCapacity
  /\ routed' = Append(routed, current)
  /\ Done
  /\ UNCHANGED <<cooldownVars, unsent, queue, table, sensoryUp, sentCount, dispatchHistory>>

(* ... unless sensory has stopped: the send fails at once. *)
RouteFails ==
  /\ step = "route"
  /\ ~sensoryUp
  /\ Done
  /\ UNCHANGED <<cooldownVars, unsent, queue, table, routed, sensoryUp, sentCount,
                 dispatchHistory>>

-----------------------------------------------------------------------------
(* The dispatcher's neighbours *)

(* The council sends a reply to the router. *)
CouncilReplies(r) ==
  /\ up
  /\ r \in unsent
  /\ Len(queue) < RouterCapacity
  /\ unsent' = unsent \ {r}
  /\ queue' = Append(queue, r)
  /\ UNCHANGED <<cooldownVars, current, step, table, routed, sensoryUp, sentCount,
                 dispatchHistory>>

(* handle_reply(): sensory credits the reply to its user's state. *)
SensoryCredits ==
  /\ routed # <<>>
  /\ credited' = credited \cup {Head(routed)}
  /\ routed' = Tail(routed)
  /\ UNCHANGED <<cooldownVars, unsent, queue, current, step, table, sensoryUp, sentCount,
                 delivered, sentAt>>

(* A failed flush ends sensory's loop (run returns the error): what its    *)
(* channel holds is lost, and nothing restarts it while the process lives. *)
SensoryStops ==
  /\ up /\ sensoryUp
  /\ sensoryUp' = FALSE
  /\ routed' = <<>>
  /\ UNCHANGED <<cooldownVars, unsent, queue, current, step, table, sentCount,
                 dispatchHistory>>

(* The process dies with what it holds in memory.  A call to the platform  *)
(* that was under way may still be carried out.  The next process starts   *)
(* with sensory running.                                                   *)
ProcessCrash ==
  /\ Crash
  /\ queue' = <<>>
  /\ routed' = <<>>
  /\ sensoryUp' = TRUE
  /\ sentCount' = 0
  /\ Done
  /\ \/ UNCHANGED dispatchHistory
     \/ step = "send" /\ Deliver
  /\ UNCHANGED <<unsent, table>>

CooldownStep ==
  /\ StoreStep \/ Restart \/ ClockStep
  /\ UNCHANGED <<dispatchVars, dispatchHistory>>

Dispatcher ==
  \/ \E r \in Replies : TakeAllowed(r) \/ TakeDenied(r)
  \/ Lookup
  \/ Persist \/ PersistFails
  \/ Send \/ SendFails
  \/ Route \/ RouteFails

Next ==
  \/ Dispatcher
  \/ \E r \in Replies : CouncilReplies(r)
  \/ SensoryCredits \/ SensoryStops
  \/ ProcessCrash
  \/ CooldownStep

Spec == Init /\ [][Next]_vars

-----------------------------------------------------------------------------
(* Properties *)

InFlight == IF current = Idle THEN {} ELSE {current}

(* The type invariant: both channels respect their capacity, and the       *)
(* dispatcher holds a reply exactly while it handles one.                  *)
TypeOK ==
  /\ CooldownTypeOK
  /\ unsent \subseteq Replies
  /\ queue \in Seq(Replies) /\ Len(queue) <= RouterCapacity
  /\ current \in Replies \cup {Idle}
  /\ step \in Steps
  /\ step = "waiting" <=> current = Idle
  /\ table \subseteq Replies
  /\ routed \in Seq(Replies) /\ Len(routed) <= RoutedCapacity
  /\ sensoryUp \in BOOLEAN
  /\ sentCount \in Nat
  /\ delivered \in [Replies -> Nat]
  /\ sentAt \in [Groups -> Watermarks]
  /\ credited \subseteq Replies

(* A reply is recorded before the platform gets it, and delivered before   *)
(* its user's state is credited with it, wherever the process died and     *)
(* whichever insert, connection or send failed: a failure ends the         *)
(* handling, and no later step of it makes up for an earlier one.          *)
EffectsInOrder ==
  \A r \in Replies :
    /\ delivered[r] > 0 => r \in table
    /\ r \in credited \/ (\E i \in 1 .. Len(routed) : routed[i] = r) => delivered[r] > 0

(* No reply is delivered twice: not when the answer of the platform is     *)
(* lost and the egress reports a failure, and not after a restart.         *)
DeliveredAtMostOnce == \A r \in Replies : delivered[r] <= 1

(* cooldown.rs:10 says that the limiter tracks the last time a reply was   *)
(* sent and denies replies that arrive within min_interval of it.  A reply *)
(* that failed to be recorded or sent counts as well.                      *)
DroppedOnlyAfterReply ==
  [][\A r \in Replies :
       TakeDenied(r) =>
         /\ sentAt[GroupOf[r]] # Never
         /\ time - sentAt[GroupOf[r]] < MinInterval]_vars
=============================================================================
