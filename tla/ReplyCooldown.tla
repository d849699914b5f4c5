--------------------------- MODULE ReplyCooldown ---------------------------
(***************************************************************************)
(* The per-group reply rate limiter (crates/neko-core/src/cooldown.rs) and *)
(* the table that keeps its watermarks (reply_cooldowns, sqlite.rs), with  *)
(* the wall clock both rely on and the process that crashes and restarts.  *)
(*                                                                         *)
(* allow() answers under a lock and spawns a task that saves the new       *)
(* watermark; the tasks run in any order, may fail, and die with the       *)
(* process.  Time is counted in units finer than the table's millisecond.  *)
(***************************************************************************)
EXTENDS Integers

CONSTANTS
  Groups,        \* chat groups
  MinInterval,   \* min_interval, in time units
  Resolution,    \* time units in a millisecond, the table's resolution
  Never,         \* a group without a watermark
  MaxTime,       \* bound on time, for the model checker
  MaxBack        \* bound on how far the wall clock is set back in all

ASSUME IntervalAssumption == MinInterval \in Nat /\ Resolution \in Nat \ {0}

ASSUME BoundAssumption == MaxTime \in Nat /\ MaxBack \in Nat

ASSUME NeverAssumption == Never \notin Nat

VARIABLES
  time,        \* time that has really passed
  back,        \* how far the wall clock has been set back so far
  up,          \* the process runs
  lastReply,   \* last_reply: the watermark of each group, in memory
  saves,       \* spawned save_cooldown tasks that have not finished
  stored,      \* the table: the watermark of each group
  \* history: nothing in the code reads these
  granted,     \* when allow() last said yes to a group, in real time
  thisRun      \* groups allow() said yes to since the process started

cooldownVars == <<time, back, up, lastReply, saves, stored, granted, thisRun>>

Watermarks == Nat \cup {Never}

(* Mutant: the table rounds up. *)
RoundedUp(t) == t + ((Resolution - (t % Resolution)) % Resolution)

Now == time - back                            \* Utc::now()
Truncated(t) == t - (t % Resolution)          \* timestamp_millis()

CooldownInit ==
  /\ time = 0
  /\ back = 0
  /\ up = TRUE
  /\ lastReply = [g \in Groups |-> Never]
  /\ saves = {}
  /\ stored = [g \in Groups |-> Never]
  /\ granted = [g \in Groups |-> Never]
  /\ thisRun = {}

-----------------------------------------------------------------------------
(* allow(): a group without a watermark may reply, and so may one whose    *)
(* watermark is min_interval old.  A watermark in the future, which a      *)
(* clock that was set back leaves behind, counts as min_interval old       *)
(* (to_std fails).                                                         *)
Allows(g) ==
  lastReply[g] # Never =>
    \/ Now < lastReply[g]
    \/ Now - lastReply[g] >= MinInterval

(* Mutant: the watermark is only ever written once (or_insert). *)
GrantKeepsWatermark(g) ==
  /\ up
  /\ Allows(g)
  /\ lastReply' = [lastReply EXCEPT ![g] = IF @ = Never THEN Now ELSE @]
  /\ saves' = saves \cup {[group |-> g, at |-> Now]}
  /\ granted' = [granted EXCEPT ![g] = time]
  /\ thisRun' = thisRun \cup {g}
  /\ UNCHANGED <<time, back, up, stored>>

(* allow() says yes: the watermark moves to now, and a task is spawned to  *)
(* save it.                                                                *)
Grant(g) ==
  /\ up
  /\ Allows(g)
  /\ lastReply' = [lastReply EXCEPT ![g] = Now]
  /\ saves' = saves \cup {[group |-> g, at |-> Now]}
  /\ granted' = [granted EXCEPT ![g] = time]
  /\ thisRun' = thisRun \cup {g}
  /\ UNCHANGED <<time, back, up, stored>>

(* save_cooldown(): the row is overwritten, whatever it held. *)
SaveCooldown(s) ==
  /\ s \in saves
  /\ saves' = saves \ {s}
  /\ stored' = [stored EXCEPT ![s.group] = Truncated(s.at)]
  /\ UNCHANGED <<time, back, up, lastReply, granted, thisRun>>

(* save_cooldown() fails; allow()'s task only logs it. *)
SaveFails(s) ==
  /\ s \in saves
  /\ saves' = saves \ {s}
  /\ UNCHANGED <<time, back, up, lastReply, stored, granted, thisRun>>

(* The process dies, and the spawned tasks with it. *)
Crash ==
  /\ up
  /\ up' = FALSE
  /\ saves' = {}
  /\ lastReply' = [g \in Groups |-> Never]
  /\ thisRun' = {}
  /\ UNCHANGED <<time, back, stored, granted>>

(* Mutant: the process starts without loading the table. *)
RestartEmpty ==
  /\ ~up
  /\ up' = TRUE
  /\ UNCHANGED <<time, back, lastReply, saves, stored, granted, thisRun>>

(* new_with_store(): the watermarks are loaded before the first allow(). *)
Restart ==
  /\ ~up
  /\ up' = TRUE
  /\ lastReply' = stored
  /\ UNCHANGED <<time, back, saves, stored, granted, thisRun>>

Tick ==
  /\ time < MaxTime
  /\ time' = time + 1
  /\ UNCHANGED <<back, up, lastReply, saves, stored, granted, thisRun>>

(* The wall clock is corrected backwards. *)
SetClockBack ==
  /\ back < MaxBack
  /\ Now > 0
  /\ back' = back + 1
  /\ UNCHANGED <<time, up, lastReply, saves, stored, granted, thisRun>>

StoreStep == \E s \in saves : SaveCooldown(s) \/ SaveFails(s)
ClockStep == Tick \/ SetClockBack

CooldownNext ==
  \/ \E g \in Groups : Grant(g)
  \/ StoreStep
  \/ Crash
  \/ Restart
  \/ ClockStep

CooldownSpec == CooldownInit /\ [][CooldownNext]_cooldownVars

-----------------------------------------------------------------------------
(* Properties *)

(* The type invariant. *)
CooldownTypeOK ==
  /\ time \in Nat
  /\ back \in 0 .. time
  /\ up \in BOOLEAN
  /\ lastReply \in [Groups -> Watermarks]
  /\ saves \subseteq [group : Groups, at : Nat]
  /\ stored \in [Groups -> Watermarks]
  /\ granted \in [Groups -> Watermarks]
  /\ thisRun \subseteq Groups

Since(g) == time - granted[g]

(* While the process runs and its clock is not set back, allow() says yes  *)
(* again no sooner than min_interval after its last yes, with saves still  *)
(* running, failing or finishing in any order.                             *)
AllowedOnlyAfterInterval ==
  \A g \in thisRun : back = 0 /\ Allows(g) => Since(g) >= MinInterval

(* The limiter never blocks a group for longer than min_interval after the *)
(* last yes, plus what the clock was set back: not after a restart that    *)
(* loads an old or a truncated watermark either.                           *)
DeniedOnlyWithinInterval ==
  \A g \in Groups :
    up /\ ~Allows(g) =>
      granted[g] # Never /\ Since(g) < MinInterval + back

(* A restart keeps the interval when the last watermark had been saved, up *)
(* to the millisecond the table rounds down to.                            *)
SavedIntervalSurvivesRestart ==
  \A g \in Groups :
    /\ up /\ back = 0
    /\ granted[g] # Never
    /\ stored[g] = Truncated(granted[g])
    /\ Allows(g)
    => Since(g) > MinInterval - Resolution

-----------------------------------------------------------------------------
(* The inductive invariants behind these properties.  No watermark, in     *)
(* memory, on its way to the table or in it, is later than the last yes;   *)
(* and while the clock was never set back, the one in memory is it.        *)
WatermarkInv ==
  /\ \A g \in Groups :
       /\ lastReply[g] # Never => granted[g] # Never /\ lastReply[g] <= granted[g]
       /\ stored[g] # Never => granted[g] # Never /\ stored[g] <= granted[g]
       /\ granted[g] # Never => granted[g] <= time
  /\ \A s \in saves : granted[s.group] # Never /\ s.at <= granted[s.group]
  /\ back = 0 => \A g \in thisRun : granted[g] # Never /\ lastReply[g] = granted[g]

(* A group that was not allowed since the restart has the watermark that   *)
(* was loaded, and nothing is on its way to overwrite the table's.         *)
LoadedInv ==
  /\ ~up => saves = {} /\ thisRun = {}
  /\ \A s \in saves : s.group \in thisRun
  /\ up => \A g \in Groups \ thisRun : lastReply[g] = stored[g]
=============================================================================
