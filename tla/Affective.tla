----------------------------- MODULE Affective -----------------------------
(***************************************************************************)
(* The arithmetic of an affective state: decay and replies                 *)
(* (neko-core/src/types.rs), the touch every message gives                 *)
(* (neko-sensory/src/actor.rs), the delta of a memory decision and the     *)
(* table the states are kept in (neko-memory/src/sqlite.rs), under a wall  *)
(* clock that may be set back.  Sensory.tla has the rest of the loop that  *)
(* calls them: here a handler is one step, and a flush does not fail.      *)
(*                                                                         *)
(* Energy and favorability are counted in units of what they lose per      *)
(* second, so that both are integers; the code's floats are not rounded.   *)
(***************************************************************************)
EXTENDS Integers

CONSTANTS
  Users,                   \* (group, user) pairs
  None,                    \* no state kept, no delta under way
  PerMilli, PerSecond,     \* units of time in a millisecond and in a second
  EnergyFull, FavorFull,   \* 1.0 of energy and of favorability
  TouchBoost, ReplyBoost,  \* energy a message and a reply add
  Quality,                 \* favorability a reply adds
  Deltas,                  \* what a memory decision may add to either
  MaxTime, MaxBack         \* bounds on the time passed, and on that taken back

ASSUME ClockAssumption ==
  PerMilli \in Nat \ {0} /\ PerSecond \in Nat \ {0} /\ MaxTime \in Nat /\ MaxBack \in Nat

ASSUME ScaleAssumption ==
  /\ EnergyFull \in Nat /\ FavorFull \in Nat
  /\ TouchBoost \in Nat /\ ReplyBoost \in Nat /\ Quality \in Nat /\ Deltas \subseteq Int

(* An AffectiveState that was updated; its replies are Sensory's.  The     *)
(* energy is in its range wherever a state is kept.                        *)
States == [energy : 0 .. EnergyFull, favor : Int, last : Int]

ASSUME NoneAssumption == None \notin States \cup [user : Users, state : States]

VARIABLES
  now,        \* the wall clock
  back,       \* how far it was set back in all
  memory,     \* SensoryActor::states
  snapshots,  \* the affective_snapshots table
  delta       \* the state a memory decision has read, and whose it is

affVars == <<now, back, memory, snapshots, delta>>

Lesser(a, b)  == IF a < b THEN a ELSE b
Greater(a, b) == IF a > b THEN a ELSE b
Clamped(a, low, high) == Greater(low, Lesser(a, high))
Abs(a) == IF a < 0 THEN -a ELSE a

(* num_seconds(): whole seconds, truncated towards zero. *)
Seconds(d) == IF d < 0 THEN -((-d) \div PerSecond) ELSE d \div PerSecond

(* signum(): a zero keeps the sign of the float it comes from. *)
Signs(a) == IF a = 0 THEN {-1, 1} ELSE IF a < 0 THEN {-1} ELSE {1}

(* decay(): both values go towards zero, or away from it if s < 0. *)
Decayed(state, s, sign) ==
  [energy |-> Greater(state.energy - s, 0),
   favor  |-> sign * Greater(Abs(state.favor) - s, 0), last |-> state.last]

(* Mutant: the boost is not limited. *)
BoostedWithoutLimit(state) ==
  [energy |-> state.energy + TouchBoost, favor |-> state.favor, last |-> now]

(* The end of touch_state(). *)
Boosted(state) ==
  [energy |-> Lesser(state.energy + TouchBoost, EnergyFull), favor |-> state.favor, last |-> now]

Fresh == [energy |-> 0, favor |-> 0, last |-> now]

OrFresh(state) == IF state = None THEN Fresh ELSE state

(* Mutant: a reply's favorability is added without clamp. *)
OnReplyUnclamped(state) ==
  [energy |-> Lesser(state.energy + ReplyBoost, EnergyFull),
   favor  |-> state.favor + Quality, last |-> now]

OnReply(state) ==
  [energy |-> Lesser(state.energy + ReplyBoost, EnergyFull),
   favor  |-> Clamped(state.favor + Quality, -FavorFull, FavorFull), last |-> now]

Changed(state, e, f) ==
  [energy |-> Clamped(state.energy + e, 0, EnergyFull),
   favor  |-> Clamped(state.favor + f, -FavorFull, FavorFull), last |-> now]

(* save_affective_states(): timestamp_millis() drops what is less. *)
Saved(state) ==
  IF state = None THEN None
  ELSE [state EXCEPT !.last = (state.last \div PerMilli) * PerMilli]

AffInit ==
  /\ now = 0 /\ back = 0
  /\ memory = [u \in Users |-> None] /\ snapshots = [u \in Users |-> None]
  /\ delta = None

(* handle_message(): a message touches its sender's state, and a state     *)
(* seen before decays first by the time since it was last updated.         *)
Message(u) ==
  LET state == OrFresh(memory[u]) IN
  /\ \E sign \in Signs(state.favor) :
       memory' = [memory EXCEPT ![u] =
                    Boosted(Decayed(state, Seconds(now - state.last), sign))]
  /\ UNCHANGED <<now, back, snapshots, delta>>

(* handle_reply(): the time since the last update is never made up for. *)
Reply(u) ==
  /\ memory' = [memory EXCEPT ![u] = OnReply(OrFresh(memory[u]))]
  /\ UNCHANGED <<now, back, snapshots, delta>>

(* persist_states(): every state in memory, in one transaction. *)
Flush ==
  /\ snapshots' = [u \in Users |-> IF memory[u] = None THEN snapshots[u] ELSE Saved(memory[u])]
  /\ UNCHANGED <<now, back, memory, delta>>

(* apply_affective_delta() reads the table, ... *)
DeltaReads(u) ==
  /\ delta = None
  /\ delta' = [user |-> u, state |-> OrFresh(snapshots[u])]
  /\ UNCHANGED <<now, back, memory, snapshots>>

(* ... and writes what it has read, changed.  It has no lock on the row.   *)
DeltaWrites ==
  /\ delta # None
  /\ \E e, f \in Deltas :
       snapshots' = [snapshots EXCEPT ![delta.user] = Saved(Changed(delta.state, e, f))]
  /\ delta' = None
  /\ UNCHANGED <<now, back, memory>>

(* The process dies, and starts from the table. *)
Restart ==
  /\ memory' = snapshots /\ delta' = None
  /\ UNCHANGED <<now, back, snapshots>>

Tick ==
  /\ now + back < MaxTime
  /\ now' = now + 1
  /\ UNCHANGED <<back, memory, snapshots, delta>>

SetClockBack ==
  /\ \E d \in 1 .. MaxBack - back : now' = now - d /\ back' = back + d
  /\ UNCHANGED <<memory, snapshots, delta>>

AffNext ==
  \/ \E u \in Users : Message(u) \/ Reply(u) \/ DeltaReads(u)
  \/ Flush \/ DeltaWrites \/ Restart \/ Tick \/ SetClockBack

AffSpec == AffInit /\ [][AffNext]_affVars

(***************************************************************************)
(* Properties                                                              *)
(***************************************************************************)

(* The energy of every state, in memory, stored or read by a memory        *)
(* decision, is between 0 and 1, although decay with a negative time adds  *)
(* to it (touch_state, on_reply, apply_affective_delta).                   *)
TypeOK ==
  /\ now \in Int /\ back \in Nat
  /\ memory \in [Users -> States \cup {None}]
  /\ snapshots \in [Users -> States \cup {None}]
  /\ delta \in [user : Users, state : States] \cup {None}

(* Every state there is: in memory, stored, or read by a memory decision.  *)
Kept ==
  {memory[u] : u \in Users} \cup {snapshots[u] : u \in Users}
    \cup (IF delta = None THEN {} ELSE {delta.state})

(* The favorability of a state leaves [-1, 1] by no more than what decays  *)
(* in the time the clock was set back: decay() with a negative time has no *)
(* upper limit, and only the next reply or delta clamps (types.rs).  With  *)
(* a clock that is never set back it stays in the range.                   *)
FavorabilityBounded ==
  \A state \in Kept \ {None} : PerSecond * Abs(state.favor) <= PerSecond * FavorFull + back
=============================================================================
