-------------------------- MODULE AffectiveProofs --------------------------
(***************************************************************************)
(* What holds of Affective.tla for any users, scales, boosts, deltas and   *)
(* any correction of the clock.                                            *)
(*                                                                         *)
(* FavorabilityBounded is not inductive: a state whose last update lies in *)
(* the future may still be raised by a decay with a negative time.  Within *)
(* counts that time against what the clock was set back.                   *)
(***************************************************************************)
EXTENDS Affective, TLAPS

(* state is bounded, with what a clock at n may still add to it. *)
Within(state, n, b) ==
  PerSecond * Abs(state.favor) + Greater(state.last - n, 0) <= PerSecond * FavorFull + b

Bounded(state) == state # None => Within(state, now, back)

AheadBounded ==
  /\ \A u \in Users : Bounded(memory[u]) /\ Bounded(snapshots[u])
  /\ delta # None => Within(delta.state, now, back)

AffInv == TypeOK /\ AheadBounded

-----------------------------------------------------------------------------
(* A negative time is truncated to no more seconds than it has. *)
LEMMA SecondsTruncate ==
  ASSUME NEW d \in Int
  PROVE  /\ Seconds(d) \in Int
         /\ d >= 0 => Seconds(d) >= 0
         /\ d < 0  => PerSecond * (-Seconds(d)) <= -d
<1>1. ASSUME NEW n \in Nat
      PROVE  n \div PerSecond \in Nat /\ PerSecond * (n \div PerSecond) <= n
  BY ClockAssumption, SMTT(30)
<1>2. CASE d >= 0
  BY <1>1, <1>2 DEF Seconds
<1>3. CASE d < 0
  <2> DEFINE q == (-d) \div PerSecond
  <2>1. q \in Nat /\ PerSecond * q <= -d
    BY <1>1, <1>3
  <2>2. Seconds(d) = -q
    BY <1>3 DEF Seconds
  <2> HIDE DEF q
  <2>3. -Seconds(d) = q
    BY <2>1, <2>2
  <2> QED
    BY <1>3, <2>1, <2>2, <2>3
<1> QED
  BY <1>2, <1>3

(* A state in its range that was updated now is within the bound. *)
LEMMA ClampedIsWithin ==
  ASSUME NEW f \in Int, NEW n \in Int, NEW b \in Nat,
         NEW state, state.favor = f, state.last = n, Abs(f) <= FavorFull
  PROVE  Within(state, n, b)
<1>1. Abs(f) \in Int /\ n - n = 0
  BY DEF Abs
<1>2. PerSecond * Abs(f) <= PerSecond * FavorFull
  BY <1>1, ClockAssumption, ScaleAssumption, SMTT(30)
<1>3. PerSecond * Abs(f) \in Int /\ PerSecond * FavorFull \in Int
  BY <1>1, ClockAssumption, ScaleAssumption
<1> QED
  BY <1>1, <1>2, <1>3 DEF Within, Greater

(* What a message makes of a state keeps its type and the bound.           *)
LEMMA TouchedIsWithin ==
  ASSUME NEW state \in States, now \in Int, back \in Nat, NEW sign \in {-1, 1},
         Within(state, now, back)
  PROVE  LET touched == Boosted(Decayed(state, Seconds(now - state.last), sign))
         IN  touched \in States /\ Within(touched, now, back)
<1> DEFINE s == Seconds(now - state.last)
           f == sign * Greater(Abs(state.favor) - s, 0)
           e == Lesser(Greater(state.energy - s, 0) + TouchBoost, EnergyFull)
           touched == Boosted(Decayed(state, s, sign))
<1>1. state.favor \in Int /\ state.last \in Int /\ state.energy \in 0 .. EnergyFull
  BY DEF States
<1>2. /\ s \in Int
      /\ now - state.last >= 0 => s >= 0
      /\ now - state.last < 0  => PerSecond * (-s) <= state.last - now
  <2>1. now - state.last \in Int /\ -(now - state.last) = state.last - now
    BY <1>1
  <2> QED
    BY <2>1, SecondsTruncate
<1> HIDE DEF s
<1>3. e \in 0 .. EnergyFull
  BY <1>1, <1>2, ScaleAssumption DEF Greater, Lesser
<1>4. f \in Int /\ Abs(f) = Greater(Abs(state.favor) - s, 0)
  BY <1>1, <1>2 DEF Greater, Abs
<1>5. touched = [energy |-> e, favor |-> f, last |-> now]
  BY DEF Decayed, Boosted
<1>6. touched \in States
  BY <1>3, <1>4, <1>5 DEF States
<1>7. touched.favor = f /\ touched.last = now
  BY <1>5
<1> DEFINE a == Abs(state.favor)
<1>8. a \in Nat /\ Abs(f) = Greater(a - s, 0)
  BY <1>1, <1>4 DEF Abs
<1> HIDE DEF a, f, touched
<1>9. PerSecond * Abs(f) <= PerSecond * FavorFull + back
  <2>1. PerSecond * a + Greater(state.last - now, 0) <= PerSecond * FavorFull + back
    BY DEF Within, a
  <2>2. PerSecond * a \in Int /\ PerSecond * FavorFull \in Int /\ PerSecond * FavorFull + back >= 0
    BY <1>8, ClockAssumption, ScaleAssumption, SMTT(30)
  <2>3. CASE a - s <= 0
    <3>1. Abs(f) = 0
      BY <1>2, <1>8, <2>3 DEF Greater
    <3> QED
      BY <3>1, <2>2, ClockAssumption
  <2>4. CASE a - s > 0 /\ now - state.last >= 0
    <3>1. Abs(f) = a - s /\ s >= 0
      BY <1>2, <1>8, <2>4 DEF Greater
    <3>2. PerSecond * (a - s) <= PerSecond * a
      BY <3>1, <1>2, <1>8, ClockAssumption, SMTT(30)
    <3>3. PerSecond * (a - s) \in Int /\ Greater(state.last - now, 0) >= 0
          /\ Greater(state.last - now, 0) \in Int
      BY <1>1, <1>2, <1>8, ClockAssumption DEF Greater
    <3> QED
      BY <2>1, <2>2, <3>1, <3>2, <3>3
  <2>5. CASE a - s > 0 /\ now - state.last < 0
    <3>1. Abs(f) = a - s /\ Greater(state.last - now, 0) = state.last - now
      BY <1>1, <1>2, <1>8, <2>5 DEF Greater
    <3>2. PerSecond * (a - s) = PerSecond * a + PerSecond * (-s)
      BY <1>2, <1>8, ClockAssumption, SMTT(30)
    <3>3. PerSecond * (-s) \in Int /\ PerSecond * (-s) <= state.last - now
      BY <1>2, <2>5, ClockAssumption
    <3> QED
      BY <1>1, <2>1, <2>2, <3>1, <3>2, <3>3
  <2> QED
    BY <1>1, <1>2, <1>8, <2>3, <2>4, <2>5
<1>10. Greater(touched.last - now, 0) = 0
  BY <1>7 DEF Greater
<1>11. PerSecond * Abs(f) \in Int /\ PerSecond * FavorFull \in Int
  BY <1>4, ClockAssumption, ScaleAssumption DEF Abs
<1>12. Within(touched, now, back)
  BY <1>7, <1>9, <1>10, <1>11 DEF Within
<1> QED
  BY <1>6, <1>12 DEF touched, s

(* A reply and a delta clamp. *)
LEMMA ReplyIsWithin ==
  ASSUME NEW state \in States, now \in Int, back \in Nat
  PROVE  OnReply(state) \in States /\ Within(OnReply(state), now, back)
<1> DEFINE f == Clamped(state.favor + Quality, -FavorFull, FavorFull)
<1>1. state.favor \in Int /\ state.energy \in 0 .. EnergyFull
  BY DEF States
<1>2. f \in Int /\ Abs(f) <= FavorFull
  BY <1>1, ScaleAssumption DEF Clamped, Greater, Lesser, Abs
<1>3. OnReply(state) \in States
  BY <1>1, <1>2, ScaleAssumption DEF OnReply, States, Lesser
<1>4. OnReply(state).favor = f /\ OnReply(state).last = now
  BY DEF OnReply
<1> HIDE DEF f
<1> QED
  BY <1>2, <1>3, <1>4, ClampedIsWithin

LEMMA ChangedIsWithin ==
  ASSUME NEW state \in States, NEW e \in Int, NEW g \in Int, now \in Int, back \in Nat
  PROVE  Changed(state, e, g) \in States /\ Within(Changed(state, e, g), now, back)
<1> DEFINE f == Clamped(state.favor + g, -FavorFull, FavorFull)
<1>1. state.favor \in Int /\ state.energy \in 0 .. EnergyFull
  BY DEF States
<1>2. f \in Int /\ Abs(f) <= FavorFull
  BY <1>1, ScaleAssumption DEF Clamped, Greater, Lesser, Abs
<1>3. Changed(state, e, g) \in States
  BY <1>1, <1>2, ScaleAssumption DEF Changed, States, Clamped, Greater, Lesser
<1>4. Changed(state, e, g).favor = f /\ Changed(state, e, g).last = now
  BY DEF Changed
<1> HIDE DEF f
<1> QED
  BY <1>2, <1>3, <1>4, ClampedIsWithin

(* A state nobody has kept yet. *)
LEMMA FreshIsWithin ==
  ASSUME now \in Int, back \in Nat
  PROVE  Fresh \in States /\ Within(Fresh, now, back)
<1>1. Fresh \in States /\ Fresh.favor = 0 /\ Fresh.last = now
  BY ScaleAssumption DEF Fresh, States
<1>2. Abs(0) <= FavorFull
  BY ScaleAssumption DEF Abs
<1> QED
  BY <1>1, <1>2, ClampedIsWithin

(* A stored state was updated no later than the state it is stored from. *)
LEMMA SavedIsWithin ==
  ASSUME NEW state \in States, now \in Int, back \in Nat, Within(state, now, back)
  PROVE  Saved(state) \in States /\ Within(Saved(state), now, back)
<1> DEFINE t == (state.last \div PerMilli) * PerMilli
<1>1. state.favor \in Int /\ state.last \in Int /\ state # None
  BY NoneAssumption DEF States
<1>2. t \in Int /\ t <= state.last
  BY <1>1, ClockAssumption, SMTT(30)
<1> HIDE DEF t
<1>3. Saved(state) = [state EXCEPT !.last = t]
  BY <1>1 DEF Saved, t
<1>4. Saved(state) \in States /\ Saved(state).favor = state.favor /\ Saved(state).last = t
  BY <1>2, <1>3 DEF States
<1>5. Greater(t - now, 0) <= Greater(state.last - now, 0)
      /\ Greater(t - now, 0) \in Int /\ Greater(state.last - now, 0) \in Int
  BY <1>1, <1>2 DEF Greater
<1>6. PerSecond * Abs(state.favor) \in Int /\ PerSecond * FavorFull \in Int
  BY <1>1, ClockAssumption, ScaleAssumption DEF Abs
<1>7. PerSecond * Abs(state.favor) + Greater(state.last - now, 0) <= PerSecond * FavorFull + back
  BY DEF Within
<1>8. PerSecond * Abs(state.favor) + Greater(t - now, 0) <= PerSecond * FavorFull + back
  BY <1>5, <1>6, <1>7
<1> QED
  BY <1>4, <1>8 DEF Within

(* Time that passes uses up what is ahead; a clock set back by d adds d to *)
(* it and to the bound.                                                    *)
LEMMA ClockKeepsWithin ==
  ASSUME NEW state \in States, NEW n \in Int, NEW b \in Nat, Within(state, n, b)
  PROVE  /\ Within(state, n + 1, b)
         /\ \A d \in Nat : Within(state, n - d, b + d)
<1>1. state.favor \in Int /\ state.last \in Int
  BY DEF States
<1>2. PerSecond * Abs(state.favor) \in Int /\ PerSecond * FavorFull \in Int
  BY <1>1, ClockAssumption, ScaleAssumption DEF Abs
<1> QED
  BY <1>1, <1>2 DEF Within, Greater

-----------------------------------------------------------------------------
LEMMA KeptStates ==
  ASSUME AffInv, NEW u \in Users
  PROVE  /\ now \in Int /\ back \in Nat
         /\ memory[u] # None    => memory[u] \in States /\ Within(memory[u], now, back)
         /\ snapshots[u] # None => snapshots[u] \in States /\ Within(snapshots[u], now, back)
         /\ OrFresh(memory[u]) \in States /\ Within(OrFresh(memory[u]), now, back)
         /\ OrFresh(snapshots[u]) \in States /\ Within(OrFresh(snapshots[u]), now, back)
<1>1. now \in Int /\ back \in Nat
  BY DEF AffInv, TypeOK
<1>2. /\ memory[u] # None    => memory[u] \in States /\ Within(memory[u], now, back)
      /\ snapshots[u] # None => snapshots[u] \in States /\ Within(snapshots[u], now, back)
  BY DEF AffInv, TypeOK, AheadBounded, Bounded
<1> QED
  BY <1>1, <1>2, FreshIsWithin DEF OrFresh

(* A step that changes only memory keeps AffInv if the states it puts      *)
(* there are bounded; the same for the table.                              *)
LEMMA MemoryStep ==
  ASSUME AffInv, NEW u \in Users, NEW state \in States, Within(state, now, back),
         memory' = [memory EXCEPT ![u] = state], UNCHANGED <<now, back, snapshots, delta>>
  PROVE  AffInv'
<1>1. TypeOK'
  BY DEF AffInv, TypeOK
<1>2. \A v \in Users : memory'[v] = IF v = u THEN state ELSE memory[v]
  BY DEF AffInv, TypeOK
<1>3. AheadBounded'
  BY <1>2 DEF AffInv, AheadBounded, Bounded, Within
<1> QED
  BY <1>1, <1>3 DEF AffInv

LEMMA TableStep ==
  ASSUME AffInv, UNCHANGED <<now, back, memory>>, delta' \in {delta, None},
         snapshots' \in [Users -> States \cup {None}],
         \A u \in Users : snapshots'[u] # None => Within(snapshots'[u], now, back)
  PROVE  AffInv'
<1>1. TypeOK'
  BY DEF AffInv, TypeOK
<1>2. AheadBounded'
  BY DEF AffInv, AheadBounded, Bounded, Within
<1> QED
  BY <1>1, <1>2 DEF AffInv

LEMMA ClockStep ==
  ASSUME AffInv, UNCHANGED <<memory, snapshots, delta>>, now' \in Int, back' \in Nat,
         \A state \in States : Within(state, now, back) => Within(state, now', back')
  PROVE  AffInv'
<1>1. TypeOK'
  BY DEF AffInv, TypeOK
<1>2. \A u \in Users : Bounded(memory[u])' /\ Bounded(snapshots[u])'
  BY KeptStates DEF Bounded
<1>3. delta' # None => Within(delta.state, now, back)'
  BY DEF AffInv, TypeOK, AheadBounded
<1> QED
  BY <1>1, <1>2, <1>3 DEF AffInv, AheadBounded

-----------------------------------------------------------------------------
LEMMA InitHolds == AffInit => AffInv
<1> SUFFICES ASSUME AffInit PROVE AffInv
  OBVIOUS
<1> QED
  BY DEF AffInit, AffInv, TypeOK, AheadBounded, Bounded

LEMMA StepKeeps == AffInv /\ [AffNext]_affVars => AffInv'
<1> SUFFICES ASSUME AffInv, [AffNext]_affVars PROVE AffInv'
  OBVIOUS
<1>1. ASSUME NEW u \in Users, Message(u) PROVE AffInv'
  <2> DEFINE state == OrFresh(memory[u])
  <2>1. state \in States /\ Within(state, now, back) /\ now \in Int /\ back \in Nat
    BY KeptStates
  <2>2. PICK sign \in Signs(state.favor) :
          memory' = [memory EXCEPT ![u] =
                       Boosted(Decayed(state, Seconds(now - state.last), sign))]
    BY <1>1 DEF Message
  <2>3. sign \in {-1, 1}
    BY DEF Signs
  <2> HIDE DEF state
  <2>4. LET touched == Boosted(Decayed(state, Seconds(now - state.last), sign))
        IN  touched \in States /\ Within(touched, now, back)
    BY <2>1, <2>3, TouchedIsWithin
  <2> QED
    BY <1>1, <2>2, <2>4, MemoryStep DEF Message
<1>2. ASSUME NEW u \in Users, Reply(u) PROVE AffInv'
  <2>1. OnReply(OrFresh(memory[u])) \in States /\ Within(OnReply(OrFresh(memory[u])), now, back)
    BY KeptStates, ReplyIsWithin
  <2> QED
    BY <1>2, <2>1, MemoryStep DEF Reply
<1>3. ASSUME NEW u \in Users, DeltaReads(u) PROVE AffInv'
  <2>1. OrFresh(snapshots[u]) \in States /\ Within(OrFresh(snapshots[u]), now, back)
    BY KeptStates
  <2>2. delta' = [user |-> u, state |-> OrFresh(snapshots[u])]
        /\ UNCHANGED <<now, back, memory, snapshots>>
    BY <1>3 DEF DeltaReads
  <2>3. delta' \in [user : Users, state : States] /\ delta'.state = OrFresh(snapshots[u])
    BY <2>1, <2>2
  <2>4. TypeOK'
    BY <2>2, <2>3 DEF AffInv, TypeOK
  <2>5. AheadBounded'
    BY <2>1, <2>2, <2>3 DEF AffInv, AheadBounded, Bounded, Within
  <2> QED
    BY <2>4, <2>5 DEF AffInv
<1>4. CASE Flush
  <2>1. \A u \in Users : memory[u] # None =>
          Saved(memory[u]) \in States /\ Within(Saved(memory[u]), now, back)
    BY KeptStates, SavedIsWithin
  <2>2. /\ snapshots' \in [Users -> States \cup {None}]
        /\ \A u \in Users : snapshots'[u] # None => Within(snapshots'[u], now, back)
    BY <1>4, <2>1, KeptStates DEF Flush
  <2> QED
    BY <1>4, <2>2, TableStep DEF Flush
<1>5. CASE DeltaWrites
  <2>1. delta \in [user : Users, state : States] /\ now \in Int /\ back \in Nat
        /\ snapshots \in [Users -> States \cup {None}]
    BY <1>5 DEF DeltaWrites, AffInv, TypeOK
  <2>2. PICK e, f \in Deltas :
          snapshots' = [snapshots EXCEPT ![delta.user] = Saved(Changed(delta.state, e, f))]
    BY <1>5 DEF DeltaWrites
  <2> DEFINE state == Saved(Changed(delta.state, e, f))
  <2>3. state \in States /\ Within(state, now, back)
    <3>1. e \in Int /\ f \in Int /\ delta.state \in States
      BY <2>1, <2>2, ScaleAssumption
    <3> QED
      BY <2>1, <3>1, ChangedIsWithin, SavedIsWithin
  <2> HIDE DEF state
  <2>4. snapshots' = [snapshots EXCEPT ![delta.user] = state]
    BY <2>2 DEF state
  <2>5. /\ snapshots' \in [Users -> States \cup {None}]
        /\ \A u \in Users : snapshots'[u] # None => Within(snapshots'[u], now, back)
    BY <2>1, <2>3, <2>4, KeptStates
  <2> QED
    BY <1>5, <2>5, TableStep DEF DeltaWrites
<1>6. CASE Restart
  <2>1. TypeOK'
    BY <1>6 DEF Restart, AffInv, TypeOK
  <2>2. AheadBounded'
    BY <1>6 DEF Restart, AffInv, AheadBounded, Bounded, Within
  <2> QED
    BY <2>1, <2>2 DEF AffInv
<1>7. CASE Tick
  <2>1. now \in Int /\ back \in Nat
    BY DEF AffInv, TypeOK
  <2>2. now' = now + 1 /\ back' = back
    BY <1>7 DEF Tick
  <2>3. \A state \in States : Within(state, now, back) => Within(state, now', back')
    BY <2>1, <2>2, ClockKeepsWithin
  <2> QED
    BY <1>7, <2>1, <2>2, <2>3, ClockStep DEF Tick
<1>8. CASE SetClockBack
  <2>1. now \in Int /\ back \in Nat
    BY DEF AffInv, TypeOK
  <2>2. PICK d \in 1 .. MaxBack - back : now' = now - d /\ back' = back + d
    BY <1>8 DEF SetClockBack
  <2>3. d \in Nat
    BY <2>1, ClockAssumption
  <2>4. \A state \in States : Within(state, now, back) => Within(state, now', back')
    BY <2>1, <2>2, <2>3, ClockKeepsWithin
  <2> QED
    BY <1>8, <2>1, <2>2, <2>3, <2>4, ClockStep DEF SetClockBack
<1>9. CASE UNCHANGED affVars
  BY <1>9 DEF affVars, AffInv, TypeOK, AheadBounded, Bounded, Within
<1> QED
  BY <1>1, <1>2, <1>3, <1>4, <1>5, <1>6, <1>7, <1>8, <1>9 DEF AffNext

THEOREM AffInvariant == AffSpec => []AffInv
<1> QED
  BY InitHolds, StepKeeps, PTL DEF AffSpec

-----------------------------------------------------------------------------
(* The states keep their types, and every energy is between 0 and 1,       *)
(* whatever the clock does.                                                *)
THEOREM EnergyInRange == AffSpec => []TypeOK
<1>1. AffInv => TypeOK
  BY DEF AffInv
<1> QED
  BY <1>1, AffInvariant, PTL

(* A favorability leaves its range by no more than what decays in the time *)
(* the clock was set back, for any scale, delta and number of corrections. *)
THEOREM FavorabilityStays == AffSpec => []FavorabilityBounded
<1>1. AffInv => FavorabilityBounded
  <2> SUFFICES ASSUME AffInv, NEW state \in Kept \ {None}
               PROVE  PerSecond * Abs(state.favor) <= PerSecond * FavorFull + back
    BY DEF FavorabilityBounded
  <2>1. state \in States /\ Within(state, now, back)
    <3>1. CASE \E u \in Users : state = memory[u] \/ state = snapshots[u]
      BY <3>1, KeptStates
    <3>2. CASE delta # None /\ state = delta.state
      BY <3>2 DEF AffInv, TypeOK, AheadBounded
    <3> QED
      BY <3>1, <3>2 DEF Kept
  <2>2. now \in Int /\ back \in Nat /\ state.favor \in Int /\ state.last \in Int
    BY <2>1 DEF AffInv, TypeOK, States
  <2>3. PerSecond * Abs(state.favor) \in Int /\ PerSecond * FavorFull \in Int
    BY <2>2, ClockAssumption, ScaleAssumption DEF Abs
  <2>4. Greater(state.last - now, 0) \in Nat
    BY <2>2 DEF Greater
  <2> QED
    BY <2>1, <2>2, <2>3, <2>4 DEF Within
<1> QED
  BY <1>1, AffInvariant, PTL
=============================================================================
