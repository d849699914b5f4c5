--------------------------- MODULE ReplyAuthority ---------------------------
(***************************************************************************)
(* What the council promises about one escalation, whatever the language   *)
(* model, the detective, the timers and the scheduler do: an escalation    *)
(* that entered the council stays open until it is settled, it is settled  *)
(* for good, and settling it answers it at most once.  Council.tla         *)
(* implements this specification.                                          *)
(***************************************************************************)
CONSTANT Escalations    \* the escalations the router may hand over

VARIABLE stage          \* what has become of each escalation

Stages == {"absent", "open", "answered", "dropped"}

TypeOK == stage \in [Escalations -> Stages]

Init == stage = [e \in Escalations |-> "absent"]

Open == {e \in Escalations : stage[e] = "open"}

(* The router hands escalation e to the council. *)
Escalate(e) ==
  /\ stage[e] = "absent"
  /\ stage' = [stage EXCEPT ![e] = "open"]

(* The council sends the one reply that escalation e is entitled to. *)
Answer(e) ==
  /\ stage[e] = "open"
  /\ stage' = [stage EXCEPT ![e] = "answered"]

(* The council gives up on some escalations: it decided to ignore them, a  *)
(* call failed, a report came back empty, or they waited too long.         *)
Drop ==
  \E E \in SUBSET Open :
    /\ E # {}
    /\ stage' = [e \in Escalations |-> IF e \in E THEN "dropped" ELSE stage[e]]

Next == Drop \/ \E e \in Escalations : Escalate(e) \/ Answer(e)

Spec == Init /\ [][Next]_stage

(* Whatever the council has accepted is settled, all of it, in the end:    *)
(* escalations are finitely many.                                          *)
EventuallySettled == Open # {} ~> Open = {}

=============================================================================
