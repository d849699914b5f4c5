----------------------------- MODULE MCSensory -----------------------------
(* Sensory.tla with two messages of one user. *)
EXTENDS Sensory

CONSTANTS a, b, u1

MCMessages == {a, b}
MCUsers    == {u1}
MCSenderOf == [m \in MCMessages |-> u1]
=============================================================================
