---------------------------- MODULE MCAffective ----------------------------
(* Affective.tla with one user: users' states never meet. *)
EXTENDS Affective

CONSTANT u1

MCUsers  == {u1}
MCDeltas == {-1, 1}
=============================================================================
