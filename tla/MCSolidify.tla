----------------------------- MODULE MCSolidify -----------------------------
(* Solidify.tla with a buffer of two reports and two jobs. *)
EXTENDS Solidify

CONSTANTS j1, j2

MCJobs == {j1, j2}
=============================================================================
