---------------------------- MODULE MCDetective ----------------------------
(* Detective.tla with two requests of a group and a burst of another. *)
EXTENDS Detective

CONSTANTS r1, r2, b1, g1, g2, f1, f2

MCRequests  == {r1, r2}
MCBursts    == {b1}
MCGroups    == {g1, g2}
MCGroupOf   == [t \in {r1, r2, b1} |-> IF t = b1 THEN g2 ELSE g1]
MCFacts     == {f1, f2}
MCReports   == [r \in {r1, r2} |-> IF r = r1 THEN {<<f2, f1>>} ELSE {<<f1>>}]
MCDecisions == {<<>>, <<[kind |-> "graph"], [kind |-> "vector", fact |-> f1]>>}
=============================================================================
