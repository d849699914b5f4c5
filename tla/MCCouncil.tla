----------------------------- MODULE MCCouncil -----------------------------
(* Council.tla with three escalations, two of which carry the same message *)
(* (a message that is delivered twice is escalated twice).                 *)
EXTENDS Council

CONSTANTS e1, e2, e3, m1, m2

MCEscalations == {e1, e2, e3}
MCMessages    == {m1, m2}
MCMsgOf       == [e \in MCEscalations |-> IF e = e3 THEN m2 ELSE m1]
=============================================================================
