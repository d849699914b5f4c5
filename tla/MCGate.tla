------------------------------- MODULE MCGate -------------------------------
(* Gate.tla with two messages of one user in one group. *)
EXTENDS Gate

CONSTANTS m1, m2, u1, g1

MCCalls    == {m1, m2}
MCUsers    == {u1}
MCGroups   == {g1}
MCSenderOf == [m \in MCCalls |-> u1]
MCGroupOf  == [m \in MCCalls |-> g1]

Plain(words) == [prefix |-> "none", link |-> FALSE, chars |-> words, words |-> words,
                 replies |-> FALSE, mentions |-> FALSE, names |-> FALSE]

(* An overlong message that names the bot, and two plain ones, the second  *)
(* a word too long to join in.                                             *)
MCShapes == {[Plain(1) EXCEPT !.chars = 9, !.names = TRUE], Plain(3), Plain(4)}

PlainOnly == {Plain(3)}

MCClassifiers == {"default", "llm", "escalate_all", "unknown"}
=============================================================================
