---------------------------- MODULE MCNekoRouter ----------------------------
(* NekoRouter.tla with every channel as small as it can be.  A run starts  *)
(* from scratch with a message and a tick to come; or when another message *)
(* was escalated, with a message to come; or when two messages were        *)
(* escalated, with a tick to come.                                         *)
EXTENDS NekoRouter

CONSTANTS m1, m2

MCMessages == {m1, m2}
MCCapacity == [c \in Channels |-> 1]

Escalating(M) == {<<Event("escalation", m)>> : m \in M}

Starts ==
  {[phase |-> "building", link |-> "down", ticks |-> 0, arrived |-> {m2}, tasks |-> {}],
   [phase |-> "running", link |-> "up", ticks |-> MaxTicks, arrived |-> {m2},
    tasks |-> Escalating({m2})],
   [phase |-> "running", link |-> "up", ticks |-> 0, arrived |-> MCMessages,
    tasks |-> Escalating(MCMessages)]}

MCInit ==
  \E s \in Starts :
    /\ phase = s.phase /\ link = s.link /\ ticks = s.ticks
    /\ arrived = s.arrived /\ tasks = s.tasks
    /\ chan = [c \in Channels |-> <<>>] /\ up = [l \in Loops |-> s.phase = "running"]
    /\ sends = [h \in Handlers |-> <<>>]
    /\ shutdown = FALSE /\ cron = (s.phase = "running")
    /\ gotReport = [m \in Messages |-> {}]

MCSpec == MCInit /\ [][SysNext]_sysVars /\ SysFairness
=============================================================================
