-------------------------- MODULE MCReplyDispatch --------------------------
(* ReplyDispatch.tla with three replies to one group: the limiter keeps    *)
(* groups apart, and everything else is one queue.                         *)
EXTENDS ReplyDispatch

CONSTANTS g1, r1, r2, r3

MCGroups  == {g1}
MCReplies == {r1, r2, r3}
MCGroupOf == [r \in MCReplies |-> g1]
=============================================================================
