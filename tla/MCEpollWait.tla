---------------------------- MODULE MCEpollWait ----------------------------
(* A thread that waits and one that only calls epoll_ctl; two stacks, of    *)
(* which the second has the kernel events (and s2, in larger instances).    *)
EXTENDS EpollWait

CONSTANTS a1, a2, k1, k2, s1, s2

MCStackOf == [s \in Sock |-> IF s = s1 THEN k1 ELSE k2]
LevelAndEdge == {{"IN"}, {"IN", "ET"}}
LevelOnly == {{"IN"}}
=============================================================================
