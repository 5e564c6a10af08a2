----------------------------- MODULE MCSockets -----------------------------
(* a1 serves, a2 accepts and connects; two stacks that do both, or one that *)
(* receives and one that sends.                                             *)
EXTENDS Sockets

CONSTANTS a1, a2

MCCfgs ==
  {[listen_shadow |-> FALSE, tuple_filter |-> FALSE, sep |-> FALSE],
   [listen_shadow |-> TRUE, tuple_filter |-> FALSE, sep |-> FALSE],
   [listen_shadow |-> FALSE, tuple_filter |-> TRUE, sep |-> TRUE]}

MCCalls ==
  [t \in App |-> IF t = a1 THEN {"tcp", "udp", "bind", "listen", "recvfrom", "close"}
                 ELSE {"kernel", "tcp", "accept", "connect", "query", "close"}]
MCMaxCall == [t \in App |-> IF t = a1 THEN 4 ELSE 2]
=============================================================================
