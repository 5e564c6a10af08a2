------------------------------ MODULE MpscFifo ------------------------------
(***************************************************************************)
(* What the stack thread's RPC queue promises its users: a FIFO of message *)
(* nodes with any number of pushers and one popper.  A pop may come back   *)
(* empty-handed while the queue holds nodes, but only when the call        *)
(* overlapped a push that had not finished publishing its node.  The       *)
(* pointer structure of lstack_lockless_queue.h is shown to implement this *)
(* in LocklessQueue.                                                       *)
(***************************************************************************)
EXTENDS Sequences, FiniteSets

CONSTANTS Thread, Node, NULL

VARIABLES
  q,            \* nodes pushed and not yet popped, oldest first
  unpublished,  \* threads whose push has taken its place but is not finished
  popping,      \* a pop call is in progress
  excuse,       \* this pop call has seen a moment that justifies a miss
  popped        \* the node returned by the last pop call, or NULL

vars == <<q, unpublished, popping, excuse, popped>>

Init ==
  /\ q = << >>
  /\ unpublished = {}
  /\ popping = FALSE
  /\ excuse = FALSE
  /\ popped = NULL

Push(t, n) ==
  /\ n \notin {q[i] : i \in DOMAIN q}
  /\ q' = Append(q, n)
  /\ unpublished' = unpublished \cup {t}
  /\ excuse' = TRUE
  /\ UNCHANGED <<popping, popped>>

Publish(t) ==
  /\ unpublished' = unpublished \ {t}
  /\ UNCHANGED <<q, popping, excuse, popped>>

PopCall ==
  /\ ~popping
  /\ popping' = TRUE
  /\ excuse' = (q = << >> \/ unpublished # {})
  /\ popped' = NULL
  /\ UNCHANGED <<q, unpublished>>

PopHit ==
  /\ popping
  /\ q # << >>
  /\ popped' = Head(q)
  /\ q' = Tail(q)
  /\ popping' = FALSE
  /\ UNCHANGED <<unpublished, excuse>>

PopMiss ==
  /\ popping
  /\ excuse
  /\ popping' = FALSE
  /\ UNCHANGED <<q, unpublished, excuse, popped>>

Next ==
  \/ \E t \in Thread, n \in Node : Push(t, n)
  \/ \E t \in Thread : Publish(t)
  \/ PopCall
  \/ PopHit
  \/ PopMiss

Spec == Init /\ [][Next]_vars

=============================================================================
