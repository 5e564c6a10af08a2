----------------------------- MODULE GazelleRing -----------------------------
(***************************************************************************)
(* The ring of src/common/dpdk_common.h between a thread that enqueues and *)
(* dequeues and one that reads in between:                                 *)
(*                                                                         *)
(*   cons.tail    prod.tail    prod.head    cons.head                      *)
(*      | read over   |  being read |  to read   |                          *)
(*                                                                         *)
(* The owner alone stores cons.tail and cons.head, the reader alone        *)
(* prod.tail and prod.head.  Each operation looks at one cursor of the     *)
(* other side, so that all but an enqueue, whose objects are stored before *)
(* cons.head is, are one step.  Cursors are uint32_t and never reset.      *)
(***************************************************************************)
EXTENDS Integers, Sequences, SequencesExt, FiniteSetsExt

CONSTANTS
  Size,        \* slots of the ring: a power of two
  Mod          \* 2^32, the width of the cursors

ASSUME RingAssumption ==
  Size \in Nat \ {0, 1} /\ Mod \in Nat /\ Mod % Size = 0 /\ Mod >= 2 * Size

VARIABLES slot, cons_tail, prod_tail, prod_head, cons_head

ringVars == <<slot, cons_tail, prod_tail, prod_head, cons_head>>

Capacity == Size - 1

(* b - a in uint32_t *)
Dist(a, b) == (b - a) % Mod

(* The n objects from cursor a on *)
Window(a, n) == [j \in 1..n |-> slot[(a + j - 1) % Size]]
Between(a, b) == Window(a, Dist(a, b))

(* gazelle_ring_free_count, and the test of gazelle_ring_sp_enqueue *)
FreeEntries(tail) == (Capacity + tail - cons_head) % Mod

RingInit(objs) ==
  /\ slot = [i \in 0..(Size - 1) |-> IF i < Len(objs) THEN objs[i + 1] ELSE 0]
  /\ cons_tail = 0
  /\ prod_tail = 0
  /\ prod_head = 0
  /\ cons_head = Len(objs)

-----------------------------------------------------------------------------
(* gazelle_ring_sp_enqueue up to its store of cons.head *)
EnqueueElems(objs) ==
  slot' = [i \in 0..(Size - 1) |->
             LET j == ((i - cons_head) % Size) + 1 IN
             IF j <= Len(objs) THEN objs[j] ELSE slot[i]]

EnqueuePublish(n) == cons_head' = (cons_head + n) % Mod

(* All of objs or, when they do not fit, none *)
Accepted(objs, tail) == IF Len(objs) <= FreeEntries(tail) THEN objs ELSE <<>>

(* gazelle_ring_sc_dequeue: how many of n there are, and their removal *)
Dequeueable_Read(n) ==       \* variant: what was read, not read over
  Min({n, Dist(cons_tail, prod_head)})

Dequeueable(n) == Min({n, Dist(cons_tail, prod_tail)})
Dequeue(n) == cons_tail' = (cons_tail + n) % Mod

(* gazelle_ring_read, gazelle_ring_read_over *)
Readable(n) == Min({n, Dist(prod_head, cons_head)})
ReadAhead(n) == prod_head' = (prod_head + n) % Mod
ReadOver == prod_tail' = prod_head
=============================================================================
