---------------------------- MODULE LocklessQueue ----------------------------
(***************************************************************************)
(* The intrusive multi-producer single-consumer queue that carries RPC     *)
(* messages from application threads to a protocol stack thread            *)
(* (src/lstack/include/lstack_lockless_queue.h).                           *)
(*                                                                         *)
(* Every access to memory that two threads share is a step of its own.     *)
(* The stack thread pops, handles the message it got and may push it again *)
(* (stack_send does); the pop itself pushes the stub node.                 *)
(***************************************************************************)
EXTENDS Naturals, Sequences

CONSTANTS
  Producer,     \* application threads that call into this stack
  StackThread,  \* the one thread that pops
  Node,         \* the queue_node fields of the rpc messages
  Stub,         \* queue->stub
  NULL

ASSUME QueueAssumption ==
  /\ StackThread \notin Producer
  /\ Stub \notin Node
  /\ NULL \notin Node \cup {Stub}

VARIABLES
  head, tail,   \* queue->head (swapped by every push), queue->tail (popper's)
  next,         \* the next field of every node
  push_pc,      \* where each thread stands in lockless_queue_mpsc_push
  push_node,    \* its argument "node"
  old_head,     \* its local "old_head"
  pop_pc,       \* where the stack thread stands in pop / handler / count
  popped,       \* node the last pop returned; the stack thread owns it
  cursor, count,\* locals of lockless_queue_count
  q, chain,     \* history: nodes in the FIFO; list from tail to head with stub
  excuse        \* history: a moment that justifies a miss was seen in this pop

pushVars  == <<push_pc, push_node, old_head>>
countVars == <<cursor, count>>
vars == <<head, tail, next, push_pc, push_node, old_head, pop_pc, popped,
          cursor, count, q, chain, excuse>>

Thread == Producer \cup {StackThread}
Slot   == Node \cup {Stub}

Queued == {chain[i] : i \in DOMAIN chain}
Unpublished == {t \in Thread : push_pc[t] = "link" /\ push_node[t] # Stub}

Handling == pop_pc \in {"handle", "count", "counted"}

(* Nodes of messages sitting in their sender's hands or in its pool. *)
Idle(n) ==
  /\ n \notin Queued
  /\ ~(Handling /\ popped = n)
  /\ \A t \in Thread : push_pc[t] # "idle" => push_node[t] # n

-----------------------------------------------------------------------------
(* lockless_queue_init *)
Init ==
  /\ head = Stub
  /\ tail = Stub
  /\ next = [n \in Slot |-> NULL]
  /\ push_pc = [t \in Thread |-> "idle"]
  /\ push_node = [t \in Thread |-> Stub]
  /\ old_head = [t \in Thread |-> Stub]
  /\ pop_pc = "idle"
  /\ popped = NULL
  /\ cursor = NULL
  /\ count = 0
  /\ q = << >>
  /\ chain = <<Stub>>
  /\ excuse = FALSE

-----------------------------------------------------------------------------
(* Mutant of EnterPush: node->next keeps what it pointed to last time. *)
EnterPush_NoReset(t, n) ==
  /\ push_pc[t] = "idle"
  /\ push_pc' = [push_pc EXCEPT ![t] = "swap"]
  /\ push_node' = [push_node EXCEPT ![t] = n]
  /\ UNCHANGED <<next, old_head>>

(* lockless_queue_mpsc_push: node->next = NULL, done while node is private *)
EnterPush(t, n) ==
  /\ push_pc[t] = "idle"
  /\ push_pc' = [push_pc EXCEPT ![t] = "swap"]
  /\ push_node' = [push_node EXCEPT ![t] = n]
  /\ next' = [next EXCEPT ![n] = NULL]
  /\ UNCHANGED old_head

(* An application thread pushes a message it has just filled in. *)
PushCall(p, n) ==
  /\ Idle(n)
  /\ EnterPush(p, n)
  /\ UNCHANGED <<head, tail, pop_pc, popped, countVars, q, chain, excuse>>

(* old_head = atomic_exchange(&queue->head, node) *)
PushSwap(t) ==
  /\ push_pc[t] = "swap"
  /\ push_pc' = [push_pc EXCEPT ![t] = "link"]
  /\ old_head' = [old_head EXCEPT ![t] = head]
  /\ head' = push_node[t]
  /\ chain' = Append(chain, push_node[t])
  /\ IF push_node[t] = Stub
       THEN UNCHANGED <<q, excuse>>
       ELSE q' = Append(q, push_node[t]) /\ excuse' = TRUE
  /\ UNCHANGED <<tail, next, push_node, pop_pc, popped, countVars>>

(* atomic_store(&old_head->next, node) *)
PushLink(t) ==
  /\ push_pc[t] = "link"
  /\ push_pc' = [push_pc EXCEPT ![t] = "idle"]
  /\ next' = [next EXCEPT ![old_head[t]] = push_node[t]]
  /\ UNCHANGED <<head, tail, push_node, old_head, pop_pc, popped, countVars,
                 q, chain, excuse>>

-----------------------------------------------------------------------------
(* lockless_queue_mpsc_pop *)
PopCall ==
  /\ pop_pc = "idle"
  /\ pop_pc' = "pop"
  /\ popped' = NULL
  /\ excuse' = (q = << >> \/ Unpublished # {})
  /\ UNCHANGED <<head, tail, next, pushVars, countVars, q, chain>>

(* queue->tail = next; return tail *)
ReturnTail ==
  /\ tail' = next[tail]
  /\ popped' = tail
  /\ pop_pc' = "handle"
  /\ chain' = Tail(chain)
  /\ q' = Tail(q)

(* return NULL *)
ReturnNull ==
  /\ pop_pc' = "idle"
  /\ UNCHANGED <<tail, popped, q, chain>>

(* next = tail->next, the stub skipped when it is the oldest node *)
PopSkipStub ==
  /\ pop_pc = "pop"
  /\ tail = Stub
  /\ IF next[Stub] = NULL
       THEN ReturnNull
       ELSE /\ tail' = next[Stub]
            /\ chain' = Tail(chain)
            /\ pop_pc' = "next"
            /\ UNCHANGED <<popped, q>>
  /\ UNCHANGED <<head, next, pushVars, countVars, excuse>>

(* if (next) { queue->tail = next; return tail; } *)
PopNext ==
  /\ pop_pc = "next" \/ (pop_pc = "pop" /\ tail # Stub)
  /\ IF next[tail] # NULL
       THEN ReturnTail
       ELSE pop_pc' = "head" /\ UNCHANGED <<tail, popped, q, chain>>
  /\ UNCHANGED <<head, next, pushVars, countVars, excuse>>

(* Mutant of PopReadHead: the last node is handed out with the stub put     *)
(* under tail only, while queue->head still names the node.                 *)
PopReadHead_NoStub ==
  /\ pop_pc = "head"
  /\ IF tail # head
       THEN ReturnNull
       ELSE /\ tail' = Stub
            /\ popped' = tail
            /\ pop_pc' = "handle"
            /\ chain' = <<Stub>>
            /\ q' = Tail(q)
  /\ UNCHANGED <<head, next, pushVars, countVars, excuse>>

(* Mutant of PopReadHead: a lone node is left for a later pop. *)
PopReadHead_GiveUp ==
  /\ pop_pc = "head"
  /\ ReturnNull
  /\ UNCHANGED <<next, pushVars, head, countVars, excuse>>

(* head = queue->head; if (tail != head) return NULL; push(&queue->stub) *)
PopReadHead ==
  /\ pop_pc = "head"
  /\ IF tail # head
       THEN ReturnNull /\ UNCHANGED <<next, pushVars>>
       ELSE /\ EnterPush(StackThread, Stub)
            /\ pop_pc' = "stub"
            /\ UNCHANGED <<tail, popped, q, chain>>
  /\ UNCHANGED <<head, countVars, excuse>>

(* next = tail->next after the stub has been pushed behind the last node *)
PopAgain ==
  /\ pop_pc = "stub"
  /\ push_pc[StackThread] = "idle"
  /\ IF next[tail] # NULL THEN ReturnTail ELSE ReturnNull
  /\ UNCHANGED <<head, next, pushVars, countVars, excuse>>

-----------------------------------------------------------------------------
(* The handler is over: the message goes back to its sender or its pool. *)
HandleDone ==
  /\ pop_pc = "handle"
  /\ pop_pc' = "idle"
  /\ UNCHANGED <<head, tail, next, pushVars, popped, countVars, q, chain,
                 excuse>>

(* Mutant of Repost: the handler posts the message and still goes on using *)
(* it.                                                                     *)
Repost_KeepUsing ==
  /\ pop_pc = "handle"
  /\ EnterPush(StackThread, popped)
  /\ UNCHANGED <<pop_pc, head, tail, popped, countVars, q, chain, excuse>>

(* The handler posts its own message again (stack_send with data left). *)
Repost ==
  /\ pop_pc = "handle"
  /\ EnterPush(StackThread, popped)
  /\ pop_pc' = "repost"
  /\ UNCHANGED <<head, tail, popped, countVars, q, chain, excuse>>

RepostDone ==
  /\ pop_pc = "repost"
  /\ push_pc[StackThread] = "idle"
  /\ pop_pc' = "idle"
  /\ UNCHANGED <<head, tail, next, pushVars, popped, countVars, q, chain,
                 excuse>>

-----------------------------------------------------------------------------
(* Mutant of CountCall: the walk starts at the stub. *)
CountCall_NoSkip ==
  /\ pop_pc = "handle"
  /\ cursor' = tail
  /\ count' = 0
  /\ pop_pc' = IF head = tail /\ tail = Stub THEN "counted" ELSE "count"
  /\ UNCHANGED <<head, tail, next, pushVars, popped, q, chain, excuse>>

(* lockless_queue_empty and lockless_queue_count, run by the rpc_msgcnt     *)
(* handler: walk from tail (the stub skipped) while producers append.       *)
CountCall ==
  /\ pop_pc = "handle"
  /\ cursor' = IF tail = Stub THEN next[Stub] ELSE tail
  /\ count' = 0
  /\ pop_pc' = IF head = tail /\ tail = Stub THEN "counted" ELSE "count"
  /\ UNCHANGED <<head, tail, next, pushVars, popped, q, chain, excuse>>

CountStep ==
  /\ pop_pc = "count"
  /\ IF cursor = NULL
       THEN pop_pc' = "counted" /\ UNCHANGED countVars
       ELSE /\ cursor' = next[cursor]
            /\ count' = count + 1
            /\ UNCHANGED pop_pc
  /\ UNCHANGED <<head, tail, next, pushVars, popped, q, chain, excuse>>

CountDone ==
  /\ pop_pc = "counted"
  /\ pop_pc' = "idle"
  /\ UNCHANGED <<head, tail, next, pushVars, popped, countVars, q, chain,
                 excuse>>

-----------------------------------------------------------------------------
PopStep == PopCall \/ PopSkipStub \/ PopNext \/ PopReadHead \/ PopAgain
HandlerStep ==
  HandleDone \/ Repost \/ RepostDone \/ CountCall \/ CountStep \/ CountDone

Next ==
  \/ \E p \in Producer, n \in Node : PushCall(p, n)
  \/ \E t \in Thread : PushSwap(t) \/ PushLink(t)
  \/ PopStep
  \/ HandlerStep

Spec == Init /\ [][Next]_vars

(* The stack thread polls for ever and no thread is suspended inside a push *)
(* for ever; whether an application pushes at all is up to it, and a        *)
(* handler that keeps reposting does not starve the rest: posts are FIFO.   *)
Fairness ==
  /\ WF_vars(PopStep \/ HandlerStep)
  /\ \A t \in Thread : WF_vars(PushSwap(t)) /\ WF_vars(PushLink(t))

FairSpec == Spec /\ Fairness

-----------------------------------------------------------------------------
(* The types: queue->head and queue->tail are never NULL, and pop returns a *)
(* message of a caller, never the stub of the queue.                        *)
TypeOK ==
  /\ head \in Slot
  /\ tail \in Slot
  /\ next \in [Slot -> Slot \cup {NULL}]
  /\ push_pc \in [Thread -> {"idle", "swap", "link"}]
  /\ push_node \in [Thread -> Slot]
  /\ old_head \in [Thread -> Slot]
  /\ pop_pc \in {"idle", "pop", "next", "head", "stub", "handle", "repost",
                 "count", "counted"}
  /\ popped \in Node \cup {NULL}
  /\ cursor \in Slot \cup {NULL}
  /\ count \in Nat
  /\ q \in Seq(Node)
  /\ chain \in Seq(Slot)
  /\ excuse \in BOOLEAN

(* The store thread t is about to do links list position i to the next.     *)
Fills(t, i) ==
  /\ push_pc[t] = "link"
  /\ old_head[t] = chain[i]
  /\ push_node[t] = chain[i + 1]

(* The list in memory is the pushes in the order of their exchanges: it     *)
(* runs from queue->tail to queue->head, and where a next pointer is still  *)
(* NULL before the end a pusher is on its way to store exactly that link.   *)
ListIntact ==
  /\ Len(chain) > 0
  /\ tail = chain[1]
  /\ head = chain[Len(chain)]
  /\ next[head] = NULL
  /\ \A i, j \in 1..Len(chain) : chain[i] = chain[j] => i = j
  /\ \A i \in 1..(Len(chain) - 1) :
       \/ next[chain[i]] = chain[i + 1]
       \/ next[chain[i]] = NULL /\ \E t \in Thread : Fills(t, i)

(* lockless_queue_mpsc_push stores through old_head after other threads may *)
(* have run: the node it writes to must still be in the list, so that pop   *)
(* never hands out a message a late pusher will scribble on.                *)
NoStoreIntoPopped ==
  \A t \in Thread : push_pc[t] = "link" => old_head[t] \in Queued

(* A message is in one place at a time: in the queue, in the hands of the   *)
(* handler, or being pushed by one thread.                                  *)
OnePlace ==
  /\ Handling => popped \notin Queued
  /\ \A t \in Thread : push_pc[t] = "swap" =>
       /\ push_node[t] \notin Queued
       /\ Handling => push_node[t] # popped
       /\ \A s \in Thread \ {t} :
            push_pc[s] # "idle" => push_node[s] # push_node[t]

(* rpc_msgcnt never reports more than the messages in the queue, plus the   *)
(* stub when a failed pop has left it behind the oldest message.            *)
CountSound ==
  pop_pc = "counted" =>
    count <= Len(q) + (IF \E i \in 2..Len(chain) : chain[i] = Stub
                         THEN 1 ELSE 0)

(* The pointer structure implements the FIFO of MpscFifo: messages come out *)
(* in the order of the exchanges, none lost or doubled, and a pop that      *)
(* returns NULL overlapped an empty queue or an unfinished push.            *)
Fifo == INSTANCE MpscFifo
          WITH unpublished <- Unpublished,
               popping <- pop_pc \in {"pop", "next", "head", "stub"}
ImplementsFifo == Fifo!Spec

-----------------------------------------------------------------------------
(* The parts of the inductive invariant behind these properties.            *)

(* A push between its exchange and its store has a gap in the list to fill. *)
LinkPending ==
  \A t \in Thread : push_pc[t] = "link" =>
    \E i \in 1..(Len(chain) - 1) : Fills(t, i) /\ next[chain[i]] = NULL

(* A node before its exchange is in no other hands and ends its own list.   *)
PushPrivate ==
  /\ \A t \in Thread : push_pc[t] = "swap" =>
       /\ push_node[t] \notin Queued
       /\ next[push_node[t]] = NULL
       /\ Handling => push_node[t] # popped
  /\ \A s, t \in Thread :
       push_pc[s] # "idle" /\ push_pc[t] # "idle" /\ s # t
         => push_node[s] # push_node[t]
  /\ Handling => popped \in Node /\ popped \notin Queued

(* Where the stub is while the stack thread is inside pop or a repost.      *)
PopStage ==
  /\ pop_pc \in {"next", "head", "stub"} => tail # Stub
  /\ push_pc[StackThread] # "idle" => pop_pc \in {"stub", "repost"}
  /\ \A t \in Thread : push_pc[t] # "idle" =>
       (push_node[t] = Stub <=> t = StackThread /\ pop_pc = "stub")
  /\ pop_pc = "stub" /\ push_pc[StackThread] # "swap" => Stub \in Queued

(* The FIFO is the list without the stub.                                   *)
Mirrors ==
  \/ /\ Stub \notin Queued
     /\ Len(q) = Len(chain)
     /\ \A i \in 1..Len(q) : q[i] = chain[i]
  \/ \E k \in 1..Len(chain) :
       /\ chain[k] = Stub
       /\ Len(q) = Len(chain) - 1
       /\ \A i \in 1..Len(q) : q[i] = chain[IF i < k THEN i ELSE i + 1]

(* Without an excuse, the call under way will find a published message.     *)
Excused ==
  pop_pc \in {"pop", "next", "head", "stub"} /\ ~excuse =>
    /\ q # << >>
    /\ Unpublished = {}
    /\ pop_pc = "head" => next[tail] = NULL

(* The walk of lockless_queue_count has passed count nodes of the list.     *)
CountStage ==
  LET skip == IF tail = Stub THEN 1 ELSE 0
  IN /\ pop_pc = "count" /\ cursor # NULL =>
          count + skip + 1 <= Len(chain) /\ cursor = chain[count + skip + 1]
     /\ pop_pc = "counted" \/ (pop_pc = "count" /\ cursor = NULL) =>
          count + skip <= Len(chain)

(* Inductive, and enough for every safety property above: what each thread  *)
(* inside push, pop and count may rely on.                                  *)
IndInv ==
  /\ TypeOK
  /\ ListIntact
  /\ LinkPending
  /\ PushPrivate
  /\ PopStage
  /\ Mirrors
  /\ Excused
  /\ CountStage

-----------------------------------------------------------------------------
(* poll_rpc_msg gives up on the first NULL, yet every message pushed is     *)
(* popped in the end.                                                       *)
EveryMessagePopped ==
  \A n \in Node : (n \in Queued) ~> (n \notin Queued)
=============================================================================
