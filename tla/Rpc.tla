--------------------------------- MODULE Rpc ---------------------------------
(***************************************************************************)
(* Calls from application threads, and ARP broadcasts from other stack     *)
(* threads, into one protocol stack thread                                 *)
(* (src/lstack/core/lstack_thread_rpc.c).                                  *)
(*                                                                         *)
(* A caller takes a message from its own pool, fills it in and pushes it.  *)
(* There are three protocols for giving the message back:                  *)
(*   "sync"  the caller spins on msg->lock and frees the message itself;   *)
(*   "arp"   the handler loop frees it (self_release = 0);                 *)
(*   "send"  the handler stack_send frees or reposts it, and the loop then *)
(*           looks at msg->func to find out that it must keep off.         *)
(* The queue is the FIFO that LocklessQueue implements.                    *)
(***************************************************************************)
EXTENDS Naturals, Sequences, FiniteSets, SequencesExt

CONSTANTS
  App,        \* application threads: synchronous calls and sends
  Peer,       \* stack threads that broadcast ARP to this one
  AppPool,    \* RPC_MSG_MAX, the size of an application thread's pool ...
  PeerPool,   \* ... and of a stack thread's
  SendLimit   \* stack_send messages a thread can have under way: call_num
              \* allows about two for each socket it sends on

ASSUME RpcAssumption ==
  /\ App \cap Peer = {}
  /\ AppPool \in Nat \ {0}
  /\ PeerPool \in Nat \ {0}
  /\ SendLimit \in Nat

Thread == App \cup Peer
Msg    == (App \X (1..AppPool)) \cup (Peer \X (1..PeerPool))
NoMsg  == <<"none", 0>>
Func   == {"sync", "arp", "send"}

VARIABLES
  pool,          \* free messages of each thread's rpc_pool, oldest first
  func, self_release, lock,  \* fields of every message
  handled,       \* history: func has run since the message was last pushed
  rpc_queue,     \* messages pushed and not yet popped
  pc, msg, call, \* each caller: where it stands, its message, its protocol
  stack_pc, cur  \* poll_rpc_msg: where it stands, the message it popped

fields    == <<func, self_release, lock, handled>>
callVars  == <<pc, msg, call>>
stackVars == <<stack_pc, cur>>
vars == <<pool, func, self_release, lock, handled, rpc_queue, pc, msg, call,
          stack_pc, cur>>

Owner(m) == m[1]

Calls(t) == IF t \in App THEN {"sync", "send"} ELSE {"arp"}

(* Sends of t that stack_send has not given back yet. *)
SendsUnderWay(t) ==
  {m \in Msg : /\ Owner(m) = t
               /\ func[m] = "send"
               /\ \/ \E i \in DOMAIN rpc_queue : rpc_queue[i] = m
                  \/ stack_pc = "handle" /\ cur = m}

-----------------------------------------------------------------------------
Init ==
  /\ pool = [t \in Thread |->
              [i \in 1..(IF t \in App THEN AppPool ELSE PeerPool) |-> <<t, i>>]]
  /\ func = [m \in Msg |-> "sync"]
  /\ self_release = [m \in Msg |-> 0]
  /\ lock = [m \in Msg |-> 0]
  /\ handled = [m \in Msg |-> FALSE]
  /\ rpc_queue = << >>
  /\ pc = [t \in Thread |-> "idle"]
  /\ msg = [t \in Thread |-> NoMsg]
  /\ call = [t \in Thread |-> "sync"]
  /\ stack_pc = "pop"
  /\ cur = NoMsg

(* rpc_msg_free: self_release = 0, back to the pool of the thread it is from *)
Free(m) ==
  /\ self_release' = [self_release EXCEPT ![m] = 0]
  /\ pool' = [pool EXCEPT ![Owner(m)] = Append(@, m)]
  /\ handled' = [handled EXCEPT ![m] = FALSE]

(* The rpc_call_* function returns to its caller. *)
CallOver(t) ==
  /\ pc' = [pc EXCEPT ![t] = "idle"]
  /\ msg' = [msg EXCEPT ![t] = NoMsg]
  /\ call' = [call EXCEPT ![t] = "sync"]

-----------------------------------------------------------------------------
(* get_rpc_msg: on an empty pool the call returns -1, and the sender calls   *)
(* again after a sleep.                                                      *)
Get(t, f) ==
  /\ pc[t] = "idle"
  /\ f \in Calls(t)
  /\ f = "send" => Cardinality(SendsUnderWay(t)) < SendLimit
  /\ pool[t] # << >>
  /\ msg' = [msg EXCEPT ![t] = Head(pool[t])]
  /\ pool' = [pool EXCEPT ![t] = Tail(@)]
  /\ call' = [call EXCEPT ![t] = f]
  /\ pc' = [pc EXCEPT ![t] = "func"]
  /\ UNCHANGED <<fields, rpc_queue, stackVars>>

(* rpc_msg_alloc: pthread_spin_init, msg->func = func *)
SetFunc(t) ==
  /\ pc[t] = "func"
  /\ lock' = [lock EXCEPT ![msg[t]] = 0]
  /\ func' = [func EXCEPT ![msg[t]] = call[t]]
  /\ handled' = [handled EXCEPT ![msg[t]] = FALSE]
  /\ pc' = [pc EXCEPT ![t] = "release"]
  /\ UNCHANGED <<pool, self_release, rpc_queue, msg, call, stackVars>>

(* rpc_msg_alloc sets self_release; rpc_call_arp and rpc_call_send clear it *)
SetRelease(t) ==
  /\ pc[t] = "release"
  /\ self_release' = [self_release EXCEPT ![msg[t]] =
                        IF call[t] = "sync" THEN 1 ELSE 0]
  /\ pc' = [pc EXCEPT ![t] = IF call[t] = "sync" THEN "trylock" ELSE "push"]
  /\ UNCHANGED <<pool, func, lock, handled, rpc_queue, msg, call, stackVars>>

(* Mutant of TryLock: the sender does not take the lock before it pushes. *)
TryLock_Skipped(t) ==
  /\ pc[t] = "trylock"
  /\ pc' = [pc EXCEPT ![t] = "push"]
  /\ UNCHANGED <<pool, fields, rpc_queue, msg, call, stackVars>>

(* rpc_sync_call: pthread_spin_trylock *)
TryLock(t) ==
  /\ pc[t] = "trylock"
  /\ lock' = [lock EXCEPT ![msg[t]] = 1]
  /\ pc' = [pc EXCEPT ![t] = "push"]
  /\ UNCHANGED <<pool, func, self_release, handled, rpc_queue, msg, call,
                 stackVars>>

(* rpc_call *)
Push(t) ==
  /\ pc[t] = "push"
  /\ rpc_queue' = Append(rpc_queue, msg[t])
  /\ IF call[t] = "sync"
       THEN pc' = [pc EXCEPT ![t] = "wait"] /\ UNCHANGED <<msg, call>>
       ELSE CallOver(t)
  /\ UNCHANGED <<pool, fields, stackVars>>

(* rpc_sync_call: pthread_spin_lock, waiting for the stack to unlock *)
Wait(t) ==
  /\ pc[t] = "wait"
  /\ lock[msg[t]] = 0
  /\ lock' = [lock EXCEPT ![msg[t]] = 1]
  /\ pc' = [pc EXCEPT ![t] = "return"]
  /\ UNCHANGED <<pool, func, self_release, handled, rpc_queue, msg, call,
                 stackVars>>

(* rpc_sync_call: ret = msg->result; rpc_msg_free; return ret *)
Return(t) ==
  /\ pc[t] = "return"
  /\ Free(msg[t])
  /\ CallOver(t)
  /\ UNCHANGED <<func, lock, rpc_queue, stackVars>>

-----------------------------------------------------------------------------
(* poll_rpc_msg: lockless_queue_mpsc_pop *)
Pop ==
  /\ stack_pc = "pop"
  /\ rpc_queue # << >>
  /\ cur' = Head(rpc_queue)
  /\ rpc_queue' = Tail(rpc_queue)
  /\ stack_pc' = "handle"
  /\ UNCHANGED <<pool, fields, callVars>>

(* msg->func(msg) for every handler but stack_send *)
Handle ==
  /\ stack_pc = "handle"
  /\ func[cur] # "send"
  /\ handled' = [handled EXCEPT ![cur] = TRUE]
  /\ stack_pc' = "check"
  /\ UNCHANGED <<pool, func, self_release, lock, rpc_queue, callVars, cur>>

(* stack_send: the socket is gone, drained, or another send is on its way *)
SendFree ==
  /\ stack_pc = "handle"
  /\ func[cur] = "send"
  /\ Free(cur)
  /\ stack_pc' = "check"
  /\ UNCHANGED <<func, lock, rpc_queue, callVars, cur>>

(* stack_send: data left, the same message is posted again *)
SendRepost ==
  /\ stack_pc = "handle"
  /\ func[cur] = "send"
  /\ rpc_queue' = Append(rpc_queue, cur)
  /\ stack_pc' = "check"
  /\ UNCHANGED <<pool, fields, callVars, cur>>

(* if (msg->func != stack_send): read after the handler gave the message up *)
CheckFunc ==
  /\ stack_pc = "check"
  /\ IF func[cur] = "send"
       THEN stack_pc' = "pop" /\ cur' = NoMsg
       ELSE stack_pc' = "finish" /\ UNCHANGED cur
  /\ UNCHANGED <<pool, fields, rpc_queue, callVars>>

(* Mutant of Finish: the loop frees the message whoever should. *)
Finish_FreeAll ==
  /\ stack_pc = "finish"
  /\ Free(cur)
  /\ stack_pc' = "pop"
  /\ cur' = NoMsg
  /\ UNCHANGED <<func, lock, rpc_queue, callVars>>

(* Mutant of Finish: nobody unlocks a synchronous caller. *)
Finish_NoUnlock ==
  /\ stack_pc = "finish"
  /\ IF self_release[cur] = 1 THEN UNCHANGED <<pool, self_release, handled>>
                              ELSE Free(cur)
  /\ stack_pc' = "pop"
  /\ cur' = NoMsg
  /\ UNCHANGED <<func, lock, rpc_queue, callVars>>

(* if (msg->self_release) unlock, else rpc_msg_free *)
Finish ==
  /\ stack_pc = "finish"
  /\ IF self_release[cur] = 1
       THEN /\ lock' = [lock EXCEPT ![cur] = 0]
            /\ UNCHANGED <<pool, self_release, handled>>
       ELSE Free(cur) /\ UNCHANGED lock
  /\ stack_pc' = "pop"
  /\ cur' = NoMsg
  /\ UNCHANGED <<func, rpc_queue, callVars>>

-----------------------------------------------------------------------------
CallerStep(t) ==
  \/ SetFunc(t)
  \/ SetRelease(t)
  \/ TryLock(t)
  \/ Push(t)
  \/ Wait(t)
  \/ Return(t)

StackStep == Pop \/ Handle \/ SendFree \/ SendRepost \/ CheckFunc \/ Finish

Next ==
  \/ \E t \in Thread, f \in Func : Get(t, f)
  \/ \E t \in Thread : CallerStep(t)
  \/ StackStep

Spec == Init /\ [][Next]_vars

(* The stack thread polls for ever; a thread inside a call keeps running;    *)
(* what a call asks for next, and how often stack_send reposts, is free.     *)
Fairness == WF_vars(StackStep) /\ \A t \in Thread : WF_vars(CallerStep(t))

FairSpec == Spec /\ Fairness

-----------------------------------------------------------------------------
(* The types: self_release is a flag, which rpc_msg_free must not count     *)
(* below 0, and the stack thread only holds messages of the pools.          *)
TypeOK ==
  /\ pool \in [Thread -> Seq(Msg)]
  /\ func \in [Msg -> Func]
  /\ self_release \in [Msg -> {0, 1}]
  /\ lock \in [Msg -> {0, 1}]
  /\ handled \in [Msg -> BOOLEAN]
  /\ rpc_queue \in Seq(Msg)
  /\ pc \in [Thread -> {"idle", "func", "release", "trylock", "push", "wait",
                        "return"}]
  /\ msg \in [Thread -> Msg \cup {NoMsg}]
  /\ call \in [Thread -> Func]
  /\ stack_pc \in {"pop", "handle", "check", "finish"}
  /\ cur \in Msg \cup {NoMsg}

(* A synchronous caller gets past the lock only after its handler has run:   *)
(* rpc_sync_call reads msg->result of this very call.                        *)
SyncCallProcessed ==
  \A t \in Thread : pc[t] = "return" => handled[msg[t]]

(* A free message is free for good: it is in its pool once, and neither in   *)
(* the queue nor with a caller nor with a handler that will touch it again.  *)
NoUseAfterFree ==
  \A t \in Thread :
    /\ IsInjective(pool[t])
    /\ \A i \in DOMAIN pool[t] :
         LET m == pool[t][i] IN
         /\ Owner(m) = t
         /\ m \notin ToSet(rpc_queue)
         /\ pc[t] = "idle" \/ msg[t] # m
         /\ stack_pc \in {"handle", "finish"} => cur # m

(* No message is queued twice or queued while its sender still fills it in.  *)
QueuedOnce ==
  /\ IsInjective(rpc_queue)
  /\ \A t \in Thread :
       pc[t] \in {"func", "release", "trylock", "push", "return"} =>
         /\ msg[t] \notin ToSet(rpc_queue)
         /\ stack_pc = "pop" \/ cur # msg[t]

(* Every synchronous call returns: poll_rpc_msg reaches it and unlocks it;   *)
(* and an ARP message comes back to its pool, so that broadcasting goes on.  *)
EveryCallReturns ==
  /\ \A t \in App : (pc[t] = "wait") ~> (pc[t] = "idle")
  /\ \A t \in Peer, i \in 1..PeerPool :
       (<<t, i>> \in ToSet(rpc_queue)) ~> (<<t, i>> \in ToSet(pool[t]))
=============================================================================
