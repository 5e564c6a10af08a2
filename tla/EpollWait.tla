------------------------------ MODULE EpollWait ------------------------------
(***************************************************************************)
(* One epoll instance (struct wakeup_poll) shared by application threads,  *)
(* the protocol stack threads that feed it and the kernel event thread     *)
(* (src/lstack/api/lstack_epoll.c, and the receive path of                 *)
(* src/lstack/core/lstack_lwip.c).                                         *)
(*                                                                         *)
(* The default mutex "wait" is never used as a lock: it is created locked, *)
(* a waiter blocks on it and a stack thread unlocks it, so it is a binary  *)
(* token here.  A section under event_list_lock is one step; everything    *)
(* read or written outside of it is a step of its own.                     *)
(***************************************************************************)
EXTENDS Integers, FiniteSets

CONSTANTS
  App,         \* application threads using this epoll fd
  Waiter,      \* those of them that call epoll_wait
  Stack,       \* protocol stack threads
  Sock,        \* sockets
  StackOf,     \* sock->stack
  KernelStack, \* wakeup->bind_stack, whose kernelevent thread watches epollfd
  Modes,       \* the values of event->events an application registers
  Registered,  \* sockets that are in the epoll set from the start
  Timed,       \* may epoll_wait be called with a finite timeout?
  MaxEvents,   \* argument of epoll_wait
  RingSize,    \* usable slots of sock->recv_ring
  Packets,     \* bound: packets that arrive from the network
  KernelMsgs,  \* bound: messages that arrive on kernel sockets
  MaxCtl,      \* bound: calls of epoll_ctl
  Inputs       \* bound: packets, messages and calls of epoll_ctl together

Mask == {"IN", "OUT", "ET", "ONESHOT"}

ASSUME EpollAssumption ==
  /\ Waiter \subseteq App
  /\ StackOf \in [Sock -> Stack]
  /\ KernelStack \in Stack
  /\ Modes \subseteq SUBSET Mask
  /\ Registered \subseteq Sock
  /\ Timed \in BOOLEAN
  /\ MaxEvents \in Nat \ {0}
  /\ RingSize \in Nat \ {0}
  /\ Packets \in Nat /\ KernelMsgs \in Nat /\ MaxCtl \in Nat /\ Inputs \in Nat

VARIABLES
  epoll_events, events,  \* of every sock: interest, raised events
  event_list,            \* socks linked in wakeup->event_list
  by_ctl,                \* history: socks an epoll_ctl has touched since the
                         \* last walk of event_list, and no stack thread since
  in_wait, wait,         \* wakeup->in_wait; TRUE: wakeup->wait is unlocked
  have_kernel_event,
  mbox, ring, recv_list, \* conn->recvmbox, recv_ring, stack->recv_list
  wakeup_list,           \* stacks whose wakeup_list holds this wakeup
  stack_pc, stack_sock,  \* where a stack thread is, and for which socket
  kernel_data, kernel_edge, kernel_event_num,
  app_pc, got,           \* an application thread; events[] it has filled
  kernel_num, todo,      \* result of epoll_wait_fn; sockets it has to serve
  app_sock, pending,     \* its socket argument; raise_pending_events' "event"
  arrived, kernel_sent, ctls  \* counters behind the bounds

sockVars   == <<epoll_events, events, event_list, by_ctl>>
recvVars   == <<mbox, ring, recv_list, arrived>>
kernelVars == <<kernel_data, kernel_edge, kernel_event_num, kernel_sent>>
stackVars  == <<wakeup_list, stack_pc, stack_sock>>
appVars    == <<app_pc, got, kernel_num, todo, app_sock, pending, ctls>>
vars == <<epoll_events, events, event_list, by_ctl, in_wait, wait, have_kernel_event,
          mbox, ring, recv_list, arrived, kernel_data, kernel_edge,
          kernel_event_num, kernel_sent, wakeup_list, stack_pc, stack_sock,
          app_pc, got, kernel_num, todo, app_sock, pending, ctls>>

Nothing == [s \in {} |-> {}]
AnySock == CHOOSE s \in Sock : TRUE

(* lstack_do_epoll_create, and the sockets registered while they were idle *)
Init ==
  /\ epoll_events \in [Sock -> Modes \cup {{}}]
  /\ \A s \in Sock : epoll_events[s] # {} <=> s \in Registered
  /\ events = [s \in Sock |-> {}]
  /\ event_list = {}
  /\ by_ctl = {}
  /\ in_wait = FALSE
  /\ wait = FALSE
  /\ have_kernel_event = FALSE
  /\ mbox = [s \in Sock |-> 0]
  /\ ring = [s \in Sock |-> 0]
  /\ recv_list = {}
  /\ wakeup_list = {}
  /\ stack_pc = [k \in Stack |-> "poll"]
  /\ stack_sock = [k \in Stack |-> AnySock]
  /\ kernel_data = 0
  /\ kernel_edge = FALSE
  /\ kernel_event_num = 0
  /\ app_pc = [a \in App |-> "user"]
  /\ got = [a \in App |-> Nothing]
  /\ kernel_num = [a \in App |-> 0]
  /\ todo = [a \in App |-> {}]
  /\ app_sock = [a \in App |-> AnySock]
  /\ pending = [a \in App |-> {}]
  /\ arrived = 0
  /\ kernel_sent = 0
  /\ ctls = 0

DataIn(s) == ring[s] > 0

(* One more packet, message or call of epoll_ctl is within the bound.       *)
MoreInput == arrived + kernel_sent + ctls < Inputs

-----------------------------------------------------------------------------
(* A stack thread: gazelle_stack_thread's loop, one socket at a time *)

(* gazelle_eth_dev_poll: lwip queues a packet, then calls add_recv_list. *)
Receive(s) ==
  /\ stack_pc[StackOf[s]] = "poll"
  /\ arrived < Packets /\ MoreInput
  /\ arrived' = arrived + 1
  /\ mbox' = [mbox EXCEPT ![s] = @ + 1]
  /\ recv_list' = recv_list \cup {s}
  /\ UNCHANGED <<sockVars, in_wait, wait, have_kernel_event, ring, stackVars,
                 kernelVars, appVars>>

(* read_lwip_data: as many pbufs as recv_ring has room for *)
ReadLwipData(s, n) ==
  /\ n = IF mbox[s] < RingSize - ring[s] THEN mbox[s] ELSE RingSize - ring[s]
  /\ mbox' = [mbox EXCEPT ![s] = @ - n]
  /\ ring' = [ring EXCEPT ![s] = @ + n]

(* read_recv_list: a drained socket leaves the list, else read_lwip_data *)
ReadRecvList(s) ==
  LET k == StackOf[s] IN
  /\ stack_pc[k] = "poll"
  /\ s \in recv_list
  /\ \/ /\ mbox[s] = 0
        /\ recv_list' = recv_list \ {s}
        /\ UNCHANGED <<mbox, ring, stack_pc, stack_sock>>
     \/ /\ mbox[s] > 0
        /\ ring[s] < RingSize
        /\ \E n \in 1..mbox[s] : ReadLwipData(s, n)
        /\ stack_pc' = [stack_pc EXCEPT ![k] = "check"]
        /\ stack_sock' = [stack_sock EXCEPT ![k] = s]
        /\ UNCHANGED recv_list
  /\ UNCHANGED <<sockVars, in_wait, wait, have_kernel_event, wakeup_list,
                 arrived, kernelVars, appVars>>

(* add_sock_event(sock, EPOLLIN): the test made before taking the lock *)
CheckInterest(k) ==
  /\ stack_pc[k] = "check"
  /\ stack_pc' = [stack_pc EXCEPT ![k] =
                    IF "IN" \in epoll_events[stack_sock[k]] THEN "add" ELSE "poll"]
  /\ UNCHANGED <<sockVars, in_wait, wait, have_kernel_event, recvVars,
                 wakeup_list, stack_sock, kernelVars, appVars>>

(* add_sock_event under event_list_lock, then the stack's wakeup_list *)
AddSockEvent(k) ==
  LET s == stack_sock[k] IN
  /\ stack_pc[k] = "add"
  /\ stack_pc' = [stack_pc EXCEPT ![k] = "poll"]
  /\ IF DataIn(s)
       THEN /\ events' = [events EXCEPT ![s] = @ \cup ({"IN"} \cap epoll_events[s])]
            /\ event_list' = event_list \cup {s}
            /\ by_ctl' = by_ctl \ {s}
            /\ wakeup_list' = wakeup_list \cup {k}
       ELSE UNCHANGED <<events, event_list, by_ctl, wakeup_list>>
  /\ UNCHANGED <<epoll_events, in_wait, wait, have_kernel_event, recvVars,
                 stack_sock, kernelVars, appVars>>

(* Mutant of WakeupKernelEvent: the waiter is woken but not told why. *)
WakeupKernelEvent_NoFlag ==
  /\ stack_pc[KernelStack] = "poll"
  /\ kernel_event_num > 0
  /\ wakeup_list' = wakeup_list \cup {KernelStack}
  /\ kernel_event_num' = 0
  /\ UNCHANGED <<sockVars, in_wait, wait, have_kernel_event, recvVars, stack_pc,
                 stack_sock, kernel_data, kernel_edge, kernel_sent, appVars>>

(* wakeup_kernel_event: hand the edge on, then let the kernel thread go on *)
WakeupKernelEvent ==
  /\ stack_pc[KernelStack] = "poll"
  /\ kernel_event_num > 0
  /\ have_kernel_event' = TRUE
  /\ wakeup_list' = wakeup_list \cup {KernelStack}
  /\ kernel_event_num' = 0
  /\ UNCHANGED <<sockVars, in_wait, wait, recvVars, stack_pc, stack_sock,
                 kernel_data, kernel_edge, kernel_sent, appVars>>

(* wakeup_stack_epoll: load in_wait; nobody waits: just leave the list *)
LoadInWait(k) ==
  /\ stack_pc[k] = "poll"
  /\ k \in wakeup_list
  /\ IF in_wait
       THEN stack_pc' = [stack_pc EXCEPT ![k] = "clear"] /\ UNCHANGED wakeup_list
       ELSE wakeup_list' = wakeup_list \ {k} /\ UNCHANGED stack_pc
  /\ UNCHANGED <<sockVars, in_wait, wait, have_kernel_event, recvVars,
                 stack_sock, kernelVars, appVars>>

(* in_wait = false *)
ClearInWait(k) ==
  /\ stack_pc[k] = "clear"
  /\ stack_pc' = [stack_pc EXCEPT ![k] = "unlock"]
  /\ in_wait' = FALSE
  /\ UNCHANGED <<sockVars, wait, have_kernel_event, recvVars, wakeup_list,
                 stack_sock, kernelVars, appVars>>

(* Mutant of UnlockWait: the node leaves the list, the mutex stays locked. *)
UnlockWait_Skipped(k) ==
  /\ stack_pc[k] = "unlock"
  /\ stack_pc' = [stack_pc EXCEPT ![k] = "poll"]
  /\ wakeup_list' = wakeup_list \ {k}
  /\ UNCHANGED <<sockVars, in_wait, wait, have_kernel_event, recvVars,
                 stack_sock, kernelVars, appVars>>

(* pthread_mutex_unlock(&wakeup->wait); list_del_node_null *)
UnlockWait(k) ==
  /\ stack_pc[k] = "unlock"
  /\ stack_pc' = [stack_pc EXCEPT ![k] = "poll"]
  /\ wait' = TRUE
  /\ wakeup_list' = wakeup_list \ {k}
  /\ UNCHANGED <<sockVars, in_wait, have_kernel_event, recvVars, stack_sock,
                 kernelVars, appVars>>

-----------------------------------------------------------------------------
(* The kernel and gazelle_kernelevent_thread *)

(* Data for a kernel socket of the set: epollfd is watched with EPOLLET. *)
KernelArrive ==
  /\ kernel_sent < KernelMsgs /\ MoreInput
  /\ kernel_sent' = kernel_sent + 1
  /\ kernel_data' = kernel_data + 1
  /\ kernel_edge' = TRUE
  /\ UNCHANGED <<sockVars, in_wait, wait, have_kernel_event, recvVars,
                 stackVars, kernel_event_num, appVars>>

(* kernel_event_num = epoll_wait_fn(...), then spin until it is zero again *)
KernelThread ==
  /\ kernel_event_num = 0
  /\ kernel_edge
  /\ kernel_event_num' = 1
  /\ kernel_edge' = FALSE
  /\ UNCHANGED <<sockVars, in_wait, wait, have_kernel_event, recvVars,
                 stackVars, kernel_data, kernel_sent, appVars>>

-----------------------------------------------------------------------------
(* lstack_epoll_wait *)

Goto(a, label) == app_pc' = [app_pc EXCEPT ![a] = label]

(* The caller has served what the last call returned. *)
EpollWaitCall(a) ==
  /\ a \in Waiter /\ app_pc[a] = "user"
  /\ todo[a] = {} /\ kernel_num[a] <= 0
  /\ Goto(a, "enter")
  /\ kernel_num' = [kernel_num EXCEPT ![a] = 0]
  /\ UNCHANGED <<sockVars, in_wait, wait, have_kernel_event, recvVars,
                 stackVars, kernelVars, got, todo, app_sock, pending, ctls>>

(* in_wait = true, at the top of the loop *)
SetInWait(a) ==
  /\ app_pc[a] = "enter"
  /\ Goto(a, "gather")
  /\ in_wait' = TRUE
  /\ UNCHANGED <<sockVars, wait, have_kernel_event, recvVars, stackVars,
                 kernelVars, got, kernel_num, todo, app_sock, pending, ctls>>

Hot == {s \in event_list : epoll_events[s] \cap events[s] # {}}

(* Which entries one walk of event_list reports and which it drops: it      *)
(* stops at maxevents; the order of the list is the list library's affair.  *)
Walk(taken, purged) ==
  /\ taken \subseteq Hot
  /\ purged \subseteq event_list \ Hot
  /\ Cardinality(taken) <= MaxEvents
  /\ \/ Cardinality(taken) = MaxEvents
     \/ taken = Hot /\ purged = event_list \ Hot

(* epoll_lwip_event *)
Gather(a) ==
  /\ app_pc[a] = "gather"
  /\ Goto(a, "kernel")
  /\ by_ctl' = {}
  /\ \E taken \in SUBSET event_list : \E purged \in SUBSET event_list :
       LET oneshot == {s \in taken : "ONESHOT" \in epoll_events[s]}
           edge == {s \in taken : "ET" \in epoll_events[s]} IN
       /\ Walk(taken, purged)
       /\ event_list' = event_list \ (purged \cup oneshot \cup edge)
       /\ epoll_events' = [s \in Sock |-> IF s \in oneshot THEN {} ELSE epoll_events[s]]
       /\ got' = [got EXCEPT ![a] = [s \in taken |-> events[s] \cap epoll_events'[s]]]
  /\ UNCHANGED <<events, in_wait, wait, have_kernel_event, recvVars, stackVars,
                 kernelVars, kernel_num, todo, app_sock, pending, ctls>>

LwipNum(a) == Cardinality(DOMAIN got[a])

(* epoll_wait_fn(epfd, &events[lwip_num], maxevents - lwip_num, 0): the     *)
(* kernel refuses a maxevents of zero.                                      *)
KernelWait(room) ==
  IF room <= 0 THEN -1 ELSE IF kernel_data > 0 THEN 1 ELSE 0

(* if (have_kernel_event) kernel_num = epoll_wait_fn(...) *)
TryKernel(a) ==
  /\ app_pc[a] = "kernel"
  /\ IF have_kernel_event
       THEN LET n == KernelWait(MaxEvents - LwipNum(a)) IN
            /\ kernel_num' = [kernel_num EXCEPT ![a] = n]
            /\ Goto(a, IF n = 0 THEN "clear" ELSE "decide")
       ELSE Goto(a, "decide") /\ UNCHANGED kernel_num
  /\ UNCHANGED <<sockVars, in_wait, wait, have_kernel_event, recvVars,
                 stackVars, kernelVars, got, todo, app_sock, pending, ctls>>

(* if (!kernel_num) have_kernel_event = false *)
ClearKernelEvent(a) ==
  /\ app_pc[a] = "clear"
  /\ Goto(a, "decide")
  /\ have_kernel_event' = FALSE
  /\ UNCHANGED <<sockVars, in_wait, wait, recvVars, stackVars, kernelVars,
                 got, kernel_num, todo, app_sock, pending, ctls>>

(* break on an event or on timeout == 0, else wait on the mutex *)
Decide(a) ==
  /\ app_pc[a] = "decide"
  /\ \/ LwipNum(a) + kernel_num[a] > 0 /\ Goto(a, "exit")
     \/ LwipNum(a) + kernel_num[a] <= 0 /\ Timed /\ Goto(a, "exit")
     \/ LwipNum(a) + kernel_num[a] <= 0 /\ Goto(a, "wait")
  /\ UNCHANGED <<sockVars, in_wait, wait, have_kernel_event, recvVars,
                 stackVars, kernelVars, got, kernel_num, todo, app_sock,
                 pending, ctls>>

(* pthread_mutex_lock / timedlock returned 0: loop *)
TakeWait(a) ==
  /\ app_pc[a] = "wait"
  /\ wait
  /\ wait' = FALSE
  /\ Goto(a, "enter")
  /\ UNCHANGED <<sockVars, in_wait, have_kernel_event, recvVars, stackVars,
                 kernelVars, got, kernel_num, todo, app_sock, pending, ctls>>

(* pthread_mutex_timedlock timed out *)
TimeOut(a) ==
  /\ app_pc[a] = "wait"
  /\ Timed
  /\ Goto(a, "exit")
  /\ UNCHANGED <<sockVars, in_wait, wait, have_kernel_event, recvVars,
                 stackVars, kernelVars, got, kernel_num, todo, app_sock,
                 pending, ctls>>

(* in_wait = false; return lwip_num + kernel_num.  The caller looks at that *)
(* many entries, the last ones being the kernel's.                          *)
EpollWaitReturn(a) ==
  /\ app_pc[a] = "exit"
  /\ Goto(a, "user")
  /\ in_wait' = FALSE
  /\ \E seen \in SUBSET DOMAIN got[a] :
       /\ Cardinality(seen) =
            IF kernel_num[a] < 0 /\ LwipNum(a) > 0 THEN LwipNum(a) - 1
                                                   ELSE LwipNum(a)
       /\ todo' = [todo EXCEPT ![a] = seen]
  /\ got' = [got EXCEPT ![a] = Nothing]
  /\ UNCHANGED <<sockVars, wait, have_kernel_event, recvVars, stackVars,
                 kernelVars, kernel_num, app_sock, pending, ctls>>

-----------------------------------------------------------------------------
(* What the caller does between two calls *)

(* It reads the kernel sockets that were reported. *)
ReadKernel(a) ==
  /\ app_pc[a] = "user"
  /\ kernel_num[a] > 0
  /\ kernel_data' = 0
  /\ kernel_num' = [kernel_num EXCEPT ![a] = 0]
  /\ UNCHANGED <<sockVars, in_wait, wait, have_kernel_event, recvVars,
                 stackVars, kernel_edge, kernel_event_num, kernel_sent, app_pc,
                 got, todo, app_sock, pending, ctls>>

(* read_stack_data takes pbufs from recv_ring.  A reader of a level-        *)
(* triggered socket may stop early, one of an edge-triggered socket goes on *)
(* until EAGAIN.                                                            *)
Read(a, s) ==
  /\ app_pc[a] = "user"
  /\ s \in todo[a]
  /\ app_sock' = [app_sock EXCEPT ![a] = s]
  /\ Goto(a, "read")
  /\ \/ /\ ring[s] = 0
        /\ todo' = [todo EXCEPT ![a] = @ \ {s}]
        /\ UNCHANGED ring
     \/ /\ \E n \in 1..ring[s] : ring' = [ring EXCEPT ![s] = @ - n]
        /\ \/ UNCHANGED todo
           \/ /\ "ET" \notin epoll_events[s]
              /\ todo' = [todo EXCEPT ![a] = @ \ {s}]
  /\ UNCHANGED <<sockVars, in_wait, wait, have_kernel_event, mbox, recv_list,
                 arrived, stackVars, kernelVars, got, kernel_num, pending, ctls>>

(* "rte_ring_count reduce lock": sock->events is tested without the lock *)
ReadTest(a) ==
  /\ app_pc[a] = "read"
  /\ Goto(a, IF "IN" \in events[app_sock[a]] THEN "del" ELSE "user")
  /\ UNCHANGED <<sockVars, in_wait, wait, have_kernel_event, recvVars,
                 stackVars, kernelVars, got, kernel_num, todo, app_sock,
                 pending, ctls>>

(* Mutant of ClearIn: no second look at the ring under the lock. *)
ClearIn_NoRecheck(s) ==
  /\ events' = [events EXCEPT ![s] = @ \ {"IN"}]
  /\ event_list' = IF events[s] \ {"IN"} = {} THEN event_list \ {s} ELSE event_list

(* del_data_in_event, under event_list_lock *)
ClearIn(s) ==
  IF DataIn(s)
    THEN UNCHANGED <<events, event_list>>
    ELSE /\ events' = [events EXCEPT ![s] = @ \ {"IN"}]
         /\ event_list' = IF events[s] \ {"IN"} = {} THEN event_list \ {s}
                                                     ELSE event_list

DelDataInEvent(a) ==
  /\ app_pc[a] = "del"
  /\ Goto(a, "user")
  /\ ClearIn(app_sock[a])
  /\ UNCHANGED <<epoll_events, by_ctl, in_wait, wait, have_kernel_event, recvVars,
                 stackVars, kernelVars, got, kernel_num, todo, app_sock,
                 pending, ctls>>

-----------------------------------------------------------------------------
(* lstack_epoll_ctl *)

(* EPOLL_CTL_ADD and EPOLL_CTL_MOD: sock->epoll_events = event->events *)
CtlSet(a, s, mode) ==
  /\ app_pc[a] = "user"
  /\ ctls < MaxCtl /\ MoreInput
  /\ ctls' = ctls + 1
  /\ epoll_events' = [epoll_events EXCEPT ![s] = mode]
  /\ by_ctl' = by_ctl \cup {s}
  /\ app_sock' = [app_sock EXCEPT ![a] = s]
  /\ Goto(a, "peek")
  /\ UNCHANGED <<events, event_list, in_wait, wait, have_kernel_event,
                 recvVars, stackVars, kernelVars, got, kernel_num, todo, pending>>

(* raise_pending_events: NETCONN_IS_DATAIN is read before the lock *)
RaisePeek(a) ==
  /\ app_pc[a] = "peek"
  /\ Goto(a, "raise")
  /\ pending' = [pending EXCEPT ![a] = IF DataIn(app_sock[a]) THEN {"IN"} ELSE {}]
  /\ UNCHANGED <<sockVars, in_wait, wait, have_kernel_event, recvVars,
                 stackVars, kernelVars, got, kernel_num, todo, app_sock, ctls>>

(* ... and under it: the send ring may have room; events are overwritten.   *)
(* The local "event" ends with the call.                                    *)
RaisePending(a) ==
  LET s == app_sock[a] IN
  /\ app_pc[a] = "raise"
  /\ Goto(a, "user")
  /\ by_ctl' = by_ctl \cup {s}
  /\ pending' = [pending EXCEPT ![a] = {}]
  /\ \E outidle \in SUBSET {"OUT"} :
       LET event == pending[a] \cup outidle IN
       IF event = {}
         THEN UNCHANGED <<events, event_list>>
         ELSE /\ events' = [events EXCEPT ![s] = event]
              /\ event_list' = IF event \cap epoll_events[s] # {}
                                 THEN event_list \cup {s} ELSE event_list
  /\ UNCHANGED <<epoll_events, in_wait, wait, have_kernel_event, recvVars,
                 stackVars, kernelVars, got, kernel_num, todo, app_sock, ctls>>

(* EPOLL_CTL_DEL: interest first, then the list under its lock *)
CtlDel(a, s) ==
  /\ app_pc[a] = "user"
  /\ ctls < MaxCtl /\ MoreInput
  /\ ctls' = ctls + 1
  /\ epoll_events' = [epoll_events EXCEPT ![s] = {}]
  /\ app_sock' = [app_sock EXCEPT ![a] = s]
  /\ todo' = [todo EXCEPT ![a] = @ \ {s}]
  /\ Goto(a, "unlist")
  /\ UNCHANGED <<events, event_list, by_ctl, in_wait, wait, have_kernel_event,
                 recvVars, stackVars, kernelVars, got, kernel_num, pending>>

CtlUnlist(a) ==
  /\ app_pc[a] = "unlist"
  /\ Goto(a, "user")
  /\ event_list' = event_list \ {app_sock[a]}
  /\ UNCHANGED <<epoll_events, events, by_ctl, in_wait, wait, have_kernel_event,
                 recvVars, stackVars, kernelVars, got, kernel_num, todo,
                 app_sock, pending, ctls>>

-----------------------------------------------------------------------------
StackStep(k) ==
  \/ \E s \in Sock : StackOf[s] = k /\ ReadRecvList(s)
  \/ CheckInterest(k) \/ AddSockEvent(k)
  \/ k = KernelStack /\ WakeupKernelEvent
  \/ LoadInWait(k) \/ ClearInWait(k) \/ UnlockWait(k)

WaitStep(a) ==
  \/ EpollWaitCall(a) \/ SetInWait(a) \/ Gather(a)
  \/ TryKernel(a) \/ ClearKernelEvent(a) \/ Decide(a)
  \/ TakeWait(a) \/ TimeOut(a) \/ EpollWaitReturn(a)

ServeStep(a) ==
  \/ ReadKernel(a)
  \/ \E s \in Sock : Read(a, s)
  \/ ReadTest(a) \/ DelDataInEvent(a)

CtlStep(a) ==
  \/ \E s \in Sock, mode \in Modes : CtlSet(a, s, mode)
  \/ \E s \in Sock : CtlDel(a, s)
  \/ RaisePeek(a) \/ RaisePending(a) \/ CtlUnlist(a)

Next ==
  \/ \E s \in Sock : Receive(s)
  \/ KernelArrive \/ KernelThread
  \/ \E k \in Stack : StackStep(k)
  \/ \E a \in App : WaitStep(a) \/ ServeStep(a) \/ CtlStep(a)

Spec == Init /\ [][Next]_vars

(* The stack loop comes back to each of its tasks (strong fairness: a task  *)
(* is out of reach only while the loop does another one), and the waiters   *)
(* keep serving and waiting.  Nobody has to time out: wake-ups come from    *)
(* the stack threads.  epoll_ctl needs none: what must happen in the end is *)
(* stated for runs without it.                                              *)
FairSpec ==
  /\ Spec
  /\ \A s \in Sock : SF_vars(ReadRecvList(s))
  /\ \A k \in Stack : SF_vars(LoadInWait(k))
  /\ SF_vars(WakeupKernelEvent)
  /\ \A k \in Stack : WF_vars(StackStep(k))
  /\ WF_vars(KernelThread)
  /\ \A a \in Waiter : WF_vars((WaitStep(a) /\ ~TimeOut(a)) \/ ServeStep(a))

-----------------------------------------------------------------------------
(* Every variable has its type; recv_ring never holds more pbufs than slots *)
(* although two threads move its ends.                                      *)
TypeOK ==
  /\ epoll_events \in [Sock -> SUBSET Mask]
  /\ events \in [Sock -> SUBSET {"IN", "OUT"}]
  /\ event_list \subseteq Sock /\ by_ctl \subseteq Sock
  /\ in_wait \in BOOLEAN /\ wait \in BOOLEAN /\ have_kernel_event \in BOOLEAN
  /\ mbox \in [Sock -> Nat]
  /\ ring \in [Sock -> 0..RingSize]
  /\ recv_list \subseteq Sock
  /\ wakeup_list \subseteq Stack
  /\ stack_pc \in [Stack -> {"poll", "check", "add", "clear", "unlock"}]
  /\ stack_sock \in [Stack -> Sock]
  /\ kernel_data \in Nat /\ kernel_edge \in BOOLEAN /\ kernel_event_num \in {0, 1}
  /\ app_pc \in [App -> {"user", "enter", "gather", "kernel", "clear", "decide",
                         "wait", "exit", "read", "del", "peek", "raise", "unlist"}]
  /\ got = [a \in App |-> got[a]] /\ \A a \in App : DOMAIN got[a] \subseteq Sock
  /\ kernel_num \in [App -> {-1, 0, 1}]
  /\ todo \in [App -> SUBSET Sock]
  /\ app_sock \in [App -> Sock]
  /\ pending \in [App -> SUBSET {"IN"}]
  /\ arrived \in Nat /\ kernel_sent \in Nat /\ ctls \in Nat

(* A wake-up is on its way: the mutex is unlocked already, or some stack    *)
(* thread is going to look at in_wait or to unlock the mutex.               *)
WakeUpComing == wait \/ wakeup_list # {}

(* No lost wake-up: a thread that blocks on wakeup->wait while event_list   *)
(* holds an event it asked for is going to be woken (lstack_epoll_wait      *)
(* against add_sock_event and wakeup_stack_epoll).  Excepted is a socket    *)
(* that another thread's epoll_ctl has listed or changed since this thread  *)
(* walked the list, until a stack thread adds to it: epoll_ctl wakes nobody.*)
NoLostWakeup ==
  \A a \in Waiter : app_pc[a] = "wait" /\ Hot \ by_ctl # {} => WakeUpComing

(* The same without the exception: an application of several threads may    *)
(* add to an epoll instance on which another thread blocks                  *)
(* (raise_pending_events lists the socket, and the waiter has to know).     *)
CtlWakes ==
  \A a \in Waiter :
    (/\ app_pc[a] = "wait" /\ Hot # {}
     /\ \A b \in App : app_pc[b] \notin {"peek", "raise", "unlist"})
    => WakeUpComing

(* What makes it so, for one waiter and maxevents > 1: in_wait is only ever *)
(* false under a waiter when an unlock is on its way, and an event that     *)
(* came after the walk of event_list has its stack on wakeup_list, unless   *)
(* it came from another thread's epoll_ctl.                                 *)
Handshake(a) ==
  /\ app_pc[a] \in {"gather", "kernel", "clear", "decide", "wait"} /\ ~in_wait
       => wait \/ \E k \in Stack : stack_pc[k] = "unlock"
  /\ app_pc[a] \in {"kernel", "clear", "decide", "wait"} /\ DOMAIN got[a] = {}
       => Hot \subseteq by_ctl \/ WakeUpComing
  /\ app_pc[a] = "wait" => DOMAIN got[a] = {}
  /\ app_pc[a] \in {"enter", "gather", "kernel", "clear", "wait"} => kernel_num[a] >= 0
  /\ app_pc[a] = "decide" /\ kernel_num[a] < 0 => LwipNum(a) >= MaxEvents

(* Together with: a stack thread about to unlock is still on wakeup_list,   *)
(* and only waiters are inside lstack_epoll_wait.                           *)
HandshakeInv ==
  /\ \A k \in Stack : stack_pc[k] \in {"clear", "unlock"} => k \in wakeup_list
  /\ \A a \in App \ Waiter : app_pc[a] \in {"user", "read", "del", "peek", "raise", "unlist"}
  /\ \A a \in Waiter : Handshake(a)

(* A socket with data is known to epoll: it is on event_list with EPOLLIN,  *)
(* or it is edge-triggered and the caller has it to read.  Excepted is only *)
(* the time its stack thread is between filling recv_ring and               *)
(* add_sock_event's lock, and the time an epoll_ctl on it is under way.     *)
ReadableReported ==
  \A s \in Sock :
    (/\ DataIn(s) /\ "IN" \in epoll_events[s]
     /\ ~(stack_pc[StackOf[s]] \in {"check", "add"} /\ stack_sock[StackOf[s]] = s)
     /\ \A a \in App : ~(app_pc[a] \in {"peek", "raise", "unlist"} /\ app_sock[a] = s))
    => \/ s \in event_list /\ "IN" \in events[s]
       \/ /\ "ET" \in epoll_events[s]
          /\ \E a \in App : s \in DOMAIN got[a] \cup todo[a]

(* The same as long as nobody has called epoll_ctl: raise_pending_events    *)
(* may overwrite sock->events (EpollWait_add), nothing else loses an event. *)
ReadableUntilCtl == ctls = 0 => ReadableReported

(* Where the events an application thread has taken are kept while nobody   *)
(* calls epoll_ctl and events[] has room for every socket and the kernel's. *)
CallerHolds(a) ==
  /\ app_pc[a] \notin {"kernel", "clear", "decide", "exit"} => DOMAIN got[a] = {}
  /\ app_pc[a] \in {"enter", "gather", "kernel", "clear", "decide", "wait", "exit"}
       => todo[a] = {}
  /\ app_pc[a] \notin {"peek", "raise", "unlist"}
  /\ kernel_num[a] >= 0

(* The part of the inductive invariant that goes with ReadableUntilCtl.     *)
QuietInv == ctls = 0 /\ \A a \in App : CallerHolds(a)

(* As long as nobody calls epoll_ctl, a packet that arrived for a           *)
(* registered socket is read in the end.                                    *)
EveryPacketRead ==
  \A s \in Registered :
    [](ctls = 0) => (mbox[s] + ring[s] > 0 ~> mbox[s] + ring[s] = 0)

(* A message on a kernel socket of the set is read in the end.              *)
KernelServed == kernel_data > 0 ~> kernel_data = 0

(* A waiter polled the kernel sockets in vain, and before it stores FALSE   *)
(* into have_kernel_event a message comes and is handed on to it: the store *)
(* covers the flag, and no second edge will come.                           *)
EdgeCovered ==
  /\ \E a \in Waiter : app_pc[a] = "clear"
  /\ kernel_data > 0 /\ ~kernel_edge /\ kernel_event_num = 0

(* Unless this happens, a message on a kernel socket of the set is read in  *)
(* the end: the kernel event thread, the stack thread's have_kernel_event   *)
(* and the waiter's clearing of it hand on every other edge.                *)
KernelServedUnlessCovered ==
  [](ctls = 0 /\ ~EdgeCovered) => (kernel_data > 0 ~> kernel_data = 0)

=============================================================================
