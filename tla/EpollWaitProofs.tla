--------------------------- MODULE EpollWaitProofs ---------------------------
(***************************************************************************)
(* The wake-up handshake between lstack_epoll_wait and the stack threads,  *)
(* for every number of stacks, sockets and packets.                        *)
(***************************************************************************)
EXTENDS EpollWait, FiniteSetTheorems, TLAPS

(* The initial state is well typed, provided there is a socket at all. *)
LEMMA InitType ==
  ASSUME Sock # {}, Init
  PROVE  TypeOK
<1>1. AnySock \in Sock
  BY DEF AnySock
<1>2. in_wait \in BOOLEAN /\ wait \in BOOLEAN /\ have_kernel_event \in BOOLEAN
      /\ kernel_edge \in BOOLEAN
  BY Zenon DEF Init
<1>3. epoll_events \in [Sock -> SUBSET Mask]
  BY EpollAssumption DEF Init
<1>4. ring \in [Sock -> 0..RingSize] /\ mbox \in [Sock -> Nat]
  BY EpollAssumption DEF Init
<1>5. got = [a \in App |-> got[a]] /\ \A a \in App : DOMAIN got[a] \subseteq Sock
  BY DEF Init, Nothing
<1>6. events \in [Sock -> SUBSET {"IN", "OUT"}]
  BY DEF Init
<1>7. /\ todo \in [App -> SUBSET Sock]
      /\ pending \in [App -> SUBSET {"IN"}]
      /\ event_list \subseteq Sock
      /\ by_ctl \subseteq Sock
      /\ recv_list \subseteq Sock
      /\ wakeup_list \subseteq Stack
  BY DEF Init
<1>8. /\ stack_pc \in [Stack -> {"poll", "check", "add", "clear", "unlock"}]
      /\ app_pc \in [App -> {"user", "enter", "gather", "kernel", "clear", "decide",
                         "wait", "exit", "read", "del", "peek", "raise", "unlist"}]
      /\ stack_sock \in [Stack -> Sock]
      /\ app_sock \in [App -> Sock]
      /\ kernel_num \in [App -> {-1, 0, 1}]
  BY <1>1 DEF Init
<1>9. /\ kernel_data \in Nat /\ kernel_event_num \in {0, 1}
      /\ arrived \in Nat /\ kernel_sent \in Nat /\ ctls \in Nat
  BY DEF Init
<1> QED
  BY <1>2, <1>3, <1>4, <1>5, <1>6, <1>7, <1>8, <1>9, Zenon DEF TypeOK

(* The steps of the stack threads and of the kernel keep the types. *)
LEMMA StackType ==
  ASSUME TypeOK,
         \/ \E s \in Sock : Receive(s)
         \/ KernelArrive \/ KernelThread
         \/ \E k \in Stack : StackStep(k)
  PROVE  TypeOK'
<1> USE EpollAssumption
<1>1. ASSUME NEW s \in Sock, Receive(s) PROVE TypeOK'
  BY <1>1 DEF TypeOK, Receive, sockVars, stackVars, kernelVars, appVars
<1>2. CASE KernelArrive
  <2>1. kernel_edge' \in BOOLEAN
    BY <1>2, Zenon DEF KernelArrive
  <2> QED
    BY <1>2, <2>1 DEF TypeOK, KernelArrive, sockVars, recvVars, stackVars, appVars
<1>3. CASE KernelThread
  <2>1. kernel_edge' \in BOOLEAN
    BY <1>3, Zenon DEF KernelThread
  <2> QED
    BY <1>3, <2>1 DEF TypeOK, KernelThread, sockVars, recvVars, stackVars, appVars
<1>4. ASSUME NEW k \in Stack, StackStep(k) PROVE TypeOK'
  <2>1. ASSUME NEW s \in Sock, ReadRecvList(s) PROVE TypeOK'
    <3>1. ring' \in [Sock -> 0..RingSize] /\ mbox' \in [Sock -> Nat]
      <4>1. CASE UNCHANGED <<mbox, ring>>
        BY <4>1 DEF TypeOK
      <4>2. CASE \E n \in 1..mbox[s] : ReadLwipData(s, n)
        <5>1. PICK n \in 1..mbox[s] : ReadLwipData(s, n)
          BY <4>2
        <5>2. mbox[s] \in Nat /\ ring[s] \in 0..RingSize /\ n \in Nat
          BY <5>1 DEF TypeOK
        <5>3. ring[s] + n \in 0..RingSize /\ mbox[s] - n \in Nat
          BY <5>1, <5>2 DEF ReadLwipData
        <5> QED
          BY <5>1, <5>3 DEF TypeOK, ReadLwipData
      <4> QED
        BY <2>1, <4>1, <4>2 DEF ReadRecvList
    <3>2. /\ stack_pc' \in [Stack -> {"poll", "check", "add", "clear", "unlock"}]
          /\ stack_sock' \in [Stack -> Sock]
          /\ recv_list' \subseteq Sock
      <4>1. CASE recv_list' = recv_list \ {s} /\ UNCHANGED <<stack_pc, stack_sock>>
        BY <4>1 DEF TypeOK
      <4>2. CASE /\ stack_pc' = [stack_pc EXCEPT ![StackOf[s]] = "check"]
                 /\ stack_sock' = [stack_sock EXCEPT ![StackOf[s]] = s]
                 /\ UNCHANGED recv_list
        BY <4>2 DEF TypeOK
      <4> QED
        BY <2>1, <4>1, <4>2 DEF ReadRecvList
    <3> QED
      BY <2>1, <3>1, <3>2 DEF TypeOK, ReadRecvList, sockVars, kernelVars, appVars
  <2>2. CASE CheckInterest(k)
    BY <2>2 DEF TypeOK, CheckInterest, sockVars, recvVars, kernelVars, appVars
  <2>3. CASE AddSockEvent(k)
    <3>1. events' \in [Sock -> SUBSET {"IN", "OUT"}]
      BY <2>3 DEF TypeOK, AddSockEvent
    <3>2. event_list' \subseteq Sock /\ by_ctl' \subseteq Sock /\ wakeup_list' \subseteq Stack
      BY <2>3 DEF TypeOK, AddSockEvent
    <3> QED
      BY <2>3, <3>1, <3>2 DEF TypeOK, AddSockEvent, recvVars, kernelVars, appVars
  <2>4. CASE WakeupKernelEvent
    <3>1. have_kernel_event' \in BOOLEAN
      BY <2>4, Zenon DEF WakeupKernelEvent
    <3> QED
      BY <2>4, <3>1 DEF TypeOK, WakeupKernelEvent, sockVars, recvVars, appVars
  <2>5. CASE LoadInWait(k)
    BY <2>5 DEF TypeOK, LoadInWait, sockVars, recvVars, kernelVars, appVars
  <2>6. CASE ClearInWait(k)
    <3>1. in_wait' \in BOOLEAN
      BY <2>6, Zenon DEF ClearInWait
    <3> QED
      BY <2>6, <3>1 DEF TypeOK, ClearInWait, sockVars, recvVars, kernelVars, appVars
  <2>7. CASE UnlockWait(k)
    <3>1. wait' \in BOOLEAN
      BY <2>7, Zenon DEF UnlockWait
    <3> QED
      BY <2>7, <3>1 DEF TypeOK, UnlockWait, sockVars, recvVars, kernelVars, appVars
  <2> QED
    BY <1>4, <2>1, <2>2, <2>3, <2>4, <2>5, <2>6, <2>7 DEF StackStep
<1> QED
  BY <1>1, <1>2, <1>3, <1>4

(* So do the steps of lstack_epoll_wait. *)
LEMMA WaitType ==
  ASSUME TypeOK, NEW a \in App, WaitStep(a)
  PROVE  TypeOK'
<1> USE EpollAssumption DEF Goto, recvVars, stackVars, kernelVars
<1>1. CASE EpollWaitCall(a)
  BY <1>1 DEF TypeOK, EpollWaitCall, sockVars
<1>2. CASE SetInWait(a)
  <2>1. in_wait' \in BOOLEAN
    BY <1>2, Zenon DEF SetInWait
  <2> QED
    BY <1>2, <2>1 DEF TypeOK, SetInWait, sockVars
<1>3. CASE Gather(a)
  <2>1. PICK taken \in SUBSET event_list :
          \E purged \in SUBSET event_list :
            LET oneshot == {s \in taken : "ONESHOT" \in epoll_events[s]}
                edge == {s \in taken : "ET" \in epoll_events[s]} IN
            /\ Walk(taken, purged)
            /\ event_list' = event_list \ (purged \cup oneshot \cup edge)
            /\ epoll_events' = [s \in Sock |-> IF s \in oneshot THEN {} ELSE epoll_events[s]]
            /\ got' = [got EXCEPT ![a] = [s \in taken |-> events[s] \cap epoll_events'[s]]]
    BY <1>3 DEF Gather
  <2>2. epoll_events' \in [Sock -> SUBSET Mask] /\ event_list' \subseteq Sock
    BY <2>1 DEF TypeOK
  <2>3. got' = [b \in App |-> got'[b]] /\ \A b \in App : DOMAIN got'[b] \subseteq Sock
    BY <2>1 DEF TypeOK
  <2> QED
    BY <1>3, <2>2, <2>3 DEF TypeOK, Gather
<1>4. CASE TryKernel(a)
  BY <1>4 DEF TypeOK, TryKernel, KernelWait, sockVars
<1>5. CASE ClearKernelEvent(a)
  <2>1. have_kernel_event' \in BOOLEAN
    BY <1>5, Zenon DEF ClearKernelEvent
  <2> QED
    BY <1>5, <2>1 DEF TypeOK, ClearKernelEvent, sockVars
<1>6. CASE Decide(a)
  BY <1>6 DEF TypeOK, Decide, sockVars
<1>7. CASE TakeWait(a)
  <2>1. wait' \in BOOLEAN
    BY <1>7, Zenon DEF TakeWait
  <2> QED
    BY <1>7, <2>1 DEF TypeOK, TakeWait, sockVars
<1>8. CASE TimeOut(a)
  BY <1>8 DEF TypeOK, TimeOut, sockVars
<1>9. CASE EpollWaitReturn(a)
  <2>1. in_wait' \in BOOLEAN
    BY <1>9, Zenon DEF EpollWaitReturn
  <2>2. got' = [b \in App |-> got'[b]] /\ \A b \in App : DOMAIN got'[b] \subseteq Sock
    BY <1>9 DEF TypeOK, EpollWaitReturn, Nothing
  <2>3. todo' \in [App -> SUBSET Sock]
    BY <1>9 DEF TypeOK, EpollWaitReturn
  <2> QED
    BY <1>9, <2>1, <2>2, <2>3 DEF TypeOK, EpollWaitReturn, sockVars
<1> QED
  BY <1>1, <1>2, <1>3, <1>4, <1>5, <1>6, <1>7, <1>8, <1>9 DEF WaitStep

(* And those of the caller and of lstack_epoll_ctl. *)
LEMMA CallerType ==
  ASSUME TypeOK, NEW a \in App, ServeStep(a) \/ CtlStep(a)
  PROVE  TypeOK'
<1> USE EpollAssumption DEF Goto, stackVars, kernelVars
<1>1. CASE ReadKernel(a)
  BY <1>1 DEF TypeOK, ReadKernel, sockVars, recvVars
<1>2. ASSUME NEW s \in Sock, Read(a, s) PROVE TypeOK'
  <2>1. ring' \in [Sock -> 0..RingSize]
    <3>1. ring[s] \in 0..RingSize
      BY DEF TypeOK
    <3>2. CASE UNCHANGED ring
      BY <3>2 DEF TypeOK
    <3>3. ASSUME NEW n \in 1..ring[s], ring' = [ring EXCEPT ![s] = @ - n]
          PROVE  ring' \in [Sock -> 0..RingSize]
      <4>1. ring[s] - n \in 0..RingSize
        BY <3>1
      <4> QED
        BY <3>3, <4>1 DEF TypeOK
    <3> QED
      BY <1>2, <3>2, <3>3 DEF Read
  <2>2. todo' \in [App -> SUBSET Sock]
    <3>1. CASE UNCHANGED todo
      BY <3>1 DEF TypeOK
    <3>2. CASE todo' = [todo EXCEPT ![a] = @ \ {s}]
      BY <3>2 DEF TypeOK
    <3> QED
      BY <1>2, <3>1, <3>2 DEF Read
  <2>3. UNCHANGED <<sockVars, in_wait, wait, have_kernel_event, mbox, recv_list, arrived,
                    stackVars, kernelVars, got, kernel_num, pending, ctls>>
        /\ app_sock' = [app_sock EXCEPT ![a] = s]
        /\ app_pc' = [app_pc EXCEPT ![a] = "read"]
    BY <1>2 DEF Read
  <2> QED
    BY <2>1, <2>2, <2>3 DEF TypeOK, sockVars
<1>3. CASE ReadTest(a)
  BY <1>3 DEF TypeOK, ReadTest, sockVars, recvVars
<1>4. CASE DelDataInEvent(a)
  <2>1. events' \in [Sock -> SUBSET {"IN", "OUT"}] /\ event_list' \subseteq Sock
    <3>1. CASE UNCHANGED <<events, event_list>>
      BY <3>1 DEF TypeOK
    <3>2. CASE /\ events' = [events EXCEPT ![app_sock[a]] = @ \ {"IN"}]
               /\ event_list' \subseteq event_list
      BY <3>2 DEF TypeOK
    <3> QED
      BY <1>4, <3>1, <3>2 DEF DelDataInEvent, ClearIn
  <2> QED
    BY <1>4, <2>1 DEF TypeOK, DelDataInEvent, recvVars
<1>5. ASSUME NEW s \in Sock, NEW mode \in Modes, CtlSet(a, s, mode) PROVE TypeOK'
  BY <1>5 DEF TypeOK, CtlSet, recvVars
<1>6. ASSUME NEW s \in Sock, CtlDel(a, s) PROVE TypeOK'
  BY <1>6 DEF TypeOK, CtlDel, recvVars
<1>7. CASE RaisePeek(a)
  BY <1>7 DEF TypeOK, RaisePeek, DataIn, sockVars, recvVars
<1>8. CASE RaisePending(a)
  <2>1. events' \in [Sock -> SUBSET {"IN", "OUT"}] /\ event_list' \subseteq Sock
    <3>1. PICK outidle \in SUBSET {"OUT"} :
            IF pending[a] \cup outidle = {}
              THEN UNCHANGED <<events, event_list>>
              ELSE /\ events' = [events EXCEPT ![app_sock[a]] = pending[a] \cup outidle]
                   /\ event_list' =
                        IF (pending[a] \cup outidle) \cap epoll_events[app_sock[a]] # {}
                          THEN event_list \cup {app_sock[a]} ELSE event_list
      BY <1>8 DEF RaisePending
    <3>2. pending[a] \cup outidle \in SUBSET {"IN", "OUT"} /\ app_sock[a] \in Sock
      BY <3>1 DEF TypeOK
    <3>3. CASE UNCHANGED <<events, event_list>>
      BY <3>3 DEF TypeOK
    <3>4. CASE /\ events' = [events EXCEPT ![app_sock[a]] = pending[a] \cup outidle]
               /\ event_list' \subseteq event_list \cup {app_sock[a]}
      BY <3>2, <3>4 DEF TypeOK
    <3> QED
      BY <3>1, <3>3, <3>4
  <2>2. by_ctl' \subseteq Sock
    BY <1>8 DEF TypeOK, RaisePending
  <2> QED
    BY <1>8, <2>1, <2>2 DEF TypeOK, RaisePending, recvVars
<1>9. CASE CtlUnlist(a)
  BY <1>9 DEF TypeOK, CtlUnlist, recvVars
<1> QED
  BY <1>1, <1>2, <1>3, <1>4, <1>5, <1>6, <1>7, <1>8, <1>9 DEF ServeStep, CtlStep

(* TypeOK is an invariant of the epoll instance: no interleaving of the     *)
(* threads overfills recv_ring or leaves a list with a foreign entry.       *)
THEOREM TypeCorrect ==
  ASSUME Sock # {}
  PROVE  Spec => []TypeOK
<1>1. Init => TypeOK
  BY InitType
<1>2. TypeOK /\ [Next]_vars => TypeOK'
  <2> SUFFICES ASSUME TypeOK, [Next]_vars PROVE TypeOK'
    OBVIOUS
  <2>1. CASE UNCHANGED vars
    BY <2>1 DEF TypeOK, vars
  <2>2. CASE Next
    BY <2>2, StackType, WaitType, CallerType DEF Next
  <2> QED
    BY <2>1, <2>2
<1> QED
  BY <1>1, <1>2, PTL DEF Spec

-----------------------------------------------------------------------------
(* Nothing blocks at first. *)
LEMMA InitHandshake ==
  ASSUME Init PROVE HandshakeInv
BY EpollAssumption DEF Init, HandshakeInv, Handshake, Hot

(* read_recv_list moves only the thread that runs it, towards add_sock_event. *)
LEMMA ReadRecvListPc ==
  ASSUME TypeOK, NEW s \in Sock, ReadRecvList(s)
  PROVE  \A l \in Stack : \/ stack_pc'[l] = stack_pc[l]
                          \/ stack_pc[l] = "poll" /\ stack_pc'[l] = "check"
<1>1. CASE stack_pc' = stack_pc
  BY <1>1
<1>2. CASE stack_pc' = [stack_pc EXCEPT ![StackOf[s]] = "check"]
  BY <1>2 DEF TypeOK, ReadRecvList
<1> QED
  BY <1>1, <1>2 DEF ReadRecvList

(* Steps of the network, the kernel and the stack threads. *)
LEMMA StackHandshake ==
  ASSUME TypeOK, HandshakeInv,
         \/ \E s \in Sock : Receive(s)
         \/ KernelArrive \/ KernelThread
         \/ \E k \in Stack : StackStep(k)
  PROVE  HandshakeInv'
<1> USE EpollAssumption DEF HandshakeInv, Handshake, WakeUpComing, Hot, LwipNum
<1>1. ASSUME NEW s \in Sock, Receive(s) PROVE HandshakeInv'
  BY <1>1 DEF Receive, sockVars, stackVars, appVars
<1>2. CASE KernelArrive
  BY <1>2 DEF KernelArrive, sockVars, stackVars, appVars
<1>3. CASE KernelThread
  BY <1>3 DEF KernelThread, sockVars, stackVars, appVars
<1>4. ASSUME NEW k \in Stack, StackStep(k) PROVE HandshakeInv'
  <2>1. ASSUME NEW s \in Sock, ReadRecvList(s) PROVE HandshakeInv'
    <3>1. \A l \in Stack : stack_pc'[l] = stack_pc[l] \/ (stack_pc[l] = "poll" /\ stack_pc'[l] = "check")
      BY <2>1, ReadRecvListPc
    <3> QED
      BY <2>1, <3>1 DEF ReadRecvList, sockVars, appVars
  <2>2. CASE CheckInterest(k)
    BY <2>2 DEF TypeOK, CheckInterest, sockVars, appVars
  <2>3. CASE AddSockEvent(k)
    <3>1. \A l \in Stack : stack_pc'[l] = "unlock" <=> stack_pc[l] = "unlock"
      BY <2>3 DEF TypeOK, AddSockEvent
    <3>2. /\ wakeup_list \subseteq wakeup_list'
          /\ wakeup_list' = {} => Hot' = Hot /\ by_ctl' = by_ctl
      BY <2>3 DEF AddSockEvent
    <3>3. \A l \in Stack : stack_pc'[l] \in {"clear", "unlock"} => l \in wakeup_list'
      BY <2>3, <3>2 DEF TypeOK, AddSockEvent
    <3> QED
      BY <2>3, <3>1, <3>2, <3>3 DEF AddSockEvent, appVars
  <2>4. CASE WakeupKernelEvent
    BY <2>4 DEF TypeOK, WakeupKernelEvent, sockVars, appVars
  <2>5. CASE LoadInWait(k)
    <3>1. CASE in_wait
      <4>1. stack_pc[k] = "poll" /\ k \in wakeup_list /\ stack_pc' = [stack_pc EXCEPT ![k] = "clear"]
            /\ UNCHANGED <<wakeup_list, in_wait, wait, app_pc, got, kernel_num,
                           epoll_events, events, event_list, by_ctl>>
        BY <2>5, <3>1 DEF LoadInWait, sockVars, appVars
      <4>2. \A l \in Stack : (stack_pc'[l] \in {"clear", "unlock"} => l \in wakeup_list)
                             /\ (stack_pc'[l] = "unlock" <=> stack_pc[l] = "unlock")
        BY <4>1 DEF TypeOK
      <4> QED
        BY <3>1, <4>1, <4>2
    <3>2. CASE ~in_wait
      <4>1. stack_pc[k] = "poll" /\ UNCHANGED <<stack_pc, in_wait, wait, app_pc, got, kernel_num,
                                     epoll_events, events, event_list, by_ctl>>
            /\ wakeup_list' = wakeup_list \ {k}
        BY <2>5, <3>2 DEF LoadInWait, sockVars, appVars
      <4>2. \A l \in Stack : stack_pc[l] \in {"clear", "unlock"} => l \in wakeup_list'
        BY <4>1
      <4> QED
        BY <3>2, <4>1, <4>2
    <3> QED
      BY <3>1, <3>2
  <2>6. CASE ClearInWait(k)
    <3>1. stack_pc'[k] = "unlock"
      BY <2>6 DEF TypeOK, ClearInWait
    <3> QED
      BY <2>6, <3>1 DEF TypeOK, ClearInWait, sockVars, appVars
  <2>7. CASE UnlockWait(k)
    BY <2>7 DEF TypeOK, UnlockWait, sockVars, appVars
  <2> QED
    BY <1>4, <2>1, <2>2, <2>3, <2>4, <2>5, <2>6, <2>7 DEF StackStep
<1> QED
  BY <1>1, <1>2, <1>3, <1>4

(* Steps of the only thread that waits, asking for more than one event. *)
LEMMA WaitHandshake ==
  ASSUME TypeOK, HandshakeInv, IsFiniteSet(Sock), MaxEvents > 1,
         \A b, c \in Waiter : b = c,
         NEW a \in App, WaitStep(a)
  PROVE  HandshakeInv'
<1> USE EpollAssumption DEF Goto
<1>b. a \in Waiter
  BY DEF HandshakeInv, WaitStep, EpollWaitCall, SetInWait, Gather, TryKernel, ClearKernelEvent,
         Decide, TakeWait, TimeOut, EpollWaitReturn
<1>0. Handshake(a)' => HandshakeInv'
  <2>1. UNCHANGED <<wakeup_list, stack_pc>> /\ \A b \in App \ Waiter : app_pc'[b] = app_pc[b]
    BY <1>b DEF TypeOK, WaitStep, EpollWaitCall, SetInWait, Gather, TryKernel, ClearKernelEvent,
           Decide, TakeWait, TimeOut, EpollWaitReturn, stackVars
  <2> QED
    BY <1>b, <2>1 DEF HandshakeInv
<1>a. Handshake(a)
  BY <1>b DEF HandshakeInv
<1>1. CASE EpollWaitCall(a)
  BY <1>0, <1>a, <1>1 DEF TypeOK, EpollWaitCall, Handshake, stackVars
<1>2. CASE SetInWait(a)
  BY <1>0, <1>a, <1>2 DEF TypeOK, SetInWait, Handshake, stackVars
<1>3. CASE Gather(a)
  <2>1. \E taken \in SUBSET event_list : \E purged \in SUBSET event_list :
            /\ Walk(taken, purged)
            /\ event_list' \subseteq event_list
            /\ \A s \in event_list' : epoll_events'[s] \subseteq epoll_events[s]
            /\ DOMAIN got'[a] = taken
    <3>1. PICK taken \in SUBSET event_list :
          \E purged \in SUBSET event_list :
            LET oneshot == {s \in taken : "ONESHOT" \in epoll_events[s]}
                edge == {s \in taken : "ET" \in epoll_events[s]} IN
            /\ Walk(taken, purged)
            /\ event_list' = event_list \ (purged \cup oneshot \cup edge)
            /\ epoll_events' = [s \in Sock |-> IF s \in oneshot THEN {} ELSE epoll_events[s]]
            /\ got' = [got EXCEPT ![a] = [s \in taken |-> events[s] \cap epoll_events'[s]]]
      BY <1>3 DEF Gather
    <3>2. DOMAIN got'[a] = taken
      BY <3>1 DEF TypeOK
    <3> QED
      <4>1. ASSUME NEW s \in event_list'
            PROVE  s \in Sock /\ epoll_events'[s] \subseteq epoll_events[s]
        BY <3>1, <4>1 DEF TypeOK
      <4> QED
        BY <3>1, <3>2, <4>1
  <2>2. PICK taken \in SUBSET event_list : \E purged \in SUBSET event_list :
            /\ Walk(taken, purged)
            /\ event_list' \subseteq event_list
            /\ \A s \in event_list' : epoll_events'[s] \subseteq epoll_events[s]
            /\ DOMAIN got'[a] = taken
    BY <2>1
  <2>3. Hot' \subseteq Hot
    BY <1>3, <2>2 DEF Hot, Gather
  <2>4. Cardinality({}) = 0
    BY FS_EmptySet
  <2>5. taken = {} => Hot = {}
    BY <2>2, <2>4 DEF Walk
  <2> QED
    BY <1>0, <1>a, <1>3, <2>2, <2>3, <2>5 DEF TypeOK, Gather, Handshake, stackVars
<1>4. CASE TryKernel(a)
  <2>1. LwipNum(a) \in Nat
    BY FS_Subset, FS_CardinalityType DEF TypeOK, LwipNum
  <2>2. kernel_num'[a] < 0 => LwipNum(a) >= MaxEvents
    BY <1>a, <1>4, <2>1 DEF TypeOK, Handshake, TryKernel, KernelWait
  <2>3. app_pc'[a] = "clear" => kernel_num'[a] = 0
    BY <1>4, <2>1 DEF TypeOK, TryKernel
  <2>4. app_pc'[a] \in {"clear", "decide"} /\ UNCHANGED <<Hot, by_ctl, got, in_wait, wait, wakeup_list, stack_pc>>
    BY <1>4 DEF TypeOK, TryKernel, Hot, sockVars, stackVars
  <2> QED
    BY <1>0, <1>a, <1>4, <2>2, <2>3, <2>4 DEF TypeOK, TryKernel, Handshake, WakeUpComing, LwipNum
<1>5. CASE ClearKernelEvent(a)
  <2>1. UNCHANGED <<Hot, by_ctl, LwipNum(a), WakeUpComing>>
    BY <1>5 DEF ClearKernelEvent, Hot, LwipNum, WakeUpComing, sockVars, stackVars
  <2> QED
    BY <1>0, <1>a, <1>5, <2>1 DEF TypeOK, ClearKernelEvent, Handshake, stackVars
<1>6. CASE Decide(a)
  <2>1. UNCHANGED <<Hot, by_ctl, WakeUpComing>>
    BY <1>6 DEF Decide, Hot, WakeUpComing, sockVars, stackVars
  <2>a. IsFiniteSet(DOMAIN got[a])
    BY FS_Subset DEF TypeOK
  <2>2. LwipNum(a) \in Nat /\ (LwipNum(a) = 0 <=> DOMAIN got[a] = {})
    BY <2>a, FS_CardinalityType, FS_EmptySet DEF LwipNum
  <2>3. app_pc'[a] = "wait" => DOMAIN got[a] = {} /\ kernel_num[a] >= 0
    BY <1>a, <1>6, <2>2 DEF TypeOK, Decide, Handshake
  <2> QED
    BY <1>0, <1>a, <1>6, <2>1, <2>3 DEF TypeOK, Decide, Handshake, stackVars
<1>7. CASE TakeWait(a)
  BY <1>0, <1>a, <1>7 DEF TypeOK, TakeWait, Handshake, stackVars
<1>8. CASE TimeOut(a)
  BY <1>0, <1>a, <1>8 DEF TypeOK, TimeOut, Handshake, stackVars
<1>9. CASE EpollWaitReturn(a)
  BY <1>0, <1>a, <1>9 DEF TypeOK, EpollWaitReturn, Handshake, stackVars
<1> QED
  BY <1>1, <1>2, <1>3, <1>4, <1>5, <1>6, <1>7, <1>8, <1>9 DEF WaitStep

(* A thread that serves or calls epoll_ctl does not wait itself, and to the *)
(* event list of one that does it adds nothing but sockets of by_ctl.       *)
LEMMA CallerHandshake ==
  ASSUME TypeOK, HandshakeInv, NEW a \in App, ServeStep(a) \/ CtlStep(a)
  PROVE  HandshakeInv'
<1> USE EpollAssumption DEF Goto
<1>1. /\ app_pc'[a] \in {"user", "read", "del", "peek", "raise", "unlist"}
      /\ \A b \in App \ {a} : app_pc'[b] = app_pc[b]
      /\ UNCHANGED <<stack_pc, wakeup_list, in_wait, wait, got>>
      /\ \A b \in App \ {a} : kernel_num'[b] = kernel_num[b]
  BY DEF TypeOK, ServeStep, CtlStep, ReadKernel, Read, ReadTest, DelDataInEvent,
         CtlSet, CtlDel, RaisePeek, RaisePending, CtlUnlist, stackVars
<1>2. Hot \subseteq by_ctl => Hot' \subseteq by_ctl'
  <2>1. CASE ReadKernel(a) \/ (\E s \in Sock : Read(a, s)) \/ ReadTest(a) \/ RaisePeek(a)
    BY <2>1 DEF ReadKernel, Read, ReadTest, RaisePeek, Hot, sockVars
  <2>2. CASE DelDataInEvent(a)
    <3>0. ClearIn(app_sock[a])
      BY <2>2 DEF DelDataInEvent
    <3>1. event_list' \subseteq event_list
      BY <3>0 DEF ClearIn
    <3>2. ASSUME NEW s \in Sock PROVE events'[s] \subseteq events[s]
      BY <3>0 DEF TypeOK, ClearIn
    <3> QED
      BY <2>2, <3>1, <3>2 DEF TypeOK, DelDataInEvent, Hot
  <2>3. ASSUME NEW s \in Sock, NEW mode \in Modes, CtlSet(a, s, mode)
        PROVE  Hot \subseteq by_ctl => Hot' \subseteq by_ctl'
    BY <2>3 DEF TypeOK, CtlSet, Hot
  <2>4. ASSUME NEW s \in Sock, CtlDel(a, s)
        PROVE  Hot \subseteq by_ctl => Hot' \subseteq by_ctl'
    BY <2>4 DEF TypeOK, CtlDel, Hot
  <2>5. CASE RaisePending(a)
    <3>1. /\ event_list' \subseteq event_list \cup {app_sock[a]}
          /\ \A s \in Sock \ {app_sock[a]} : events'[s] = events[s]
      BY <2>5 DEF TypeOK, RaisePending
    <3> QED
      BY <2>5, <3>1 DEF TypeOK, RaisePending, Hot
  <2>6. CASE CtlUnlist(a)
    BY <2>6 DEF CtlUnlist, Hot
  <2> QED
    BY <2>1, <2>2, <2>3, <2>4, <2>5, <2>6 DEF ServeStep, CtlStep
<1>3. ASSUME NEW b \in Waiter PROVE Handshake(b)'
  <2>1. CASE b = a
    BY <1>1, <2>1 DEF Handshake
  <2>2. CASE b # a
    BY <1>1, <1>2, <2>2 DEF HandshakeInv, Handshake, WakeUpComing, LwipNum
  <2> QED
    BY <2>1, <2>2
<1> QED
  BY <1>1, <1>3 DEF HandshakeInv

(* With one thread in epoll_wait and maxevents above one, and any number of *)
(* threads that call epoll_ctl meanwhile, no wake-up of a stack thread is   *)
(* lost, however the adding of events and the handling of in_wait and of    *)
(* the mutex fall between the waiter's steps.                               *)
THEOREM NoLostWakeupCorrect ==
  ASSUME Sock # {}, IsFiniteSet(Sock), MaxEvents > 1, \A b, c \in Waiter : b = c
  PROVE  Spec => []NoLostWakeup
<1>1. Init => TypeOK /\ HandshakeInv
  BY InitType, InitHandshake
<1>2. TypeOK /\ HandshakeInv /\ [Next]_vars => (TypeOK /\ HandshakeInv)'
  <2> SUFFICES ASSUME TypeOK, HandshakeInv, [Next]_vars PROVE (TypeOK /\ HandshakeInv)'
    OBVIOUS
  <2>1. CASE UNCHANGED vars
    BY <2>1 DEF TypeOK, HandshakeInv, Handshake, Hot, WakeUpComing, LwipNum, vars
  <2>2. CASE Next
    BY <2>2, StackType, WaitType, CallerType, StackHandshake, WaitHandshake, CallerHandshake
    DEF Next
  <2> QED
    BY <2>1, <2>2
<1>3. TypeOK /\ HandshakeInv => NoLostWakeup
  BY DEF HandshakeInv, Handshake, NoLostWakeup
<1> QED
  BY <1>1, <1>2, <1>3, PTL DEF Spec

-----------------------------------------------------------------------------
(* The calls of epoll_ctl are only counted up. *)
LEMMA CtlsGrow ==
  ASSUME TypeOK, Next, ctls' = 0
  PROVE  ctls = 0
<1>1. UNCHANGED ctls \/ ctls' = ctls + 1
  BY DEF Next, StackStep, WaitStep, ServeStep, CtlStep, Receive, KernelArrive, KernelThread,
    ReadRecvList, CheckInterest, AddSockEvent, WakeupKernelEvent, LoadInWait, ClearInWait,
    UnlockWait, EpollWaitCall, SetInWait, Gather, TryKernel, ClearKernelEvent, Decide,
    TakeWait, TimeOut, EpollWaitReturn, ReadKernel, Read, ReadTest, DelDataInEvent, CtlSet,
    CtlDel, RaisePeek, RaisePending, CtlUnlist, appVars
<1> QED
  BY <1>1 DEF TypeOK

(* QuietInv: what a caller holds as long as nobody has called epoll_ctl. *)
LEMMA QuietStep ==
  ASSUME TypeOK, QuietInv, IsFiniteSet(Sock), Cardinality(Sock) < MaxEvents,
         Next, ctls' = 0
  PROVE  QuietInv'
<1> USE EpollAssumption DEF Goto
<1>1. ASSUME NEW s \in Sock, Receive(s) PROVE QuietInv'
  BY <1>1 DEF Receive, QuietInv, CallerHolds, appVars
<1>2. CASE KernelArrive \/ KernelThread
  BY <1>2 DEF KernelArrive, KernelThread, QuietInv, CallerHolds, appVars
<1>3. ASSUME NEW k \in Stack, StackStep(k) PROVE QuietInv'
  BY <1>3 DEF StackStep, ReadRecvList, CheckInterest, AddSockEvent, WakeupKernelEvent,
    LoadInWait, ClearInWait, UnlockWait, QuietInv, CallerHolds, appVars
<1>4. ASSUME NEW a \in App, WaitStep(a) \/ ServeStep(a) \/ CtlStep(a)
      PROVE  QuietInv'
  <2>1. CallerHolds(a)'
    <3>0. /\ IsFiniteSet(DOMAIN got[a])
          /\ LwipNum(a) \in Nat /\ LwipNum(a) < MaxEvents
          /\ LwipNum(a) = 0 <=> DOMAIN got[a] = {}
      <4>1. DOMAIN got[a] \subseteq Sock
        BY DEF TypeOK
      <4>2. /\ IsFiniteSet(DOMAIN got[a])
            /\ Cardinality(DOMAIN got[a]) <= Cardinality(Sock)
        BY <4>1, FS_Subset
      <4> QED
        BY <4>2, FS_CardinalityType, FS_EmptySet DEF LwipNum
    <3>1. CallerHolds(a) /\ ctls = 0
      BY DEF QuietInv
    <3> USE <3>1
    <3>2. CASE EpollWaitCall(a) \/ SetInWait(a) \/ TimeOut(a) \/ TakeWait(a)
      BY <3>2 DEF TypeOK, EpollWaitCall, SetInWait, TimeOut, TakeWait, CallerHolds
    <3>3. CASE Gather(a)
      BY <3>3 DEF TypeOK, Gather, CallerHolds
    <3>4. CASE TryKernel(a) \/ ClearKernelEvent(a)
      <4>1. KernelWait(MaxEvents - LwipNum(a)) >= 0
        BY <3>0 DEF KernelWait
      <4> QED
        BY <3>4, <4>1 DEF TypeOK, TryKernel, ClearKernelEvent, CallerHolds
    <3>5. CASE Decide(a)
      <4>1. UNCHANGED <<got, todo, kernel_num>> /\ app_pc[a] = "decide"
        BY <3>5 DEF Decide
      <4>2. app_pc'[a] = "exit" \/ (app_pc'[a] = "wait" /\ LwipNum(a) + kernel_num[a] <= 0)
        BY <3>5 DEF TypeOK, Decide
      <4>3. app_pc'[a] = "wait" => DOMAIN got[a] = {}
        <5>1. kernel_num[a] \in {0, 1}
          BY DEF TypeOK, CallerHolds
        <5> QED
          BY <5>1, <4>2, <3>0
      <4> QED
        BY <4>1, <4>2, <4>3 DEF CallerHolds
    <3>6. CASE EpollWaitReturn(a)
      BY <3>6 DEF TypeOK, EpollWaitReturn, CallerHolds, Nothing
    <3>7. CASE ServeStep(a)
      BY <3>7 DEF TypeOK, ServeStep, ReadKernel, Read, ReadTest, DelDataInEvent, CallerHolds
    <3>8. CASE CtlStep(a)
      BY <3>8 DEF CtlStep, CtlSet, CtlDel, RaisePeek, RaisePending, CtlUnlist, CallerHolds
    <3> QED
      BY <1>4, <3>2, <3>3, <3>4, <3>5, <3>6, <3>7, <3>8 DEF WaitStep
  <2>2. ASSUME NEW b \in App, b # a PROVE CallerHolds(b)'
    <3>1. /\ app_pc'[b] = app_pc[b] /\ got'[b] = got[b] /\ todo'[b] = todo[b]
          /\ kernel_num'[b] = kernel_num[b]
      BY <1>4, <2>2 DEF TypeOK, WaitStep, ServeStep, CtlStep, EpollWaitCall, SetInWait, Gather,
        TryKernel, ClearKernelEvent, Decide, TakeWait, TimeOut, EpollWaitReturn, ReadKernel,
        Read, ReadTest, DelDataInEvent, CtlSet, CtlDel, RaisePeek, RaisePending, CtlUnlist
    <3> QED
      BY <3>1 DEF QuietInv, CallerHolds
  <2> QED
    BY <2>1, <2>2 DEF QuietInv
<1> QED
  BY <1>1, <1>2, <1>3, <1>4 DEF Next

(* The statement of ReadableReported for one socket, in the quiet case. *)
Reported(s) ==
  (/\ DataIn(s) /\ "IN" \in epoll_events[s]
   /\ ~(stack_pc[StackOf[s]] \in {"check", "add"} /\ stack_sock[StackOf[s]] = s))
  => \/ s \in event_list /\ "IN" \in events[s]
     \/ /\ "ET" \in epoll_events[s]
        /\ \E a \in App : s \in DOMAIN got[a] \cup todo[a]

(* Stack threads: data moved into recv_ring is excepted until add_sock_event.*)
LEMMA StackReports ==
  ASSUME TypeOK, NEW s \in Sock, Reported(s),
         \/ \E t \in Sock : Receive(t)
         \/ KernelArrive \/ KernelThread
         \/ \E k \in Stack : StackStep(k)
  PROVE  Reported(s)'
<1> USE EpollAssumption
<1>1. ASSUME NEW t \in Sock, Receive(t) PROVE Reported(s)'
  BY <1>1 DEF Receive, Reported, DataIn, sockVars, stackVars, appVars
<1>2. CASE KernelArrive \/ KernelThread
  BY <1>2 DEF KernelArrive, KernelThread, Reported, DataIn, sockVars, recvVars, stackVars, appVars
<1>3. ASSUME NEW k \in Stack, StackStep(k) PROVE Reported(s)'
  <2>1. ASSUME NEW t \in Sock, ReadRecvList(t) PROVE Reported(s)'
    <3>1. CASE UNCHANGED <<ring, stack_pc, stack_sock>>
      BY <2>1, <3>1 DEF ReadRecvList, Reported, DataIn, sockVars, appVars
    <3>2. CASE /\ \E n \in 1..mbox[t] : ReadLwipData(t, n)
               /\ stack_pc' = [stack_pc EXCEPT ![StackOf[t]] = "check"]
               /\ stack_sock' = [stack_sock EXCEPT ![StackOf[t]] = t]
      <4>1. t # s => ring'[s] = ring[s]
        BY <3>2 DEF TypeOK, ReadLwipData
      <4>2. /\ t = s => stack_pc'[StackOf[s]] = "check" /\ stack_sock'[StackOf[s]] = s
            /\ StackOf[t] = StackOf[s] => stack_pc[StackOf[s]] = "poll"
            /\ StackOf[t] # StackOf[s] => /\ stack_pc'[StackOf[s]] = stack_pc[StackOf[s]]
                                          /\ stack_sock'[StackOf[s]] = stack_sock[StackOf[s]]
        BY <2>1, <3>2 DEF TypeOK, ReadRecvList
      <4>3. UNCHANGED <<epoll_events, events, event_list, got, todo>>
        BY <2>1 DEF ReadRecvList, sockVars, appVars
      <4> QED
        BY <4>1, <4>2, <4>3 DEF Reported, DataIn
    <3> QED
      BY <2>1, <3>1, <3>2 DEF ReadRecvList
  <2>2. CASE CheckInterest(k)
    BY <2>2 DEF TypeOK, CheckInterest, Reported, DataIn, sockVars, recvVars, appVars
  <2>3. CASE AddSockEvent(k)
    <3>1. UNCHANGED <<epoll_events, ring, got, todo, stack_sock>>
      BY <2>3 DEF AddSockEvent, recvVars, appVars
    <3>2. event_list \subseteq event_list' /\ ("IN" \in events[s] => "IN" \in events'[s])
      BY <2>3 DEF TypeOK, AddSockEvent
    <3>3. CASE stack_sock[k] = s
      <4>1. DataIn(s) /\ "IN" \in epoll_events[s] => s \in event_list' /\ "IN" \in events'[s]
        BY <2>3, <3>3 DEF TypeOK, AddSockEvent
      <4> QED
        BY <3>1, <4>1 DEF Reported, DataIn
    <3>4. CASE stack_sock[k] # s
      BY <2>3, <3>1, <3>2, <3>4 DEF TypeOK, AddSockEvent, Reported, DataIn
    <3> QED
      BY <3>3, <3>4
  <2>4. CASE WakeupKernelEvent
    BY <2>4 DEF WakeupKernelEvent, Reported, DataIn, sockVars, recvVars, appVars
  <2>5. CASE LoadInWait(k) \/ ClearInWait(k) \/ UnlockWait(k)
    BY <2>5 DEF TypeOK, LoadInWait, ClearInWait, UnlockWait, Reported, DataIn, sockVars, recvVars, appVars
  <2> QED
    BY <1>3, <2>1, <2>2, <2>3, <2>4, <2>5 DEF StackStep
<1> QED
  BY <1>1, <1>2, <1>3

(* The walk of event_list keeps a level-triggered entry and hands an        *)
(* edge-triggered one to the caller.                                        *)
LEMMA GatherReports ==
  ASSUME TypeOK, NEW s \in Sock, Reported(s), NEW a \in App, CallerHolds(a), Gather(a)
  PROVE  Reported(s)'
<1>1. PICK taken \in SUBSET event_list : \E purged \in SUBSET event_list :
        LET oneshot == {t \in taken : "ONESHOT" \in epoll_events[t]}
            edge == {t \in taken : "ET" \in epoll_events[t]} IN
        /\ Walk(taken, purged)
        /\ event_list' = event_list \ (purged \cup oneshot \cup edge)
        /\ epoll_events' = [t \in Sock |-> IF t \in oneshot THEN {} ELSE epoll_events[t]]
        /\ got' = [got EXCEPT ![a] = [t \in taken |-> events[t] \cap epoll_events'[t]]]
  BY DEF Gather
<1>2. DOMAIN got'[a] = taken /\ \A b \in App \ {a} : got'[b] = got[b]
  BY <1>1 DEF TypeOK
<1>3. DOMAIN got[a] = {}
  BY DEF CallerHolds, Gather
<1>4. UNCHANGED <<ring, events, todo, stack_pc, stack_sock>>
  BY DEF Gather, recvVars, stackVars
<1>5. epoll_events'[s] = epoll_events[s] \/ epoll_events'[s] = {}
  BY <1>1
<1>6. ASSUME "IN" \in epoll_events'[s], s \in event_list, "IN" \in events[s]
      PROVE  s \in event_list' \/ ("ET" \in epoll_events'[s] /\ s \in taken)
  <2>1. s \in Hot
    BY <1>5, <1>6 DEF Hot
  <2> QED
    BY <1>1, <1>5, <1>6, <2>1 DEF Walk
<1>7. ASSUME "ET" \in epoll_events'[s], NEW b \in App, s \in DOMAIN got[b] \cup todo[b]
      PROVE  s \in DOMAIN got'[b] \cup todo'[b]
  BY <1>2, <1>3, <1>4, <1>7
<1> QED
  BY <1>2, <1>4, <1>5, <1>6, <1>7 DEF Reported, DataIn

(* The other steps of an application thread. *)
LEMMA AppReports ==
  ASSUME TypeOK, NEW s \in Sock, Reported(s), NEW a \in App, CallerHolds(a),
         IsFiniteSet(Sock), ctls = 0, ctls' = 0,
         WaitStep(a) \/ ServeStep(a) \/ CtlStep(a)
  PROVE  Reported(s)'
<1> USE DEF Goto
<1>1. CASE EpollWaitCall(a) \/ SetInWait(a) \/ TryKernel(a) \/ ClearKernelEvent(a)
           \/ Decide(a) \/ TakeWait(a) \/ TimeOut(a) \/ ReadKernel(a) \/ ReadTest(a)
  <2>1. UNCHANGED <<epoll_events, events, event_list, ring, stack_pc, stack_sock, got, todo>>
    BY <1>1 DEF EpollWaitCall, SetInWait, TryKernel, ClearKernelEvent, Decide, TakeWait,
      TimeOut, ReadKernel, ReadTest, sockVars, recvVars, stackVars
  <2> QED
    BY <2>1 DEF Reported, DataIn
<1>2. CASE Gather(a)
  BY <1>2, GatherReports
<1>3. CASE EpollWaitReturn(a)
  <2>0. ~(kernel_num[a] < 0)
    BY DEF TypeOK, CallerHolds
  <2>1. PICK seen \in SUBSET DOMAIN got[a] :
          /\ Cardinality(seen) = LwipNum(a)
          /\ todo' = [todo EXCEPT ![a] = seen]
    BY <1>3, <2>0, Zenon DEF EpollWaitReturn
  <2>2. IsFiniteSet(DOMAIN got[a])
    BY FS_Subset DEF TypeOK
  <2>3. seen = DOMAIN got[a]
    BY <2>1, <2>2, FS_Subset DEF LwipNum
  <2>4. todo[a] = {} /\ todo'[a] = DOMAIN got[a]
    BY <1>3, <2>1, <2>3 DEF TypeOK, EpollWaitReturn, CallerHolds
  <2>5. \A b \in App \ {a} : todo'[b] = todo[b] /\ got'[b] = got[b]
    BY <1>3, <2>1 DEF TypeOK, EpollWaitReturn
  <2>6. UNCHANGED <<epoll_events, events, event_list, ring, stack_pc, stack_sock>>
    BY <1>3 DEF EpollWaitReturn, sockVars, recvVars, stackVars
  <2>7. ASSUME NEW b \in App, s \in DOMAIN got[b] \cup todo[b]
        PROVE  s \in DOMAIN got'[b] \cup todo'[b]
    BY <2>4, <2>5, <2>7
  <2> QED
    BY <2>6, <2>7 DEF Reported, DataIn
<1>4. ASSUME NEW t \in Sock, Read(a, t) PROVE Reported(s)'
  <2>1. UNCHANGED <<epoll_events, events, event_list, stack_pc, stack_sock, got>>
    BY <1>4 DEF Read, sockVars, stackVars
  <2>2. DataIn(s)' => DataIn(s)
    <3>1. CASE UNCHANGED ring
      BY <3>1 DEF DataIn
    <3>2. CASE \E n \in 1..ring[t] : ring' = [ring EXCEPT ![t] = @ - n]
      <4>1. PICK n \in 1..ring[t] : ring' = [ring EXCEPT ![t] = @ - n]
        BY <3>2
      <4>2. ring[t] \in Nat /\ ring[s] \in Nat
        BY DEF TypeOK
      <4> QED
        BY <4>1, <4>2 DEF TypeOK, DataIn
    <3> QED
      BY <1>4, <3>1, <3>2 DEF Read
  <2>3. DataIn(s)' /\ "ET" \in epoll_events[s] => \A b \in App : s \in todo[b] => s \in todo'[b]
    BY <1>4 DEF TypeOK, Read, DataIn
  <2> QED
    BY <2>1, <2>2, <2>3 DEF Reported
<1>5. CASE DelDataInEvent(a)
  <2>1. UNCHANGED <<epoll_events, ring, stack_pc, stack_sock, got, todo>>
    BY <1>5 DEF DelDataInEvent, recvVars, stackVars
  <2>2. DataIn(s) /\ s \in event_list /\ "IN" \in events[s] => s \in event_list' /\ "IN" \in events'[s]
    BY <1>5 DEF TypeOK, DelDataInEvent, ClearIn
  <2> QED
    BY <2>1, <2>2 DEF Reported, DataIn
<1>6. CASE CtlStep(a)
  BY <1>6 DEF CtlStep, CtlSet, CtlDel, RaisePeek, RaisePending, CtlUnlist, CallerHolds
<1> QED
  BY <1>1, <1>2, <1>3, <1>4, <1>5, <1>6 DEF WaitStep, ServeStep

(* Until somebody calls epoll_ctl, a socket with data never escapes epoll,  *)
(* for any number of threads, stacks and sockets and whatever comes to the  *)
(* kernel sockets, if events[] has room for all: del_data_in_event's second *)
(* look under the lock and add_sock_event's test of the ring leave no gap.  *)
THEOREM ReadableUntilCtlCorrect ==
  ASSUME Sock # {}, IsFiniteSet(Sock), Cardinality(Sock) < MaxEvents
  PROVE  Spec => []ReadableUntilCtl
<1> DEFINE Quiet == ctls = 0 => QuietInv /\ \A s \in Sock : Reported(s)
           Inv == TypeOK /\ Quiet
<1>1. Init => Inv
  <2> SUFFICES ASSUME Init PROVE Inv
    OBVIOUS
  <2>1. QuietInv
    BY DEF Init, QuietInv, CallerHolds, Nothing
  <2>2. \A s \in Sock : Reported(s)
    BY DEF Init, Reported, DataIn
  <2> QED
    BY <2>1, <2>2, InitType
<1>2. Inv /\ [Next]_vars => Inv'
  <2> SUFFICES ASSUME Inv, [Next]_vars PROVE Inv'
    OBVIOUS
  <2>1. CASE UNCHANGED vars
    BY <2>1 DEF TypeOK, QuietInv, CallerHolds, Reported, DataIn, vars
  <2>2. CASE Next
    <3>1. TypeOK'
      BY <2>2, StackType, WaitType, CallerType DEF Next
    <3>2. ASSUME ctls' = 0 PROVE ctls = 0
      BY <2>2, <3>2, CtlsGrow
    <3>3. ASSUME ctls' = 0 PROVE QuietInv'
      BY <2>2, <3>2, <3>3, QuietStep
    <3>4. ASSUME ctls' = 0, NEW s \in Sock PROVE Reported(s)'
      <4>1. Reported(s) /\ ctls = 0 /\ \A a \in App : CallerHolds(a)
        BY <3>2, <3>4 DEF QuietInv
      <4> QED
        BY <2>2, <3>4, <4>1, StackReports, AppReports DEF Next
    <3> QED
      BY <3>1, <3>3, <3>4
  <2> QED
    BY <2>1, <2>2
<1>3. Inv => ReadableUntilCtl
  <2> SUFFICES ASSUME Inv, ctls = 0 PROVE ReadableReported
    BY DEF ReadableUntilCtl
  <2> QED
    BY DEF Reported, ReadableReported
<1> QED
  BY <1>1, <1>2, <1>3, PTL DEF Spec

=============================================================================
