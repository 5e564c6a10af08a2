------------------------------- MODULE Sockets -------------------------------
(***************************************************************************)
(* The socket calls of an application and what they set off in the stack   *)
(* threads: src/lstack/api/lstack_wrap.c (which of kernel and lwip serves  *)
(* a call), src/lstack/core/lstack_protocol_stack.c (which stack a socket  *)
(* is bound to; listen, bind, accept and close over all stacks) and the    *)
(* socket table of src/lstack/core/lstack_lwip.c.                          *)
(*                                                                         *)
(* Every socket has a kernel file descriptor and a slot of lwip's table    *)
(* with the same number.  With listen_shadow or tuple_filter a listening   *)
(* socket is cloned on every receiving stack; the clones hang on           *)
(* listen_next of the first.  An application thread calls a stack thread   *)
(* synchronously (module Rpc) and the stack serves its queue in order; the *)
(* steps of different stacks and of the application threads interleave.    *)
(* conn_num, which the choice of a stack goes by, is a uint16_t that both  *)
(* kinds of threads change by a load and a store.                          *)
(*                                                                         *)
(* The application's part: a thread works on the sockets it opened, accept *)
(* is shared; a socket is not closed while another thread is in a call on  *)
(* it, not connected twice, and given up when listen or bind failed.       *)
(***************************************************************************)
EXTENDS Integers, Sequences, FiniteSets, FiniteSetsExt

CONSTANTS
  App,          \* application threads
  StackNum,     \* stack_group->stack_num
  FdNum,        \* descriptors the process may have
  ConnMod,      \* values of the uint16_t conn_num: 2^16 in the code
  MaxClients,   \* GAZELLE_MAX_CLIENTS, where the search for a minimum begins
  MaxQueue,     \* connections or datagrams waiting at one socket
  Calls,        \* the calls each thread makes ...
  MaxCall,      \* ... and how many of them
  Cfgs,         \* the configurations: records of listen_shadow, tuple_filter
                \* and seperate_send_recv
  No            \* no thread, no stack, no descriptor

ASSUME SocketsAssumption ==
  /\ StackNum \in Nat \ {0}
  /\ FdNum \in Nat \ {0}
  /\ MaxClients \in Nat \ {0}
  /\ ConnMod \in Nat /\ ConnMod > MaxClients
  /\ MaxQueue \in Nat \ {0}
  /\ Calls \in [App -> SUBSET {"kernel", "tcp", "udp", "bind", "listen", "accept",
                               "connect", "recvfrom", "query", "close"}]
  /\ MaxCall \in [App -> Nat]
  /\ \A c \in Cfgs : DOMAIN c = {"listen_shadow", "tuple_filter", "sep"}
  /\ No \notin App \cup (0..StackNum) \cup (1..FdNum)

Fd    == 1..FdNum
Stack == 0..(StackNum - 1)

VARIABLES
  cfg,          \* get_global_cfg_params()
  sock,         \* the descriptor and the lwip_sock of every number
  conn_num,     \* of every stack
  bind_stack,   \* the stack a thread is bound to (per-thread)
  stack_index,  \* the next stack when there is no listen shadow
  socket_lock,  \* stack_group->socket_lock
  rpc_queue,    \* threads whose call waits at a stack, oldest first
  stk,          \* what a stack thread is in the middle of
  pc, call,     \* every application thread: where it stands, its call
  made,         \* calls made so far
  owner,        \* history: the thread that holds a descriptor
  served        \* history: descriptors whose listen has succeeded

vars == <<cfg, sock, conn_num, bind_stack, stack_index, socket_lock, rpc_queue,
          stk, pc, call, made, owner, served>>
counts  == <<conn_num, bind_stack, stack_index, socket_lock>>
history == <<owner, served>>

-----------------------------------------------------------------------------
Spread == cfg.listen_shadow \/ cfg.tuple_filter

(* init_stack_value: odd stacks send and even stacks receive *)
IsSendThread(k) == k % 2 = 1
RecvStack == {k \in Stack : ~(cfg.sep /\ IsSendThread(k))}

(* type: "none" when sock->conn is NULL, else the type of the connection;  *)
(* queue: acceptmbox of a listening socket, recv_ring of a UDP socket;     *)
(* kernel: the kernel's half is connected; head: the socket it is a clone  *)
(* of (or itself), which stands for the bound address.                     *)
FreeSock ==
  [open |-> FALSE, type |-> "none", kind |-> "tcp", state |-> "CLOSED",
   stack |-> No, listen_next |-> No, head |-> No, queue |-> 0,
   bound |-> FALSE, kernel |-> FALSE, master |-> FALSE]

FreeFds == {d \in Fd : ~sock[d].open}
NewFd == Min(FreeFds)          \* the kernel hands out the lowest number

(* gazelle_socket: a slot reset and bound to the stack that runs it *)
NewSock(kind, k, h) ==
  [FreeSock EXCEPT !.open = TRUE, !.type = "UNKNOW", !.kind = kind,
                   !.stack = k, !.head = h]
KernelSock(d) == [FreeSock EXCEPT !.open = TRUE, !.kind = "kernel", !.head = d]

get_socket(d) == IF sock[d].type = "none" THEN No ELSE d
get_protocol_stack_by_fd(d) == IF get_socket(d) = No THEN No ELSE sock[d].stack

(* select_path, once posix_api is set and the stack in use *)
SelectPath(d) ==
  IF sock[d].type \in {"none", "HOST"} THEN "KERNEL"
  ELSE IF \/ sock[d].type = "LIBOS" \/ sock[d].kind = "udp"
          \/ sock[d].state \in {"LISTEN", "SYN_SENT", "ESTABLISHED"}
       THEN "LWIP" ELSE "UNKNOW"

(* do_recv, do_read, do_readv, do_recvmsg, do_recvfrom: lwip's data only on *)
(* PATH_LWIP; do_send, do_write, do_writev, do_sendmsg, do_sendto likewise; *)
(* do_getpeername, do_getsockname and do_getsockopt ask the same side.      *)
RecvSide(d)  == IF SelectPath(d) = "LWIP" THEN "lwip" ELSE "kernel"
SendSide(d)  == IF SelectPath(d) # "LWIP" THEN "kernel" ELSE "lwip"
QuerySide(d) == IF SelectPath(d) = "LWIP" THEN "lwip" ELSE "kernel"

(* What a walk along listen_next from d meets: the least set with d that  *)
(* no link leads out of.                                                  *)
Closed(S) == \A x \in S : sock[x].listen_next = No \/ sock[x].listen_next \in S
Reach(d) == {x \in Fd : \A S \in SUBSET Fd : d \in S /\ Closed(S) => x \in S}

LastOf(d) == CHOOSE x \in Reach(d) : sock[x].listen_next = No

(* Stacks of S whose conn_num is below the limit and least; the first wins. *)
Least(S) ==
  LET low == {k \in S : conn_num[k] < MaxClients}
  IN  {k \in low : \A j \in low : \/ conn_num[k] < conn_num[j]
                                  \/ conn_num[k] = conn_num[j] /\ k <= j}

(* Mutant of MinConnStack: no stack below the limit, no stack at all. *)
MinConnStack_NoDefault ==
  IF Least(RecvStack) = {} THEN No ELSE CHOOSE k \in Least(RecvStack) : TRUE

(* get_min_conn_stack *)
MinConnStack ==
  IF Least(RecvStack) = {} THEN 0 ELSE CHOOSE k \in Least(RecvStack) : TRUE

(* The search in get_bind_protocol_stack: with separate threads the socket *)
(* of an application belongs to a sending one.                             *)
MinBindStack ==
  LET S == {k \in Stack : cfg.sep => IsSendThread(k)}
  IN  IF Least(S) = {} THEN 0 ELSE CHOOSE k \in Least(S) : TRUE

(* Mutant of MinAcceptSock: the walk ends at a socket with nothing waiting. *)
MinAcceptSock_Stops(d) ==
  IF sock[d].queue = 0 \/ sock[d].state # "LISTEN" THEN {} ELSE {d}

(* get_min_accept_sock: of the sockets with a connection waiting the first *)
(* whose stack has the fewest connections                                  *)
MinAcceptSock(d) ==
  LET in == {x \in Reach(d) : sock[x].state = "LISTEN" /\ sock[x].queue > 0}
      min == {x \in in : \A y \in in :
                conn_num[sock[x].stack] <= conn_num[sock[y].stack]}
  IN  {x \in min : \A y \in min : y \in Reach(x)}

-----------------------------------------------------------------------------
NoCall == [op |-> "none", fd |-> No, f |-> "none", cur |-> No, i |-> 0,
           k |-> No, next |-> No, tmp |-> 0, ret |-> 0, found |-> FALSE]
NoWork == [pc |-> "poll", fd |-> No, tmp |-> 0]

Init ==
  /\ cfg \in Cfgs
  /\ sock = [d \in Fd |-> FreeSock]
  /\ conn_num = [k \in Stack |-> 0]
  /\ bind_stack = [t \in App |-> No]
  /\ stack_index = 0
  /\ socket_lock = No
  /\ rpc_queue = [k \in Stack |-> << >>]
  /\ stk = [k \in Stack |-> NoWork]
  /\ pc = [t \in App |-> "idle"]
  /\ call = [t \in App |-> NoCall]
  /\ made = [t \in App |-> 0]
  /\ owner = [d \in Fd |-> No]
  /\ served = {}

Return(t) ==
  /\ pc' = [pc EXCEPT ![t] = "idle"]
  /\ call' = [call EXCEPT ![t] = NoCall]

(* rpc_call_*: with no stack rpc_msg_alloc returns NULL and the call -1;   *)
(* c is the caller's record.                                               *)
CallStack(t, k, c) ==
  IF k = No
  THEN /\ call' = [call EXCEPT ![t] = [c EXCEPT !.ret = -1]]
       /\ pc' = [pc EXCEPT ![t] = "ret"]
       /\ UNCHANGED rpc_queue
  ELSE /\ call' = [call EXCEPT ![t] = c]
       /\ pc' = [pc EXCEPT ![t] = "sent"]
       /\ rpc_queue' = [rpc_queue EXCEPT ![k] = Append(@, t)]

(* An idle thread makes a call. *)
Begins(t, name) ==
  /\ pc[t] = "idle"
  /\ name \in Calls[t] /\ made[t] < MaxCall[t]
  /\ made' = [made EXCEPT ![t] = @ + 1]

Using(d) == {t \in App : call[t].fd = d}

-----------------------------------------------------------------------------
(* socket                                                                  *)

(* do_socket outside AF_INET, or UDP that is not enabled: the kernel's *)
KernelSocket(t) ==
  /\ Begins(t, "kernel")
  /\ FreeFds # {}
  /\ sock' = [sock EXCEPT ![NewFd] = KernelSock(NewFd)]
  /\ owner' = [owner EXCEPT ![NewFd] = t]
  /\ UNCHANGED <<cfg, counts, rpc_queue, stk, pc, call, served>>

Counting(t, kind, k) ==
  /\ call' = [call EXCEPT ![t] = [NoCall EXCEPT !.op = "socket", !.f = kind,
                                                !.k = k, !.tmp = conn_num[k]]]
  /\ pc' = [pc EXCEPT ![t] = "count"]

(* get_bind_protocol_stack: a thread that is bound stays with its stack; *)
(* without listen shadow every thread takes the next stack, and fails    *)
(* once they are used up; else the stack with the fewest connections.    *)
GetBindStack(t, kind) ==
  /\ Begins(t, kind)
  /\ \/ /\ bind_stack[t] # No
        /\ Counting(t, kind, bind_stack[t])
        /\ UNCHANGED <<stack_index, socket_lock>>
     \/ /\ bind_stack[t] = No /\ ~Spread
        /\ stack_index' = (stack_index + 1) % ConnMod
        /\ IF stack_index >= StackNum
           THEN UNCHANGED <<pc, call>>
           ELSE Counting(t, kind, stack_index)
        /\ UNCHANGED socket_lock
     \/ /\ bind_stack[t] = No /\ Spread
        /\ socket_lock = No
        /\ socket_lock' = t
        /\ Counting(t, kind, MinBindStack)
        /\ UNCHANGED stack_index
  /\ UNCHANGED <<cfg, sock, conn_num, bind_stack, rpc_queue, stk, history>>

(* conn_num++, the unlock, then rpc_call_socket *)
CountSocket(t) ==
  /\ pc[t] = "count"
  /\ LET c == call[t]
     IN  /\ conn_num' = [conn_num EXCEPT ![c.k] = (c.tmp + 1) % ConnMod]
         /\ bind_stack' = [bind_stack EXCEPT ![t] = c.k]
         /\ socket_lock' = IF socket_lock = t THEN No ELSE socket_lock
         /\ CallStack(t, c.k, [c EXCEPT !.tmp = 0])
  /\ UNCHANGED <<cfg, made, sock, stack_index, stk, history>>

SocketReturns(t) ==
  /\ pc[t] = "ret" /\ call[t].op = "socket"
  /\ owner' = IF call[t].ret > 0 THEN [owner EXCEPT ![call[t].ret] = t] ELSE owner
  /\ Return(t)
  /\ UNCHANGED <<cfg, made, sock, counts, rpc_queue, stk, served>>

-----------------------------------------------------------------------------
(* close                                                                   *)

(* do_close: every kind of socket is first closed on its stacks.  (An epoll *)
(* descriptor is not: lstack_epoll_close.)                                  *)
Close(t, d) ==
  /\ Begins(t, "close") /\ owner[d] = t
  /\ Using(d) = {}
  /\ owner' = [owner EXCEPT ![d] = No]
  /\ served' = served \ {d}
  /\ pc' = [pc EXCEPT ![t] = "close"]
  /\ call' = [call EXCEPT ![t] = [NoCall EXCEPT !.op = "close", !.fd = d, !.cur = d]]
  /\ UNCHANGED <<cfg, sock, counts, rpc_queue, stk>>

(* stack_broadcast_close gives up on a descriptor without lwip socket, and *)
(* do_close then closes the kernel's.                                      *)
CloseKernel(t) ==
  /\ pc[t] = "close" /\ call[t].op = "close"
  /\ get_socket(call[t].cur) = No
  /\ sock' = [sock EXCEPT ![call[t].cur] = FreeSock]
  /\ Return(t)
  /\ UNCHANGED <<cfg, made, counts, rpc_queue, stk, history>>

(* Mutant of CloseNext: listen_next is looked up when the socket is gone. *)
CloseNext_Late(t) ==
  /\ pc[t] = "close"
  /\ get_socket(call[t].cur) # No
  /\ CallStack(t, get_protocol_stack_by_fd(call[t].cur),
               [call[t] EXCEPT !.f = "close", !.next = No])
  /\ UNCHANGED <<cfg, made, sock, counts, stk, history>>

(* stack_broadcast_close: note the next socket, then close this one *)
CloseNext(t) ==
  /\ pc[t] = "close"
  /\ get_socket(call[t].cur) # No
  /\ CallStack(t, get_protocol_stack_by_fd(call[t].cur),
               [call[t] EXCEPT !.f = "close", !.next = sock[call[t].cur].listen_next])
  /\ UNCHANGED <<cfg, made, sock, counts, stk, history>>

CloseReturns(t) ==
  /\ pc[t] = "ret" /\ call[t].f = "close"
  /\ LET next == call[t].next
     IN  IF next = No \/ (next # No /\ get_socket(next) = No)
         THEN Return(t)
         ELSE /\ call' = [call EXCEPT ![t].cur = next, ![t].next = No]
              /\ pc' = [pc EXCEPT ![t] = "close"]
  /\ UNCHANGED <<cfg, made, sock, counts, rpc_queue, stk, history>>

(* The failure branches of stack_broadcast_listen and _bind: everything is  *)
(* closed, the descriptor of the caller too.                                *)
CloseAll(t) ==
  /\ owner' = [owner EXCEPT ![call[t].fd] = No]
  /\ served' = served \ {call[t].fd}
  /\ pc' = [pc EXCEPT ![t] = "close"]
  /\ call' = [call EXCEPT ![t] = [NoCall EXCEPT !.op = "failed", !.fd = call[t].fd,
                                                !.cur = call[t].fd]]

-----------------------------------------------------------------------------
(* bind and listen                                                         *)

(* do_bind: the kernel's half first; when that fails and the address is not *)
(* lstack's, no more (a call that changes nothing, left out).               *)
Bind(t, d) ==
  /\ Begins(t, "bind") /\ owner[d] = t
  /\ SelectPath(d) # "KERNEL"
  /\ CallStack(t, get_protocol_stack_by_fd(d),
               [NoCall EXCEPT !.op = "bind", !.fd = d, !.f = "bind", !.cur = d,
                              !.k = get_protocol_stack_by_fd(d)])
  /\ UNCHANGED <<cfg, sock, counts, stk, history>>

(* stack_single_bind, or the start of the loop in stack_broadcast_bind *)
BindReturns(t) ==
  /\ pc[t] = "ret" /\ call[t].f = "bind"
  /\ LET broadcast == cfg.listen_shadow /\ sock[call[t].fd].kind = "udp"
     IN  \/ /\ ~broadcast
            /\ Return(t)
            /\ UNCHANGED history
         \/ /\ broadcast /\ call[t].ret < 0
            /\ CloseAll(t)
         \/ /\ broadcast /\ call[t].ret >= 0
            /\ pc' = [pc EXCEPT ![t] = "loop"]
            /\ UNCHANGED <<call, history>>
  /\ UNCHANGED <<cfg, made, sock, counts, rpc_queue, stk>>

(* do_listen: stack_single_listen, or stack_broadcast_listen, which first *)
(* asks for the bound address                                             *)
Listen(t, d) ==
  /\ Begins(t, "listen") /\ owner[d] = t
  /\ SelectPath(d) # "KERNEL"
  /\ sock[d].kind = "tcp" /\ sock[d].state \in {"CLOSED", "LISTEN"}
  /\ CallStack(t, get_protocol_stack_by_fd(d),
               [NoCall EXCEPT !.op = "listen", !.fd = d, !.cur = d,
                              !.f = IF Spread THEN "getsockname" ELSE "listen",
                              !.k = get_protocol_stack_by_fd(d)])
  /\ UNCHANGED <<cfg, sock, counts, stk, history>>

NameReturns(t) ==
  /\ pc[t] = "ret" /\ call[t].f = "getsockname"
  /\ IF call[t].ret # 0
     THEN Return(t)
     ELSE /\ call' = [call EXCEPT ![t].tmp = MinConnStack]
          /\ pc' = [pc EXCEPT ![t] = "loop"]
  /\ UNCHANGED <<cfg, made, sock, counts, rpc_queue, stk, history>>

(* The loop over the stacks: a clone on each of the others; a receiving     *)
(* stack of the socket itself listens with the socket.  listen skips the    *)
(* sending threads, bind only the socket's own stack.                       *)
Broadcast(t) ==
  /\ pc[t] = "loop" /\ call[t].i < StackNum
  /\ LET c == call[t]
         skip == IF c.op = "listen" THEN c.i \notin RecvStack ELSE c.i = c.k
     IN  \/ /\ skip
            /\ call' = [call EXCEPT ![t].i = @ + 1]
            /\ UNCHANGED <<pc, rpc_queue, sock>>
         \/ /\ ~skip /\ c.i # c.k
            /\ CallStack(t, c.i, [c EXCEPT !.f = "shadow", !.cur = c.fd])
            /\ UNCHANGED sock
         \/ /\ ~skip /\ c.i = c.k
            /\ sock' = [sock EXCEPT ![c.fd].master = (c.tmp = c.i)]
            /\ CallStack(t, get_protocol_stack_by_fd(c.fd),
                         [c EXCEPT !.f = "listen", !.cur = c.fd])
  /\ UNCHANGED <<cfg, made, counts, stk, history>>

(* rpc_call_shadow_fd is back: a listening clone may be the master *)
ShadowReturns(t) ==
  /\ pc[t] = "ret" /\ call[t].f = "shadow"
  /\ \/ /\ call[t].ret < 0
        /\ CloseAll(t)
        /\ UNCHANGED <<sock, rpc_queue>>
     \/ /\ call[t].ret > 0 /\ call[t].op = "bind"
        /\ call' = [call EXCEPT ![t].i = @ + 1, ![t].ret = 0]
        /\ pc' = [pc EXCEPT ![t] = "loop"]
        /\ UNCHANGED <<sock, rpc_queue, history>>
     \/ /\ call[t].ret > 0 /\ call[t].op = "listen"
        /\ LET clone == call[t].ret
           IN  /\ sock' = [sock EXCEPT ![clone].master = (call[t].tmp = call[t].i)]
               /\ CallStack(t, get_protocol_stack_by_fd(clone),
                            [call[t] EXCEPT !.f = "listen", !.cur = clone, !.ret = 0])
        /\ UNCHANGED history
  /\ UNCHANGED <<cfg, made, counts, stk>>

(* rpc_call_listen is back: the next stack, or, with a single stack, the *)
(* end: do_listen lets the kernel listen as well.  Its refusal changes   *)
(* nothing here: the stacks listen on until the application closes.      *)
ListenReturns(t) ==
  /\ pc[t] = "ret" /\ call[t].f = "listen"
  /\ \/ /\ ~Spread
        /\ served' = IF call[t].ret = 0 THEN served \cup {call[t].fd} ELSE served
        /\ Return(t)
        /\ UNCHANGED owner
     \/ /\ Spread /\ call[t].ret < 0
        /\ CloseAll(t)
     \/ /\ Spread /\ call[t].ret = 0
        /\ call' = [call EXCEPT ![t].i = @ + 1]
        /\ pc' = [pc EXCEPT ![t] = "loop"]
        /\ UNCHANGED history
  /\ UNCHANGED <<cfg, made, sock, counts, rpc_queue, stk>>

BroadcastDone(t) ==
  /\ pc[t] = "loop" /\ call[t].i = StackNum
  /\ served' = IF call[t].op = "listen" THEN served \cup {call[t].fd} ELSE served
  /\ Return(t)
  /\ UNCHANGED <<cfg, made, sock, counts, rpc_queue, stk, owner>>

-----------------------------------------------------------------------------
(* accept, connect, recvfrom and the calls that only ask                   *)

Waiting(d) == \E x \in Reach(d) : sock[x].state = "LISTEN" /\ sock[x].queue > 0

(* do_accept, stack_broadcast_accept4: found remembers that there was a    *)
(* connection, and is cleared when somebody else takes one.                *)
Accept(t, d) ==
  /\ Begins(t, "accept") /\ d \in served
  /\ SelectPath(d) # "KERNEL"
  /\ \A u \in Using(d) : call[u].op = "accept"
  /\ LET c == [NoCall EXCEPT !.op = "accept", !.fd = d, !.found = Waiting(d)]
     IN  IF MinAcceptSock(d) = {}
         THEN /\ call' = [call EXCEPT ![t] = [c EXCEPT !.ret = -1]]
              /\ pc' = [pc EXCEPT ![t] = "ret"]
              /\ UNCHANGED rpc_queue
         ELSE LET x == CHOOSE y \in MinAcceptSock(d) : TRUE
              IN  CallStack(t, get_protocol_stack_by_fd(x),
                            [c EXCEPT !.f = "accept", !.cur = x])
  /\ UNCHANGED <<cfg, sock, counts, stk, history>>

(* Nothing from the stacks: the kernel's accept, which may have one. *)
AcceptReturns(t) ==
  /\ pc[t] = "ret" /\ call[t].op = "accept"
  /\ \/ /\ call[t].ret > 0
        /\ owner' = [owner EXCEPT ![call[t].ret] = t]
        /\ UNCHANGED sock
     \/ /\ call[t].ret < 0
        /\ UNCHANGED <<owner, sock>>
     \/ /\ call[t].ret < 0 /\ FreeFds # {}
        /\ sock' = [sock EXCEPT ![NewFd] = [KernelSock(NewFd) EXCEPT !.kernel = TRUE]]
        /\ owner' = [owner EXCEPT ![NewFd] = t]
  /\ Return(t)
  /\ UNCHANGED <<cfg, made, counts, rpc_queue, stk, served>>

(* do_connect of a non-blocking socket: to this host the kernel connects  *)
(* (unless an lstack process listens there), else lwip; local is the      *)
(* outcome of is_dst_ip_localhost and rte_ring_lookup.                    *)
Connect(t, d, local) ==
  /\ Begins(t, "connect") /\ owner[d] = t
  /\ SelectPath(d) # "KERNEL"
  /\ sock[d].kind = "tcp" /\ sock[d].state = "CLOSED" /\ ~sock[d].kernel
  /\ LET c == [NoCall EXCEPT !.op = "connect", !.fd = d, !.cur = d]
     IN  IF local
         THEN /\ sock' = [sock EXCEPT ![d].kernel = TRUE]
              /\ call' = [call EXCEPT ![t] = [c EXCEPT !.f = "local"]]
              /\ pc' = [pc EXCEPT ![t] = "ret"]
              /\ UNCHANGED rpc_queue
         ELSE /\ CallStack(t, get_protocol_stack_by_fd(d), [c EXCEPT !.f = "connect"])
              /\ UNCHANGED sock
  /\ UNCHANGED <<cfg, counts, stk, history>>

(* SET_CONN_TYPE_HOST or _LIBOS, whatever connect returned *)
ConnectReturns(t) ==
  /\ pc[t] = "ret" /\ call[t].op = "connect"
  /\ sock' = [sock EXCEPT ![call[t].fd].type =
                IF call[t].f = "local" THEN "HOST" ELSE "LIBOS"]
  /\ Return(t)
  /\ UNCHANGED <<cfg, made, counts, rpc_queue, stk, history>>

(* do_recvfrom of a UDP socket: udp_recvfrom reads one ring after another *)
RecvFrom(t, d) ==
  /\ Begins(t, "recvfrom") /\ owner[d] = t
  /\ RecvSide(d) = "lwip" /\ sock[d].kind = "udp"
  /\ pc' = [pc EXCEPT ![t] = "walk"]
  /\ call' = [call EXCEPT ![t] = [NoCall EXCEPT !.op = "recvfrom", !.fd = d, !.cur = d,
                !.found = \E x \in Reach(d) : sock[x].queue > 0]]
  /\ UNCHANGED <<cfg, sock, counts, rpc_queue, stk, history>>

RecvWalk(t) ==
  /\ pc[t] = "walk"
  /\ LET c == call[t]
         next == sock[c.cur].listen_next
     IN  \/ /\ sock[c.cur].queue > 0
            /\ sock' = [sock EXCEPT ![c.cur].queue = @ - 1]
            /\ Return(t)
         \/ /\ sock[c.cur].queue = 0
            /\ IF next # No /\ get_socket(next) # No
               THEN /\ call' = [call EXCEPT ![t].cur = next]
                    /\ UNCHANGED pc
               ELSE /\ call' = [call EXCEPT ![t].ret = -1]
                    /\ pc' = [pc EXCEPT ![t] = "ret"]
            /\ UNCHANGED sock
  /\ UNCHANGED <<cfg, made, counts, rpc_queue, stk, history>>

(* do_getpeername, do_getsockname, do_getsockopt: lwip's half is asked       *)
(* through the socket's stack; do_setsockopt sets both halves.               *)
Query(t, d, set) ==
  /\ Begins(t, "query") /\ owner[d] = t
  /\ IF set THEN SelectPath(d) # "KERNEL" ELSE QuerySide(d) = "lwip"
  /\ CallStack(t, get_protocol_stack_by_fd(d),
               [NoCall EXCEPT !.op = "query", !.fd = d, !.f = "query", !.cur = d])
  /\ UNCHANGED <<cfg, sock, counts, stk, history>>

AskReturns(t) ==
  /\ pc[t] = "ret" /\ call[t].op \in {"query", "recvfrom"}
  /\ Return(t)
  /\ UNCHANGED <<cfg, made, sock, counts, rpc_queue, stk, history>>

-----------------------------------------------------------------------------
(* The handlers of a stack thread, called by poll_rpc_msg                  *)

(* Stack k runs handler f for the thread at the head of its queue. *)
Runs(k, f, t) ==
  /\ stk[k] = NoWork
  /\ rpc_queue[k] # << >>
  /\ t = Head(rpc_queue[k])
  /\ call[t].f \in f

Reply(k, t, v) ==
  /\ rpc_queue' = [rpc_queue EXCEPT ![k] = Tail(@)]
  /\ call' = [call EXCEPT ![t].ret = v]
  /\ pc' = [pc EXCEPT ![t] = "ret"]

(* stack_socket, gazelle_socket: a failure leaves nothing behind, and the *)
(* second attempt is the one that counts                                  *)
StackSocket(k, t) ==
  /\ Runs(k, {"tcp", "udp"}, t)
  /\ \/ /\ FreeFds # {}
        /\ sock' = [sock EXCEPT ![NewFd] = NewSock(call[t].f, k, NewFd)]
        /\ Reply(k, t, NewFd)
     \/ /\ Reply(k, t, -1)
        /\ UNCHANGED sock
  /\ UNCHANGED <<cfg, made, counts, stk, history>>

(* stack_bind, lwip_bind *)
StackBind(k, t) ==
  /\ Runs(k, {"bind"}, t)
  /\ LET d == call[t].cur
     IN  \/ /\ ~sock[d].bound
            /\ sock' = [sock EXCEPT ![d].bound = TRUE]
            /\ Reply(k, t, 0)
         \/ /\ Reply(k, t, -1)
            /\ UNCHANGED sock
  /\ UNCHANGED <<cfg, made, counts, stk, history>>

(* create_shadow_fd: a clone at the end of the list; it stays there when *)
(* its bind fails                                                        *)
CreateShadowFd(k, t) ==
  /\ Runs(k, {"shadow"}, t)
  /\ LET d == call[t].cur
         Linked(b) == [sock EXCEPT
                        ![NewFd] = [NewSock(sock[d].kind, k, d) EXCEPT !.bound = b],
                        ![LastOf(d)].listen_next = NewFd]
     IN  \/ /\ FreeFds # {}
            /\ sock' = Linked(TRUE)
            /\ Reply(k, t, NewFd)
         \/ /\ FreeFds # {}
            /\ sock' = Linked(FALSE)
            /\ Reply(k, t, -1)
         \/ /\ Reply(k, t, -1)
            /\ UNCHANGED sock
  /\ UNCHANGED <<cfg, made, counts, stk, history>>

(* stack_listen, lwip_listen: one listener for an address on a stack *)
StackListen(k, t) ==
  /\ Runs(k, {"listen"}, t)
  /\ LET d == call[t].cur
     IN  \/ /\ ~\E x \in Fd \ {d} : /\ sock[x].stack = k /\ sock[x].state = "LISTEN"
                                    /\ sock[x].head = sock[d].head
            /\ sock' = [sock EXCEPT ![d].state = "LISTEN", ![d].bound = TRUE]
            /\ Reply(k, t, 0)
         \/ /\ Reply(k, t, -1)
            /\ UNCHANGED sock
  /\ UNCHANGED <<cfg, made, counts, stk, history>>

(* stack_connect: lwip_connect returns EINPROGRESS, or another error *)
StackConnect(k, t) ==
  /\ Runs(k, {"connect"}, t)
  /\ \/ sock' = [sock EXCEPT ![call[t].cur].state = "SYN_SENT"]
     \/ UNCHANGED sock
  /\ Reply(k, t, -1)
  /\ UNCHANGED <<cfg, made, counts, stk, history>>

(* stack_getpeername, _getsockname, _getsockopt, _setsockopt *)
StackQuery(k, t) ==
  /\ Runs(k, {"query", "getsockname"}, t)
  /\ \E v \in {0, -1} : Reply(k, t, v)
  /\ UNCHANGED <<cfg, made, sock, counts, stk, history>>

(* stack_accept: lwip_accept4 takes a connection, if there still is one, *)
(* and makes a socket of it on this stack                                *)
StackAccept(k, t) ==
  /\ Runs(k, {"accept"}, t)
  /\ LET d == call[t].cur
         others == [u \in App |-> IF u # t /\ call[u].fd = call[t].fd
                                  THEN [call[u] EXCEPT !.found = FALSE] ELSE call[u]]
     IN  \/ /\ sock[d].queue = 0
            /\ Reply(k, t, -1)
            /\ UNCHANGED <<sock, stk>>
         \/ /\ sock[d].queue > 0 /\ FreeFds # {}
            /\ sock' = [sock EXCEPT ![d].queue = @ - 1,
                          ![NewFd] = [NewSock("tcp", k, NewFd) EXCEPT
                                       !.type = "LIBOS", !.state = "ESTABLISHED"]]
            /\ stk' = [stk EXCEPT ![k] = [pc |-> "accept", fd |-> NewFd, tmp |-> conn_num[k]]]
            /\ call' = others
            /\ UNCHANGED <<pc, rpc_queue>>
         \/ /\ sock[d].queue > 0
            /\ sock' = [sock EXCEPT ![d].queue = @ - 1]
            /\ call' = [others EXCEPT ![t].ret = -1, ![t].found = FALSE]
            /\ pc' = [pc EXCEPT ![t] = "ret"]
            /\ rpc_queue' = [rpc_queue EXCEPT ![k] = Tail(@)]
            /\ UNCHANGED stk
  /\ UNCHANGED <<cfg, made, counts, history>>

(* ... conn_num++ *)
StackAccepted(k, t) ==
  /\ stk[k].pc = "accept" /\ t = Head(rpc_queue[k])
  /\ conn_num' = [conn_num EXCEPT ![k] = (stk[k].tmp + 1) % ConnMod]
  /\ stk' = [stk EXCEPT ![k] = NoWork]
  /\ Reply(k, t, stk[k].fd)
  /\ UNCHANGED <<cfg, made, sock, bind_stack, stack_index, socket_lock, history>>

(* Mutant of StackClose: the descriptor goes back to the kernel first. *)
StackClose_FdFirst(k, t) ==
  /\ Runs(k, {"close"}, t)
  /\ LET d == call[t].cur
     IN  /\ sock' = [sock EXCEPT ![d].type = "none", ![d].state = "CLOSED",
                                 ![d].queue = 0, ![d].kernel = FALSE, ![d].open = FALSE]
         /\ stk' = [stk EXCEPT ![k] = [pc |-> "clean", fd |-> d, tmp |-> conn_num[k]]]
  /\ UNCHANGED <<cfg, made, counts, rpc_queue, pc, call, history>>

(* stack_close, which never fails to delete the connection: lwip_close;   *)
(* gazelle_clean_sock reads conn_num of the socket's stack                *)
StackClose(k, t) ==
  /\ Runs(k, {"close"}, t)
  /\ LET d == call[t].cur
     IN  /\ sock' = [sock EXCEPT ![d].type = "none", ![d].state = "CLOSED",
                                 ![d].queue = 0, ![d].kernel = FALSE]
         /\ stk' = [stk EXCEPT ![k] = [pc |-> "clean", fd |-> d, tmp |-> conn_num[k]]]
  /\ UNCHANGED <<cfg, made, counts, rpc_queue, pc, call, history>>

(* ... and decrements it, then reset_sock_data *)
CleanSock(k) ==
  /\ stk[k].pc = "clean"
  /\ conn_num' = [conn_num EXCEPT ![k] = (stk[k].tmp + ConnMod - 1) % ConnMod]
  /\ sock' = [sock EXCEPT ![stk[k].fd] = [FreeSock EXCEPT
                !.open = sock[stk[k].fd].open, !.type = sock[stk[k].fd].type]]
  /\ stk' = [stk EXCEPT ![k].pc = "close_fn", ![k].tmp = 0]
  /\ UNCHANGED <<cfg, made, bind_stack, stack_index, socket_lock, rpc_queue, pc, call, history>>

(* ... posix_api->close_fn *)
CloseFn(k, t) ==
  /\ stk[k].pc = "close_fn" /\ t = Head(rpc_queue[k])
  /\ sock' = [sock EXCEPT ![stk[k].fd].open = FALSE]
  /\ stk' = [stk EXCEPT ![k] = NoWork]
  /\ Reply(k, t, 0)
  /\ UNCHANGED <<cfg, made, counts, history>>

-----------------------------------------------------------------------------
(* The network                                                             *)

(* A connection completes at a listening socket, a datagram arrives. *)
Arrives(d) ==
  /\ sock[d].queue < MaxQueue
  /\ \/ sock[d].state = "LISTEN"
     \/ sock[d].kind = "udp" /\ sock[d].bound /\ sock[d].type # "none"
  /\ sock' = [sock EXCEPT ![d].queue = @ + 1]
  /\ UNCHANGED <<cfg, made, counts, rpc_queue, stk, pc, call, history>>

(* Mutant of Connected: the type is left to connect. *)
Connected_NoType(d) ==
  /\ sock[d].state = "SYN_SENT"
  /\ sock' = [sock EXCEPT ![d].state = "ESTABLISHED", ![d].kernel = FALSE]
  /\ UNCHANGED <<cfg, made, counts, rpc_queue, stk, pc, call, history>>

(* The peer answers a connect: gazelle_connected_callback *)
Connected(d) ==
  /\ sock[d].state = "SYN_SENT"
  /\ sock' = [sock EXCEPT ![d].state = "ESTABLISHED", ![d].type = "LIBOS",
                          ![d].kernel = FALSE]
  /\ UNCHANGED <<cfg, made, counts, rpc_queue, stk, pc, call, history>>

(* ... refuses it, or closes its end. *)
PeerLeaves(d) ==
  /\ \/ /\ sock[d].state = "SYN_SENT"
        /\ sock' = [sock EXCEPT ![d].state = "CLOSED"]
     \/ /\ sock[d].state = "ESTABLISHED"
        /\ sock' = [sock EXCEPT ![d].state = "CLOSE_WAIT"]
  /\ UNCHANGED <<cfg, made, counts, rpc_queue, stk, pc, call, history>>

-----------------------------------------------------------------------------
AppStep(t) ==
  \/ CountSocket(t) \/ SocketReturns(t)
  \/ CloseKernel(t) \/ CloseNext(t) \/ CloseReturns(t)
  \/ BindReturns(t) \/ NameReturns(t) \/ Broadcast(t) \/ ShadowReturns(t)
  \/ ListenReturns(t) \/ BroadcastDone(t)
  \/ AcceptReturns(t) \/ ConnectReturns(t) \/ RecvWalk(t) \/ AskReturns(t)

(* The functions applications are linked against. *)
AppCall(t) ==
  \/ KernelSocket(t)
  \/ \E kind \in {"tcp", "udp"} : GetBindStack(t, kind)
  \/ \E d \in Fd : \/ Close(t, d) \/ Bind(t, d) \/ Listen(t, d) \/ Accept(t, d)
                   \/ \E local \in BOOLEAN : Connect(t, d, local)
                   \/ RecvFrom(t, d)
                   \/ \E set \in BOOLEAN : Query(t, d, set)

StackStep(k) ==
  \/ \E t \in App : \/ StackSocket(k, t) \/ StackBind(k, t) \/ CreateShadowFd(k, t)
                    \/ StackListen(k, t) \/ StackConnect(k, t) \/ StackQuery(k, t)
                    \/ StackAccept(k, t) \/ StackAccepted(k, t)
                    \/ StackClose(k, t) \/ CloseFn(k, t)
  \/ CleanSock(k)

Network == \E d \in Fd : Arrives(d) \/ Connected(d) \/ PeerLeaves(d)

Next ==
  \/ \E t \in App : AppStep(t) \/ AppCall(t)
  \/ \E k \in Stack : StackStep(k)
  \/ Network

Spec == Init /\ [][Next]_vars

-----------------------------------------------------------------------------
(* Every variable has its type. *)
TypeOK ==
  /\ cfg \in Cfgs
  /\ sock \in [Fd -> [open : BOOLEAN, type : {"none", "UNKNOW", "HOST", "LIBOS"},
                      kind : {"tcp", "udp", "kernel"},
                      state : {"CLOSED", "LISTEN", "SYN_SENT", "ESTABLISHED", "CLOSE_WAIT"},
                      stack : Stack \cup {No}, listen_next : Fd \cup {No},
                      head : Fd \cup {No}, queue : 0..MaxQueue, bound : BOOLEAN,
                      kernel : BOOLEAN, master : BOOLEAN]]
  /\ conn_num \in [Stack -> 0..(ConnMod - 1)]
  /\ bind_stack \in [App -> Stack \cup {No}]
  /\ stack_index \in 0..(ConnMod - 1)
  /\ socket_lock \in App \cup {No}
  /\ owner \in [Fd -> App \cup {No}]
  /\ served \subseteq Fd

(* A descriptor that an application thread holds is a live socket of a stack *)
(* (or the kernel's): no stack's close, working on a number that was handed  *)
(* out again, resets somebody else's socket (stack_close, lstack_protocol_   *)
(* stack.c 655).                                                             *)
HeldIsLive ==
  \A d \in Fd : owner[d] # No =>
    /\ sock[d].open
    /\ sock[d].kind # "kernel" => sock[d].type # "none" /\ sock[d].stack # No

(* A socket that listens has exactly one listener on every receiving stack  *)
(* and exactly one of them is the master, whatever conn_num has become by   *)
(* lost updates and uncounted clones (stack_broadcast_listen).              *)
ListenCovers ==
  \A d \in served : (~\E t \in App : call[t].fd = d /\ call[t].op = "listen") =>
    LET on(k) == {x \in Reach(d) : sock[x].stack = k /\ sock[x].state = "LISTEN"}
    IN  IF Spread
        THEN /\ \A k \in RecvStack : Cardinality(on(k)) = 1
             /\ Cardinality({x \in Reach(d) : sock[x].master}) = 1
        ELSE sock[d].state = "LISTEN"

(* When no call is under way every open descriptor is one the application    *)
(* holds or a clone of one: closing a listening socket, and the failure of   *)
(* one step of a broadcast, leave no clone behind (stack_broadcast_close).   *)
NoOrphan ==
  (\A t \in App : pc[t] = "idle") =>
    \A d \in Fd : sock[d].open =>
      \/ owner[d] # No
      \/ sock[d].head \in Fd \ {d} /\ owner[sock[d].head] # No /\ d \in Reach(sock[d].head)

(* accept and recvfrom do not answer EAGAIN when there was a connection or a *)
(* datagram at one of the sockets of the list all the while                  *)
(* (get_min_accept_sock, udp_recvfrom).                                      *)
NothingMissed ==
  \A t \in App : pc[t] = "ret" /\ call[t].op \in {"accept", "recvfrom"}
                 /\ call[t].ret < 0 => ~call[t].found

(* Data goes where the connection is: on a socket connected through lwip    *)
(* send and recv use lwip, also while connect has not set the type yet and  *)
(* after the peer has closed; on one the kernel connected they never do     *)
(* once connect is back (select_path, do_connect, gazelle_connected_        *)
(* callback).                                                               *)
RouteAgrees ==
  \A d \in Fd :
    /\ sock[d].type # "none" /\ sock[d].state \in {"SYN_SENT", "ESTABLISHED", "CLOSE_WAIT"}
         => SendSide(d) = "lwip" /\ RecvSide(d) = "lwip"
    /\ sock[d].kernel /\ (\A t \in Using(d) : call[t].op # "connect")
         => SendSide(d) = "kernel" /\ RecvSide(d) = "kernel"
=============================================================================
